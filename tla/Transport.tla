----------------------------- MODULE Transport ------------------------------
(***************************************************************************)
(* The send side of one session of performance/src/zeta.rs, shared by the  *)
(* threads of one process: the send counter that numbers every packet, the *)
(* limits on the uses of a key, and the timeout timer.                     *)
(*                                                                         *)
(* The remote peer is the environment: a packet that the session's state   *)
(* allows may arrive at any time.  Zeta.tla has the protocol; here an      *)
(* operation stops where the code lets go of the state lock, and another   *)
(* thread may run in between.  The handlers and the timer take             *)
(* state_machine_lock and change the state in one write section; they then *)
(* send their answer in a section of its own (SendControl).                *)
(***************************************************************************)
EXTENDS FiniteSets, Process, Word

CONSTANTS
    HardExpire,        \* THREAD_SAFE_COUNTER_HARD_EXPIRE
    ExpireAfterUses,   \* EXPIRE_AFTER_USES
    RekeyAfterUses,    \* Settings.rekey_after_key_uses
    MaxKeys            \* bound: keys negotiated

ASSUME TransportAssumption ==
    /\ {Modulus, HardExpire, ExpireAfterUses, RekeyAfterUses, MaxKeys} \subseteq Nat
    /\ MaxKeys > 0
    /\ ExpireAfterUses < Modulus /\ RekeyAfterUses < Modulus
    /\ None \notin Nat

\* u64::MAX - HardExpire leaves room for a failed call of every thread.
ASSUME ThreadsAssumption == IsFiniteSet(Threads) /\ HardExpire + Cardinality(Threads) + 1 < Modulus

VARIABLES
    was_bob,               \* Session.was_bob
    beta,                  \* MutableState.beta
    cur,                   \* the key of key_ref(false)
    nxt,                   \* the key of key_ref(true)
    keys,                  \* keys negotiated so far: key k is the k-th
    send_counter,          \* Session.send_counter
    key_creation_counter,  \* MutableState.key_creation_counter
    timeout_timer,         \* MutableState.timeout_timer: "Min", "Set" or "Max"
    thread,                \* thread[t]: what t does next, outside the state lock
    used,                  \* history: pairs <<key, counter>> that encrypted a packet
    reused                 \* history: some pair encrypted two packets

state == <<was_bob, beta, cur, nxt, keys, key_creation_counter, timeout_timer>>
history == <<used, reused>>
vars == <<state, send_counter, thread, history>>

Betas == {"Null", "A1", "A3", "S1", "S2", "R1", "R2"}
Keys == 1 .. MaxKeys

-----------------------------------------------------------------------------
(* Steps shared by the operations *)

Goto(t, at) == thread' = [thread EXCEPT ![t] = at]

\* Mutant: the hard expiry of the counter is not checked.
Exhausted_NoHardExpire(c) == c > WrappingAdd(key_creation_counter, ExpireAfterUses)

\* get_counter returns None.  A build with overflow checks panics where the sum wraps.
Exhausted(c) == c > HardExpire \/ c > WrappingAdd(key_creation_counter, ExpireAfterUses)

\* get_counter: the fetch_add happens whatever it returns.
TakeCounter == send_counter' = WrappingSucc(send_counter)

\* The current key encrypts a packet with counter c as its nonce.
Encrypt(c) ==
    /\ used' = used \cup {<<cur, c>>}
    /\ reused' = (reused \/ <<cur, c>> \in used)

\* A write section: entering state b with keys k1 (current) and k2 (next).
Enter(b, k1, k2, kcc) ==
    /\ was_bob' = was_bob
    /\ beta' = b
    /\ cur' = k1
    /\ nxt' = k2
    /\ key_creation_counter' = kcc
    /\ timeout_timer' = "Set"

\* Mutant: the keys of the last handshake are used again.
NewKey_Same == keys < MaxKeys /\ keys' = keys

\* The key a handshake message has just completed.
NewKey == keys < MaxKeys /\ keys' = keys + 1

-----------------------------------------------------------------------------
(* send_payload *)

\* should_rekey is masked by the state the packet was sent in.
MayRekey == beta = "S2"

\* The read section: what is left to do is decided here and done later.
SendPayload(t) ==
    LET c == send_counter IN
    /\ thread[t] = "Idle"
    /\ beta # "Null"
    /\ TakeCounter
    /\ \/ Exhausted(c) /\ Goto(t, "Expire") /\ UNCHANGED history
       \* Err(DataTooLarge), and Err(SessionNotEstablished) where there is no key
       \/ ~Exhausted(c) /\ UNCHANGED <<thread, history>>
       \/ /\ ~Exhausted(c) /\ cur # None
          /\ Encrypt(c)
          /\ \E all_sent \in BOOLEAN :  \* the sender may refuse a fragment
                Goto(t, IF all_sent /\ MayRekey /\ c > WrappingAdd(key_creation_counter, RekeyAfterUses)
                        THEN "Rekey" ELSE "Idle")
    /\ UNCHANGED state

\* The write section of a sender that wants a rekey, whatever the state is by now.
TriggerRekey(t) ==
    /\ thread[t] = "Rekey"
    /\ timeout_timer' = "Min"
    /\ Goto(t, "Idle")
    /\ UNCHANGED <<was_bob, beta, cur, nxt, keys, key_creation_counter, send_counter, history>>

-----------------------------------------------------------------------------
(* Control packets *)

\* send_control, once its caller has the state lock again.  A counter that has run out
\* makes the caller expire the session.
SendControl(t) ==
    LET c == send_counter IN
    /\ thread[t] = "Control"
    /\ TakeCounter
    /\ IF Exhausted(c)
       THEN Goto(t, "Expire") /\ UNCHANGED history
       ELSE /\ Goto(t, "Idle")
            /\ IF cur = None THEN UNCHANGED history ELSE Encrypt(c)
    /\ UNCHANGED state

\* process_timers: the resend timer fires.  A3 and A1 resend a packet without a counter.
Resend(t) ==
    /\ thread[t] = "Idle"
    /\ beta \in {"S1", "R1", "R2"}
    /\ Goto(t, "Control")
    /\ UNCHANGED <<state, send_counter, history>>

\* received_x2_trans: the next key is there, the current one is not.
ReceivedX2(t) ==
    /\ thread[t] = "Idle"
    /\ beta = "A1"
    /\ NewKey
    /\ Enter("A3", cur, keys', send_counter)
    /\ UNCHANGED <<send_counter, thread, history>>

\* received_c1_trans: the next key becomes the current one in A3 and R2.
ReceivedC1(t) ==
    /\ thread[t] = "Idle"
    /\ beta \in {"A3", "R2"}
    /\ Enter("S2", nxt, cur, key_creation_counter)
    /\ Goto(t, "Control")
    /\ UNCHANGED <<keys, send_counter, history>>

\* received_c1_trans when the key is confirmed already: only the answer is sent.
AcknowledgedC1(t) ==
    /\ thread[t] = "Idle"
    /\ beta \in {"S1", "S2", "R1", "R2"}
    /\ Goto(t, "Control")
    /\ UNCHANGED <<state, send_counter, history>>

ReceivedC2(t) ==
    /\ thread[t] = "Idle"
    /\ beta = "S1"
    /\ Enter("S2", cur, nxt, key_creation_counter)
    /\ UNCHANGED <<keys, send_counter, thread, history>>

\* received_k1_trans: the current key stays in use, its creation counter does not.
ReceivedK1(t) ==
    /\ thread[t] = "Idle"
    /\ beta = "S2" \/ (beta = "R1" /\ was_bob)
    /\ NewKey
    /\ Enter("R2", cur, keys', send_counter)
    /\ Goto(t, "Control")
    /\ UNCHANGED <<send_counter, history>>

\* received_k2_trans: the new key is current at once.
ReceivedK2(t) ==
    /\ thread[t] = "Idle"
    /\ beta = "R1"
    /\ NewKey
    /\ Enter("S1", keys', cur, send_counter)
    /\ Goto(t, "Control")
    /\ UNCHANGED <<send_counter, history>>

-----------------------------------------------------------------------------
(* Timeout and expiry *)

\* timeout_trans of S2: K1 is sent; the next key is not there yet.
TimeoutRekey(t) ==
    /\ thread[t] = "Idle"
    /\ beta = "S2"
    /\ Enter("R1", cur, nxt, key_creation_counter)
    /\ Goto(t, "Control")
    /\ UNCHANGED <<keys, send_counter, history>>

\* timeout_trans of A1 and A3: the handshake starts again.
TimeoutHandshake(t) ==
    /\ thread[t] = "Idle"
    /\ beta \in {"A1", "A3"}
    /\ Enter("A1", cur, None, key_creation_counter)
    /\ UNCHANGED <<keys, send_counter, thread, history>>

\* expire_inner, called by a thread that ran out of counters, by the timeout of S1, R1 and
\* R2, by a handler that gives up, or by the application.
Expire(t) ==
    /\ thread[t] \in {"Idle", "Expire"}
    /\ IF beta = "Null"
       THEN UNCHANGED state
       ELSE /\ beta' = "Null" /\ cur' = None /\ nxt' = None
            /\ timeout_timer' = "Max"
            /\ UNCHANGED <<was_bob, keys, key_creation_counter>>
    /\ Goto(t, "Idle")
    /\ UNCHANGED <<send_counter, history>>

-----------------------------------------------------------------------------

\* A session that Context::open has just made, or one that received_x3_trans has.
Init ==
    /\ was_bob \in BOOLEAN
    /\ IF was_bob
       THEN beta = "S1" /\ cur = 1 /\ keys = 1
       ELSE beta = "A1" /\ cur = None /\ keys = 0
    /\ nxt = None
    /\ send_counter = IF was_bob THEN 1 ELSE 0
    /\ key_creation_counter = send_counter
    /\ timeout_timer = "Set"
    /\ thread = [t \in Threads |-> "Idle"]
    /\ used = {} /\ reused = FALSE

Receive(t) ==
    \/ ReceivedX2(t) \/ ReceivedC1(t) \/ AcknowledgedC1(t) \/ ReceivedC2(t)
    \/ ReceivedK1(t) \/ ReceivedK2(t)

Service(t) == Resend(t) \/ TimeoutRekey(t) \/ TimeoutHandshake(t)

Next ==
    \E t \in Threads :
        \/ SendPayload(t) \/ TriggerRekey(t) \/ SendControl(t)
        \/ Receive(t) \/ Service(t) \/ Expire(t)

Spec == Init /\ [][Next]_vars

-----------------------------------------------------------------------------

TypeOK ==
    /\ was_bob \in BOOLEAN
    /\ beta \in Betas
    /\ cur \in Keys \cup {None} /\ nxt \in Keys \cup {None}
    /\ keys \in 0 .. MaxKeys
    /\ send_counter \in 0 .. Modulus - 1
    /\ key_creation_counter \in 0 .. Modulus - 1
    /\ timeout_timer \in {"Min", "Set", "Max"}
    /\ thread \in [Threads -> {"Idle", "Rekey", "Control", "Expire"}]
    /\ used \subseteq Keys \X (0 .. Modulus - 1)
    /\ reused \in BOOLEAN

\* No key ever encrypts two packets under one counter, even though the counter is taken
\* before its limits are looked at and would wrap around to values it has had: the room
\* above THREAD_SAFE_COUNTER_HARD_EXPIRE outlasts the threads that find the limit passed.
NonceUnique == ~reused

\* The counters under which key k encrypted a packet.
UsesOf(k) == {c \in 0 .. Modulus - 1 : <<k, c>> \in used}

\* No key is used more than twice as often as EXPIRE_AFTER_USES allows: the uses before
\* received_k1_trans moves key_creation_counter, and the uses after it, while the session
\* waits in R2 for the next key.
KeyUseBound == \A k \in Keys : Cardinality(UsesOf(k)) <= 2 * (ExpireAfterUses + 1)

\* Sending many packets triggers the timeout early only where that starts a rekey, which is
\* in S2: in S1, R1 and R2 the timeout ends the session.
EarlyTimeoutInS2 == timeout_timer = "Min" => beta \in {"S2", "Null"}

=============================================================================
