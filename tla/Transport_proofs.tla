-------------------------- MODULE Transport_proofs --------------------------
(***************************************************************************)
(* No key encrypts two packets under one counter, for every word size,     *)
(* limit and number of threads that fits above the hard expiry.            *)
(*                                                                         *)
(* NonceUnique is not inductive: a pair is new because every counter used  *)
(* so far is below send_counter, and that stays so only if the counter     *)
(* does not wrap around.  It does not because each call past the hard      *)
(* expiry leaves a thread that will expire the session, and there are too  *)
(* few threads to reach the end of the word before one of them does.       *)
(*                                                                         *)
(* KeyUseBound follows from which counters they were: a key that is        *)
(* current was used from key_creation_counter on, as far as                *)
(* EXPIRE_AFTER_USES allows, and in R2, whose handler has moved            *)
(* key_creation_counter, in the interval before that too.                  *)
(***************************************************************************)
EXTENDS Transport, FiniteSetTheorems, TLAPS

\* The threads that found the counter exhausted and have not expired the session yet.
Failing == {t \in Threads : thread[t] = "Expire"}

\* Counters in use are below the next one.
UsedBelow == beta # "Null" => \A k \in Keys, c \in 0 .. Modulus - 1 : <<k, c>> \in used => c < send_counter

\* Past the hard expiry the counter moves once for each failing thread.
Room == beta # "Null" => send_counter <= HardExpire + 1 + Cardinality(Failing)

\* An expired session has no key.
NoKeyLeft == beta = "Null" => cur = None

IInv == TypeOK /\ UsedBelow /\ Room /\ NoKeyLeft /\ NonceUnique

-----------------------------------------------------------------------------

\* The failing threads are finitely many, and fewer than all when some thread is not failing.
LEMMA FailingCount ==
    /\ IsFiniteSet(Failing)
    /\ Cardinality(Failing) \in Nat /\ Cardinality(Threads) \in Nat
    /\ Cardinality(Failing) <= Cardinality(Threads)
    /\ \A t \in Threads : thread[t] # "Expire" => Cardinality(Failing) + 1 <= Cardinality(Threads)
<1>1. IsFiniteSet(Threads) /\ Failing \in SUBSET Threads
  BY ThreadsAssumption DEF Failing
<1>2. IsFiniteSet(Failing) /\ Cardinality(Failing) <= Cardinality(Threads)
  BY <1>1, FS_Subset
<1>3. Cardinality(Failing) \in Nat /\ Cardinality(Threads) \in Nat
  BY <1>1, <1>2, FS_CardinalityType
<1>4. ASSUME NEW t \in Threads, thread[t] # "Expire"
      PROVE  Cardinality(Failing) + 1 <= Cardinality(Threads)
  <2>1. t \notin Failing /\ Failing \cup {t} \in SUBSET Threads
    BY <1>1, <1>4 DEF Failing
  <2>2. Cardinality(Failing \cup {t}) = Cardinality(Failing) + 1
    BY <1>2, <2>1, FS_AddElement
  <2>3. Cardinality(Failing \cup {t}) <= Cardinality(Threads)
    BY <1>1, <2>1, FS_Subset
  <2>. QED  BY <2>2, <2>3
<1>. QED  BY <1>2, <1>3, <1>4

\* Moving a thread that is not failing to a place that is not "Expire" changes no count.
LEMMA SameFailing ==
    ASSUME NEW t \in Threads, NEW at, thread \in [Threads -> {"Idle", "Rekey", "Control", "Expire"}],
           thread[t] # "Expire", at # "Expire", Goto(t, at)
    PROVE  Failing' = Failing
  BY DEF Failing, Goto

\* A thread that starts to fail adds one.
LEMMA OneMoreFailing ==
    ASSUME NEW t \in Threads, thread \in [Threads -> {"Idle", "Rekey", "Control", "Expire"}],
           thread[t] # "Expire", Goto(t, "Expire")
    PROVE  Cardinality(Failing') = Cardinality(Failing) + 1
<1>1. Failing' = Failing \cup {t} /\ t \notin Failing
  BY DEF Failing, Goto
<1>. QED  BY <1>1, FailingCount, FS_AddElement

\* The counter stays a word.
LEMMA CounterType ==
    ASSUME TypeOK, TakeCounter
    PROVE  send_counter' \in 0 .. Modulus - 1
<1>1. Modulus \in Nat /\ send_counter \in 0 .. Modulus - 1
  BY TransportAssumption DEF TypeOK
<1>. QED  BY <1>1 DEF TakeCounter, WrappingSucc

\* Encrypting keeps the histories in their types.
LEMMA EncryptType ==
    ASSUME TypeOK, NEW c \in 0 .. Modulus - 1, cur # None, Encrypt(c)
    PROVE  /\ used' \subseteq Keys \X (0 .. Modulus - 1)
           /\ reused' \in BOOLEAN
<1>1. cur \in Keys
  BY DEF TypeOK
<1>2. used' \subseteq Keys \X (0 .. Modulus - 1)
  BY <1>1 DEF TypeOK, Encrypt
<1>3. reused' \in BOOLEAN
  BY Zenon DEF TypeOK, Encrypt
<1>. QED  BY <1>2, <1>3

\* The steps keep every variable in its type.
LEMMA TypeStep == TypeOK /\ [Next]_vars => TypeOK'
<1>. SUFFICES ASSUME TypeOK, [Next]_vars PROVE TypeOK'
  OBVIOUS
<1>0. Modulus \in Nat /\ MaxKeys \in Nat /\ send_counter \in 0 .. Modulus - 1
  BY TransportAssumption DEF TypeOK
<1>1. ASSUME NEW t \in Threads, SendPayload(t) PROVE TypeOK'
  <2>1. send_counter' \in 0 .. Modulus - 1
    BY <1>1, CounterType DEF SendPayload
  <2>2. /\ used' \subseteq Keys \X (0 .. Modulus - 1)
        /\ reused' \in BOOLEAN
    <3>1. CASE UNCHANGED <<used, reused>>
      BY <3>1 DEF TypeOK
    <3>2. CASE cur # None /\ Encrypt(send_counter)
      BY <3>2, <1>0, EncryptType
    <3>. QED  BY <1>1, <3>1, <3>2 DEF SendPayload, history
  <2>3. thread' \in [Threads -> {"Idle", "Rekey", "Control", "Expire"}]
    BY <1>1 DEF SendPayload, Goto, TypeOK
  <2>. QED  BY <1>1, <2>1, <2>2, <2>3 DEF SendPayload, TypeOK, state
<1>2. ASSUME NEW t \in Threads, TriggerRekey(t) PROVE TypeOK'
  BY <1>2 DEF TriggerRekey, TypeOK, Goto, history
<1>3. ASSUME NEW t \in Threads, SendControl(t) PROVE TypeOK'
  <2>1. send_counter' \in 0 .. Modulus - 1
    BY <1>3, CounterType DEF SendControl
  <2>2. used' \subseteq Keys \X (0 .. Modulus - 1) /\ reused' \in BOOLEAN
    <3>1. CASE UNCHANGED <<used, reused>>
      BY <3>1 DEF TypeOK
    <3>2. CASE cur # None /\ Encrypt(send_counter)
      BY <3>2, <1>0, EncryptType
    <3>. QED  BY <1>3, <3>1, <3>2 DEF SendControl, history
  <2>3. thread' \in [Threads -> {"Idle", "Rekey", "Control", "Expire"}]
    BY <1>3 DEF SendControl, Goto, TypeOK
  <2>. QED  BY <1>3, <2>1, <2>2, <2>3 DEF SendControl, TypeOK, state
<1>4. ASSUME NEW t \in Threads, Receive(t) PROVE TypeOK'
  <2>1. CASE ReceivedX2(t) \/ ReceivedK1(t) \/ ReceivedK2(t)
    <3>1. keys' \in 0 .. MaxKeys /\ keys' \in Keys
      BY <1>0, <2>1 DEF ReceivedX2, ReceivedK1, ReceivedK2, NewKey, TypeOK, Keys
    <3>. QED  BY <1>0, <2>1, <3>1 DEF ReceivedX2, ReceivedK1, ReceivedK2, Enter, Goto, TypeOK, Betas, history
  <2>2. CASE ReceivedC1(t) \/ ReceivedC2(t) \/ AcknowledgedC1(t)
    BY <2>2 DEF ReceivedC1, ReceivedC2, AcknowledgedC1, Enter, Goto, TypeOK, Betas, history, state
  <2>. QED  BY <1>4, <2>1, <2>2 DEF Receive
<1>5. ASSUME NEW t \in Threads, Service(t) PROVE TypeOK'
  BY <1>5 DEF Service, Resend, TimeoutRekey, TimeoutHandshake, Enter, Goto, TypeOK, Betas, history, state
<1>6. ASSUME NEW t \in Threads, Expire(t) PROVE TypeOK'
  BY <1>6 DEF Expire, Goto, TypeOK, Betas, history, state
<1>7. CASE UNCHANGED vars
  BY <1>7 DEF vars, TypeOK, history, state
<1>. QED  BY <1>1, <1>2, <1>3, <1>4, <1>5, <1>6, <1>7 DEF Next

\* A new session is well typed.
LEMMA InitType == Init => TypeOK
<1>. SUFFICES ASSUME Init PROVE TypeOK
  OBVIOUS
<1>1. Modulus \in Nat /\ Modulus >= 2 /\ MaxKeys \in Nat /\ MaxKeys >= 1
  BY TransportAssumption, ThreadsAssumption, FailingCount
<1>2. was_bob \in BOOLEAN /\ reused \in BOOLEAN
  BY Zenon DEF Init
<1>3. /\ beta \in Betas /\ cur \in Keys \cup {None} /\ keys \in 0 .. MaxKeys
      /\ send_counter \in 0 .. Modulus - 1
  BY <1>1 DEF Init, Betas, Keys
<1>4. /\ nxt = None /\ key_creation_counter = send_counter /\ timeout_timer = "Set"
      /\ used = {}
  BY DEF Init
<1>5. thread \in [Threads -> {"Idle", "Rekey", "Control", "Expire"}]
  BY DEF Init
<1>. QED  BY <1>2, <1>3, <1>4, <1>5 DEF TypeOK

\* TypeOK is invariant: counters stay words and no state is entered without its keys.
THEOREM TypeCorrect == Spec => []TypeOK
  BY InitType, TypeStep, PTL DEF Spec

-----------------------------------------------------------------------------

\* While the session lives the counter does not wrap around.
LEMMA NoWrap ==
    ASSUME IInv, NEW t \in Threads, thread[t] # "Expire", TakeCounter, beta # "Null"
    PROVE  send_counter + 1 < Modulus /\ send_counter' = send_counter + 1
<1>1. {Modulus, HardExpire} \subseteq Nat /\ send_counter \in 0 .. Modulus - 1
  BY TransportAssumption DEF IInv, TypeOK
<1>2. send_counter <= HardExpire + 1 + Cardinality(Failing)
  BY DEF IInv, Room
<1>3. Cardinality(Failing) + 1 <= Cardinality(Threads)
  BY FailingCount
<1>4. send_counter + 1 < Modulus
  BY <1>1, <1>2, <1>3, FailingCount, ThreadsAssumption
<1>. QED  BY <1>1, <1>4 DEF TakeCounter, WrappingSucc

\* A step that takes a counter for a packet, or finds it exhausted.
LEMMA CounterStep ==
    ASSUME IInv, NEW t \in Threads, thread[t] # "Expire", TakeCounter, UNCHANGED state,
           \/ Exhausted(send_counter) /\ Goto(t, "Expire") /\ UNCHANGED <<used, reused>>
           \/ /\ ~Exhausted(send_counter)
              /\ Failing' = Failing
              /\ UNCHANGED <<used, reused>> \/ (cur # None /\ Encrypt(send_counter))
    PROVE  UsedBelow' /\ Room' /\ NoKeyLeft' /\ NonceUnique'
<1>. USE DEF state
<1>0. /\ {Modulus, HardExpire} \subseteq Nat /\ send_counter \in 0 .. Modulus - 1
      /\ thread \in [Threads -> {"Idle", "Rekey", "Control", "Expire"}]
      /\ used \subseteq Keys \X (0 .. Modulus - 1)
  BY TransportAssumption DEF IInv, TypeOK
<1>1. NoKeyLeft'
  BY DEF IInv, NoKeyLeft
<1>2. CASE beta = "Null"
  <2>1. cur = None /\ beta' = "Null" /\ reused' = reused
    BY <1>2 DEF IInv, NoKeyLeft
  <2>. QED  BY <2>1, <1>1 DEF UsedBelow, Room, NonceUnique, IInv
<1>3. CASE beta # "Null"
  <2>1. send_counter + 1 < Modulus /\ send_counter' = send_counter + 1
    BY <1>3, NoWrap
  <2>2. Room'
    <3>1. CASE Exhausted(send_counter) /\ Goto(t, "Expire")
      <4>1. Cardinality(Failing') = Cardinality(Failing) + 1
        BY <1>0, <3>1, OneMoreFailing
      <4>. QED  BY <1>0, <1>3, <2>1, <4>1, FailingCount DEF IInv, Room
    <3>2. CASE ~Exhausted(send_counter) /\ Failing' = Failing
      <4>1. send_counter <= HardExpire
        BY <1>0, <3>2 DEF Exhausted
      <4>. QED  BY <1>0, <2>1, <3>2, <4>1, FailingCount DEF Room
    <3>. QED  BY <3>1, <3>2
  <2>3. UsedBelow'
    <3>. SUFFICES ASSUME NEW k \in Keys, NEW c \in 0 .. Modulus - 1, <<k, c>> \in used'
                  PROVE  c < send_counter'
      BY DEF UsedBelow
    <3>1. CASE <<k, c>> \in used
      BY <1>0, <1>3, <2>1, <3>1 DEF IInv, UsedBelow
    <3>2. CASE <<k, c>> = <<cur, send_counter>>
      BY <1>0, <2>1, <3>2
    <3>. QED  BY <3>1, <3>2 DEF Encrypt
  <2>4. NonceUnique'
    <3>1. ASSUME cur # None PROVE <<cur, send_counter>> \notin used
      <4>1. cur \in Keys
        BY <3>1 DEF IInv, TypeOK
      <4>. QED  BY <1>0, <1>3, <4>1 DEF IInv, UsedBelow
    <3>. QED  BY <3>1 DEF IInv, NonceUnique, Encrypt
  <2>. QED  BY <1>1, <2>2, <2>3, <2>4
<1>. QED  BY <1>2, <1>3

\* A step that takes no counter leaves the histories alone; it may move a thread and may
\* expire the session, after which no key is left.
LEMMA OtherStep ==
    ASSUME IInv, UNCHANGED <<send_counter, used, reused>>,
           beta' # "Null" => beta # "Null" /\ Failing' = Failing,
           NoKeyLeft'
    PROVE  UsedBelow' /\ Room' /\ NoKeyLeft' /\ NonceUnique'
  BY DEF IInv, UsedBelow, Room, NonceUnique

\* IInv is inductive.
LEMMA SafeStep == IInv /\ [Next]_vars => IInv'
<1>. SUFFICES ASSUME IInv, [Next]_vars PROVE IInv'
  OBVIOUS
<1>0. TypeOK' /\ thread \in [Threads -> {"Idle", "Rekey", "Control", "Expire"}]
  BY TypeStep DEF IInv, TypeOK
<1>. DEFINE Rest == UsedBelow' /\ Room' /\ NoKeyLeft' /\ NonceUnique'
<1>1. ASSUME NEW t \in Threads, SendPayload(t) PROVE Rest
  <2>1. thread[t] = "Idle" /\ TakeCounter /\ UNCHANGED state
    BY <1>1 DEF SendPayload
  <2>2. CASE Exhausted(send_counter) /\ Goto(t, "Expire") /\ UNCHANGED history
    BY <2>1, <2>2, CounterStep DEF history
  <2>3. CASE ~Exhausted(send_counter) /\ UNCHANGED <<thread, used, reused>>
    <3>1. Failing' = Failing
      BY <2>3 DEF Failing
    <3>. QED  BY <2>1, <2>3, <3>1, CounterStep
  <2>4. CASE /\ ~Exhausted(send_counter) /\ cur # None /\ Encrypt(send_counter)
             /\ Goto(t, "Rekey") \/ Goto(t, "Idle")
    <3>1. Failing' = Failing
      BY <1>0, <2>1, <2>4, SameFailing
    <3>. QED  BY <2>1, <2>4, <3>1, CounterStep
  <2>. QED  BY <1>1, <2>2, <2>3, <2>4 DEF SendPayload, history
<1>2. ASSUME NEW t \in Threads, TriggerRekey(t) PROVE Rest
  <2>1. Failing' = Failing
    BY <1>0, <1>2, SameFailing DEF TriggerRekey
  <2>. QED  BY <1>2, <2>1, OtherStep DEF TriggerRekey, history, IInv, NoKeyLeft
<1>3. ASSUME NEW t \in Threads, SendControl(t) PROVE Rest
  <2>1. thread[t] = "Control" /\ TakeCounter /\ UNCHANGED state
    BY <1>3 DEF SendControl
  <2>2. CASE Exhausted(send_counter)
    BY <1>3, <2>1, <2>2, CounterStep DEF SendControl, history
  <2>3. CASE ~Exhausted(send_counter)
    <3>1. Failing' = Failing
      BY <1>0, <1>3, <2>1, <2>3, SameFailing DEF SendControl
    <3>. QED  BY <1>3, <2>1, <2>3, <3>1, CounterStep DEF SendControl, history
  <2>. QED  BY <2>2, <2>3
<1>4. ASSUME NEW t \in Threads, Receive(t) \/ Service(t) PROVE Rest
  <2>. USE DEF Receive, ReceivedX2, ReceivedC1, AcknowledgedC1, ReceivedC2, ReceivedK1,
               ReceivedK2, Service, Resend, TimeoutRekey, TimeoutHandshake, Enter, history, state
  <2>1. thread[t] = "Idle" /\ (Goto(t, "Control") \/ thread' = thread)
    BY <1>4
  <2>2. Failing' = Failing
    <3>1. CASE Goto(t, "Control")
      BY <1>0, <2>1, <3>1, SameFailing
    <3>2. CASE thread' = thread
      BY <3>2 DEF Failing
    <3>. QED  BY <2>1, <3>1, <3>2
  <2>3. UNCHANGED <<send_counter, used, reused>> /\ beta' # "Null" /\ beta # "Null"
    BY <1>4
  <2>. QED  BY <2>2, <2>3, OtherStep DEF NoKeyLeft
<1>5. ASSUME NEW t \in Threads, Expire(t) PROVE Rest
  BY <1>5, OtherStep DEF Expire, history, state, IInv, NoKeyLeft
<1>6. CASE UNCHANGED vars
  <2>1. Failing' = Failing
    BY <1>6 DEF vars, Failing
  <2>2. UNCHANGED <<beta, cur, send_counter, used, reused>>
    BY <1>6 DEF vars, history, state
  <2>3. NoKeyLeft'
    BY <2>2 DEF IInv, NoKeyLeft
  <2>. QED  BY <1>0, <2>1, <2>2, <2>3, OtherStep DEF IInv
<1>. QED  BY <1>0, <1>1, <1>2, <1>3, <1>4, <1>5, <1>6 DEF Next, IInv

\* At first no counter has been used.
LEMMA SafeInit == Init => IInv
<1>. SUFFICES ASSUME Init PROVE IInv
  OBVIOUS
<1>1. TypeOK
  BY InitType
<1>2. send_counter <= HardExpire + 1 + Cardinality(Failing)
  BY FailingCount, TransportAssumption DEF Init
<1>. QED  BY <1>1, <1>2 DEF Init, IInv, UsedBelow, Room, NoKeyLeft, NonceUnique

\* No key encrypts two packets under one counter.
THEOREM NoncesUnique == Spec => []NonceUnique
  BY SafeInit, SafeStep, PTL DEF Spec, IInv

-----------------------------------------------------------------------------
(* The uses of a key *)

\* The counters that get_counter gives out while key_creation_counter is a.
Span(a) == a .. a + ExpireAfterUses

\* Key k has encrypted under counters of C only.
UsedIn(k, C) == \A c \in 0 .. Modulus - 1 : <<k, c>> \in used => c \in C

\* A key that is not current yet, and not among the ones negotiated before, was not used; the
\* current one was used in the span that is open, in R2 in one before it too.
KeyUses ==
    /\ \A k \in Keys : \E a, b \in Nat : UsedIn(k, Span(a) \cup Span(b))
    /\ \A k \in Keys : k > keys => UsedIn(k, {})
    /\ cur # None => cur <= keys
    /\ beta # "Null" => key_creation_counter <= send_counter
    /\ beta \in {"A1", "A3"} => cur = None
    /\ beta \in {"A3", "R2"} => nxt # cur /\ (nxt # None => UsedIn(nxt, {}))
    /\ nxt # None => nxt <= keys
    /\ beta \in {"S1", "S2", "R1"} /\ cur # None => UsedIn(cur, Span(key_creation_counter))
    /\ beta = "R2" /\ cur # None =>
            \E a \in Nat : UsedIn(cur, Span(a) \cup Span(key_creation_counter))

\* The numbers that the steps below compute with.
LEMMA UseTypes ==
    ASSUME TypeOK
    PROVE  /\ Modulus \in Nat /\ ExpireAfterUses \in Nat
           /\ Keys \subseteq Nat /\ keys \in Nat
           /\ send_counter \in 0 .. Modulus - 1 /\ send_counter \in Nat /\ key_creation_counter \in Nat
           /\ cur \in Keys \cup {None} /\ nxt \in Keys \cup {None} /\ None \notin Keys
<1>1. Modulus \in Nat /\ MaxKeys \in Nat /\ ExpireAfterUses \in Nat /\ None \notin Nat
  BY TransportAssumption
<1>2. Keys \subseteq Nat /\ None \notin Keys
  BY <1>1 DEF Keys
<1>3. send_counter \in 0 .. Modulus - 1 /\ send_counter \in Nat /\ key_creation_counter \in Nat /\ keys \in Nat
  BY <1>1 DEF TypeOK
<1>4. cur \in Keys \cup {None} /\ nxt \in Keys \cup {None}
  BY DEF TypeOK
<1>. QED  BY <1>1, <1>2, <1>3, <1>4

\* A counter that is taken and not refused lies in the span that is open.
LEMMA InSpan ==
    ASSUME IInv, KeyUses, beta # "Null", ~Exhausted(send_counter)
    PROVE  send_counter \in Span(key_creation_counter)
<1>1. TypeOK
  BY DEF IInv
<1>2. key_creation_counter <= send_counter
  BY DEF KeyUses
<1>3. WrappingAdd(key_creation_counter, ExpireAfterUses) <= key_creation_counter + ExpireAfterUses
      /\ WrappingAdd(key_creation_counter, ExpireAfterUses) \in Int
  BY <1>1, UseTypes DEF WrappingAdd
<1>4. ~(send_counter > WrappingAdd(key_creation_counter, ExpireAfterUses))
  BY DEF Exhausted
<1>. QED  BY <1>1, <1>2, <1>3, <1>4, UseTypes DEF Span

\* A packet is encrypted, or only a counter is taken.
LEMMA UseStep ==
    ASSUME IInv, KeyUses, NEW t \in Threads, thread[t] # "Expire", TakeCounter, UNCHANGED state,
           \/ used' = used
           \/ ~Exhausted(send_counter) /\ cur # None /\ Encrypt(send_counter)
    PROVE  KeyUses'
<1>. USE DEF state
<1>1. TypeOK
  BY DEF IInv
<1>2. CASE used' = used
  <2>1. \A k, C : UsedIn(k, C)' <=> UsedIn(k, C)
    BY <1>2 DEF UsedIn
  <2>2. beta' # "Null" => key_creation_counter' <= send_counter'
    <3>1. ASSUME beta # "Null" PROVE send_counter' = send_counter + 1
      BY <3>1, NoWrap
    <3>. QED  BY <1>1, <3>1, UseTypes DEF KeyUses
  <2>. QED  BY <1>2, <2>2 DEF KeyUses, UsedIn
<1>3. CASE ~Exhausted(send_counter) /\ cur # None /\ Encrypt(send_counter)
  <2>1. cur \in Keys /\ beta # "Null" /\ beta \in {"S1", "S2", "R1", "R2"}
    BY <1>1, <1>3, UseTypes DEF IInv, NoKeyLeft, KeyUses, TypeOK, Betas
  <2>2. send_counter' = send_counter + 1
    BY <2>1, NoWrap
  <2>3. send_counter \in Span(key_creation_counter)
    BY <1>3, <2>1, InSpan
  <2>4. used' = used \cup {<<cur, send_counter>>}
    BY <1>3 DEF Encrypt
  <2>5. \A k \in Keys : \A C : k # cur => (UsedIn(k, C) => UsedIn(k, C)')
    BY <2>4 DEF UsedIn
  <2>6. \A C : UsedIn(cur, C) /\ send_counter \in C => UsedIn(cur, C)'
    BY <2>4 DEF UsedIn
  <2>7. beta' # "R2" => UsedIn(cur, Span(key_creation_counter))'
    <3>1. ASSUME beta # "R2" PROVE UsedIn(cur, Span(key_creation_counter))
      BY <1>3, <2>1, <3>1 DEF KeyUses
    <3>. QED  BY <2>3, <2>6, <3>1
  <2>8. beta' = "R2" => \E a \in Nat : UsedIn(cur, Span(a) \cup Span(key_creation_counter))'
    <3>1. ASSUME beta = "R2"
          PROVE  \E a \in Nat : UsedIn(cur, Span(a) \cup Span(key_creation_counter))
      BY <1>3, <3>1 DEF KeyUses
    <3>. QED  BY <2>3, <2>6, <3>1
  <2>9. \E a, b \in Nat : UsedIn(cur, Span(a) \cup Span(b))'
    <3>1. key_creation_counter \in Nat
      BY <1>1, UseTypes
    <3>2. ASSUME UsedIn(cur, Span(key_creation_counter))'
          PROVE  UsedIn(cur, Span(key_creation_counter) \cup Span(key_creation_counter))'
      BY <3>2 DEF UsedIn
    <3>. QED  BY <2>1, <2>7, <2>8, <3>1, <3>2
  <2>10. \A k \in Keys : \E a, b \in Nat : UsedIn(k, Span(a) \cup Span(b))'
    <3>1. \A k \in Keys : \E a, b \in Nat : UsedIn(k, Span(a) \cup Span(b))
      BY DEF KeyUses
    <3>. QED  BY <2>5, <2>9, <3>1
  <2>11. \A k \in Keys : k > keys' => UsedIn(k, {})'
    <3>1. cur <= keys
      BY <1>3 DEF KeyUses
    <3>2. \A k \in Keys : k > keys => k # cur /\ UsedIn(k, {})
      BY <1>1, <2>1, <3>1, UseTypes DEF KeyUses
    <3>. QED  BY <2>5, <3>2
  <2>12. beta' \in {"A3", "R2"} => nxt' # cur' /\ (nxt' # None => UsedIn(nxt, {})')
    <3>1. beta \in {"A3", "R2"} => nxt # cur /\ (nxt # None => UsedIn(nxt, {}))
      BY DEF KeyUses
    <3>2. nxt # None => nxt \in Keys
      BY <1>1, UseTypes
    <3>. QED  BY <2>5, <3>1, <3>2
  <2>13. key_creation_counter' <= send_counter'
    BY <1>1, <2>1, <2>2, UseTypes DEF KeyUses
  <2>. QED  BY <2>1, <2>7, <2>8, <2>10, <2>11, <2>12, <2>13 DEF KeyUses
<1>. QED  BY <1>2, <1>3

\* Every step keeps the uses of a key in its spans.
LEMMA KeyUsesNext == IInv /\ KeyUses /\ [Next]_vars => KeyUses'
<1>. SUFFICES ASSUME IInv, KeyUses, [Next]_vars PROVE KeyUses'
  OBVIOUS
<1>0. TypeOK /\ TypeOK'
  BY TypeStep DEF IInv
<1>1. ASSUME NEW t \in Threads, SendPayload(t) PROVE KeyUses'
  BY <1>1, UseStep DEF SendPayload, history
<1>2. ASSUME NEW t \in Threads, SendControl(t) PROVE KeyUses'
  BY <1>2, UseStep DEF SendControl, history
<1>3. ASSUME NEW t \in Threads, ReceivedX2(t) \/ ReceivedK1(t) \/ ReceivedK2(t) PROVE KeyUses'
  <2>0. keys < MaxKeys /\ keys' = keys + 1 /\ key_creation_counter' = send_counter
        /\ UNCHANGED <<send_counter, used>>
    BY <1>3 DEF ReceivedX2, ReceivedK1, ReceivedK2, NewKey, Enter, history
  <2>1. keys' \in Keys /\ keys' > keys
    BY <1>0, <2>0, UseTypes, TransportAssumption DEF Keys
  <2>2. \A k, C : UsedIn(k, C)' <=> UsedIn(k, C)
    BY <2>0 DEF UsedIn
  <2>3. UsedIn(keys', {})
    BY <2>1 DEF KeyUses
  <2>4. \A k \in Keys : k > keys' => UsedIn(k, {})
    BY <1>0, <2>0, UseTypes DEF KeyUses
  <2>5. cur # None => cur \in Keys /\ cur <= keys /\ cur <= keys' /\ cur # keys'
    BY <1>0, <2>0, UseTypes DEF KeyUses
  <2>6. \A k \in Keys : \E a, b \in Nat : UsedIn(k, Span(a) \cup Span(b))
    BY DEF KeyUses
  <2>7. key_creation_counter' <= send_counter' /\ key_creation_counter' \in Nat /\ keys' <= keys'
    BY <1>0, <2>0, UseTypes
  <2>8. CASE ReceivedX2(t)
    <3>1. beta' = "A3" /\ cur' = None /\ nxt' = keys'
      BY <2>8 DEF ReceivedX2, Enter, KeyUses
    <3>2. nxt' # cur'
      BY <1>0, <2>1, <3>1, UseTypes
    <3>. QED  BY <2>0, <2>3, <2>4, <2>6, <2>7, <3>1, <3>2 DEF KeyUses, UsedIn
  <2>9. CASE ReceivedK1(t)
    <3>1. beta' = "R2" /\ cur' = cur /\ nxt' = keys' /\ beta \in {"S2", "R1"}
      BY <2>9 DEF ReceivedK1, Enter
    <3>2. ASSUME cur # None
          PROVE  \E a \in Nat : UsedIn(cur, Span(a) \cup Span(key_creation_counter'))
      <4>1. UsedIn(cur, Span(key_creation_counter)) /\ key_creation_counter \in Nat
        BY <1>0, <3>1, <3>2, UseTypes DEF KeyUses
      <4>2. UsedIn(cur, Span(key_creation_counter) \cup Span(key_creation_counter'))
        BY <4>1 DEF UsedIn
      <4>. QED  BY <4>1, <4>2
    <3>3. nxt' # cur'
      BY <1>0, <2>1, <2>5, <3>1, UseTypes
    <3>4. ASSUME cur' # None
          PROVE  \E a \in Nat : UsedIn(cur, Span(a) \cup Span(key_creation_counter))'
      BY <2>0, <3>1, <3>2, <3>4 DEF UsedIn
    <3>5. UsedIn(nxt, {})' /\ \A k \in Keys : k > keys' => UsedIn(k, {})'
      BY <2>0, <2>3, <2>4, <3>1 DEF UsedIn
    <3>6. \A k \in Keys : \E a, b \in Nat : UsedIn(k, Span(a) \cup Span(b))'
      BY <2>2, <2>6
    <3>7. cur' # None => cur' <= keys'
      BY <2>5, <3>1
    <3>. QED  BY <2>7, <3>1, <3>3, <3>4, <3>5, <3>6, <3>7 DEF KeyUses
  <2>10. CASE ReceivedK2(t)
    <3>1. beta' = "S1" /\ cur' = keys' /\ nxt' = cur
      BY <2>10 DEF ReceivedK2, Enter
    <3>2. UsedIn(cur', Span(key_creation_counter'))
      BY <2>3, <3>1 DEF UsedIn
    <3>. QED  BY <2>0, <2>4, <2>5, <2>6, <2>7, <3>1, <3>2 DEF KeyUses, UsedIn
  <2>. QED  BY <1>3, <2>8, <2>9, <2>10
<1>4. ASSUME NEW t \in Threads, ReceivedC1(t) PROVE KeyUses'
  <2>1. /\ beta \in {"A3", "R2"} /\ beta' = "S2" /\ cur' = nxt /\ nxt' = cur
        /\ UNCHANGED <<key_creation_counter, keys, send_counter, used>>
    BY <1>4 DEF ReceivedC1, Enter, history
  <2>2. nxt # None => UsedIn(nxt, Span(key_creation_counter))
    BY <2>1 DEF KeyUses, UsedIn
  <2>. QED  BY <1>0, <2>1, <2>2, UseTypes DEF KeyUses, UsedIn
<1>5. ASSUME NEW t \in Threads,
             ReceivedC2(t) \/ TimeoutRekey(t) \/ TimeoutHandshake(t) \/ Expire(t)
             \/ AcknowledgedC1(t) \/ Resend(t) \/ TriggerRekey(t)
      PROVE  KeyUses'
  <2>1. UNCHANGED <<keys, key_creation_counter, send_counter, used>>
    BY <1>5 DEF ReceivedC2, TimeoutRekey, TimeoutHandshake, Expire, AcknowledgedC1, Resend,
                TriggerRekey, Enter, history, state
  <2>2. \/ UNCHANGED <<beta, cur, nxt>>
        \/ /\ beta \in {"S1", "S2"} /\ beta' \in {"S2", "R1"}
           /\ UNCHANGED <<cur, nxt>>
        \/ beta \in {"A1", "A3"} /\ beta' = "A1" /\ cur' = cur /\ nxt' = None
        \/ beta' = "Null" /\ cur' = None /\ nxt' = None
    BY <1>5 DEF ReceivedC2, TimeoutRekey, TimeoutHandshake, Expire, AcknowledgedC1, Resend,
                TriggerRekey, Enter, state
  <2>. QED  BY <1>0, <2>1, <2>2 DEF KeyUses, UsedIn
<1>6. CASE UNCHANGED vars
  BY <1>6 DEF vars, state, history, KeyUses, UsedIn
<1>. QED  BY <1>1, <1>2, <1>3, <1>4, <1>5, <1>6 DEF Next, Receive, Service

\* The spans have as many counters as the bound says.
LEMMA SpansBound ==
    ASSUME TypeOK, KeyUses
    PROVE  KeyUseBound
<1>. SUFFICES ASSUME NEW k \in Keys PROVE Cardinality(UsesOf(k)) <= 2 * (ExpireAfterUses + 1)
  BY DEF KeyUseBound
<1>1. PICK a \in Nat, b \in Nat : UsedIn(k, Span(a) \cup Span(b))
  BY DEF KeyUses
<1>2. ExpireAfterUses \in Nat
  BY UseTypes
<1>3. ASSUME NEW n \in Nat
      PROVE  IsFiniteSet(Span(n)) /\ Cardinality(Span(n)) = ExpireAfterUses + 1
  <2>1. n \in Int /\ n + ExpireAfterUses \in Int /\ ~(n > n + ExpireAfterUses)
    BY <1>2
  <2>2. IsFiniteSet(n .. n + ExpireAfterUses)
    BY <2>1, FS_Interval
  <2>3. Cardinality(n .. n + ExpireAfterUses) = (n + ExpireAfterUses) - n + 1
    BY <2>1, FS_Interval
  <2>. QED  BY <1>2, <2>2, <2>3 DEF Span
<1>4. PICK S, T : S = Span(a) /\ T = Span(b)
  OBVIOUS
<1>5. /\ IsFiniteSet(S) /\ IsFiniteSet(T)
      /\ Cardinality(S) = ExpireAfterUses + 1 /\ Cardinality(T) = ExpireAfterUses + 1
  BY <1>3, <1>4
<1>6. IsFiniteSet(S \cup T) /\ Cardinality(S \cup T) = Cardinality(S) + Cardinality(T) - Cardinality(S \cap T)
  BY <1>5, FS_Union
<1>7. Cardinality(S \cap T) \in Nat
  <2>1. IsFiniteSet(S \cap T)
    BY <1>5, FS_Intersection
  <2>. QED  BY <2>1, FS_CardinalityType
<1>8. UsesOf(k) \in SUBSET (S \cup T)
  BY <1>1, <1>4 DEF UsesOf, UsedIn
<1>9. IsFiniteSet(UsesOf(k)) /\ Cardinality(UsesOf(k)) <= Cardinality(S \cup T)
  BY <1>6, <1>8, FS_Subset
<1>10. Cardinality(UsesOf(k)) \in Nat
  BY <1>9, FS_CardinalityType
<1>. QED  BY <1>2, <1>5, <1>6, <1>7, <1>9, <1>10

\* No key encrypts more than twice what EXPIRE_AFTER_USES allows, however sending, receiving and
\* the timers interleave: as often again as the limit says, because received_k1_trans moves
\* key_creation_counter while the key stays in use (zeta.rs:1466).
THEOREM KeyUsesBounded == Spec => []KeyUseBound
<1>1. Init => KeyUses
  <2>. SUFFICES ASSUME Init PROVE KeyUses
    OBVIOUS
  <2>1. TypeOK
    BY InitType
  <2>2. \A k, C : UsedIn(k, C)
    BY DEF Init, UsedIn
  <2>3. cur = None \/ (cur = 1 /\ keys = 1)
    BY DEF Init
  <2>. QED  BY <2>1, <2>2, <2>3, UseTypes DEF Init, KeyUses
<1>2. TypeOK /\ KeyUses => KeyUseBound
  BY SpansBound
<1>3. IInv => TypeOK
  BY DEF IInv
<1>. QED  BY <1>1, <1>2, <1>3, SafeInit, SafeStep, KeyUsesNext, PTL DEF Spec

=============================================================================
