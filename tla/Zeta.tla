-------------------------------- MODULE Zeta --------------------------------
(***************************************************************************)
(* The Zeta state machine of performance/src/zeta.rs, for two peers that   *)
(* talk over a network which loses, duplicates and reorders packets.       *)
(*                                                                         *)
(* Each peer keeps its sessions, the session map that routes a local key   *)
(* id to a session, the cache of responder handshakes (StateB2) and, in    *)
(* the application's storage, the pair of ratchet states it remembers for  *)
(* its peer.  One action is one handler run to its end: a session's        *)
(* handlers are serialised by state_machine_lock.                          *)
(*                                                                         *)
(* Cryptography is perfect.  A completed Noise handshake is a fresh number *)
(* (its "kex"); the ratchet state, the key exchange key and the transport  *)
(* key derived from it are that same number, so a packet decrypts iff the  *)
(* numbers agree.  0 is the empty ratchet state.  A local ephemeral key is *)
(* a fresh number too.  Timers are abstract: a timeout or a resend may     *)
(* happen at any moment.                                                   *)
(***************************************************************************)
EXTENDS Naturals, FiniteSets

CONSTANTS
    Alice, Bob,     \* the two peers
    Openers,        \* the peers whose application calls Context::open
    Slots,          \* room for sessions at one peer
    Kids,           \* key ids
    None,           \* Option::None
    CacheSize,      \* MAX_UNASSOCIATED_HANDSHAKE_STATES
    MaxFresh,       \* bound: ephemeral and handshake secrets ever drawn
    MaxFaults,      \* bound: restarts and application calls to expire
    Punctual,       \* timers keep the order their settings give them (see GivenUp)
    StorageErrors,  \* save_ratchet_state and restore_by_identity may return Err
    DebugAssertions,                \* built with debug assertions
    HelloRequiresRecognizedRatchet, \* pi_1, asked of the responder's application
    InitiatorDisallowsDowngrade,    \* pi_2, asked of the initiator's application
    ResponderDisallowsDowngrade     \* pi_3, asked of the responder's application

Peers == {Alice, Bob}

Flags == <<Punctual, StorageErrors, DebugAssertions, HelloRequiresRecognizedRatchet,
           InitiatorDisallowsDowngrade, ResponderDisallowsDowngrade>>

ASSUME PeersAssumption == Alice # Bob /\ Openers \subseteq Peers
ASSUME NoneAssumption == None \notin Nat /\ None \notin Kids /\ None \notin Slots
ASSUME BoundsAssumption == MaxFresh \in Nat /\ MaxFaults \in Nat /\ CacheSize \in Nat \ {0}
ASSUME FlagsAssumption == Flags \in BOOLEAN \X BOOLEAN \X BOOLEAN \X BOOLEAN \X BOOLEAN \X BOOLEAN

VARIABLES
    zeta,         \* zeta[p][s]: the session in slot s of peer p
    session_map,  \* session_map[p][kid]: the slot that key id is routed to, or None
    b2,           \* b2[p]: the unassociated handshake states of peer p
    store,        \* store[p]: the ratchet states saved for the other peer
    net,          \* the packets that may still arrive
    fresh,        \* secrets drawn so far
    faults        \* restarts and expirations so far

vars == <<zeta, session_map, b2, store, net, fresh, faults>>

-----------------------------------------------------------------------------
(* Values *)

Empty == 0                       \* RatchetState::empty
Ratchets == 0 .. MaxFresh
Secrets == 1 .. MaxFresh

\* Half of MutableState.keys: both key ids and the handshake its keys come from.
DuplexKey == [recv : Kids \cup {None}, send : Kids \cup {None}, kex : Secrets \cup {None}]
NoKey == [recv |-> None, send |-> None, kex |-> None]

RatchetStates == [state1 : Ratchets, state2 : Ratchets \cup {None}]

Betas == {"Null", "A1", "A3", "S1", "S2", "R1", "R2"}

\* cur is key_ref(false), nxt is key_ref(true): flipping key_index exchanges the two.
\* eph is the ephemeral key of the pending handshake (A1, A3, R1, R2).
\* origin is a history field: the kex of the handshake that established the session.
Session == [beta : Betas, was_bob : BOOLEAN,
            ratchet_state1 : Ratchets, ratchet_state2 : Ratchets \cup {None},
            cur : DuplexKey, nxt : DuplexKey,
            eph : Secrets \cup {None}, origin : Secrets \cup {None}]

NullSession == [beta |-> "Null", was_bob |-> FALSE,
                ratchet_state1 |-> Empty, ratchet_state2 |-> None,
                cur |-> NoKey, nxt |-> NoKey, eph |-> None, origin |-> None]

StateB2 == [ratchet_state : Ratchets, kid_send : Kids, kid_recv : Kids,
            eph : Secrets, kex : Secrets]

Remote(p) == IF p = Alice THEN Bob ELSE Alice

States(rs1, rs2) == [state1 |-> rs1, state2 |-> rs2]

Live(z) == z.beta # "Null"
RecvKids(z) == {z.cur.recv, z.nxt.recv} \ {None}

-----------------------------------------------------------------------------
(* Packets *)

\* Mutant: a missing second ratchet state is not written as the zero fingerprint.
X1_NoZeroFingerprint(p, z) ==
    [type |-> "X1", dst |-> Remote(p), eph |-> z.eph, kid |-> z.nxt.recv,
     rf1 |-> z.ratchet_state1, rf2 |-> z.ratchet_state2]

X1(p, z) == [type |-> "X1", dst |-> Remote(p), eph |-> z.eph, kid |-> z.nxt.recv,
             rf1 |-> z.ratchet_state1,
             rf2 |-> IF z.ratchet_state2 = None THEN Empty ELSE z.ratchet_state2]

X2(p, b) == [type |-> "X2", dst |-> Remote(p), to |-> b.kid_send, eph |-> b.eph,
             psk |-> b.ratchet_state, kex |-> b.kex, kid |-> b.kid_recv]

X3(p, z) == [type |-> "X3", dst |-> Remote(p), to |-> z.nxt.send, eph |-> z.eph, kex |-> z.nxt.kex]

\* A control packet with an empty payload, sealed under the current key.
Control(type, p, key) == [type |-> type, dst |-> Remote(p), to |-> key.send, kex |-> key.kex]

K1(p, z) == [type |-> "K1", dst |-> Remote(p), to |-> z.cur.send, kex |-> z.cur.kex,
             psk |-> z.ratchet_state1, eph |-> z.eph, kid |-> z.nxt.recv]

K2(p, z) == [type |-> "K2", dst |-> Remote(p), to |-> z.cur.send, kex |-> z.cur.kex,
             eph |-> z.eph, newkex |-> z.nxt.kex, kid |-> z.nxt.recv]

Packet ==
    [type : {"X1"}, dst : Peers, eph : Secrets, kid : Kids, rf1 : Ratchets, rf2 : Ratchets]
    \cup [type : {"X2"}, dst : Peers, to : Kids, eph : Secrets, psk : Ratchets, kex : Secrets, kid : Kids]
    \cup [type : {"X3"}, dst : Peers, to : Kids, eph : Secrets, kex : Secrets]
    \cup [type : {"C1", "C2", "D"}, dst : Peers, to : Kids, kex : Secrets]
    \cup [type : {"K1"}, dst : Peers, to : Kids, kex : Secrets, psk : Ratchets, eph : Secrets, kid : Kids]
    \cup [type : {"K2"}, dst : Peers, to : Kids, kex : Secrets, eph : Secrets, newkex : Secrets, kid : Kids]

-----------------------------------------------------------------------------
(* Helpers of the handlers *)

\* gen_kid: any key id the session map does not hold.
GenKid(map) == {kid \in Kids : map[kid] = None}

\* The session map without the key ids of set ks.
Without(map, ks) == [kid \in Kids |-> IF kid \in ks THEN None ELSE map[kid]]

\* Mutants: remap forgets the current key id instead of the pending one, or none at all.
Unmapped_Current(map, z) == Without(map, {z.cur.recv})
Unmapped_Never(map, z) == map

\* remap, first half: forget the pending key id of session z.
Unmapped(map, z) == Without(map, {z.nxt.recv})

\* remap, second half: kid takes over whatever the forgotten key id was routed to.
Remapped(map, s, z, kid) ==
    [Unmapped(map, z) EXCEPT
        ![kid] = IF z.nxt.recv # None /\ map[z.nxt.recv] # None THEN map[z.nxt.recv] ELSE s]

\* expire_inner: the session is Null, its queue entry gone, its two key ids unrouted.
ExpireInto(p, s, map) ==
    /\ zeta' = [zeta EXCEPT ![p][s] = NullSession]
    /\ session_map' = [session_map EXCEPT ![p] = Without(map, RecvKids(zeta[p][s]))]

\* create_a1_state with a fresh ephemeral key and kid as the offered key id.
ToA1(z, kid) ==
    [z EXCEPT !.beta = "A1", !.nxt = [NoKey EXCEPT !.recv = kid],
              !.eph = fresh + 1, !.origin = None]

\* Mutant: the old key is dropped as soon as the session switches to the new one.
Flip_DropsOld(z) == [z EXCEPT !.cur = z.nxt, !.nxt = NoKey]

\* state.key_index ^= true
Flip(z) == [z EXCEPT !.cur = z.nxt, !.nxt = z.cur]

\* RatchetStates held in memory by a session, and CompareAndSwap::compare with storage.
Memory(z) == States(z.ratchet_state1, z.ratchet_state2)
InStorage(p, z) == store[p] = Memory(z)

\* ApplicationLayer::restore_by_fingerprint.
RestoreByFingerprint(p, rf) ==
    IF rf \in {store[p].state1, store[p].state2} THEN rf ELSE None

\* Context::receive finds the session a packet's key id is routed to.
Routed(p, s, m) == m.dst = p /\ session_map[p][m.to] = s

-----------------------------------------------------------------------------
(* Alice opens a session: Context::open, trans_to_a1 *)

Open(p) ==
    /\ p \in Openers
    /\ fresh < MaxFresh
    /\ \E s \in Slots, kid \in GenKid(session_map[p]) :
        /\ ~Live(zeta[p][s])
        /\ LET z == ToA1([NullSession EXCEPT !.ratchet_state1 = store[p].state1,
                                             !.ratchet_state2 = store[p].state2], kid)
           IN /\ zeta' = [zeta EXCEPT ![p][s] = z]
              /\ session_map' = [session_map EXCEPT ![p][kid] = s]
              /\ net' = net \cup {X1(p, z)}
    /\ fresh' = fresh + 1
    /\ UNCHANGED <<b2, store, faults>>

-----------------------------------------------------------------------------
(* Bob answers a Hello: received_x1_trans *)

\* The ratchet state Bob picks; the second lookup asks for rf1 once more.
HelloRatchet(p, m) ==
    LET first  == IF m.rf1 # Empty THEN RestoreByFingerprint(p, m.rf1) ELSE None
        second == IF m.rf2 # Empty THEN RestoreByFingerprint(p, m.rf1) ELSE None
    IN IF first # None THEN first ELSE second

\* UnassociatedHandshakeCache::insert.  A full cache gives up an entry.  An entry that has
\* the same key id makes the insertion fail if it is met before a free place.
InsertB2(p, b) ==
    \/ /\ \E c \in b2[p] : c.kid_recv = b.kid_recv
       /\ UNCHANGED b2
    \/ /\ Cardinality(b2[p]) < CacheSize
       /\ b2' = [b2 EXCEPT ![p] = @ \cup {b}]
    \/ /\ Cardinality(b2[p]) >= CacheSize
       /\ \A c \in b2[p] : c.kid_recv # b.kid_recv
       /\ \E c \in b2[p] : b2' = [b2 EXCEPT ![p] = (@ \ {c}) \cup {b}]

\* Mutant: a handshake state is left in the cache when it is used.
RemoveB2_Keeps(p, b) == b2

\* UnassociatedHandshakeCache::remove.
RemoveB2(p, b) == [b2 EXCEPT ![p] = @ \ {b}]

ReceivedX1(p, m) ==
    /\ m.type = "X1" /\ m.dst = p
    /\ fresh < MaxFresh
    /\ HelloRequiresRecognizedRatchet => HelloRatchet(p, m) # None
    /\ \E kid \in GenKid(session_map[p]) :
        LET b == [ratchet_state |-> IF HelloRatchet(p, m) = None THEN Empty ELSE HelloRatchet(p, m),
                  kid_send |-> m.kid, kid_recv |-> kid, eph |-> m.eph, kex |-> fresh + 1]
        IN InsertB2(p, b) /\ net' = net \cup {X2(p, b)}
    /\ fresh' = fresh + 1
    /\ UNCHANGED <<zeta, session_map, store, faults>>

\* UnassociatedHandshakeCache::service: an entry is dropped when its time is up.
ExpireB2(p) ==
    /\ \E b \in b2[p] : b2' = [b2 EXCEPT ![p] = @ \ {b}]
    /\ UNCHANGED <<zeta, session_map, store, net, fresh, faults>>

-----------------------------------------------------------------------------
(* Alice completes the handshake: received_x2_trans *)

\* ratchet_i: which remembered ratchet key opens the payload (3: the zero key, by downgrade).
RatchetI(z, m) ==
    CASE m.psk = z.ratchet_state1 -> 1
      [] m.psk # z.ratchet_state1 /\ m.psk = z.ratchet_state2 -> 2
      [] m.psk \notin {z.ratchet_state1, z.ratchet_state2} /\ m.psk = Empty
            /\ ~InitiatorDisallowsDowngrade -> 3
      [] OTHER -> 0

\* The packet is for the pending key of a session in state A1.
AwaitsX2(p, s, m) ==
    /\ m.type = "X2" /\ Routed(p, s, m)
    /\ zeta[p][s].beta = "A1" /\ zeta[p][s].nxt.recv = m.to

X2IsAuth(z, m) == m.eph = z.eph /\ RatchetI(z, m) # 0

\* Mutant: storage keeps the first ratchet state whichever one Bob chose.
RatchetToPreserve_First(z, m) == z.ratchet_state1

\* ratchet_to_preserve: the ratchet state Bob chose stays in storage as the second one.
RatchetToPreserve(z, m) == IF RatchetI(z, m) = 1 THEN z.ratchet_state1 ELSE z.ratchet_state2

\* Memory, unlike storage, always keeps the previous first ratchet state.
ReceivedX2(p, s, m) ==
    LET z == zeta[p][s]
        a3 == [z EXCEPT !.beta = "A3", !.origin = m.kex,
                        !.nxt = [recv |-> m.to, send |-> m.kid, kex |-> m.kex],
                        !.ratchet_state1 = m.kex, !.ratchet_state2 = z.ratchet_state1]
    IN /\ AwaitsX2(p, s, m) /\ X2IsAuth(z, m)
       /\ InStorage(p, z)
       /\ store' = [store EXCEPT ![p] = States(m.kex, RatchetToPreserve(z, m))]
       /\ zeta' = [zeta EXCEPT ![p][s] = a3]
       /\ net' = net \cup {X3(p, a3)}
       /\ UNCHANGED <<session_map, b2, fresh, faults>>

\* A session in A1 or A3 starts over with a new key id, ephemeral key and Hello.
RestartHandshake(p, s) ==
    LET z == zeta[p][s] IN
    /\ fresh < MaxFresh
    /\ \E kid \in GenKid(Unmapped(session_map[p], z)) :
        /\ zeta' = [zeta EXCEPT ![p][s] = ToA1(z, kid)]
        /\ session_map' = [session_map EXCEPT ![p] = Remapped(@, s, z, kid)]
        /\ net' = net \cup {X1(p, ToA1(z, kid))}
    /\ fresh' = fresh + 1
    /\ UNCHANGED <<b2, store, faults>>

\* A fault while X2 is processed: the timeout transition runs inside a debug assertion.
\* Without debug assertions nothing changes.
FaultyX2(p, s, m) ==
    /\ DebugAssertions
    /\ AwaitsX2(p, s, m)
    /\ ~(X2IsAuth(zeta[p][s], m) /\ InStorage(p, zeta[p][s]))
    /\ RestartHandshake(p, s)

-----------------------------------------------------------------------------
(* Bob accepts the session: received_x3_trans *)

\* The handshake state of an arriving X3: no session owns the key id and the header opens.
HandshakeOfX3(p, m, b) ==
    /\ m.type = "X3" /\ m.dst = p
    /\ session_map[p][m.to] = None
    /\ b \in b2[p] /\ b.kid_recv = m.to /\ b.eph = m.eph

\* Mutant: a downgrade to the empty ratchet state is always accepted.
RatchetAcceptable_Downgrade(p, b) ==
    b.ratchet_state \in {store[p].state1, store[p].state2, Empty}

\* Whether Bob may go on with the ratchet state the handshake was keyed with.
RatchetAcceptable(p, b) ==
    \/ b.ratchet_state \in {store[p].state1, store[p].state2}
    \/ ~ResponderDisallowsDowngrade /\ b.ratchet_state = Empty

\* A rejection is sent unless the application rejects silently.
MaybeReject(p, b) ==
    \/ net' = net
    \/ net' = net \cup {Control("D", p, [recv |-> b.kid_recv, send |-> b.kid_send, kex |-> b.kex])}

\* The handshake state is consumed and no session comes of it: X3 is not authentic or
\* the application declines.
DroppedX3(p, m, b) ==
    /\ HandshakeOfX3(p, m, b)
    /\ b2' = RemoveB2(p, b)
    /\ \/ m.kex # b.kex /\ net' = net
       \/ m.kex = b.kex /\ MaybeReject(p, b)
    /\ UNCHANGED <<zeta, session_map, store, fresh, faults>>

\* check_accept_session must expire every other session with the peer before it accepts.
AllSessionKids(p) == UNION {RecvKids(zeta[p][t]) : t \in Slots}

\* Accepted by the application, then refused over its ratchet state or a storage error.
RefusedX3(p, m, b) ==
    /\ HandshakeOfX3(p, m, b) /\ m.kex = b.kex
    /\ b2' = RemoveB2(p, b)
    /\ zeta' = [zeta EXCEPT ![p] = [t \in Slots |-> NullSession]]
    /\ session_map' = [session_map EXCEPT ![p] = Without(@, AllSessionKids(p))]
    /\ \/ ~RatchetAcceptable(p, b) /\ MaybeReject(p, b)
       \/ StorageErrors /\ net' = net
    /\ UNCHANGED <<store, fresh, faults>>

ReceivedX3(p, m, b) ==
    LET z == [NullSession EXCEPT
                !.beta = "S1", !.was_bob = TRUE, !.origin = b.kex, !.ratchet_state1 = b.kex,
                !.cur = [recv |-> b.kid_recv, send |-> b.kid_send, kex |-> b.kex]]
    IN /\ HandshakeOfX3(p, m, b) /\ m.kex = b.kex
       /\ RatchetAcceptable(p, b)
       /\ b2' = RemoveB2(p, b)
       /\ store' = [store EXCEPT ![p] = States(b.kex, None)]
       /\ \E s \in Slots :
            /\ zeta' = [zeta EXCEPT ![p] = [t \in Slots |-> IF t = s THEN z ELSE NullSession]]
            /\ session_map' = [session_map EXCEPT
                    ![p] = [Without(@, AllSessionKids(p)) EXCEPT ![b.kid_recv] = s]]
       /\ net' = net \cup {Control("C1", p, z.cur)}
       /\ UNCHANGED <<fresh, faults>>

-----------------------------------------------------------------------------
(* Key confirmation: received_c1_trans, received_c2_trans, received_d_trans *)

\* A packet protected by the antireplay window is accepted once: it leaves the network.
Consume(m) == net \ {m}

\* Mutant: the previous ratchet state is kept in memory.
Confirmed_KeepsOldRatchet(z) == [Flip(z) EXCEPT !.beta = "S2", !.eph = None]

\* The session of a confirmed key: the old ratchet state is forgotten, the key switched to.
Confirmed(z) == [Flip(z) EXCEPT !.beta = "S2", !.ratchet_state2 = None, !.eph = None]

\* Mutant: C1 under the other key switches keys in any state.
ConfirmsKey_AnyState(p, s, m) ==
    LET z == zeta[p][s] IN
    /\ m.type = "C1" /\ Routed(p, s, m)
    /\ m.to = z.nxt.recv /\ m.kex = z.nxt.kex

\* C1 under the pending key in A3 or R2.
ConfirmsKey(p, s, m) ==
    LET z == zeta[p][s] IN
    /\ m.type = "C1" /\ Routed(p, s, m)
    /\ m.to = z.nxt.recv /\ m.kex = z.nxt.kex
    /\ z.beta \in {"A3", "R2"}

ReceivedC1(p, s, m) ==
    LET z == zeta[p][s] IN
    /\ ConfirmsKey(p, s, m)
    /\ z.ratchet_state2 = None \/ InStorage(p, z)
    /\ store' = [store EXCEPT ![p] = IF z.ratchet_state2 = None THEN @
                                     ELSE States(z.ratchet_state1, None)]
    /\ zeta' = [zeta EXCEPT ![p][s] = Confirmed(z)]
    /\ net' = Consume(m) \cup {Control("C2", p, Confirmed(z).cur)}
    /\ UNCHANGED <<session_map, b2, fresh, faults>>

\* Storage no longer holds what this session remembers: the session is expired.
StaleC1(p, s, m) ==
    LET z == zeta[p][s] IN
    /\ ConfirmsKey(p, s, m)
    /\ z.ratchet_state2 # None /\ ~InStorage(p, z)
    /\ ExpireInto(p, s, session_map[p])
    /\ net' = Consume(m)
    /\ UNCHANGED <<store, b2, fresh, faults>>

\* C1 that confirms nothing new is acknowledged under the current key.
AcknowledgedC1(p, s, m) ==
    LET z == zeta[p][s] IN
    /\ m.type = "C1" /\ Routed(p, s, m)
    /\ ~ConfirmsKey(p, s, m)
    /\ \/ m.to = z.nxt.recv /\ m.kex = z.nxt.kex
       \/ m.to # z.nxt.recv /\ m.to = z.cur.recv /\ m.kex = z.cur.kex
    /\ net' = Consume(m) \cup IF z.cur.kex # None THEN {Control("C2", p, z.cur)} ELSE {}
    /\ UNCHANGED <<zeta, session_map, store, b2, fresh, faults>>

ReceivedC2(p, s, m) ==
    LET z == zeta[p][s] IN
    /\ m.type = "C2" /\ Routed(p, s, m)
    /\ m.to = z.cur.recv /\ z.beta = "S1" /\ m.kex = z.cur.kex
    /\ zeta' = [zeta EXCEPT ![p][s].beta = "S2"]
    /\ net' = Consume(m)
    /\ UNCHANGED <<session_map, store, b2, fresh, faults>>

ReceivedD(p, s, m) ==
    LET z == zeta[p][s] IN
    /\ m.type = "D" /\ Routed(p, s, m)
    /\ m.to = z.nxt.recv /\ z.beta = "A3" /\ m.kex = z.nxt.kex
    /\ ExpireInto(p, s, session_map[p])
    /\ net' = Consume(m)
    /\ UNCHANGED <<store, b2, fresh, faults>>

-----------------------------------------------------------------------------
(* Rekeying: received_k1_trans, received_k2_trans *)

\* Mutant: the rule that only the original responder answers K1 in R1 is missing.
AnswersK1_BothRoles(p, s, m) ==
    LET z == zeta[p][s] IN
    /\ m.type = "K1" /\ Routed(p, s, m)
    /\ m.to = z.cur.recv /\ m.kex = z.cur.kex
    /\ z.beta \in {"S2", "R1"}

\* The packet opens under the current key and the session may answer it as the responder.
AnswersK1(p, s, m) ==
    LET z == zeta[p][s] IN
    /\ m.type = "K1" /\ Routed(p, s, m)
    /\ m.to = z.cur.recv /\ m.kex = z.cur.kex
    /\ z.beta = "S2" \/ (z.beta = "R1" /\ z.was_bob)

ReceivedK1(p, s, m) ==
    LET z == zeta[p][s] IN
    /\ AnswersK1(p, s, m)
    /\ m.psk = z.ratchet_state1
    /\ InStorage(p, z)
    /\ fresh < MaxFresh
    /\ \E kid \in GenKid(Unmapped(session_map[p], z)) :
        LET r2 == [z EXCEPT !.beta = "R2", !.eph = m.eph,
                            !.nxt = [recv |-> kid, send |-> m.kid, kex |-> fresh + 1],
                            !.ratchet_state1 = fresh + 1, !.ratchet_state2 = z.ratchet_state1]
        IN /\ zeta' = [zeta EXCEPT ![p][s] = r2]
           /\ session_map' = [session_map EXCEPT ![p] = Remapped(@, s, z, kid)]
           /\ net' = Consume(m) \cup {K2(p, r2)}
    /\ store' = [store EXCEPT ![p] = States(fresh + 1, z.ratchet_state1)]
    /\ fresh' = fresh + 1
    /\ UNCHANGED <<b2, faults>>

\* The inner payload does not open, or storage has moved on (after remap): expired.
FaultyK1(p, s, m) ==
    LET z == zeta[p][s] IN
    /\ AnswersK1(p, s, m)
    /\ \/ /\ m.psk # z.ratchet_state1
          /\ ExpireInto(p, s, session_map[p])
       \/ /\ m.psk = z.ratchet_state1 /\ ~InStorage(p, z)
          /\ \E kid \in GenKid(Unmapped(session_map[p], z)) :
                ExpireInto(p, s, Remapped(session_map[p], s, z, kid))
    /\ net' = Consume(m)
    /\ UNCHANGED <<store, b2, fresh, faults>>

\* save_ratchet_state returns Err: the packet is dropped, remap has already happened.
UnsavedK1(p, s, m) ==
    LET z == zeta[p][s] IN
    /\ StorageErrors
    /\ AnswersK1(p, s, m)
    /\ m.psk = z.ratchet_state1
    /\ \E kid \in GenKid(Unmapped(session_map[p], z)) :
        session_map' = [session_map EXCEPT ![p] = Remapped(@, s, z, kid)]
    /\ net' = Consume(m)
    /\ UNCHANGED <<zeta, store, b2, fresh, faults>>

\* The packet opens under the current key of a session that waits for it.
AwaitsK2(p, s, m) ==
    LET z == zeta[p][s] IN
    /\ m.type = "K2" /\ Routed(p, s, m)
    /\ m.to = z.cur.recv /\ m.kex = z.cur.kex
    /\ z.beta = "R1"

ReceivedK2(p, s, m) ==
    LET z == zeta[p][s]
        rekeyed == [z EXCEPT !.nxt.send = m.kid, !.nxt.kex = m.newkex]
        s1 == [Flip(rekeyed) EXCEPT !.beta = "S1", !.ratchet_state1 = m.newkex, !.eph = None]
    IN /\ AwaitsK2(p, s, m)
       /\ m.eph = z.eph
       /\ InStorage(p, z)
       /\ zeta' = [zeta EXCEPT ![p][s] = s1]
       /\ store' = [store EXCEPT ![p] = States(m.newkex, None)]
       /\ net' = Consume(m) \cup {Control("C1", p, s1.cur)}
       /\ UNCHANGED <<session_map, b2, fresh, faults>>

FaultyK2(p, s, m) ==
    /\ AwaitsK2(p, s, m)
    /\ ~(m.eph = zeta[p][s].eph /\ InStorage(p, zeta[p][s]))
    /\ ExpireInto(p, s, session_map[p])
    /\ net' = Consume(m)
    /\ UNCHANGED <<store, b2, fresh, faults>>

-----------------------------------------------------------------------------
(* Timers: process_timers, timeout_trans *)

\* Punctual timers.  Alice gives up on X3 (initial_offer_timeout after X2 arrived) only after
\* Bob has dropped the handshake it answers (fragment_assembly_timeout after X2 was made), and
\* R2 outlasts the R1 it answers (both last rekey_timeout, R1 from the earlier moment).
GivenUp(p, z) ==
    Punctual =>
        /\ z.beta = "A3" => \A b \in b2[Remote(p)] : b.kex # z.nxt.kex
        /\ z.beta = "R2" => \A t \in Slots : LET y == zeta[Remote(p)][t]
                                             IN ~(y.beta = "R1" /\ y.eph = z.eph)

TimeoutHandshake(p, s) ==
    /\ zeta[p][s].beta \in {"A1", "A3"}
    /\ GivenUp(p, zeta[p][s])
    /\ RestartHandshake(p, s)

\* The rekey timer of S2: K1 offers a new key id.
TimeoutRekey(p, s) ==
    LET z == zeta[p][s] IN
    /\ z.beta = "S2"
    /\ fresh < MaxFresh
    /\ \E kid \in GenKid(Unmapped(session_map[p], z)) :
        LET r1 == [z EXCEPT !.beta = "R1", !.eph = fresh + 1, !.nxt.recv = kid]
        IN /\ zeta' = [zeta EXCEPT ![p][s] = r1]
           /\ session_map' = [session_map EXCEPT ![p] = Remapped(@, s, z, kid)]
           /\ net' = net \cup {K1(p, r1)}
    /\ fresh' = fresh + 1
    /\ UNCHANGED <<b2, store, faults>>

\* Mutant: a rekey that was never answered has no timeout.
TimeoutExpire_NotR1(p, s) ==
    /\ zeta[p][s].beta \in {"S1", "R2"}
    /\ GivenUp(p, zeta[p][s])
    /\ ExpireInto(p, s, session_map[p])
    /\ UNCHANGED <<b2, store, net, fresh, faults>>

\* The timeouts of S1, R1 and R2 end the session.
TimeoutExpire(p, s) ==
    /\ zeta[p][s].beta \in {"S1", "R1", "R2"}
    /\ GivenUp(p, zeta[p][s])
    /\ ExpireInto(p, s, session_map[p])
    /\ UNCHANGED <<b2, store, net, fresh, faults>>

\* The packet the resend timer of each state repeats.
ResendOf(p, z) ==
    CASE z.beta = "A1" -> {X1(p, z)}
      [] z.beta = "A3" -> {X3(p, z)}
      [] z.beta = "S1" -> {Control("C1", p, z.cur)}
      [] z.beta = "R1" -> {K1(p, z)}
      [] z.beta = "R2" -> {K2(p, z)}
      [] OTHER -> {}

Resend(p, s) ==
    /\ zeta[p][s].beta \in {"A1", "A3", "S1", "R1", "R2"}
    /\ net' = net \cup ResendOf(p, zeta[p][s])
    /\ UNCHANGED <<zeta, session_map, b2, store, fresh, faults>>

-----------------------------------------------------------------------------
(* The application and the environment *)

\* Session::expire, or the last reference dropped.
Expire(p, s) ==
    /\ faults < MaxFaults
    /\ Live(zeta[p][s])
    /\ ExpireInto(p, s, session_map[p])
    /\ faults' = faults + 1
    /\ UNCHANGED <<b2, store, net, fresh>>

\* The process restarts: only the storage survives.
Restart(p) ==
    /\ faults < MaxFaults
    /\ zeta' = [zeta EXCEPT ![p] = [s \in Slots |-> NullSession]]
    /\ session_map' = [session_map EXCEPT ![p] = [kid \in Kids |-> None]]
    /\ b2' = [b2 EXCEPT ![p] = {}]
    /\ faults' = faults + 1
    /\ UNCHANGED <<store, net, fresh>>

-----------------------------------------------------------------------------
Init ==
    /\ zeta = [p \in Peers |-> [s \in Slots |-> NullSession]]
    /\ session_map = [p \in Peers |-> [kid \in Kids |-> None]]
    /\ b2 = [p \in Peers |-> {}]
    /\ store = [p \in Peers |-> States(Empty, None)]
    /\ net = {}
    /\ fresh = 0
    /\ faults = 0

ReceiveHandshake(p) ==
    \E m \in net :
        \/ ReceivedX1(p, m)
        \/ \E b \in b2[p] : ReceivedX3(p, m, b) \/ RefusedX3(p, m, b) \/ DroppedX3(p, m, b)

ReceiveSession(p, s) ==
    \E m \in net :
        \/ ReceivedX2(p, s, m) \/ FaultyX2(p, s, m)
        \/ ReceivedC1(p, s, m) \/ StaleC1(p, s, m) \/ AcknowledgedC1(p, s, m)
        \/ ReceivedC2(p, s, m) \/ ReceivedD(p, s, m)
        \/ ReceivedK1(p, s, m) \/ FaultyK1(p, s, m) \/ UnsavedK1(p, s, m)
        \/ ReceivedK2(p, s, m) \/ FaultyK2(p, s, m)

Service(p, s) ==
    TimeoutHandshake(p, s) \/ TimeoutRekey(p, s) \/ TimeoutExpire(p, s) \/ Resend(p, s)

Next ==
    \E p \in Peers :
        \/ Open(p) \/ ReceiveHandshake(p) \/ ExpireB2(p) \/ Restart(p)
        \/ \E s \in Slots : ReceiveSession(p, s) \/ Service(p, s) \/ Expire(p, s)

Spec == Init /\ [][Next]_vars

-----------------------------------------------------------------------------
(* Properties *)

\* Every variable keeps the shape the structs of zeta.rs give it.
TypeOK ==
    /\ zeta \in [Peers -> [Slots -> Session]]
    /\ session_map \in [Peers -> [Kids -> Slots \cup {None}]]
    /\ b2 \in [Peers -> SUBSET StateB2]
    /\ store \in [Peers -> RatchetStates]
    /\ net \subseteq Packet
    /\ fresh \in 0 .. MaxFresh
    /\ faults \in 0 .. MaxFaults

\* Which keys and ratchet states a session holds in each state of the automaton.  The
\* handlers rely on it: received_c2, k1 and k2_trans unwrap the current key, received_d_trans
\* the pending one, and rekeying derives from ratchet_state1 on both sides.
ShapeOf(z) ==
    /\ z.beta = "Null" => z.cur = NoKey /\ z.nxt = NoKey
    /\ z.beta = "A1" => z.cur = NoKey /\ z.nxt.recv # None /\ z.nxt.kex = None
    /\ z.beta = "A3" => /\ z.cur = NoKey
                        /\ z.nxt.recv # None /\ z.nxt.kex = z.ratchet_state1
                        /\ z.ratchet_state2 # None
    /\ z.beta \in {"S1", "S2", "R1"} => /\ z.cur.recv # None /\ z.cur.kex = z.ratchet_state1
                                        /\ z.ratchet_state2 = None
    /\ z.beta = "R1" => z.nxt.recv # None
    /\ z.beta = "R2" => /\ z.cur.recv # None /\ z.cur.kex = z.ratchet_state2
                        /\ z.nxt.recv # None /\ z.nxt.kex = z.ratchet_state1
                        /\ z.ratchet_state2 # None
    /\ z.beta \in {"A1", "A3", "R1", "R2"} => z.eph # None
    /\ \A k \in {z.cur, z.nxt} : (k.kex = None) <=> (k.send = None)

SessionShape == \A p \in Peers, s \in Slots : ShapeOf(zeta[p][s])

\* A key id a session listens on is routed to that session and to no other: the packets the
\* peer sends under either key reach it.
KidsRouted ==
    \A p \in Peers, s \in Slots : \A kid \in RecvKids(zeta[p][s]) : session_map[p][kid] = s

\* No key id stays in the session map after its session has let go of it ("Should be
\* unreachable unless we are leaking kids somewhere", receive_payload_in_place).
NoLeakedKids ==
    \A p \in Peers, kid \in Kids :
        session_map[p][kid] # None => kid \in RecvKids(zeta[p][session_map[p][kid]])

\* Two live sessions, one on each side, that the same handshake established.
Paired(p, s, t) ==
    /\ Live(zeta[p][s]) /\ Live(zeta[Remote(p)][t])
    /\ zeta[p][s].origin # None
    /\ zeta[p][s].origin = zeta[Remote(p)][t].origin

\* Whatever a session sends under its current key can be opened by its peer right now, however
\* packets are delayed: no side drops a key the other still sends with.
SendKeyKnown ==
    \A p \in Peers, s, t \in Slots :
        LET z == zeta[p][s]
            y == zeta[Remote(p)][t]
        IN Paired(p, s, t) /\ z.beta \in {"S1", "S2", "R1", "R2"} =>
            \E k \in {y.cur, y.nxt} : k.kex = z.cur.kex /\ k.recv = z.cur.send

\* Only one side of a session answers a rekey (R2).  The other is the side that asked: it waits
\* in R1 for an answer to the very ephemeral key that was answered, or has switched to the new
\* key and waits in S1 for its confirmation ("only one peer can enter state R_2 at a time").
RekeyRoles ==
    \A p \in Peers, s, t \in Slots :
        LET z == zeta[p][s]
            y == zeta[Remote(p)][t]
        IN Paired(p, s, t) /\ z.beta = "R2" =>
            \/ y.beta = "R1" /\ y.eph = z.eph /\ y.cur.kex = z.cur.kex
            \/ y.beta = "S1" /\ y.cur.kex = z.nxt.kex

\* The handshake of a session has left the cache, so that a repeated X3 cannot install its keys,
\* and start their counters at 0, a second time ("once and only once", Context::receive).
HandshakeConsumed ==
    \A p \in Peers, s \in Slots : \A b \in b2[p] :
        zeta[p][s].was_bob => b.kex # zeta[p][s].origin

\* The older of the ratchet states in storage: the one a handshake may still be keyed with.
Oldest(states) == IF states.state2 = None THEN states.state1 ELSE states.state2

\* When neither side allows a downgrade, no peer ever goes back behind a ratchet state it has
\* given up, whichever of several pending handshakes and rekeys is completed first.  The newest
\* ratchet state may be replaced by an older one, of a handshake that was pending; the oldest
\* one never is.
StoreAdvances ==
    [][ResponderDisallowsDowngrade /\ InitiatorDisallowsDowngrade =>
        \A p \in Peers : Oldest(store'[p]) >= Oldest(store[p])]_vars

\* Both peers keep at least one ratchet state in common, so that neither has to downgrade.
CommonRatchet ==
    ({store[Alice].state1, store[Alice].state2} \cap {store[Bob].state1, store[Bob].state2})
        \ {None} # {}

\* A Hello that names a ratchet state the responder still has is answered with a remembered
\* ratchet state, not with the empty one.
RecognizedRatchetUsed ==
    [][\A p \in Peers : \A b \in b2'[p] \ b2[p] : \A m \in net :
        /\ m.type = "X1" /\ m.dst = p /\ m.eph = b.eph
        /\ ({m.rf1, m.rf2} \cap {store[p].state1, store[p].state2}) \ {Empty} # {}
        => b.ratchet_state # Empty]_vars

=============================================================================
