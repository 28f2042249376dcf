----------------------------- MODULE Reference ------------------------------
(***************************************************************************)
(* The reference implementation: one Context of reference/src/context.rs   *)
(* with the sessions of reference/src/zeta.rs, and a peer that may do      *)
(* anything.  It is single-threaded; its state is in RefCells, and what a  *)
(* test would hardly reach is a long sequence of legal calls after which a *)
(* handler unwraps a key that is not there, a RefCell is borrowed twice, a *)
(* key id leads nowhere or a session is forgotten by `service`.            *)
(*                                                                         *)
(* A packet is its type and the key id it is sent to.  Whether it opens,   *)
(* whether its counter is in the window, what the application decides and  *)
(* whether storage saves, refuses or fails is left open: all are possible  *)
(* whenever the handler gets that far.  A packet that is refused without   *)
(* an effect is no step.  Timers are abstract, except for i64::MIN.        *)
(***************************************************************************)
EXTENDS Naturals, FiniteSets

CONSTANTS
    Sessions,    \* places for an Arc<Session>
    Kids,        \* NonZeroU32 key ids
    None,        \* Option::None
    Dead,        \* a Weak whose session has been dropped
    Distinct     \* no session gets a key id that another one still remembers (see Fresh)

ASSUME ReferenceAssumption ==
    /\ None \notin Kids /\ {None, Dead} \cap Sessions = {} /\ None # Dead
    /\ Distinct \in BOOLEAN

VARIABLES
    zeta,         \* zeta[s]: the session in place s
    session_map,  \* session_map[kid]: the session that kid is routed to, Dead or None
    sessions,     \* what ctx.sessions has, the sessions that `service` visits
    b2_map,       \* the key ids of the pending StateB2
    panicked      \* the panic that has ended the program: "unwrap", "borrow", or "no"

vars == <<zeta, session_map, sessions, b2_map, panicked>>

-----------------------------------------------------------------------------
(* Values *)

\* A DuplexKey.  Its send kid and its four keys are always written together: keyed.
DuplexKey == [recv : Kids \cup {None}, keyed : BOOLEAN]
NoKey == [recv |-> None, keyed |-> FALSE]

Betas == {"Null", "A1", "A3", "S1", "S2", "R1", "R2"}

\* held: the application has the Arc.  cur and nxt are key_ref(false) and key_ref(true).
\* rs2: ratchet_state2 is Some.
\* lost is a history field: a failed save has left the pending key id without a route.
Session == [held : BOOLEAN, beta : Betas, was_bob : BOOLEAN, cur : DuplexKey, nxt : DuplexKey,
            rs2 : BOOLEAN, lost : BOOLEAN]

NoSession == [held |-> FALSE, beta |-> "Null", was_bob |-> FALSE, cur |-> NoKey, nxt |-> NoKey,
              rs2 |-> FALSE, lost |-> FALSE]

Live(z) == z.held /\ z.beta # "Null"
RecvKids(z) == {z.cur.recv, z.nxt.recv} \ {None}

-----------------------------------------------------------------------------
(* Helpers of the handlers *)

\* gen_kid looks for the key id in session_map only.  A session remembers key ids that are not
\* there: when it has expired but is still held, and when it lost a route.  A random number of
\* 32 bits meets one of them with a probability of 2^-32; Distinct leaves that out.
Fresh(kid) == Distinct => \A s \in Sessions : kid \notin RecvKids(zeta[s])

\* gen_kid.  The key id may be that of a StateB2.
GenKid(map) == {kid \in Kids : map[kid] = None /\ Fresh(kid)}

Without(map, kids) == [kid \in Kids |-> IF kid \in kids THEN None ELSE map[kid]]

\* Mutant: remap takes the route of the current key id.
Forgotten_Current(z) == z.cur.recv

\* The key id whose route remap takes away.
Forgotten(z) == z.nxt.recv

\* remap: the new key id gets the Weak of the pending one if that is routed.
Remapped(s, kid) ==
    LET old == Forgotten(zeta[s])
    IN [Without(session_map, {old}) EXCEPT
            ![kid] = IF old # None /\ session_map[old] # None THEN session_map[old] ELSE s]

Flip(z) == [z EXCEPT !.cur = z.nxt, !.nxt = z.cur]

\* What expire leaves of a session: the keys stay.
Expired(z) == [z EXCEPT !.beta = "Null"]

\* Mutant: a session that expires stays in ctx.sessions.
Forget_Never(s, map) == sessions

\* What expire leaves of ctx.sessions: whatever its key ids were routed to goes.
Forget(s, map) == sessions \ {map[kid] : kid \in RecvKids(zeta[s])}

\* expire, where neither map is borrowed.
ExpireFrom(s, map) ==
    /\ zeta' = [zeta EXCEPT ![s] = Expired(zeta[s])]
    /\ session_map' = Without(map, RecvKids(zeta[s]))
    /\ sessions' = Forget(s, map)
    /\ UNCHANGED <<b2_map, panicked>>

\* expire, called while `service` holds ctx.sessions: the second borrow_mut panics.
ExpireInService(s) ==
    /\ zeta' = [zeta EXCEPT ![s] = Expired(zeta[s])]
    /\ panicked' = "borrow"
    /\ UNCHANGED <<session_map, sessions, b2_map>>

Unwrap ==
    /\ panicked' = "unwrap"
    /\ UNCHANGED <<zeta, session_map, sessions, b2_map>>

Become(s, z) ==
    /\ zeta' = [zeta EXCEPT ![s] = z]
    /\ UNCHANGED <<session_map, sessions, b2_map, panicked>>

\* Context::receive: the session of a key id, if its Weak can be upgraded.
Routed(s, kid) == session_map[kid] = s

-----------------------------------------------------------------------------
(* Handshake *)

\* The session that offers kid, with one or two ratchet states.
Opened(kid, two) ==
    [NoSession EXCEPT !.held = TRUE, !.beta = "A1", !.nxt = [NoKey EXCEPT !.recv = kid],
                      !.rs2 = two]

\* Context::open, trans_to_a1; the application's storage has one or two ratchet states.
Open(s) ==
    /\ ~zeta[s].held
    /\ \E kid \in GenKid(session_map), two \in BOOLEAN :
        /\ zeta' = [zeta EXCEPT ![s] = Opened(kid, two)]
        /\ session_map' = [session_map EXCEPT ![kid] = s]
    /\ sessions' = sessions \cup {s}
    /\ UNCHANGED <<b2_map, panicked>>

\* received_x1_trans: a StateB2 of the same key id is replaced.
ReceivedX1 ==
    /\ \E kid \in GenKid(session_map) : b2_map' = b2_map \cup {kid}
    /\ UNCHANGED <<zeta, session_map, sessions, panicked>>

\* timeout_trans in A1 and A3: start over with another key id.
Restarted(z, kid) == [z EXCEPT !.beta = "A1", !.nxt = [NoKey EXCEPT !.recv = kid]]

RestartHandshake(s) ==
    /\ \E kid \in GenKid(Without(session_map, {Forgotten(zeta[s])})) :
        /\ zeta' = [zeta EXCEPT ![s] = Restarted(zeta[s], kid)]
        /\ session_map' = Remapped(s, kid)
    /\ UNCHANGED <<sessions, b2_map, panicked>>

\* The pending key of the handshake is there.
Completed(z) == [z EXCEPT !.beta = "A3", !.nxt = [z.nxt EXCEPT !.keyed = TRUE], !.rs2 = TRUE]

\* received_x2_trans.  A fault, a refusal to save included, starts the handshake over at once;
\* an error of storage does nothing.
ReceivedX2(s, kid) ==
    LET z == zeta[s] IN
    /\ Routed(s, kid) /\ z.beta = "A1" /\ kid = z.nxt.recv
    /\ \/ Become(s, Completed(z))
       \/ RestartHandshake(s)

\* The session of an accepted X3.
Accepted(kid) ==
    [NoSession EXCEPT !.held = TRUE, !.beta = "S1", !.was_bob = TRUE,
                      !.cur = [recv |-> kid, keyed |-> TRUE]]

\* received_x3_trans.  The StateB2 is gone whatever becomes of it.  A session is made if the
\* packet opens, the application accepts, storage saves and the key id is still free.
ReceivedX3(kid) ==
    /\ session_map[kid] \in {None, Dead}
    /\ kid \in b2_map
    /\ b2_map' = b2_map \ {kid}
    /\ \/ UNCHANGED <<zeta, session_map, sessions>>
       \/ /\ session_map[kid] = None /\ Fresh(kid)
          /\ \E s \in Sessions :
              /\ ~zeta[s].held
              /\ zeta' = [zeta EXCEPT ![s] = Accepted(kid)]
              /\ session_map' = [session_map EXCEPT ![kid] = s]
              /\ sessions' = sessions \cup {s}
    /\ UNCHANGED panicked

\* received_d_trans
ReceivedD(s, kid) ==
    LET z == zeta[s] IN
    /\ Routed(s, kid) /\ kid = z.nxt.recv /\ z.beta = "A3"
    /\ IF z.nxt.keyed THEN ExpireFrom(s, session_map) ELSE Unwrap

-----------------------------------------------------------------------------
(* Key confirmation *)

\* The pending key becomes the current one, and the second ratchet state is forgotten.
Confirmed(z) == [Flip(z) EXCEPT !.beta = "S2", !.rs2 = FALSE]

\* received_c1_trans, of a packet under the pending key.  Storage may refuse to forget
\* the second ratchet state.
ReceivedC1(s, kid) ==
    LET z == zeta[s] IN
    /\ Routed(s, kid) /\ kid = z.nxt.recv /\ z.nxt.keyed
    /\ z.beta \in {"A3", "R2"}
    /\ \/ Become(s, Confirmed(z))
       \/ z.rs2 /\ ExpireFrom(s, session_map)

\* received_c2_trans
Acknowledged(z) == [z EXCEPT !.beta = "S2"]

ReceivedC2(s, kid) ==
    LET z == zeta[s] IN
    /\ Routed(s, kid) /\ kid = z.cur.recv /\ z.beta = "S1"
    /\ IF z.cur.keyed THEN Become(s, Acknowledged(z)) ELSE Unwrap

-----------------------------------------------------------------------------
(* Rekeying *)

\* timeout_trans in S2: K1 offers a new key id.
Offering(z, kid) == [z EXCEPT !.beta = "R1", !.nxt = [z.nxt EXCEPT !.recv = kid]]

StartRekey(s) ==
    /\ \E kid \in GenKid(Without(session_map, {Forgotten(zeta[s])})) :
        /\ zeta' = [zeta EXCEPT ![s] = Offering(zeta[s], kid)]
        /\ session_map' = Remapped(s, kid)
    /\ UNCHANGED <<sessions, b2_map, panicked>>

AnswersK1(z) == z.beta = "S2" \/ (z.beta = "R1" /\ z.was_bob)

\* The new offer has a route of its own.
Answered(z, kid) ==
    [z EXCEPT !.beta = "R2", !.nxt = [recv |-> kid, keyed |-> TRUE], !.rs2 = TRUE, !.lost = FALSE]

\* The end of received_k1_trans once remap has chosen kid: storage saves, or it refuses, or
\* it fails and neither the key nor the state follow the session map.
AnswerK1(s, kid) ==
    LET z == zeta[s] IN
    \/ /\ zeta' = [zeta EXCEPT ![s] = Answered(z, kid)]
       /\ session_map' = Remapped(s, kid)
       /\ UNCHANGED <<sessions, b2_map, panicked>>
    \/ ExpireFrom(s, Remapped(s, kid))
    \/ /\ zeta' = [zeta EXCEPT ![s] = [z EXCEPT !.lost = z.lost \/ z.beta = "R1"]]
       /\ session_map' = Remapped(s, kid)
       /\ UNCHANGED <<sessions, b2_map, panicked>>

\* received_k1_trans
ReceivedK1(s, kid) ==
    LET z == zeta[s] IN
    /\ Routed(s, kid) /\ kid = z.cur.recv
    /\ AnswersK1(z)
    /\ IF ~z.cur.keyed THEN Unwrap
       ELSE \/ ExpireFrom(s, session_map)          \* the inner payload does not open
            \/ \E new \in GenKid(Without(session_map, {Forgotten(z)})) : AnswerK1(s, new)

\* Mutant: the keys of the exchange are not put into the pending place.
Rekeyed_Unkeyed(z) == z

\* The pending key once K2 has arrived.
Rekeyed(z) == [z EXCEPT !.nxt = [z.nxt EXCEPT !.keyed = TRUE]]

\* ... and becomes the current one.
Switched(z) == [Flip(Rekeyed(z)) EXCEPT !.beta = "S1"]

\* received_k2_trans
ReceivedK2(s, kid) ==
    LET z == zeta[s] IN
    /\ Routed(s, kid) /\ kid = z.cur.recv /\ z.beta = "R1"
    /\ IF ~z.cur.keyed THEN Unwrap
       ELSE \/ Become(s, Switched(z))
            \/ ExpireFrom(s, session_map)

-----------------------------------------------------------------------------
(* Application *)

\* send_payload.  A counter at its end expires the session.  The early rekey, asked for in S1,
\* only makes the timeout of that state come sooner.
SendPayload(s) ==
    LET z == zeta[s] IN
    /\ z.held /\ z.beta \in {"S1", "S2", "R1", "R2"}
    /\ \/ ExpireFrom(s, session_map)
       \/ IF z.cur.keyed THEN UNCHANGED vars ELSE Unwrap

\* The turn of a session in Context::service whose timeout is over.
ServiceTimeout(s) ==
    LET z == zeta[s] IN
    /\ s \in sessions /\ z.held
    /\ \/ z.beta \in {"A1", "A3"} /\ RestartHandshake(s)
       \/ z.beta = "S2" /\ StartRekey(s)
       \/ z.beta \in {"S1", "R1", "R2"} /\ ExpireInService(s)

\* The last Arc goes: Drop expires the session once more, and what still leads to it is dead.
Drop(s) ==
    LET routes == Without(session_map, RecvKids(zeta[s])) IN
    /\ zeta[s].held
    /\ zeta' = [zeta EXCEPT ![s] = NoSession]
    /\ session_map' = [kid \in Kids |-> IF routes[kid] = s THEN Dead ELSE routes[kid]]
    /\ sessions' = Forget(s, session_map)
    /\ UNCHANGED <<b2_map, panicked>>

-----------------------------------------------------------------------------

Init ==
    /\ zeta = [s \in Sessions |-> NoSession]
    /\ session_map = [kid \in Kids |-> None]
    /\ sessions = {}
    /\ b2_map = {}
    /\ panicked = "no"

Receive(s, kid) ==
    \/ ReceivedX2(s, kid) \/ ReceivedD(s, kid)
    \/ ReceivedC1(s, kid) \/ ReceivedC2(s, kid)
    \/ ReceivedK1(s, kid) \/ ReceivedK2(s, kid)

Next ==
    /\ panicked = "no"
    /\ \/ ReceivedX1 \/ \E kid \in Kids : ReceivedX3(kid)
       \/ \E s \in Sessions :
           \/ Open(s) \/ SendPayload(s) \/ ServiceTimeout(s) \/ Drop(s)
           \/ \E kid \in Kids : Receive(s, kid)

Spec == Init /\ [][Next]_vars

-----------------------------------------------------------------------------
(* Properties *)

\* Every variable keeps the shape the structs of zeta.rs and context.rs give it.
TypeOK ==
    /\ zeta \in [Sessions -> Session]
    /\ session_map \in [Kids -> Sessions \cup {None, Dead}]
    /\ sessions \subseteq Sessions
    /\ b2_map \subseteq Kids
    /\ panicked \in {"no", "unwrap", "borrow"}

\* No sequence of packets, timeouts, failures of storage and calls has received_c2_trans,
\* received_d_trans, received_k1_trans, received_k2_trans or send_payload unwrap a key that
\* the session does not have.
HandlersFindKeys == panicked # "unwrap"

\* ctx.sessions has the sessions that are alive and no other, although it is kept by what the
\* key ids of an expiring session happen to be routed to: none is forgotten by `service`, and
\* none that is gone is visited.
LiveSessionsServed == panicked = "no" => sessions = {s \in Sessions : Live(zeta[s])}

\* The key id that the packet a session waits for is sent to: X2 in A1, C1 in A3 and R2, C2 in
\* S1, K1 in S2, K2 in R1 - and there the peer's next C2, to the key id it offered.
Awaited(z) ==
    CASE z.beta \in {"A1", "A3"} -> {z.nxt.recv}
      [] z.beta \in {"R1", "R2"} -> {z.cur.recv, z.nxt.recv}
      [] OTHER -> {z.cur.recv}

\* The packet a live session waits for finds it, unless storage failed while it answered a K1
\* with a rekey of its own under way: remap has taken the route of its own offer by then.
AwaitedPacketRouted ==
    \A s \in Sessions : Live(zeta[s]) /\ ~zeta[s].lost =>
        \A kid \in Awaited(zeta[s]) : kid # None /\ session_map[kid] = s

=============================================================================
