--------------------------- MODULE ZetaAgreement ----------------------------
(***************************************************************************)
(* The two ends of every session that Zeta establishes implement           *)
(* KeyAgreement, and a session whose other end is gone does not linger.    *)
(*                                                                         *)
(* A session is known by its origin, the handshake that established it.    *)
(* The key it sends with is its current one, from the moment it has one;   *)
(* the pending key counts once its keys are there: in A3 and in R2.        *)
(***************************************************************************)
EXTENDS Zeta

\* The session of peer p that handshake o established, or NullSession.
SessionOf(p, o) ==
    IF \E s \in Slots : Live(zeta[p][s]) /\ zeta[p][s].origin = o
    THEN zeta[p][CHOOSE s \in Slots : Live(zeta[p][s]) /\ zeta[p][s].origin = o]
    ELSE NullSession

\* The key the session at p sends with, and the other one it opens packets with.
KeyOf(o, p) == SessionOf(p, o).cur.kex
PendingOf(o, p) ==
    IF SessionOf(p, o).beta \in {"A3", "R2"} THEN SessionOf(p, o).nxt.kex ELSE None

Agreement == INSTANCE KeyAgreement
    WITH Sessions <- Secrets, Ends <- Peers, Keys <- Secrets, NoKeyYet <- None,
         key <- [o \in Secrets |-> [p \in Peers |-> KeyOf(o, p)]],
         pending <- [o \in Secrets |-> [p \in Peers |-> PendingOf(o, p)]]

\* Every session changes keys as KeyAgreement says, through lost, repeated, delayed and
\* reordered packets and when both sides start a rekey at once: an end switches only to a key
\* the other one has, one rekey is under way at a time and none goes back to an older key.
KeysAgreed == Agreement!AgreementSpec

-----------------------------------------------------------------------------

\* The timeouts that `service` runs through timeout_trans.
Timeout(p, s) == TimeoutHandshake(p, s) \/ TimeoutRekey(p, s) \/ TimeoutExpire(p, s)

\* The application calls `service` and time goes by: a timeout timer that runs does run out.
FairSpec == Spec /\ \A p \in Peers, s \in Slots : WF_vars(Timeout(p, s))

\* The session's other end is gone and can no longer come out of the handshake cache.
HalfOpen(p, s) ==
    LET z == zeta[p][s] IN
    /\ Live(z) /\ z.origin # None
    /\ SessionOf(Remote(p), z.origin) = NullSession
    /\ \A b \in b2[Remote(p)] : b.kex # z.origin

\* A bound of the model, on secrets or on key ids, keeps the session's timer from running out.
AtBound(p, s) ==
    /\ zeta[p][s].beta \in {"A3", "S2"}
    /\ fresh = MaxFresh \/ GenKid(Unmapped(session_map[p], zeta[p][s])) = {}

\* A session whose other end is gone (a handshake that an error in received_x3_trans has used
\* up, a rekey that failed on one side, a lost rejection) does not stay: its timers end it or
\* start its handshake over, whatever packets still arrive.
HalfOpenEnds ==
    \A p \in Peers, s \in Slots : HalfOpen(p, s) ~> (~HalfOpen(p, s) \/ AtBound(p, s))

=============================================================================
