------------------------------- MODULE MCZeta -------------------------------
(***************************************************************************)
(* Instances of Zeta for TLC.                                              *)
(***************************************************************************)
EXTENDS ZetaAgreement, TLC

Symmetry == Permutations(Kids) \cup Permutations(Slots)

-----------------------------------------------------------------------------
(* A reachable state to start from: Alice has opened a session, the handshake went through and *)
(* was confirmed, and its packets are still around.  It puts two rekeys, or a rekey and another *)
(* handshake, within the bounds.                                                               *)

EstablishedSession(bob, kid) ==
    [NullSession EXCEPT !.beta = "S2", !.was_bob = bob, !.ratchet_state1 = 2, !.origin = 2,
                        !.cur = [recv |-> kid, send |-> kid, kex |-> 2]]

EstablishedInit ==
    LET s   == CHOOSE slot \in Slots : TRUE
        kid == CHOOSE k \in Kids : TRUE
        b   == [ratchet_state |-> Empty, kid_send |-> kid, kid_recv |-> kid, eph |-> 1, kex |-> 2]
        a1  == [NullSession EXCEPT !.beta = "A1", !.eph = 1, !.nxt.recv = kid]
        a3  == [a1 EXCEPT !.beta = "A3", !.nxt = [recv |-> kid, send |-> kid, kex |-> 2]]
    IN /\ zeta = [p \in Peers |-> [t \in Slots |->
                    IF t = s THEN EstablishedSession(p = Bob, kid) ELSE NullSession]]
       /\ session_map = [p \in Peers |-> [k \in Kids |-> IF k = kid THEN s ELSE None]]
       /\ b2 = [p \in Peers |-> {}]
       /\ store = [p \in Peers |-> States(2, None)]
       /\ net = {X1(Alice, a1), X2(Bob, b), X3(Alice, a3)}
       /\ fresh = 2
       /\ faults = 0

EstablishedSpec == EstablishedInit /\ [][Next]_vars
=============================================================================
