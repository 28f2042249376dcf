---------------------------- MODULE MCReference -----------------------------
(***************************************************************************)
(* The reference implementation: its sessions, and one of its buffers for  *)
(* fragments.  A packet reaches a handler of Reference whatever happened   *)
(* to its fragments, and a DefragBuffer knows nothing of sessions, so that *)
(* the behaviours of one and of the other are looked at in turn.           *)
(***************************************************************************)
EXTENDS Reference, DefragBuffer, TLC

VARIABLE layer     \* "zeta" or "fragments"

Symmetry == Permutations(Sessions) \cup Permutations(Kids)

MCInit ==
    /\ layer \in {"zeta", "fragments"}
    /\ Init
    /\ DefragInit

MCNext ==
    \/ layer = "zeta" /\ Next /\ UNCHANGED <<layer, defragVars>>
    \/ layer = "fragments" /\ DefragNext /\ UNCHANGED <<layer, vars>>

MCSpec == MCInit /\ [][MCNext]_<<vars, defragVars, layer>>

=============================================================================
