----------------------------- MODULE MCReceive ------------------------------
(***************************************************************************)
(* What a fragment passes in Context::receive before a handler sees the    *)
(* packet: the defragmenter of its session or the one for fragments that   *)
(* have no session, by its key id, and, for a Hello, the challenge.  They  *)
(* share nothing, so that a behaviour of all three is one of each,         *)
(* interleaved: it is enough to look at the behaviours of each.            *)
(***************************************************************************)
EXTENDS Challenge, FragCache, Fragged

VARIABLE stage

Moved(f) == {x \in DOMAIN f : f[x] # x}

\* Two packets and the two addresses change places, together: no part has both sets.
Symmetry == {f @@ g : f \in {h \in Permutations(Packets) : Cardinality(Moved(h)) = 2},
                      g \in {h \in Permutations(Addresses) : Moved(h) # {}}}

MCInit ==
    /\ stage \in {"unassociated", "associated", "hello"}
    /\ FragCacheInit
    /\ stage # "unassociated" => places = [p \in Packets |-> <<0, 1>>]      \* not used there
    /\ FraggedInit
    /\ Init
    /\ stage # "hello" => address = [a \in Clients |-> CHOOSE p \in Addresses : TRUE]   \* not used there

MCNext ==
    \/ stage = "unassociated" /\ FragCacheNext /\ UNCHANGED <<stage, fraggedVars, vars>>
    \/ stage = "associated" /\ FraggedNext /\ UNCHANGED <<stage, fragCacheVars, vars>>
    \/ stage = "hello" /\ Next /\ UNCHANGED <<stage, fragCacheVars, fraggedVars>>

MCSpec == MCInit /\ [][MCNext]_<<fragCacheVars, fraggedVars, vars, stage>>

=============================================================================
