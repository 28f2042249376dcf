---------------------------- MODULE KeyAgreement ----------------------------
(***************************************************************************)
(* What the Zeta automaton promises about the keys of its sessions: the    *)
(* two ends of a session change keys one after the other, and neither      *)
(* sends with a key that the other end could not open.                     *)
(*                                                                         *)
(* An end sends with its key and also opens what comes under its pending   *)
(* one.  A new key is held by one end first; then the other end switches   *)
(* to it; and only when it has may the first end follow and the next key   *)
(* come.  An end may leave at any time, and the other is on its own then.  *)
(***************************************************************************)
EXTENDS Naturals

CONSTANTS
    Sessions,   \* the sessions there can be
    Ends,       \* the two ends of each
    Keys,       \* numbered in the order they are made
    NoKeyYet

VARIABLES
    key,        \* key[o][e]: what end e of session o sends with
    pending     \* pending[o][e]: the key that end holds beside it

agreementVars == <<key, pending>>

Other(e) == CHOOSE f \in Ends : f # e
Absent(o, e) == key[o][e] = NoKeyYet /\ pending[o][e] = NoKeyYet

\* A key later than the one the end has.
Newer(o, e, k) == key[o][e] = NoKeyYet \/ k > key[o][e]

\* Nothing of the session changes at this end.
Stays(o, e) == key'[o][e] = key[o][e] /\ pending'[o][e] = pending[o][e]

\* The ends have not met yet, or are in agreement.
AgreementInit ==
    \A o \in Sessions, e \in Ends :
        pending[o][e] = NoKeyYet /\ key[o][e] = key[o][Other(e)]

\* Hold a new key: the ends agree on the old one and no other is under way.
Offer(o, e, k) ==
    /\ Absent(o, Other(e)) \/ (key[o][Other(e)] = key[o][e] /\ pending[o][Other(e)] = NoKeyYet)
    /\ pending[o][e] = NoKeyYet /\ Newer(o, e, k)
    /\ pending'[o][e] = k /\ key'[o][e] = key[o][e]

\* Switch to the key the other end holds.
Adopt(o, e, k) ==
    /\ Absent(o, Other(e)) \/ pending[o][Other(e)] = k
    /\ pending[o][e] = NoKeyYet /\ Newer(o, e, k)
    /\ key'[o][e] = k /\ pending'[o][e] = NoKeyYet

\* Switch to the key the other end has switched to.
Follow(o, e) ==
    /\ pending[o][e] # NoKeyYet
    /\ Absent(o, Other(e)) \/ key[o][Other(e)] = pending[o][e]
    /\ key'[o][e] = pending[o][e] /\ pending'[o][e] = NoKeyYet

Leave(o, e) == key'[o][e] = NoKeyYet /\ pending'[o][e] = NoKeyYet

\* One end of a session acts.  A peer that restarts leaves several sessions at once, and one
\* that accepts a session may leave the others.
AgreementNext ==
    \E e \in Ends : \A o \in Sessions :
        /\ Stays(o, Other(e))
        /\ \/ Stays(o, e) \/ Follow(o, e) \/ Leave(o, e)
           \/ \E k \in Keys : Offer(o, e, k) \/ Adopt(o, e, k)

AgreementSpec == AgreementInit /\ [][AgreementNext]_agreementVars

=============================================================================
