----------------------------- MODULE MCThreads ------------------------------
(***************************************************************************)
(* What the threads of one process share: the locks of the context and of  *)
(* its sessions (Locks), the send counter and timers of a session          *)
(* (Transport) and its receive window (AntiReplay).  The three modules     *)
(* have no variable in common, so that a behaviour of all of them is one   *)
(* of each, interleaved: it is enough to look at the behaviours of each.   *)
(***************************************************************************)
EXTENDS AntiReplay, Locks, Transport

VARIABLE part     \* the module whose steps are taken

MCInit ==
    /\ part \in {"locks", "send", "receive"}
    /\ LocksInit
    /\ AntiReplayInit
    /\ Init
    /\ part # "send" => ~was_bob      \* not used there

MCNext ==
    \/ part = "locks" /\ LocksNext /\ UNCHANGED <<part, vars, antiReplayVars>>
    \/ part = "send" /\ Next /\ UNCHANGED <<part, locksVars, antiReplayVars>>
    \/ part = "receive" /\ AntiReplayNext /\ UNCHANGED <<part, locksVars, vars>>

\* Where Locks takes no step its threads are in no operation, and its fairness asks nothing.
MCSpec == MCInit /\ [][MCNext]_<<part, vars, locksVars, antiReplayVars>> /\ LocksFairness

=============================================================================
