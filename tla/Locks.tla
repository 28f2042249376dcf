------------------------------- MODULE Locks --------------------------------
(***************************************************************************)
(* The locks of performance/src/zssp.rs and zeta.rs: session_queue and     *)
(* session_map of the context, state_machine_lock and state of a session.  *)
(* The documented order is                                                 *)
(*     session_queue -> state_machine_lock -> state -> session_map.        *)
(*                                                                         *)
(* An operation of the API is the sequence of lock instructions it runs    *)
(* through, guards being released where they go out of scope or are        *)
(* dropped; its branches are different sequences.  Locks that are innermost*)
(* wherever they are taken (rng, the defragmentation buffers, the caches)  *)
(* cannot be part of a deadlock and are left out, as are the locks of a    *)
(* session that no other thread knows of yet.  Three operations leave the  *)
(* order; a thread that runs one of them is disorderly.                    *)
(***************************************************************************)
EXTENDS Naturals, Sequences, FiniteSets, Process

CONSTANTS
    Sessions,       \* sessions the threads work on
    Unordered       \* which of the operations that leave the order run: all of them in the code

LeavesOrder == {"ReceivedX3", "RespondToChallenge", "DropInService"}

ASSUME LocksAssumption == Unordered \subseteq LeavesOrder /\ None \notin Threads

VARIABLES
    prog,        \* prog[t]: the lock instructions thread t has before it
    readers,     \* readers[l]: the threads that hold lock l for reading
    writer,      \* writer[l]: the thread that holds lock l for writing, or None
    pending,     \* pending[l]: the thread that waits for the readers of l to leave, or None
    disorderly   \* history: the threads whose operation is one that leaves the order

locksVars == <<prog, readers, writer, pending, disorderly>>

-----------------------------------------------------------------------------
(* The operations *)

Queue == <<"session_queue", None>>
Map == <<"session_map", None>>
StateMachine(s) == <<"state_machine_lock", s>>
State(s) == <<"state", s>>

LockNames == {Queue, Map} \cup {StateMachine(s) : s \in Sessions} \cup {State(s) : s \in Sessions}

Instr(op, l, mode) == [op |-> op, lock |-> l, mode |-> mode]

\* body runs while lock l is held.
Holding(l, mode, body) == <<Instr("Lock", l, mode)>> \o body \o <<Instr("Unlock", l, mode)>>

Mutex(l, body) == Holding(l, "Write", body)
Read(l, body) == Holding(l, "Read", body)
Write(l, body) == Holding(l, "Write", body)

\* remap, with the caller's read guard on state.
Remap == Write(Map, <<>>)

\* expire_inner: inside the queue lock its caller holds.
ExpireInner(s) == Mutex(StateMachine(s), Write(State(s), Write(Map, <<>>)))

\* Mutant: the session is expired before the queue is locked.
SessionExpire_Reordered(s) == Mutex(StateMachine(s), Mutex(Queue, Write(State(s), Write(Map, <<>>))))

\* Session::expire, which is Drop for Session too.
SessionExpire(s) == Mutex(Queue, ExpireInner(s))

\* Context::open: trans_to_a1.
TransToA1 == Mutex(Queue, Write(Map, <<>>))

\* Mutant: the read guard is not dropped before the state is locked for writing.
Transition_KeepsGuard(s, remapped) ==
    Mutex(StateMachine(s), Read(State(s), remapped \o Write(State(s), <<>>)))

\* What the handlers of a session do once their packet is found to be valid: they look at
\* the state, maybe draw a new key id, and enter the next state.
Transition(s, remapped) == Mutex(StateMachine(s), Read(State(s), remapped) \o Write(State(s), <<>>))

\* Context::receive up to the handler: it finds the session and reads its header key.
Lookup(s) == Read(Map, <<>>) \o Read(State(s), <<>>)

\* A C1 that confirms nothing new: kex_lock is dropped, the read guard kept for the answer.
HandOver(s) ==
    <<Instr("Lock", StateMachine(s), "Write"), Instr("Lock", State(s), "Read"),
      Instr("Unlock", StateMachine(s), "Write"), Instr("Unlock", State(s), "Read")>>

\* A transition, the new priority, and an answer that reads the state again.
Answered(s, remapped) == (Transition(s, remapped) \o Mutex(Queue, <<>>)) \o Read(State(s), <<>>)

\* The ends of received_x2, c1, c2, d, k1 and k2_trans, without what expires the session.
Handlers(s) ==
    {Mutex(StateMachine(s), Read(State(s), <<>>)),                           \* refused, D
     Mutex(StateMachine(s), Read(State(s), Remap)),                          \* K1, save refused
     HandOver(s),                                                            \* C1 known
     Transition(s, <<>>) \o Mutex(Queue, <<>>),                              \* C2
     Answered(s, <<>>),                                                      \* X2, C1, K2
     Answered(s, Remap),                                                     \* K1
     Mutex(StateMachine(s), Read(State(s), <<>>)) \o Transition(s, Remap)}   \* X2, failed

\* Context::receive on a packet of a session; a data packet needs no handler.  A handler that
\* was refused a save, got a D or has no counter left expires the session at its end.
ReceiveLocks(s) ==
    {Lookup(s)} \cup {Lookup(s) \o h : h \in Handlers(s)}
                \cup {(Lookup(s) \o h) \o SessionExpire(s) : h \in Handlers(s)}

\* send_payload: sent, sent and a rekey wanted, counter exhausted.
SendPayloadLocks(s) ==
    {Read(State(s), <<>>),
     Read(State(s), <<>>) \o Write(State(s), <<>>) \o Mutex(Queue, <<>>),
     Read(State(s), <<>>) \o SessionExpire(s)}

\* process_timers: nothing or a resend, a new handshake, a rekey, the end of the session.
ProcessTimers(s) ==
    {Mutex(StateMachine(s), Read(State(s), <<>>)),
     Transition(s, Remap),
     Transition(s, Remap) \o Read(State(s), <<>>)}

\* service_inner with session s at the head of the queue.
ServiceLocks(s) == {Mutex(Queue, p) : p \in ProcessTimers(s)}
                   \cup {Mutex(Queue, p \o ExpireInner(s)) : p \in ProcessTimers(s)}

\* service_inner when the application has dropped its last Arc in the meantime: the one
\* upgraded for this iteration is then the last, and dropping it runs Session::expire.
DropInService(s) == {Mutex(Queue, p \o SessionExpire(s)) : p \in ProcessTimers(s)}

\* Context::receive of an X3: the new session goes into the map and the queue.
ReceivedX3 == Read(Map, <<>>) \o Write(Map, Mutex(Queue, <<>>))

\* Context::receive of a challenge: the read guard on the map lives as long as the if-let.
RespondToChallenge(s) == Read(Map, Write(State(s), <<>>))

\* Context::receive of an X1: gen_kid under the read lock.
ReceivedX1 == Read(Map, <<>>)

OrderedPrograms ==
    {TransToA1, ReceivedX1}
    \cup UNION {ReceiveLocks(s) \cup SendPayloadLocks(s) \cup ServiceLocks(s) \cup {SessionExpire(s)} :
                    s \in Sessions}

UnorderedPrograms ==
    {p \in {ReceivedX3} : "ReceivedX3" \in Unordered}
    \cup {RespondToChallenge(s) : s \in {q \in Sessions : "RespondToChallenge" \in Unordered}}
    \cup UNION {DropInService(s) : s \in {q \in Sessions : "DropInService" \in Unordered}}

-----------------------------------------------------------------------------
(* parking_lot: a mutex is a lock that is only written.  A writer that waits for *)
(* readers to leave keeps new readers out.                                       *)

LocksInit ==
    /\ prog = [t \in Threads |-> <<>>]
    /\ readers = [l \in LockNames |-> {}]
    /\ writer = [l \in LockNames |-> None]
    /\ pending = [l \in LockNames |-> None]
    /\ disorderly = {}

\* The application calls an operation.
Call(t) ==
    /\ prog[t] = <<>>
    /\ \/ /\ \E p \in OrderedPrograms : prog' = [prog EXCEPT ![t] = p]
          /\ disorderly' = disorderly \ {t}
       \/ /\ \E p \in UnorderedPrograms : prog' = [prog EXCEPT ![t] = p]
          /\ disorderly' = disorderly \cup {t}
    /\ UNCHANGED <<readers, writer, pending>>

At(t, op, l, mode) == prog[t] # <<>> /\ Head(prog[t]) = Instr(op, l, mode)
Advance(t) == prog' = [prog EXCEPT ![t] = Tail(@)]

LockRead(t, l) ==
    /\ At(t, "Lock", l, "Read")
    /\ writer[l] = None /\ pending[l] = None
    /\ readers' = [readers EXCEPT ![l] = @ \cup {t}]
    /\ Advance(t)
    /\ UNCHANGED <<writer, pending, disorderly>>

LockWrite(t, l) ==
    /\ At(t, "Lock", l, "Write")
    /\ writer[l] = None /\ pending[l] \in {None, t} /\ readers[l] = {}
    /\ writer' = [writer EXCEPT ![l] = t]
    /\ pending' = [pending EXCEPT ![l] = None]
    /\ Advance(t)
    /\ UNCHANGED <<readers, disorderly>>

WaitForReaders(t, l) ==
    /\ At(t, "Lock", l, "Write")
    /\ writer[l] = None /\ pending[l] = None /\ readers[l] # {}
    /\ pending' = [pending EXCEPT ![l] = t]
    /\ UNCHANGED <<prog, readers, writer, disorderly>>

Unlock(t, l) ==
    /\ \/ /\ At(t, "Unlock", l, "Read")
          /\ readers' = [readers EXCEPT ![l] = @ \ {t}]
          /\ UNCHANGED writer
       \/ /\ At(t, "Unlock", l, "Write")
          /\ writer' = [writer EXCEPT ![l] = None]
          /\ UNCHANGED readers
    /\ Advance(t)
    /\ UNCHANGED <<pending, disorderly>>

Step(t) == \E l \in LockNames : LockRead(t, l) \/ LockWrite(t, l) \/ WaitForReaders(t, l) \/ Unlock(t, l)

LocksNext == \E t \in Threads : Call(t) \/ Step(t)

LocksSpec == LocksInit /\ [][LocksNext]_locksVars

\* parking_lot's locks are eventually fair: a thread that can take a lock again and again
\* is at last given it.
LocksFairness == \A t \in Threads : SF_locksVars(Step(t))

-----------------------------------------------------------------------------

\* The threads that thread t, at the instruction it stands before, has to wait for.
BlockedBy(t) ==
    LET l == Head(prog[t]).lock IN
    IF prog[t] = <<>> \/ Head(prog[t]).op = "Unlock" THEN {}
    ELSE (({writer[l], pending[l]} \ {None}) \ (IF pending[l] = t THEN {t} ELSE {}))
         \cup (IF Head(prog[t]).mode = "Write" THEN readers[l] ELSE {})

\* Each of the threads T waits for one of them.
Deadlocked(T) == T # {} /\ \A t \in T : BlockedBy(t) \cap T # {}

\* No set of threads of the application waits for itself, whatever operations they run on
\* whatever sessions: the documented lock order prevents deadlock.
DeadlockFree == \A T \in SUBSET Threads : ~Deadlocked(T)

\* The lock order (zssp.rs:60, zeta.rs:46) is sound and the operations that keep it cannot
\* deadlock on their own: a set of threads that wait for each other has a thread among it that
\* runs received_x3_trans, respond_to_challenge or a drop inside service.
OrderPreventsDeadlock == \A T \in SUBSET Threads : Deadlocked(T) => T \cap disorderly # {}

\* Every operation that is called returns, however often the other threads take the locks it
\* wants, unless one of the three operations above has become part of a deadlock.
OperationsReturn ==
    \A t \in Threads :
        prog[t] # <<>> ~> \/ prog[t] = <<>>
                          \/ \E T \in SUBSET Threads : Deadlocked(T) /\ T \cap disorderly # {}

=============================================================================
