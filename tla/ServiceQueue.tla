---------------------------- MODULE ServiceQueue ----------------------------
(***************************************************************************)
(* How performance/src/zssp.rs finds out when to do what: the session      *)
(* queue, the two timers of every session, the cache of responder          *)
(* handshakes (handshake_cache.rs), the fragments of unassociated packets  *)
(* and next_service_time, the moment at which the application is told to   *)
(* call Context::service again.                                            *)
(*                                                                         *)
(* Handlers change a session's timers under its locks, then its priority   *)
(* under the lock of the queue, then next_service_time, then send their    *)
(* answer, and other threads run in between.  Of the automaton only what   *)
(* the timers depend on is left: "Waiting" is a state that resends (A1,    *)
(* A3, S1, R1, R2).                                                        *)
(***************************************************************************)
EXTENDS IndexedHeap, FiniteSetsExt

CONSTANTS
    Threads, Sessions, None,
    Kids,              \* key ids offered to initiators
    MaxTime,           \* bound: the clock
    ResendTime,        \* Settings.resend_time
    WaitTimeout,       \* Settings.initial_offer_timeout, rekey_timeout
    RekeyAfterTime,    \* Settings.rekey_after_time, less its jitter
    AssemblyTimeout,   \* Settings.fragment_assembly_timeout
    CacheSize          \* MAX_UNASSOCIATED_HANDSHAKE_STATES

ASSUME ServiceQueueAssumption ==
    /\ {MaxTime, ResendTime, WaitTimeout, RekeyAfterTime, AssemblyTimeout, CacheSize} \subseteq Nat \ {0}
    /\ None \notin Threads \cup Kids

VARIABLES
    clock,
    sess,               \* sess[s]: what the session in Arc s holds
    queue,              \* session_queue
    queue_lock,         \* the thread that services the queue, or None
    next_service_time,
    cache,              \* the slots of the handshake cache
    has_pending,
    frags,              \* creation times of the entries of the fragment cache
    thread              \* thread[t]: what t does next

vars == <<clock, sess, queue, queue_lock, next_service_time, cache, has_pending, frags, thread>>

MIN == 0                                                      \* i64::MIN
MAX == MaxTime + Max({ResendTime, WaitTimeout, RekeyAfterTime, AssemblyTimeout}) + 1   \* i64::MAX

Earlier(a, b) == IF a <= b THEN a ELSE b

Idle == [at |-> "Idle"]
Goto(t, place) == thread' = [thread EXCEPT ![t] = place]

Unopened == [beta |-> "None", alive |-> FALSE, resend_timer |-> MAX, timeout_timer |-> MAX,
             queue_idx |-> [slot |-> 0, gen |-> 0]]

Live(s) == sess[s].beta \in {"Waiting", "S2"}

\* The timers of a state entered at time now.
Waiting(z, now) ==
    [z EXCEPT !.beta = "Waiting", !.resend_timer = now + ResendTime, !.timeout_timer = now + WaitTimeout]
Established(z, now) ==
    [z EXCEPT !.beta = "S2", !.resend_timer = MAX, !.timeout_timer = now + RekeyAfterTime]
Expired(z) == [z EXCEPT !.beta = "Null", !.resend_timer = MAX, !.timeout_timer = MAX]

-----------------------------------------------------------------------------
(* Sessions *)

\* trans_to_a1 and received_x3_trans: all of it inside the lock of the queue.
Open(t, s) ==
    LET idx == ReservedIndex(queue)
        z   == [Waiting(sess[s], clock) EXCEPT !.alive = TRUE, !.queue_idx = idx]
    IN /\ thread[t] = Idle /\ queue_lock = None
       /\ sess[s].beta = "None"
       /\ sess' = [sess EXCEPT ![s] = z]
       /\ queue' = PushReserved(ReserveIndex(queue), idx, s, z.resend_timer)
       /\ next_service_time' = Earlier(next_service_time, z.resend_timer)
       /\ UNCHANGED <<clock, queue_lock, cache, has_pending, frags, thread>>

\* received_x2, k1 and k2_trans up to the end of their write section.
EnterWaiting(t, s) ==
    /\ thread[t] = Idle
    /\ sess[s].alive /\ Live(s)
    /\ sess' = [sess EXCEPT ![s] = Waiting(@, clock)]
    /\ Goto(t, [at |-> "Queue", session |-> s, time |-> clock + ResendTime])
    /\ UNCHANGED <<clock, queue, queue_lock, next_service_time, cache, has_pending, frags>>

\* received_c1_trans and received_c2_trans, likewise.
EnterS2(t, s) ==
    /\ thread[t] = Idle
    /\ sess[s].alive /\ sess[s].beta = "Waiting"
    /\ sess' = [sess EXCEPT ![s] = Established(@, clock)]
    /\ Goto(t, [at |-> "Queue", session |-> s, time |-> clock + RekeyAfterTime])
    /\ UNCHANGED <<clock, queue, queue_lock, next_service_time, cache, has_pending, frags>>

\* send_payload finds in S2 that it is time to rekey ...
WantRekey(t, s) ==
    /\ thread[t] = Idle
    /\ sess[s].alive /\ sess[s].beta = "S2"
    /\ Goto(t, [at |-> "Early", session |-> s])
    /\ UNCHANGED <<clock, sess, queue, queue_lock, next_service_time, cache, has_pending, frags>>

\* ... and ends the state early, after it dropped the lock it read the state under.
TriggerRekey(t) ==
    /\ thread[t].at = "Early"
    /\ sess' = [sess EXCEPT ![thread[t].session].timeout_timer = MIN]
    /\ Goto(t, [at |-> "Queue", session |-> thread[t].session, time |-> MIN])
    /\ UNCHANGED <<clock, queue, queue_lock, next_service_time, cache, has_pending, frags>>

\* ctx.session_queue.lock().change_priority(..)
Requeue(t) ==
    /\ thread[t].at = "Queue" /\ queue_lock = None
    /\ queue' = ChangePriority(queue, sess[thread[t].session].queue_idx, thread[t].time)
    /\ Goto(t, [thread[t] EXCEPT !.at = "Reduce"])
    /\ UNCHANGED <<clock, sess, queue_lock, next_service_time, cache, has_pending, frags>>

\* reduce_next_service_time
Reduce(t) ==
    /\ thread[t].at = "Reduce"
    /\ next_service_time' = Earlier(next_service_time, thread[t].time)
    /\ Goto(t, Idle)
    /\ UNCHANGED <<clock, sess, queue, queue_lock, cache, has_pending, frags>>

\* Session::expire, called by the application or by a handler.
Expire(t, s) ==
    /\ thread[t] = Idle /\ queue_lock = None
    /\ sess[s].alive /\ Live(s)
    /\ sess' = [sess EXCEPT ![s] = Expired(@)]
    /\ queue' = RemoveIndex(queue, sess[s].queue_idx)
    /\ UNCHANGED <<clock, queue_lock, next_service_time, cache, has_pending, frags, thread>>

\* The last Arc goes away: from now on the Weak in the queue cannot be upgraded ...
DropLast(t, s) ==
    /\ thread[t] = Idle
    /\ sess[s].alive 
    /\ ~\E u \in Threads : thread[u].at \in {"Early", "Queue"} /\ thread[u].session = s
    /\ sess' = [sess EXCEPT ![s].alive = FALSE]
    /\ Goto(t, [at |-> "Drop", session |-> s])
    /\ UNCHANGED <<clock, queue, queue_lock, next_service_time, cache, has_pending, frags>>

\* ... and Drop for Session waits for the lock of the queue.
Drop(t) ==
    LET s == thread[t].session IN
    /\ thread[t].at = "Drop" /\ queue_lock = None
    /\ sess' = [sess EXCEPT ![s] = Expired(@)]
    /\ queue' = IF Live(s) THEN RemoveIndex(queue, sess[s].queue_idx) ELSE queue
    /\ Goto(t, Idle)
    /\ UNCHANGED <<clock, queue_lock, next_service_time, cache, has_pending, frags>>

-----------------------------------------------------------------------------
(* The handshake cache and the fragment cache *)

Vacant == [local_id |-> None, expiry |-> 0]

\* insert: the first slot that is free or expired, unless the key id comes before it; the
\* first slot of all if there is none.
InsertSlot(kid) ==
    LET usable == {i \in 1 .. CacheSize : cache[i].local_id = None \/ cache[i].expiry <= clock}
        same   == {i \in 1 .. CacheSize : cache[i].local_id = kid}
        first  == IF usable = {} THEN CacheSize + 1 ELSE Min(usable)
    IN IF \E i \in same : i < first THEN 0 ELSE IF usable = {} THEN 1 ELSE first

InsertHandshake(t, kid) ==
    /\ thread[t] = Idle
    /\ InsertSlot(kid) # 0
    /\ cache' = [cache EXCEPT ![InsertSlot(kid)] = [local_id |-> kid, expiry |-> clock + AssemblyTimeout]]
    /\ has_pending' = TRUE
    /\ Goto(t, [at |-> "Reduce", time |-> clock + AssemblyTimeout])
    /\ UNCHANGED <<clock, sess, queue, queue_lock, next_service_time, frags>>

RemoveHandshake(t, kid) ==
    LET same == {i \in 1 .. CacheSize : cache[i].local_id = kid} IN
    /\ thread[t] = Idle
    /\ same # {}
    /\ cache' = [cache EXCEPT ![Min(same)] = Vacant]
    /\ UNCHANGED <<clock, sess, queue, queue_lock, next_service_time, has_pending, frags, thread>>

\* The first fragment of a packet; FragCache has the rest.
AddFragment(t) ==
    /\ thread[t] = Idle
    /\ frags' = frags \cup {clock}
    /\ Goto(t, [at |-> "Reduce", time |-> clock + AssemblyTimeout])
    /\ UNCHANGED <<clock, sess, queue, queue_lock, next_service_time, cache, has_pending>>

CompleteFragments(t) ==
    /\ thread[t] = Idle
    /\ \E f \in frags : frags' = frags \ {f}
    /\ UNCHANGED <<clock, sess, queue, queue_lock, next_service_time, cache, has_pending, thread>>

-----------------------------------------------------------------------------
(* service_inner *)

StartService(t) ==
    /\ thread[t] = Idle /\ queue_lock = None
    /\ queue_lock' = t
    /\ Goto(t, [at |-> "Loop", now |-> clock, time |-> MAX])
    /\ UNCHANGED <<clock, sess, queue, next_service_time, cache, has_pending, frags>>

HeadIsDue(t) == thread[t].at = "Loop" /\ queue.data # <<>> /\ Head(queue.data).prio <= thread[t].now

\* The session is gone but has not been able to leave the queue.
ServiceDropped(t) ==
    /\ HeadIsDue(t)
    /\ ~sess[Head(queue.data).item].alive
    /\ queue' = RemoveIndex(queue, PeekIndex(queue))
    /\ UNCHANGED <<clock, sess, queue_lock, next_service_time, cache, has_pending, frags, thread>>

\* process_timers returned Ok: the session z after it, next its new priority.
ProcessedTo(t, s, z, next) ==
    /\ sess' = [sess EXCEPT ![s] = z]
    /\ queue' = ChangePriority(queue, PeekIndex(queue), next)
    /\ Goto(t, [thread[t] EXCEPT !.time = Earlier(@, next)])
    /\ UNCHANGED queue_lock

\* process_timers returned Err: the session is expired and service_inner returns.
ProcessedErr(t, s) ==
    /\ sess' = [sess EXCEPT ![s] = Expired(@)]
    /\ queue' = IF Live(s) THEN RemoveIndex(queue, sess[s].queue_idx) ELSE queue
    /\ queue_lock' = None
    /\ Goto(t, Idle)

\* A timeout starts a handshake or a rekey, or ends the session; a resend may find the
\* counter exhausted.  Both send the packet at once.
ServiceSession(t) ==
    LET s   == Head(queue.data).item
        z   == sess[s]
        now == thread[t].now
    IN /\ HeadIsDue(t)
       /\ z.alive
       /\ \/ /\ z.timeout_timer <= now
             /\ ProcessedTo(t, s, Waiting(z, now), now + ResendTime)
          \/ /\ z.timeout_timer > now /\ z.resend_timer <= now
             /\ ProcessedTo(t, s, [z EXCEPT !.resend_timer = now + ResendTime], now + ResendTime)
          \/ /\ z.timeout_timer > now /\ z.resend_timer > now
             /\ ProcessedTo(t, s, z, z.resend_timer)
          \/ /\ z.timeout_timer <= now \/ z.resend_timer <= now
             /\ ProcessedErr(t, s)
       /\ UNCHANGED <<clock, next_service_time, cache, has_pending, frags>>

\* The only place where next_service_time is increased.
StoreServiceTime(t) ==
    /\ thread[t].at = "Loop" /\ ~HeadIsDue(t)
    /\ next_service_time' = IF queue.data = <<>> THEN thread[t].time
                            ELSE Earlier(thread[t].time, Head(queue.data).prio)
    /\ queue_lock' = None
    /\ Goto(t, [thread[t] EXCEPT !.at = "Fragments"])
    /\ UNCHANGED <<clock, sess, queue, cache, has_pending, frags>>

\* check_for_expiry
ServiceFragments(t) ==
    /\ thread[t].at = "Fragments"
    /\ frags' = {f \in frags : f + AssemblyTimeout > thread[t].now}
    /\ Goto(t, [thread[t] EXCEPT !.at = "Handshakes",
                                 !.time = IF frags' = {} THEN MAX ELSE Min(frags') + AssemblyTimeout])
    /\ UNCHANGED <<clock, sess, queue, queue_lock, next_service_time, cache, has_pending>>

\* UnassociatedHandshakeCache::service: nothing is looked at unless something is pending.
ServiceHandshakes(t) ==
    /\ thread[t].at = "Handshakes"
    /\ has_pending' = FALSE
    /\ Goto(t, [thread[t] EXCEPT !.at = IF has_pending THEN "Scan" ELSE "Minimum"])
    /\ UNCHANGED <<clock, sess, queue, queue_lock, next_service_time, cache, frags>>

\* Mutant: the flag is not raised again for what is left.
StillPending_Never(left) == has_pending

StillPending(left) == has_pending \/ left # {}

ScanHandshakes(t) ==
    LET left == {i \in 1 .. CacheSize : cache[i].local_id # None /\ cache[i].expiry > thread[t].now} IN
    /\ thread[t].at = "Scan"
    /\ cache' = [i \in 1 .. CacheSize |-> IF i \in left THEN cache[i] ELSE Vacant]
    /\ has_pending' = StillPending(left)
    /\ Goto(t, [thread[t] EXCEPT !.at = "Minimum",
                                 !.time = Min({@} \cup {cache[i].expiry : i \in left})])
    /\ UNCHANGED <<clock, sess, queue, queue_lock, next_service_time, frags>>

\* Mutant: the time of the caches is stored although another thread may have lowered it.
LowerServiceTime_Store(time) == next_service_time' = time

LowerServiceTime(time) == next_service_time' = Earlier(next_service_time, time)

EndService(t) ==
    /\ thread[t].at = "Minimum"
    /\ LowerServiceTime(thread[t].time)
    /\ Goto(t, Idle)
    /\ UNCHANGED <<clock, sess, queue, queue_lock, cache, has_pending, frags>>

Tick ==
    /\ clock < MaxTime
    /\ clock' = clock + 1
    /\ UNCHANGED <<sess, queue, queue_lock, next_service_time, cache, has_pending, frags, thread>>

-----------------------------------------------------------------------------

Init ==
    /\ clock = 1
    /\ sess = [s \in Sessions |-> Unopened]
    /\ queue = New
    /\ queue_lock = None
    /\ next_service_time = MAX
    /\ cache = [i \in 1 .. CacheSize |-> Vacant]
    /\ has_pending = FALSE
    /\ frags = {}
    /\ thread = [t \in Threads |-> Idle]

Service(t) ==
    \/ StartService(t) \/ ServiceDropped(t) \/ ServiceSession(t) \/ StoreServiceTime(t)
    \/ ServiceFragments(t) \/ ServiceHandshakes(t) \/ ScanHandshakes(t) \/ EndService(t)

Next ==
    \/ Tick
    \/ \E t \in Threads :
        \/ Service(t) \/ TriggerRekey(t) \/ Requeue(t) \/ Reduce(t) \/ Drop(t) \/ AddFragment(t) \/ CompleteFragments(t)
        \/ \E kid \in Kids : InsertHandshake(t, kid) \/ RemoveHandshake(t, kid)
        \/ \E s \in Sessions : \/ Open(t, s) \/ EnterWaiting(t, s) \/ EnterS2(t, s)
                               \/ WantRekey(t, s) \/ Expire(t, s) \/ DropLast(t, s)

Spec == Init /\ [][Next]_vars

-----------------------------------------------------------------------------

\* Nothing in the queue is more urgent than what is above it, so that peek returns the session
\* that is due first.
QueueOrdered ==
    \A i \in 2 .. Len(queue.data) : ~Greater(queue.data[i], queue.data[i \div 2])

\* A live session has exactly one entry in the queue, the one its queue_idx leads to, and the
\* index of a session that left the queue leads nowhere, even when its slot was given away.
QueueIndexed ==
    \A s \in {q \in Sessions : sess[q].beta # "None"} :
        LET i == DerefIndex(queue, sess[s].queue_idx)
        IN /\ Live(s) /\ sess[s].alive => i # 0
           /\ i # 0 => queue.data[i].item = s
           /\ \A j \in 1 .. Len(queue.data) : queue.data[j].item = s => i = j

\* The moment at which something is to be done: a session, a handshake or a fragment.
Deadlines ==
    {queue.data[i].prio : i \in 1 .. Len(queue.data)}
    \cup {cache[i].expiry : i \in {j \in 1 .. CacheSize : cache[j].local_id # None}}
    \cup {f + AssemblyTimeout : f \in frags}

\* The application is told of every deadline in time, or will be by a thread that is on its
\* way: an increase of next_service_time by one thread never hides what another has added.
DeadlinesKept ==
    \A d \in Deadlines :
        \/ next_service_time <= d
        \/ \E t \in Threads :
            \/ thread[t].at \in {"Fragments", "Handshakes", "Scan"}
            \/ thread[t].at \in {"Reduce", "Minimum"} /\ thread[t].time <= d

\* A handshake left in the cache is looked at by the next call of service.
HandshakesPending ==
    (\E i \in 1 .. CacheSize : cache[i].local_id # None) =>
        has_pending \/ \E t \in Threads : thread[t].at = "Scan"

=============================================================================
