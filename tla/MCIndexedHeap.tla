--------------------------- MODULE MCIndexedHeap ----------------------------
(***************************************************************************)
(* One IndexedBinaryHeap under the operations zssp.rs and zeta.rs use it   *)
(* for.  The queue of ServiceQueue holds an entry for every session; the   *)
(* order of the heap can only be lost with six of them, which is more than *)
(* that module can be checked with.                                        *)
(***************************************************************************)
EXTENDS IndexedHeap

CONSTANTS Items, Priorities, None

VARIABLES heap, index      \* index[i]: the index of item i, or None before it is pushed

heapVars == <<heap, index>>

HeapInit == heap = New /\ index = [i \in Items |-> None]

\* reserve_index and push_reserved, as trans_to_a1 and received_x3_trans call them.
PushItem(i, prio) ==
    /\ index[i] = None
    /\ index' = [index EXCEPT ![i] = ReservedIndex(heap)]
    /\ heap' = PushReserved(ReserveIndex(heap), index'[i], i, prio)

\* The handlers and service move an item, also one that was removed.
Reprioritise(i, prio) ==
    /\ index[i] # None
    /\ heap' = ChangePriority(heap, index[i], prio)
    /\ UNCHANGED index

\* expire, wherever its session is in the queue.
RemoveItem(i) ==
    /\ index[i] # None
    /\ heap' = RemoveIndex(heap, index[i])
    /\ UNCHANGED index

HeapNext ==
    \E i \in Items :
        \/ RemoveItem(i)
        \/ \E prio \in Priorities : PushItem(i, prio) \/ Reprioritise(i, prio)

HeapSpec == HeapInit /\ [][HeapNext]_heapVars

Symmetry == Permutations(Items)

\* "The item with the greatest priority will be sorted to the start of the queue" (the doc of
\* IndexedBinaryHeap): what peek returns, and service computes next_service_time from, is never
\* later than another entry.
GreatestFirst == \A n \in DOMAIN heap.data : ~Greater(heap.data[n], heap.data[1])

=============================================================================
