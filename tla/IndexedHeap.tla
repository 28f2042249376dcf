----------------------------- MODULE IndexedHeap ----------------------------
(***************************************************************************)
(* IndexedBinaryHeap of performance/src/indexed_heap.rs, as the session    *)
(* queue uses it: items with a priority in Reverse<i64>, so that the       *)
(* "greatest" priority is the earliest time.                               *)
(*                                                                         *)
(* A heap is a record: data, the binary heap itself, of entries that know  *)
(* their slot in map; map, the generational array, whose slots hold the    *)
(* position in data of a live item, or the next slot of the free list.     *)
(* Positions and slots count from 1 and 0 stands for usize::MAX.           *)
(***************************************************************************)
EXTENDS Naturals, SequencesExt

EMPTY_MARKER == 0
RESERVED_MARKER == 1

New == [generation |-> 1, free_list_head |-> 0, data |-> <<>>, map |-> <<>>]

\* a.1 > b.1 for priorities Reverse(a), Reverse(b).
Greater(a, b) == a.prio < b.prio

SwapEntries(h, a, b) ==
    [h EXCEPT !.map = [@ EXCEPT ![h.data[a].slot].pos = b, ![h.data[b].slot].pos = a],
              !.data = [@ EXCEPT ![a] = h.data[b], ![b] = h.data[a]]]

\* Where bubble_down moves the entry at a position of the heap: to its larger child, if that is
\* greater.
Below(h, parent) ==
    LET child0 == 2 * parent
        child1 == child0 + 1
        largest == IF child1 <= Len(h.data) /\ Greater(h.data[child1], h.data[child0])
                   THEN child1 ELSE child0
    IN IF child0 <= Len(h.data) /\ Greater(h.data[largest], h.data[parent]) THEN largest ELSE parent

\* Where bubble_up moves it: to its parent, if that is not as great.
Above(h, child) ==
    IF child > 1 /\ Greater(h.data[child], h.data[child \div 2]) THEN child \div 2 ELSE child

\* A round of the loops: b has the heap and the position of the entry that is moved.  An entry moves
\* fewer than Len(data) times, and the rounds after the loop has ended change nothing.
Moved(b, to) == IF to = b.at THEN b ELSE [heap |-> SwapEntries(b.heap, b.at, to), at |-> to]
Sunk(b)  == Moved(b, Below(b.heap, b.at))
Risen(b) == Moved(b, Above(b.heap, b.at))

BubbleDown(h, parent) ==
    LET after[n \in 0 .. Len(h.data)] ==
            IF n = 0 THEN [heap |-> h, at |-> parent] ELSE Sunk(after[n - 1])
    IN after[Len(h.data)].heap

BubbleUp(h, child) ==
    LET after[n \in 0 .. Len(h.data)] ==
            IF n = 0 THEN [heap |-> h, at |-> child] ELSE Risen(after[n - 1])
    IN after[Len(h.data)].heap

\* remove_idx: the last entry takes the place of the removed one and is only bubbled down.
RemoveIdx(h, i) ==
    LET slot   == h.data[i].slot
        popped == [SwapEntries(h, i, Len(h.data)) EXCEPT
                      !.data = Front(@),
                      !.map[slot] = [pos |-> h.free_list_head, gen |-> EMPTY_MARKER],
                      !.free_list_head = slot]
    IN BubbleDown(popped, i)

\* Mutant: an index is looked up by its slot alone.
DerefIndex_AnyGeneration(h, idx) ==
    IF idx.slot <= Len(h.map) /\ h.map[idx.slot].gen > RESERVED_MARKER THEN h.map[idx.slot].pos ELSE 0

\* deref_index: the position of the item, or 0 if the index is no longer valid.
DerefIndex(h, idx) ==
    IF idx.slot <= Len(h.map) /\ h.map[idx.slot].gen = idx.gen THEN h.map[idx.slot].pos ELSE 0

\* reserve_index: a slot of the free list, or a new one.
ReservedIndex(h) ==
    [slot |-> IF h.free_list_head # 0 THEN h.free_list_head ELSE Len(h.map) + 1,
     gen  |-> h.generation + 1]

ReserveIndex(h) ==
    LET slot == ReservedIndex(h).slot
        cell == [pos |-> 0, gen |-> RESERVED_MARKER]
    IN [h EXCEPT !.generation = @ + 1,
                 !.free_list_head = IF @ # 0 THEN h.map[slot].pos ELSE @,
                 !.map = IF slot <= Len(@) THEN [@ EXCEPT ![slot] = cell] ELSE Append(@, cell)]

PushReserved(h, idx, item, prio) ==
    LET pos == Len(h.data) + 1 IN
    IF idx.slot <= Len(h.map) /\ h.map[idx.slot].gen = RESERVED_MARKER
    THEN BubbleUp([h EXCEPT !.map[idx.slot] = [pos |-> pos, gen |-> idx.gen],
                            !.data = Append(@, [item |-> item, prio |-> prio, slot |-> idx.slot])],
                  pos)
    ELSE h

ChangePriority(h, idx, prio) ==
    LET i       == DerefIndex(h, idx)
        changed == [h EXCEPT !.data[i].prio = prio]
    IN IF i = 0 THEN h
       ELSE IF Greater(h.data[i], changed.data[i]) THEN BubbleDown(changed, i) ELSE BubbleUp(changed, i)

\* remove, of an item or of a reserved index.
RemoveIndex(h, idx) ==
    IF idx.slot > Len(h.map) THEN h
    ELSE IF h.map[idx.slot].gen = RESERVED_MARKER
         THEN [h EXCEPT !.map[idx.slot] = [pos |-> h.free_list_head, gen |-> EMPTY_MARKER],
                        !.free_list_head = idx.slot]
         ELSE IF DerefIndex(h, idx) # 0 THEN RemoveIdx(h, DerefIndex(h, idx)) ELSE h

\* The index peek returns along with the first entry.
PeekIndex(h) == LET slot == Head(h.data).slot IN [slot |-> slot, gen |-> h.map[slot].gen]

=============================================================================
