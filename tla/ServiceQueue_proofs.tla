------------------------ MODULE ServiceQueue_proofs -------------------------
(***************************************************************************)
(* Proofs about the session queue: whatever the priorities, the indices    *)
(* that IndexedBinaryHeap hands out lead to their items until they are     *)
(* removed (Handles), and so a session's queue_idx to the session.  The    *)
(* order of the heap is lost by one kind of removal only, and while it is  *)
(* ordered no deadline is hidden by a later next_service_time.             *)
(***************************************************************************)
EXTENDS ServiceQueue, SequenceTheorems, FiniteSetTheorems, WellFoundedInduction, TLAPS

-----------------------------------------------------------------------------
(* Loops *)

\* A set of natural numbers has a least element.
LEMMA LeastOf ==
    ASSUME NEW T, T \subseteq Nat, T # {}
    PROVE  \E x \in T : \A y \in T : x <= y
<1>1. PICK x \in T : \A y \in T : ~ (<<y, x>> \in OpToRel(<, Nat))
  BY NatLessThanWellFounded, WFMin
<1>2. \A y \in T : ~(y < x)
  BY <1>1 DEF OpToRel
<1>. QED  BY <1>2

\* f is a run of m rounds of step that begins with b and stays in S.
IsRun(f, S, step, b, m) == f \in [0 .. m -> S] /\ f[0] = b /\ \A n \in 1 .. m : f[n] = step[f[n - 1]]

\* f begins in S, and a round does not leave it.
Stays(f, S, m) == f[0] \in S /\ \A n \in 1 .. m : f[n - 1] \in S => f[n] \in S

\* A loop that takes members of S to members of S can be run for any number of rounds.
LEMMA LoopRuns ==
    ASSUME NEW S, NEW step \in [S -> S], NEW b \in S, NEW m \in Nat
    PROVE  \E f : IsRun(f, S, step, b, m)
<1>. DEFINE Runs(f, k) == f \in [0 .. k -> S] /\ f[0] = b /\ \A n \in 1 .. k : f[n] = step[f[n - 1]]
            T == {k \in Nat : ~ \E f : Runs(f, k)}
<1>. SUFFICES ASSUME T # {} PROVE FALSE
  BY DEF IsRun
<1>1. PICK x \in T : \A y \in T : x <= y
  <2>1. T \subseteq Nat
    OBVIOUS
  <2>. HIDE DEF T
  <2>. QED  BY <2>1, LeastOf
<1>2. x # 0
  <2>1. Runs([n \in 0 .. 0 |-> b], 0)
    OBVIOUS
  <2>. QED  BY <2>1
<1>3. x \in Nat /\ x - 1 \in Nat /\ ~(x <= x - 1)
  BY <1>2
<1>4. PICK f : Runs(f, x - 1)
  BY <1>1, <1>3
<1>5. PICK g : g = [n \in 0 .. x |-> IF n = x THEN step[f[x - 1]] ELSE f[n]]
  OBVIOUS
<1>6. ASSUME NEW n \in 0 .. x
      PROVE  g[n] \in S /\ (n = 0 => g[n] = b) /\ (n # 0 => g[n] = step[g[n - 1]])
  <2>1. CASE n = x
    BY <1>2, <1>3, <1>4, <1>5, <2>1
  <2>2. CASE n # x
    <3>1. n \in 0 .. x - 1 /\ (n # 0 => n \in 1 .. x - 1 /\ n - 1 \in 0 .. x /\ n - 1 # x)
      BY <1>3, <2>2
    <3>2. f[n] \in S /\ (n = 0 => f[n] = b) /\ (n # 0 => f[n] = step[f[n - 1]])
      BY <1>4, <3>1
    <3>. QED  BY <1>5, <2>2, <3>1, <3>2
  <2>. QED  BY <2>1, <2>2
<1>7. Runs(g, x)
  <2>1. g \in [0 .. x -> S]
    BY <1>5, <1>6
  <2>2. g[0] = b
    BY <1>3, <1>6
  <2>3. ASSUME NEW n \in 1 .. x PROVE g[n] = step[g[n - 1]]
    BY <1>3, <1>6
  <2>. QED  BY <2>1, <2>2, <2>3
<1>. QED  BY <1>1, <1>7

\* What starts in S and stays in it from one round to the next is in S after each.
LEMMA LoopStays ==
    ASSUME NEW S, NEW m \in Nat, NEW f, Stays(f, S, m)
    PROVE  f[m] \in S
<1>. DEFINE T == {n \in 0 .. m : f[n] \notin S}
<1>. SUFFICES ASSUME T # {} PROVE FALSE
  OBVIOUS
<1>1. PICK x \in T : \A y \in T : x <= y
  <2>1. T \subseteq Nat
    OBVIOUS
  <2>. HIDE DEF T
  <2>. QED  BY <2>1, LeastOf
<1>2. x \in 1 .. m /\ x - 1 \in 0 .. m /\ ~(x <= x - 1)
  BY DEF Stays
<1>3. f[x - 1] \in S
  BY <1>1, <1>2
<1>. QED  BY <1>1, <1>2, <1>3 DEF Stays

\* What holds before the first round, and after a round if it held before it, holds after all: T is
\* where it holds.
LEMMA LoopKeeps ==
    ASSUME NEW m \in Nat, NEW T, 0 \in T, \A k \in 1 .. m : k - 1 \in T => k \in T
    PROVE  m \in T
<1>1. PICK f : f = [k \in 0 .. m |-> k]
  OBVIOUS
<1>2. Stays(f, T, m)
  BY <1>1 DEF Stays
<1>3. f[m] \in T
  BY <1>2, LoopStays
<1>. QED  BY <1>1, <1>3

-----------------------------------------------------------------------------
(* The heap *)

HeapEntry == [item : Sessions, prio : Nat, slot : Nat]
Cell      == [pos : Nat, gen : Nat]
Heap      == [generation : Nat, free_list_head : Nat, data : Seq(HeapEntry), map : Seq(Cell)]

Positions(h) == 1 .. Len(h.data)
Slots(h)     == 1 .. Len(h.map)

\* An entry's slot leads back to its position.
Linked(h) ==
    \A i \in Positions(h) :
        /\ h.data[i].slot \in Slots(h)
        /\ h.map[h.data[i].slot].pos = i
        /\ h.map[h.data[i].slot].gen # EMPTY_MARKER

\* A slot is free or it leads to an entry that knows it.
Taken(h) ==
    \A m \in Slots(h) :
        h.map[m].gen # EMPTY_MARKER =>
            /\ h.map[m].pos \in Positions(h) /\ h.data[h.map[m].pos].slot = m
            /\ RESERVED_MARKER < h.map[m].gen /\ h.map[m].gen <= h.generation

\* What free_list_head or a free slot points to is free, and no two of them point to the same.
FreeList(h) ==
    /\ h.free_list_head # 0 => h.free_list_head \in Slots(h) /\ h.map[h.free_list_head].gen = EMPTY_MARKER
    /\ \A m \in Slots(h) :
        h.map[m].gen = EMPTY_MARKER /\ h.map[m].pos # 0 =>
            /\ h.map[m].pos \in Slots(h) /\ h.map[h.map[m].pos].gen = EMPTY_MARKER
            /\ h.map[m].pos # h.free_list_head
            /\ \A n \in Slots(h) : h.map[n].gen = EMPTY_MARKER /\ h.map[n].pos = h.map[m].pos => n = m

HeapOK(h) == h \in Heap /\ 1 <= h.generation /\ Linked(h) /\ Taken(h) /\ FreeList(h)

\* The items of the heap with the indices that lead to them.
Handle(h, i) == [item |-> h.data[i].item, idx |-> [slot |-> h.data[i].slot, gen |-> h.map[h.data[i].slot].gen]]
Handles(h)   == {Handle(h, i) : i \in Positions(h)}

\* Another order of the same items.
Reordered(h, g) == Handles(g) = Handles(h) /\ g.generation = h.generation /\ Len(g.data) = Len(h.data)

\* What the parts of a heap are.
LEMMA HeapParts ==
    ASSUME NEW h \in Heap
    PROVE  /\ h.generation \in Nat /\ h.free_list_head \in Nat
           /\ h.data \in Seq(HeapEntry) /\ Len(h.data) \in Nat
           /\ h.map \in Seq(Cell) /\ Len(h.map) \in Nat
           /\ \A i \in Positions(h) : /\ h.data[i] \in HeapEntry /\ h.data[i].item \in Sessions
                                      /\ h.data[i].prio \in Nat /\ h.data[i].slot \in Nat
           /\ \A m \in Slots(h) : h.map[m] \in Cell /\ h.map[m].pos \in Nat /\ h.map[m].gen \in Nat
<1>1. /\ h.generation \in Nat /\ h.free_list_head \in Nat /\ h.data \in Seq(HeapEntry) /\ h.map \in Seq(Cell)
  BY DEF Heap
<1>2. PICK d, m : d = h.data /\ m = h.map
  OBVIOUS
<1>3. Len(d) \in Nat /\ Len(m) \in Nat /\ (\A i \in 1 .. Len(d) : d[i] \in HeapEntry) /\ \A i \in 1 .. Len(m) : m[i] \in Cell
  BY <1>1, <1>2
<1>. QED  BY <1>1, <1>2, <1>3 DEF HeapEntry, Cell, Positions, Slots

\* swap, entry by entry and cell by cell.
LEMMA SwapParts ==
    ASSUME NEW h, HeapOK(h), NEW a \in Positions(h), NEW b \in Positions(h), NEW g, g = SwapEntries(h, a, b)
    PROVE  /\ g \in Heap /\ g.generation = h.generation /\ g.free_list_head = h.free_list_head
           /\ Len(g.data) = Len(h.data) /\ Len(g.map) = Len(h.map)
           /\ \A i \in Positions(h) :
                g.data[i] = IF i = b THEN h.data[a] ELSE IF i = a THEN h.data[b] ELSE h.data[i]
           /\ \A m \in Slots(h) :
                /\ g.map[m].gen = h.map[m].gen
                /\ g.map[m].pos = IF m = h.data[b].slot THEN a ELSE IF m = h.data[a].slot THEN b ELSE h.map[m].pos
<1>1. PICK d, m, s, t : d = h.data /\ m = h.map /\ s = d[a].slot /\ t = d[b].slot
  OBVIOUS
<1>2. /\ d \in Seq(HeapEntry) /\ Len(d) \in Nat /\ a \in 1 .. Len(d) /\ b \in 1 .. Len(d)
      /\ d[a] \in HeapEntry /\ d[b] \in HeapEntry
      /\ m \in Seq(Cell) /\ Len(m) \in Nat /\ s \in 1 .. Len(m) /\ t \in 1 .. Len(m)
  BY <1>1, HeapParts DEF HeapOK, Linked, Positions, Slots
<1>3. PICK d1 : d1 = [d EXCEPT ![a] = d[b]]
  OBVIOUS
<1>4. PICK d2 : d2 = [d1 EXCEPT ![b] = d[a]]
  OBVIOUS
<1>5. PICK m1 : m1 = [m EXCEPT ![s].pos = b]
  OBVIOUS
<1>6. PICK m2 : m2 = [m1 EXCEPT ![t].pos = a]
  OBVIOUS
<1>7. g = [h EXCEPT !.map = m2, !.data = d2]
  <2>1. [m EXCEPT ![s].pos = b, ![t].pos = a] = m2
    BY <1>5, <1>6
  <2>2. [d EXCEPT ![a] = d[b], ![b] = d[a]] = d2
    BY <1>3, <1>4
  <2>3. g = [h EXCEPT !.map = [m EXCEPT ![s].pos = b, ![t].pos = a], !.data = [d EXCEPT ![a] = d[b], ![b] = d[a]]]
    BY <1>1 DEF SwapEntries
  <2>. QED  BY <2>1, <2>2, <2>3
<1>8. d1 \in Seq(HeapEntry) /\ Len(d1) = Len(d) /\ \A i \in 1 .. Len(d) : d1[i] = IF i = a THEN d[b] ELSE d[i]
  BY <1>2, <1>3, ExceptSeq
<1>9. d2 \in Seq(HeapEntry) /\ Len(d2) = Len(d) /\ \A i \in 1 .. Len(d) : d2[i] = IF i = b THEN d[a] ELSE d1[i]
  BY <1>2, <1>4, <1>8, ExceptSeq
<1>10. /\ m1 \in Seq(Cell) /\ Len(m1) = Len(m)
       /\ \A i \in 1 .. Len(m) : m1[i].gen = m[i].gen /\ m1[i].pos = IF i = s THEN b ELSE m[i].pos
  <2>1. PICK c : c = [m[s] EXCEPT !.pos = b]
    OBVIOUS
  <2>2. m[s] \in Cell /\ b \in Nat
    BY <1>2
  <2>3. c \in Cell /\ c.gen = m[s].gen /\ c.pos = b
    BY <2>1, <2>2 DEF Cell
  <2>4. m1 = [m EXCEPT ![s] = c]
    BY <1>5, <2>1
  <2>5. m1 \in Seq(Cell) /\ Len(m1) = Len(m) /\ \A i \in 1 .. Len(m) : m1[i] = IF i = s THEN c ELSE m[i]
    BY <1>2, <2>3, <2>4, ExceptSeq
  <2>. QED  BY <2>3, <2>5
<1>11. /\ m2 \in Seq(Cell) /\ Len(m2) = Len(m)
       /\ \A i \in 1 .. Len(m) : m2[i].gen = m1[i].gen /\ m2[i].pos = IF i = t THEN a ELSE m1[i].pos
  <2>1. PICK c : c = [m1[t] EXCEPT !.pos = a]
    OBVIOUS
  <2>2. m1[t] \in Cell /\ a \in Nat
    BY <1>2, <1>10
  <2>3. c \in Cell /\ c.gen = m1[t].gen /\ c.pos = a
    BY <2>1, <2>2 DEF Cell
  <2>4. m2 = [m1 EXCEPT ![t] = c]
    BY <1>6, <2>1
  <2>5. m2 \in Seq(Cell) /\ Len(m2) = Len(m1) /\ \A i \in 1 .. Len(m1) : m2[i] = IF i = t THEN c ELSE m1[i]
    BY <1>2, <1>10, <2>3, <2>4, ExceptSeq
  <2>. QED  BY <1>10, <2>3, <2>5
<1>12. /\ g \in Heap /\ g.generation = h.generation /\ g.free_list_head = h.free_list_head /\ g.data = d2 /\ g.map = m2
  BY <1>7, <1>9, <1>11 DEF HeapOK, Heap
<1>. QED  BY <1>1, <1>2, <1>8, <1>9, <1>10, <1>11, <1>12 DEF Positions, Slots

\* Swapping two entries keeps the slots, and what leads to which item.
LEMMA SwapOK ==
    ASSUME NEW h, HeapOK(h), NEW a \in Positions(h), NEW b \in Positions(h), NEW g, g = SwapEntries(h, a, b)
    PROVE  HeapOK(g) /\ Reordered(h, g)
<1>. DEFINE other(i) == IF i = b THEN a ELSE IF i = a THEN b ELSE i
<1>1. /\ g \in Heap /\ g.generation = h.generation /\ g.free_list_head = h.free_list_head
      /\ Len(g.data) = Len(h.data) /\ Len(g.map) = Len(h.map)
      /\ \A i \in Positions(h) : g.data[i] = h.data[other(i)]
      /\ \A m \in Slots(h) :
           /\ g.map[m].gen = h.map[m].gen
           /\ g.map[m].pos = IF m = h.data[b].slot THEN a ELSE IF m = h.data[a].slot THEN b ELSE h.map[m].pos
  BY SwapParts
<1>2. Positions(g) = Positions(h) /\ Slots(g) = Slots(h)
  BY <1>1 DEF Positions, Slots
<1>3. \A i \in Positions(h) : other(i) \in Positions(h) /\ other(other(i)) = i
  OBVIOUS
<1>. HIDE DEF other
<1>4. \A i \in Positions(h) : h.data[i].slot \in Slots(h) /\ h.map[h.data[i].slot].pos = i
  BY DEF HeapOK, Linked
<1>5. Linked(g)
  <2>. SUFFICES ASSUME NEW i \in Positions(h)
                PROVE  /\ g.data[i].slot \in Slots(h) /\ g.map[g.data[i].slot].pos = i
                       /\ g.map[g.data[i].slot].gen # EMPTY_MARKER
    BY <1>2 DEF Linked
  <2>1. PICK j \in Positions(h) : j = other(i)
    BY <1>3
  <2>2. PICK m \in Slots(h) : m = h.data[j].slot /\ h.map[m].pos = j /\ h.map[m].gen # EMPTY_MARKER
    BY DEF HeapOK, Linked
  <2>3. g.data[i].slot = m
    BY <1>1, <2>1, <2>2
  <2>4. g.map[m].pos = i
    <3>1. m = h.data[b].slot <=> j = b
      BY <1>4, <2>2
    <3>2. m = h.data[a].slot <=> j = a
      BY <1>4, <2>2
    <3>3. g.map[m].pos = IF j = b THEN a ELSE IF j = a THEN b ELSE j
      BY <1>1, <2>2, <3>1, <3>2
    <3>. QED  BY <2>1, <3>3 DEF other
  <2>. QED  BY <1>1, <2>2, <2>3, <2>4
<1>6. \A m \in Slots(h) : h.map[m].gen = EMPTY_MARKER => g.map[m].pos = h.map[m].pos
  BY <1>1 DEF HeapOK, Linked
<1>7. Taken(g)
  <2>. SUFFICES ASSUME NEW m \in Slots(h), h.map[m].gen # EMPTY_MARKER
                PROVE  /\ g.map[m].pos \in Positions(h) /\ g.data[g.map[m].pos].slot = m
                       /\ RESERVED_MARKER < h.map[m].gen /\ h.map[m].gen <= h.generation
    BY <1>1, <1>2 DEF Taken
  <2>1. PICK j \in Positions(h) : /\ j = h.map[m].pos /\ h.data[j].slot = m
                                  /\ RESERVED_MARKER < h.map[m].gen /\ h.map[m].gen <= h.generation
    BY DEF HeapOK, Taken
  <2>2. g.map[m].pos = other(j)
    BY <1>1, <1>4, <2>1 DEF other
  <2>3. g.data[other(j)] = h.data[j]
    BY <1>1, <1>3
  <2>. QED  BY <1>3, <2>1, <2>2, <2>3
<1>8. FreeList(g)
  <2>1. FreeList(h)
    BY DEF HeapOK
  <2>. QED  BY <1>1, <1>2, <1>6, <2>1 DEF FreeList
<1>9. ASSUME NEW i \in Positions(h) PROVE Handle(g, i) = Handle(h, other(i))
  <2>1. PICK j \in Positions(h), m \in Slots(h) : j = other(i) /\ m = h.data[j].slot
    BY <1>3, <1>4
  <2>2. g.data[i] = h.data[j] /\ g.map[m].gen = h.map[m].gen
    BY <1>1, <2>1
  <2>. QED  BY <2>1, <2>2 DEF Handle
<1>10. Handles(g) = Handles(h)
  BY <1>2, <1>3, <1>9 DEF Handles
<1>. QED  BY <1>1, <1>5, <1>7, <1>8, <1>10 DEF HeapOK, Reordered

\* A heap while an entry is moved in it: at is at most m.
Moving(h, m) == {b \in [heap : Heap, at : 1 .. m] : HeapOK(b.heap) /\ Reordered(h, b.heap)}

\* One round of either loop.
LEMMA MoveOK ==
    ASSUME NEW h, NEW m, NEW b \in Moving(h, m), NEW to, to # b.at => b.at \in Positions(b.heap) /\ to \in Positions(b.heap),
           to \in 1 .. m
    PROVE  Moved(b, to) \in Moving(h, m)
<1>1. CASE to = b.at
  BY <1>1 DEF Moved
<1>2. CASE to # b.at
  <2>1. PICK g : g = SwapEntries(b.heap, b.at, to)
    OBVIOUS
  <2>2. HeapOK(b.heap) /\ Reordered(h, b.heap)
    BY DEF Moving
  <2>3. HeapOK(g) /\ Reordered(b.heap, g)
    BY <1>2, <2>1, <2>2, SwapOK
  <2>4. Reordered(h, g) /\ g \in Heap
    BY <2>2, <2>3 DEF Reordered, HeapOK
  <2>5. Moved(b, to) = [heap |-> g, at |-> to]
    BY <1>2, <2>1 DEF Moved
  <2>. QED  BY <2>3, <2>4, <2>5 DEF Moving
<1>. QED  BY <1>1, <1>2

LEMMA SinkOK ==
    ASSUME NEW h, HeapOK(h), NEW m, Len(h.data) <= m, m \in Nat, NEW b \in Moving(h, m)
    PROVE  Sunk(b) \in Moving(h, m)
<1>1. PICK g, i, n : g = b.heap /\ i = b.at /\ n = Len(g.data)
  OBVIOUS
<1>2. i \in 1 .. m /\ n = Len(h.data) /\ n \in Nat /\ n <= m
  BY <1>1, HeapParts DEF Moving, Reordered, HeapOK
<1>3. Below(g, i) \in 1 .. m /\ (Below(g, i) # i => i \in 1 .. n /\ Below(g, i) \in 1 .. n)
  BY <1>1, <1>2 DEF Below
<1>4. Below(g, i) # i => i \in Positions(g) /\ Below(g, i) \in Positions(g)
  BY <1>1, <1>3 DEF Positions
<1>. QED  BY <1>1, <1>3, <1>4, MoveOK DEF Sunk

LEMMA RiseOK ==
    ASSUME NEW h, HeapOK(h), NEW b \in Moving(h, Len(h.data))
    PROVE  Risen(b) \in Moving(h, Len(h.data))
<1>1. PICK g, i, n : g = b.heap /\ i = b.at /\ n = Len(g.data)
  OBVIOUS
<1>2. i \in 1 .. n /\ n = Len(h.data) /\ n \in Nat
  BY <1>1, HeapParts DEF Moving, Reordered, HeapOK
<1>3. Above(g, i) \in 1 .. n
  BY <1>2 DEF Above
<1>4. i \in Positions(g) /\ Above(g, i) \in Positions(g)
  BY <1>1, <1>2, <1>3 DEF Positions
<1>. QED  BY <1>1, <1>2, <1>3, <1>4, MoveOK DEF Risen

\* The rounds f of a loop in the heap h that begins at i.
Rounds(f, h, i, m) ==
    /\ f[0] = [heap |-> h, at |-> i]
    /\ \A k \in 0 .. Len(h.data) : f[k] \in Moving(h, m)

LEMMA SinkRounds ==
    ASSUME NEW h, HeapOK(h), NEW i \in 1 .. Len(h.data) + 1
    PROVE  \E f : /\ Rounds(f, h, i, Len(h.data) + 1) /\ BubbleDown(h, i) = f[Len(h.data)].heap
                  /\ \A k \in 1 .. Len(h.data) : f[k] = Sunk(f[k - 1])
<1>. DEFINE n == Len(h.data)
            S == Moving(h, n + 1)
            b == [heap |-> h, at |-> i]
            after[k \in 0 .. n] == IF k = 0 THEN b ELSE Sunk(after[k - 1])
<1>1. n \in Nat /\ h \in Heap
  BY HeapParts DEF HeapOK
<1>2. b \in S
  BY <1>1 DEF Moving, Reordered
<1>3. \A c \in S : Sunk(c) \in S
  BY <1>1, SinkOK
<1>4. BubbleDown(h, i) = after[n].heap
  BY DEF BubbleDown
<1>. HIDE DEF n, S, b
<1>5. PICK step : step = [c \in S |-> Sunk(c)]
  OBVIOUS
<1>6. step \in [S -> S]
  BY <1>3, <1>5
<1>7. PICK f : IsRun(f, S, step, b, n)
  BY <1>1, <1>2, <1>6, LoopRuns
<1>8. f = [k \in 0 .. n |-> IF k = 0 THEN b ELSE Sunk(f[k - 1])]
  <2>1. ASSUME NEW k \in 0 .. n PROVE f[k] = IF k = 0 THEN b ELSE Sunk(f[k - 1])
    <3>1. CASE k = 0
      BY <1>7, <3>1 DEF IsRun
    <3>2. CASE k # 0
      <4>1. k \in 1 .. n /\ k - 1 \in 0 .. n
        BY <1>1, <3>2
      <4>. QED  BY <1>5, <1>7, <3>2, <4>1 DEF IsRun
    <3>. QED  BY <3>1, <3>2
  <2>. QED  BY <1>7, <2>1 DEF IsRun
<1>9. after = [k \in 0 .. n |-> IF k = 0 THEN b ELSE Sunk(after[k - 1])]
  BY <1>8
<1>. HIDE DEF after
<1>10. after[0] = b /\ \A k \in 1 .. n : after[k] = Sunk(after[k - 1])
  BY <1>1, <1>9
<1>11. ASSUME NEW k \in 0 .. n PROVE after[k] \in S
  <2>1. Stays(after, S, k)
    BY <1>1, <1>2, <1>3, <1>10 DEF Stays
  <2>. QED  BY <2>1, LoopStays
<1>12. Rounds(after, h, i, n + 1)
  BY <1>10, <1>11 DEF Rounds, n, S, b
<1>. QED  BY <1>4, <1>10, <1>12 DEF n

LEMMA RiseRounds ==
    ASSUME NEW h, HeapOK(h), NEW i \in Positions(h)
    PROVE  \E f : /\ Rounds(f, h, i, Len(h.data)) /\ BubbleUp(h, i) = f[Len(h.data)].heap
                  /\ \A k \in 1 .. Len(h.data) : f[k] = Risen(f[k - 1])
<1>. DEFINE n == Len(h.data)
            S == Moving(h, n)
            b == [heap |-> h, at |-> i]
            after[k \in 0 .. n] == IF k = 0 THEN b ELSE Risen(after[k - 1])
<1>1. n \in Nat /\ h \in Heap
  BY HeapParts DEF HeapOK
<1>2. b \in S
  BY <1>1 DEF Moving, Reordered, Positions
<1>3. \A c \in S : Risen(c) \in S
  BY <1>1, RiseOK
<1>4. BubbleUp(h, i) = after[n].heap
  BY DEF BubbleUp
<1>. HIDE DEF n, S, b
<1>5. PICK step : step = [c \in S |-> Risen(c)]
  OBVIOUS
<1>6. step \in [S -> S]
  BY <1>3, <1>5
<1>7. PICK f : IsRun(f, S, step, b, n)
  BY <1>1, <1>2, <1>6, LoopRuns
<1>8. f = [k \in 0 .. n |-> IF k = 0 THEN b ELSE Risen(f[k - 1])]
  <2>1. ASSUME NEW k \in 0 .. n PROVE f[k] = IF k = 0 THEN b ELSE Risen(f[k - 1])
    <3>1. CASE k = 0
      BY <1>7, <3>1 DEF IsRun
    <3>2. CASE k # 0
      <4>1. k \in 1 .. n /\ k - 1 \in 0 .. n
        BY <1>1, <3>2
      <4>. QED  BY <1>5, <1>7, <3>2, <4>1 DEF IsRun
    <3>. QED  BY <3>1, <3>2
  <2>. QED  BY <1>7, <2>1 DEF IsRun
<1>9. after = [k \in 0 .. n |-> IF k = 0 THEN b ELSE Risen(after[k - 1])]
  BY <1>8
<1>. HIDE DEF after
<1>10. after[0] = b /\ \A k \in 1 .. n : after[k] = Risen(after[k - 1])
  BY <1>1, <1>9
<1>11. ASSUME NEW k \in 0 .. n PROVE after[k] \in S
  <2>1. Stays(after, S, k)
    BY <1>1, <1>2, <1>3, <1>10 DEF Stays
  <2>. QED  BY <2>1, LoopStays
<1>12. Rounds(after, h, i, n)
  BY <1>10, <1>11 DEF Rounds, n, S, b
<1>. QED  BY <1>4, <1>10, <1>12 DEF n

\* bubble_down only changes the order.
LEMMA BubbleDownOK ==
    ASSUME NEW h, HeapOK(h), NEW i \in 1 .. Len(h.data) + 1
    PROVE  HeapOK(BubbleDown(h, i)) /\ Reordered(h, BubbleDown(h, i))
<1>1. PICK f : Rounds(f, h, i, Len(h.data) + 1) /\ BubbleDown(h, i) = f[Len(h.data)].heap
  BY SinkRounds
<1>2. Len(h.data) \in 0 .. Len(h.data)
  BY HeapParts DEF HeapOK
<1>3. f[Len(h.data)] \in Moving(h, Len(h.data) + 1)
  BY <1>1, <1>2 DEF Rounds
<1>. QED  BY <1>1, <1>3 DEF Moving

\* bubble_up only changes the order.
LEMMA BubbleUpOK ==
    ASSUME NEW h, HeapOK(h), NEW i \in Positions(h)
    PROVE  HeapOK(BubbleUp(h, i)) /\ Reordered(h, BubbleUp(h, i))
<1>1. PICK f : Rounds(f, h, i, Len(h.data)) /\ BubbleUp(h, i) = f[Len(h.data)].heap
  BY RiseRounds
<1>2. Len(h.data) \in 0 .. Len(h.data)
  BY HeapParts DEF HeapOK
<1>3. f[Len(h.data)] \in Moving(h, Len(h.data))
  BY <1>1, <1>2 DEF Rounds
<1>. QED  BY <1>1, <1>3 DEF Moving

-----------------------------------------------------------------------------
(* The order of the heap *)

\* The priorities of a heap by position.
Prios(h)   == [i \in Positions(h) |-> h.data[i].prio]
Entries(h) == {h.data[i] : i \in Positions(h)}

Parent(j) == j \div 2

\* No entry of p, which has n, is more urgent than its parent.
Sorted(p, n) == \A j \in 2 .. n : p[Parent(j)] <= p[j]

Ordered(h)   == Sorted(Prios(h), Len(h.data))

\* So it is but for the entry at a position: it may be less urgent than its children, ...
Sinking(p, n, at) ==
    \A j \in 2 .. n : /\ Parent(j) # at => p[Parent(j)] <= p[j]
                      /\ Parent(j) = at /\ 1 < at => p[Parent(at)] <= p[j]

\* ... or more urgent than its parent.
Rising(p, n, at) ==
    \A j \in 2 .. n : /\ j # at => p[Parent(j)] <= p[j]
                      /\ Parent(j) = at /\ 1 < at => p[Parent(at)] <= p[j]

\* Two entries of p changed places.
Swapped(p, q, n, a, b) ==
    \A i \in 1 .. n : q[i] = IF i = b THEN p[a] ELSE IF i = a THEN p[b] ELSE p[i]

\* A position has two below it.
LEMMA Half ==
    ASSUME NEW n \in Nat, NEW j \in 2 .. n
    PROVE  Parent(j) \in 1 .. n /\ Parent(j) < j /\ (j = 2 * (Parent(j)) \/ j = 2 * (Parent(j)) + 1)
  BY DEF Parent

LEMMA Children ==
    ASSUME NEW i \in Nat
    PROVE  Parent(2 * i) = i /\ Parent(2 * i + 1) = i
  BY DEF Parent

\* A round of bubble_down.
LEMMA SinkSorts ==
    ASSUME NEW n \in Nat, NEW p \in [1 .. n -> Nat], NEW q \in [1 .. n -> Nat], NEW at \in 1 .. n, NEW to \in 2 .. n,
           Parent(to) = at, p[to] <= p[at], \A j \in 2 .. n : Parent(j) = at => p[to] <= p[j],
           Sinking(p, n, at), Swapped(p, q, n, at, to)
    PROVE  Sinking(q, n, to)
<1>1. at < to /\ to \in 1 .. n
  BY Half
<1>2. q[at] = p[to] /\ q[to] = p[at] /\ \A i \in 1 .. n : i # at /\ i # to => q[i] = p[i]
  BY <1>1 DEF Swapped
<1>. SUFFICES ASSUME NEW j \in 2 .. n, NEW k, k = Parent(j)
              PROVE  (k # to => q[k] <= q[j]) /\ (k = to => q[at] <= q[j])
  BY DEF Sinking
<1>3. k \in 1 .. n /\ k < j /\ j \in 1 .. n
  BY Half
<1>4. CASE k = at
  <2>1. j # at /\ k # to
    BY <1>1, <1>3, <1>4
  <2>2. CASE j = to
    BY <1>2, <2>1, <2>2, <1>4
  <2>3. CASE j # to
    BY <1>2, <1>3, <1>4, <2>1, <2>3
  <2>. QED  BY <2>2, <2>3
<1>5. CASE k # at
  <2>1. j # to /\ p[k] <= p[j]
    BY <1>5 DEF Sinking
  <2>2. CASE k = to
    <3>1. j # at
      BY <1>1, <1>3, <2>2
    <3>. QED  BY <1>2, <1>3, <2>1, <2>2, <3>1
  <2>3. CASE k # to
    <3>1. CASE j = at
      <4>1. 1 < at /\ p[k] <= p[to]
        BY <1>3, <3>1 DEF Sinking
      <4>. QED  BY <1>2, <1>3, <1>5, <2>3, <3>1, <4>1
    <3>2. CASE j # at
      BY <1>2, <1>3, <1>5, <2>1, <2>3, <3>2
    <3>. QED  BY <3>1, <3>2, <2>3
  <2>. QED  BY <2>2, <2>3
<1>. QED  BY <1>4, <1>5

\* A round of bubble_up.
LEMMA RiseSorts ==
    ASSUME NEW n \in Nat, NEW p \in [1 .. n -> Nat], NEW q \in [1 .. n -> Nat], NEW at \in 2 .. n,
           NEW to, to = Parent(at), p[at] <= p[to], Rising(p, n, at), Swapped(p, q, n, at, to)
    PROVE  Rising(q, n, to)
<1>1. to \in 1 .. n /\ to < at /\ at \in 1 .. n
  BY Half
<1>2. q[at] = p[to] /\ q[to] = p[at] /\ \A i \in 1 .. n : i # at /\ i # to => q[i] = p[i]
  BY <1>1 DEF Swapped
<1>3. \A j \in 2 .. n : Parent(j) = at => p[to] <= p[j]
  BY <1>1 DEF Rising
<1>4. \A j \in 2 .. n : j # at => p[Parent(j)] <= p[j]
  BY DEF Rising
<1>5. ASSUME NEW j \in 2 .. n, NEW k, k = Parent(j), j # to PROVE q[k] <= q[j]
  <2>1. k \in 1 .. n /\ k < j /\ j \in 1 .. n
    BY <1>5, Half
  <2>2. CASE j = at
    <3>1. k = to
      BY <1>5, <2>2
    <3>. QED  BY <1>2, <2>2, <3>1
  <2>3. CASE j # at
    <3>1. p[k] <= p[j] /\ q[j] = p[j]
      BY <1>2, <1>4, <1>5, <2>1, <2>3
    <3>2. CASE k = at
      BY <1>2, <1>3, <1>5, <3>1, <3>2
    <3>3. CASE k = to
      BY <1>1, <1>2, <2>1, <3>1, <3>3
    <3>4. CASE k # at /\ k # to
      BY <1>2, <2>1, <3>1, <3>4
    <3>. QED  BY <3>2, <3>3, <3>4
  <2>. QED  BY <2>2, <2>3
<1>6. ASSUME NEW j \in 2 .. n, Parent(j) = to, 1 < to PROVE q[Parent(to)] <= q[j]
  <2>1. to \in 2 .. n /\ to # at
    BY <1>1, <1>6
  <2>2. PICK o \in 1 .. n : o = Parent(to) /\ o < to
    BY <2>1, Half
  <2>3. q[o] = p[o]
    BY <1>1, <1>2, <2>2
  <2>4. p[o] <= p[to]
    BY <1>4, <2>1, <2>2
  <2>5. j \in 1 .. n /\ j # to
    BY <1>1, <1>6, Half
  <2>6. p[to] <= q[j]
    <3>1. CASE j = at
      BY <1>1, <1>2, <3>1
    <3>2. CASE j # at
      BY <1>2, <1>4, <1>6, <2>5, <3>2
    <3>. QED  BY <3>1, <3>2
  <2>7. p[o] \in Nat /\ p[to] \in Nat /\ q[j] \in Nat
    BY <1>1, <2>2, <2>5
  <2>. QED  BY <2>2, <2>3, <2>4, <2>6, <2>7
<1>. QED  BY <1>5, <1>6 DEF Rising

\* A heap whose entries change places has the same entries.
LEMMA SwapEntriesOnly ==
    ASSUME NEW h, HeapOK(h), NEW a \in Positions(h), NEW b \in Positions(h), NEW g, g = SwapEntries(h, a, b)
    PROVE  /\ Entries(g) = Entries(h) /\ Len(g.data) = Len(h.data)
           /\ Swapped(Prios(h), Prios(g), Len(h.data), a, b)
<1>. DEFINE other(i) == IF i = b THEN a ELSE IF i = a THEN b ELSE i
<1>1. /\ g \in Heap /\ g.generation = h.generation /\ g.free_list_head = h.free_list_head
      /\ Len(g.data) = Len(h.data) /\ Len(g.map) = Len(h.map)
      /\ \A i \in Positions(h) : g.data[i] = h.data[other(i)]
  BY SwapParts
<1>2. \A i \in Positions(h) : other(i) \in Positions(h) /\ other(other(i)) = i
  OBVIOUS
<1>3. Positions(g) = Positions(h)
  BY <1>1 DEF Positions
<1>4. Swapped(Prios(h), Prios(g), Len(h.data), a, b)
  BY <1>1, <1>3 DEF Swapped, Prios, Positions
<1>. HIDE DEF other
<1>5. Entries(g) = Entries(h)
  BY <1>1, <1>2, <1>3 DEF Entries
<1>. QED  BY <1>1, <1>4, <1>5

LEMMA PriosOf ==
    ASSUME NEW h, HeapOK(h)
    PROVE  /\ Len(h.data) \in Nat /\ Prios(h) \in [1 .. Len(h.data) -> Nat]
           /\ \A i \in Positions(h) : Prios(h)[i] = h.data[i].prio
  BY HeapParts DEF HeapOK, Prios, Positions

\* Where bubble_down goes next, in terms of the priorities.
LEMMA BelowIs ==
    ASSUME NEW h, HeapOK(h), NEW n, n = Len(h.data), NEW i \in 1 .. n + 1, NEW p, p = Prios(h), NEW to, to = Below(h, i)
    PROVE  /\ to # i => to \in 2 .. n /\ i \in 1 .. n /\ Parent(to) = i /\ i < to /\ p[to] < p[i]
           /\ \A j \in 2 .. n : Parent(j) = i => p[to] <= p[j]
<1>1. /\ n \in Nat /\ p \in [1 .. n -> Nat] /\ \A j \in 1 .. n : p[j] = h.data[j].prio
  BY PriosOf DEF Positions
<1>2. CASE 2 * i <= n
  <2>1. 2 * i \in 1 .. n /\ i \in 1 .. n /\ (2 * i + 1 <= n => 2 * i + 1 \in 1 .. n) /\ 2 * i # i /\ 2 * i + 1 # i
    BY <1>1, <1>2
  <2>2. PICK l : l = IF 2 * i + 1 <= n /\ Greater(h.data[2 * i + 1], h.data[2 * i]) THEN 2 * i + 1 ELSE 2 * i
    OBVIOUS
  <2>3. to = IF Greater(h.data[l], h.data[i]) THEN l ELSE i
    BY <1>2, <2>2 DEF Below
  <2>4. l \in 1 .. n /\ (l = 2 * i \/ l = 2 * i + 1)
    BY <2>1, <2>2
  <2>5. to = IF p[l] < p[i] THEN l ELSE i
    BY <1>1, <2>1, <2>3, <2>4 DEF Greater
  <2>6. l = IF 2 * i + 1 <= n /\ p[2 * i + 1] < p[2 * i] THEN 2 * i + 1 ELSE 2 * i
    BY <1>1, <2>1, <2>2 DEF Greater
  <2>7. ASSUME NEW j \in 2 .. n, Parent(j) = i PROVE p[l] <= p[j]
    <3>1. (j = 2 * i \/ j = 2 * i + 1) /\ j \in 1 .. n
      BY <1>1, <2>7, Half
    <3>. QED  BY <1>1, <2>1, <2>6, <3>1
  <2>8. l \in 2 .. n /\ Parent(l) = i /\ i < l
    <3>1. Parent(2 * i) = i /\ Parent(2 * i + 1) = i
      BY <2>1, Children
    <3>2. l \in 2 .. n /\ i < l
      BY <1>1, <2>1, <2>4
    <3>. QED  BY <2>4, <3>1, <3>2
  <2>9. p[l] \in Nat /\ p[i] \in Nat /\ \A j \in 2 .. n : p[j] \in Nat
    BY <1>1, <2>1, <2>4
  <2>10. CASE p[l] < p[i]
    BY <2>1, <2>5, <2>7, <2>8, <2>10
  <2>11. CASE ~(p[l] < p[i])
    BY <2>5, <2>7, <2>9, <2>11
  <2>. QED  BY <2>10, <2>11
<1>3. CASE ~(2 * i <= n)
  <2>1. to = i
    BY <1>3 DEF Below
  <2>2. \A j \in 2 .. n : Parent(j) # i
    BY <1>1, <1>3, Half, SMTT(30)
  <2>. QED  BY <2>1, <2>2
<1>. QED  BY <1>2, <1>3

\* A round of bubble_down moves the entry down and sorts what is above it, or the heap is sorted.
LEMMA SinkRound ==
    ASSUME NEW h, HeapOK(h), NEW n, n = Len(h.data), NEW b \in Moving(h, n + 1), NEW c, c = Sunk(b)
    PROVE  /\ Entries(c.heap) = Entries(b.heap) /\ (c = b \/ (b.at < c.at /\ ~Sorted(Prios(b.heap), n)))
           /\ Sinking(Prios(b.heap), n, b.at) =>
                Sinking(Prios(c.heap), n, c.at) /\ (c = b => Sorted(Prios(b.heap), n))
<1>1. PICK g, i, to, p : g = b.heap /\ i = b.at /\ to = Below(g, i) /\ p = Prios(g)
  OBVIOUS
<1>2. n \in Nat /\ i \in 1 .. n + 1 /\ HeapOK(g) /\ Len(g.data) = n
  BY <1>1, HeapParts DEF Moving, Reordered, HeapOK
<1>3. /\ p \in [1 .. n -> Nat] /\ Positions(g) = 1 .. n
  BY <1>1, <1>2, PriosOf DEF Positions
<1>4. /\ to # i => to \in 2 .. n /\ i \in 1 .. n /\ Parent(to) = i /\ i < to /\ p[to] < p[i]
      /\ \A j \in 2 .. n : Parent(j) = i => p[to] <= p[j]
  BY <1>1, <1>2, BelowIs
<1>5. CASE to = i
  <2>1. c = b
    BY <1>1, <1>5 DEF Sunk, Moved
  <2>2. ASSUME Sinking(p, n, i) PROVE Sorted(p, n)
    BY <1>4, <1>5, <2>2 DEF Sinking, Sorted
  <2>3. Sinking(Prios(b.heap), n, b.at) => Sorted(Prios(b.heap), n)
    BY <1>1, <2>2
  <2>. QED  BY <2>1, <2>3
<1>6. CASE to # i
  <2>1. to \in 2 .. n /\ to \in 1 .. n /\ i \in 1 .. n /\ Parent(to) = i /\ i < to /\ p[to] < p[i]
    BY <1>2, <1>4, <1>6
  <2>2. p[to] <= p[i] /\ ~(p[i] <= p[to])
    BY <1>3, <2>1
  <2>3. ~Sorted(p, n)
    BY <2>1, <2>2 DEF Sorted
  <2>4. PICK x, q : x = SwapEntries(g, i, to) /\ q = Prios(x)
    OBVIOUS
  <2>5. c = [heap |-> x, at |-> to]
    BY <1>1, <1>6, <2>4 DEF Sunk, Moved
  <2>6. HeapOK(x) /\ Reordered(g, x)
    BY <1>2, <1>3, <2>1, <2>4, SwapOK
  <2>7. Entries(x) = Entries(g) /\ Swapped(p, q, n, i, to)
    BY <1>1, <1>2, <1>3, <2>1, <2>4, SwapEntriesOnly
  <2>8. q \in [1 .. n -> Nat]
    BY <1>2, <2>4, <2>6, PriosOf DEF Reordered
  <2>9. ASSUME Sinking(p, n, i) PROVE Sinking(q, n, to)
    BY <1>2, <1>3, <1>4, <2>1, <2>2, <2>7, <2>8, <2>9, SinkSorts
  <2>10. c.heap = x /\ c.at = to /\ c # b /\ b.at < c.at
    BY <1>1, <1>2, <2>1, <2>5
  <2>. QED  BY <1>1, <2>3, <2>4, <2>7, <2>9, <2>10
<1>. QED  BY <1>5, <1>6

\* bubble_down sorts a heap but for whose entry at i it is sorted.
LEMMA BubbleDownSorts ==
    ASSUME NEW h, HeapOK(h), NEW n, n = Len(h.data), NEW i \in 1 .. n + 1, NEW g, g = BubbleDown(h, i)
    PROVE  Entries(g) = Entries(h) /\ (Sinking(Prios(h), n, i) => Sorted(Prios(g), n))
<1>1. PICK f : /\ Rounds(f, h, i, n + 1) /\ g = f[n].heap /\ \A k \in 1 .. n : f[k] = Sunk(f[k - 1])
  BY SinkRounds
<1>2. n \in Nat
  BY HeapParts DEF HeapOK
<1>3. f[0].heap = h /\ f[0].at = i /\ \A k \in 0 .. n : f[k] \in Moving(h, n + 1)
  BY <1>1 DEF Rounds
<1>4. ASSUME NEW k \in 1 .. n
      PROVE  /\ Entries(f[k].heap) = Entries(f[k - 1].heap) /\ (f[k] = f[k - 1] \/ (f[k - 1].at < f[k].at /\ ~Sorted(Prios(f[k - 1].heap), n)))
             /\ Sinking(Prios(f[k - 1].heap), n, f[k - 1].at) =>
                  /\ Sinking(Prios(f[k].heap), n, f[k].at)
                  /\ f[k] = f[k - 1] => Sorted(Prios(f[k - 1].heap), n)
  <2>1. PICK b, c : b = f[k - 1] /\ c = f[k]
    OBVIOUS
  <2>2. b \in Moving(h, n + 1) /\ c = Sunk(b)
    BY <1>1, <1>2, <1>3, <2>1
  <2>3. /\ Entries(c.heap) = Entries(b.heap) /\ (c = b \/ (b.at < c.at /\ ~Sorted(Prios(b.heap), n)))
        /\ Sinking(Prios(b.heap), n, b.at) =>
             Sinking(Prios(c.heap), n, c.at) /\ (c = b => Sorted(Prios(b.heap), n))
    BY <2>2, SinkRound
  <2>. QED  BY <2>1, <2>3
<1>5. \A k \in 0 .. n : f[k].at \in Nat
  BY <1>2, <1>3 DEF Moving
<1>6. Entries(g) = Entries(h)
  <2>1. PICK T : T = {k \in 0 .. n : Entries(f[k].heap) = Entries(h)}
    OBVIOUS
  <2>2. 0 \in T
    BY <1>2, <1>3, <2>1
  <2>3. ASSUME NEW k \in 1 .. n, k - 1 \in T PROVE k \in T
    <3>1. k \in 0 .. n /\ k - 1 \in 0 .. n
      BY <1>2
    <3>. QED  BY <1>4, <2>1, <2>3, <3>1
  <2>4. n \in T
    BY <1>2, <2>2, <2>3, LoopKeeps
  <2>. QED  BY <1>1, <2>1, <2>4
<1>7. ASSUME Sinking(Prios(h), n, i) PROVE Sorted(Prios(g), n)
  <2>. DEFINE Good(k) == /\ Sinking(Prios(f[k].heap), n, f[k].at)
                         /\ k < f[k].at \/ Sorted(Prios(f[k].heap), n)
  <2>1. PICK T : T = {k \in 0 .. n : Good(k)}
    OBVIOUS
  <2>2. Good(0)
    BY <1>2, <1>3, <1>7
  <2>3. ASSUME NEW k \in 1 .. n, Good(k - 1) PROVE Good(k)
    <3>1. Sinking(Prios(f[k].heap), n, f[k].at)
      BY <1>4, <2>3
    <3>2. CASE f[k] = f[k - 1]
      BY <1>4, <2>3, <3>1, <3>2
    <3>3. CASE f[k - 1].at < f[k].at /\ k - 1 < f[k - 1].at
      <4>1. k - 1 \in 0 .. n /\ k \in 0 .. n
        BY <1>2
      <4>2. f[k - 1].at \in Nat /\ f[k].at \in Nat
        BY <1>5, <4>1
      <4>. QED  BY <3>1, <3>3, <4>2
    <3>. QED  BY <1>4, <2>3, <3>2, <3>3
  <2>4. Good(n)
    <3>. HIDE DEF Good
    <3>1. 0 \in T
      BY <1>2, <2>1, <2>2
    <3>2. \A k \in 1 .. n : k - 1 \in T => k \in T
      BY <1>2, <2>1, <2>3
    <3>3. n \in T
      BY <1>2, <3>1, <3>2, LoopKeeps
    <3>. QED  BY <2>1, <3>3
  <2>5. PICK at, p : at = f[n].at /\ p = Prios(g)
    OBVIOUS
  <2>6. CASE n < at
    <3>1. at \in Nat /\ Sinking(p, n, at)
      BY <1>1, <1>2, <1>5, <2>4, <2>5
    <3>2. \A j \in 2 .. n : Parent(j) # at
      BY <1>2, <2>6, <3>1, Half
    <3>. QED  BY <2>5, <3>1, <3>2 DEF Sinking, Sorted
  <2>. QED  BY <1>1, <2>4, <2>5, <2>6
<1>. QED  BY <1>6, <1>7

\* Where bubble_up goes next.
LEMMA AboveIs ==
    ASSUME NEW h, HeapOK(h), NEW n, n = Len(h.data), NEW i \in 1 .. n, NEW p, p = Prios(h), NEW to, to = Above(h, i)
    PROVE  /\ to # i => i \in 2 .. n /\ to \in 1 .. n /\ to = Parent(i) /\ to < i /\ p[i] < p[to]
           /\ to = i /\ i # 1 => p[Parent(i)] <= p[i]
<1>1. /\ n \in Nat /\ p \in [1 .. n -> Nat] /\ \A j \in 1 .. n : p[j] = h.data[j].prio
  BY PriosOf DEF Positions
<1>2. CASE i = 1
  BY <1>2 DEF Above
<1>3. CASE i # 1
  <2>1. i \in 2 .. n /\ i > 1
    BY <1>1, <1>3
  <2>2. PICK o : o = Parent(i)
    OBVIOUS
  <2>3. o \in 1 .. n /\ o < i
    BY <1>1, <2>1, <2>2, Half
  <2>4. to = IF Greater(h.data[i], h.data[o]) THEN o ELSE i
    BY <2>1, <2>2 DEF Above, Parent
  <2>5. to = IF p[i] < p[o] THEN o ELSE i
    BY <1>1, <2>3, <2>4 DEF Greater
  <2>6. p[i] \in Nat /\ p[o] \in Nat
    BY <1>1, <2>3
  <2>. QED  BY <2>1, <2>2, <2>3, <2>5, <2>6
<1>. QED  BY <1>2, <1>3

\* A round of bubble_up moves the entry up and sorts what is below it, or the heap is sorted.
LEMMA RiseRound ==
    ASSUME NEW h, HeapOK(h), NEW n, n = Len(h.data), NEW b \in Moving(h, n), NEW c, c = Risen(b)
    PROVE  /\ Entries(c.heap) = Entries(b.heap) /\ (c = b \/ (c.at < b.at /\ ~Sorted(Prios(b.heap), n)))
           /\ Rising(Prios(b.heap), n, b.at) =>
                Rising(Prios(c.heap), n, c.at) /\ (c = b => Sorted(Prios(b.heap), n))
<1>1. PICK g, i, to, p : g = b.heap /\ i = b.at /\ to = Above(g, i) /\ p = Prios(g)
  OBVIOUS
<1>2. n \in Nat /\ i \in 1 .. n /\ HeapOK(g) /\ Len(g.data) = n
  BY <1>1, HeapParts DEF Moving, Reordered, HeapOK
<1>3. /\ p \in [1 .. n -> Nat] /\ Positions(g) = 1 .. n
  BY <1>1, <1>2, PriosOf DEF Positions
<1>4. /\ to # i => i \in 2 .. n /\ to \in 1 .. n /\ to = Parent(i) /\ to < i /\ p[i] < p[to]
      /\ to = i /\ i # 1 => p[Parent(i)] <= p[i]
  BY <1>1, <1>2, AboveIs
<1>5. CASE to = i
  <2>1. c = b
    BY <1>1, <1>5 DEF Risen, Moved
  <2>2. ASSUME Rising(p, n, i) PROVE Sorted(p, n)
    BY <1>4, <1>5, <2>2 DEF Rising, Sorted
  <2>3. Rising(Prios(b.heap), n, b.at) => Sorted(Prios(b.heap), n)
    BY <1>1, <2>2
  <2>. QED  BY <2>1, <2>3
<1>6. CASE to # i
  <2>1. i \in 2 .. n /\ to \in 1 .. n /\ to = Parent(i) /\ to < i /\ p[i] < p[to]
    BY <1>4, <1>6
  <2>2. p[i] <= p[to] /\ ~(p[to] <= p[i])
    BY <1>2, <1>3, <2>1
  <2>3. ~Sorted(p, n)
    BY <2>1, <2>2 DEF Sorted
  <2>4. PICK x, q : x = SwapEntries(g, i, to) /\ q = Prios(x)
    OBVIOUS
  <2>5. c = [heap |-> x, at |-> to]
    BY <1>1, <1>6, <2>4 DEF Risen, Moved
  <2>6. HeapOK(x) /\ Reordered(g, x)
    BY <1>2, <1>3, <2>1, <2>4, SwapOK
  <2>7. Entries(x) = Entries(g) /\ Swapped(p, q, n, i, to)
    BY <1>1, <1>2, <1>3, <2>1, <2>4, SwapEntriesOnly
  <2>8. q \in [1 .. n -> Nat]
    BY <1>2, <2>4, <2>6, PriosOf DEF Reordered
  <2>9. ASSUME Rising(p, n, i) PROVE Rising(q, n, to)
    <3>1. n \in Nat /\ p \in [1 .. n -> Nat] /\ i \in 2 .. n /\ to = Parent(i) /\ p[i] <= p[to]
      BY <1>2, <1>3, <2>1, <2>2
    <3>. QED  BY <2>7, <2>8, <2>9, <3>1, RiseSorts
  <2>10. c.heap = x /\ c.at = to /\ c # b /\ c.at < b.at
    BY <1>1, <1>2, <2>1, <2>5
  <2>. QED  BY <1>1, <2>3, <2>4, <2>7, <2>9, <2>10
<1>. QED  BY <1>5, <1>6

\* bubble_up sorts a heap but for whose entry at i it is sorted.
LEMMA BubbleUpSorts ==
    ASSUME NEW h, HeapOK(h), NEW n, n = Len(h.data), NEW i \in Positions(h), NEW g, g = BubbleUp(h, i)
    PROVE  Entries(g) = Entries(h) /\ (Rising(Prios(h), n, i) => Sorted(Prios(g), n))
<1>1. PICK f : /\ Rounds(f, h, i, n) /\ g = f[n].heap /\ \A k \in 1 .. n : f[k] = Risen(f[k - 1])
  BY RiseRounds
<1>2. n \in Nat /\ i \in 1 .. n
  BY HeapParts DEF HeapOK, Positions
<1>3. f[0].heap = h /\ f[0].at = i /\ \A k \in 0 .. n : f[k] \in Moving(h, n)
  BY <1>1 DEF Rounds
<1>4. ASSUME NEW k \in 1 .. n
      PROVE  /\ Entries(f[k].heap) = Entries(f[k - 1].heap)
             /\ f[k] = f[k - 1] \/ (f[k].at < f[k - 1].at /\ ~Sorted(Prios(f[k - 1].heap), n))
             /\ Rising(Prios(f[k - 1].heap), n, f[k - 1].at) =>
                  /\ Rising(Prios(f[k].heap), n, f[k].at)
                  /\ f[k] = f[k - 1] => Sorted(Prios(f[k - 1].heap), n)
  <2>1. PICK b, c : b = f[k - 1] /\ c = f[k]
    OBVIOUS
  <2>2. b \in Moving(h, n) /\ c = Risen(b)
    BY <1>1, <1>2, <1>3, <2>1
  <2>3. /\ Entries(c.heap) = Entries(b.heap) /\ (c = b \/ (c.at < b.at /\ ~Sorted(Prios(b.heap), n)))
        /\ Rising(Prios(b.heap), n, b.at) =>
             Rising(Prios(c.heap), n, c.at) /\ (c = b => Sorted(Prios(b.heap), n))
    BY <2>2, RiseRound
  <2>. QED  BY <2>1, <2>3
<1>5. \A k \in 0 .. n : f[k].at \in 1 .. n
  BY <1>2, <1>3 DEF Moving
<1>6. Entries(g) = Entries(h)
  <2>1. PICK T : T = {k \in 0 .. n : Entries(f[k].heap) = Entries(h)}
    OBVIOUS
  <2>2. 0 \in T
    BY <1>2, <1>3, <2>1
  <2>3. ASSUME NEW k \in 1 .. n, k - 1 \in T PROVE k \in T
    <3>1. k \in 0 .. n /\ k - 1 \in 0 .. n
      BY <1>2
    <3>. QED  BY <1>4, <2>1, <2>3, <3>1
  <2>4. n \in T
    BY <1>2, <2>2, <2>3, LoopKeeps
  <2>. QED  BY <1>1, <2>1, <2>4
<1>7. ASSUME Rising(Prios(h), n, i) PROVE Sorted(Prios(g), n)
  <2>. DEFINE Good(k) == /\ Rising(Prios(f[k].heap), n, f[k].at)
                         /\ f[k].at <= n - k \/ Sorted(Prios(f[k].heap), n)
  <2>1. PICK T : T = {k \in 0 .. n : Good(k)}
    OBVIOUS
  <2>2. Good(0)
    BY <1>2, <1>3, <1>7
  <2>3. ASSUME NEW k \in 1 .. n, Good(k - 1) PROVE Good(k)
    <3>1. Rising(Prios(f[k].heap), n, f[k].at)
      BY <1>4, <2>3
    <3>2. CASE f[k] = f[k - 1]
      BY <1>4, <2>3, <3>1, <3>2
    <3>3. CASE f[k].at < f[k - 1].at /\ f[k - 1].at <= n - (k - 1)
      <4>1. k - 1 \in 0 .. n /\ k \in 0 .. n
        BY <1>2
      <4>2. f[k - 1].at \in 1 .. n /\ f[k].at \in 1 .. n
        BY <1>5, <4>1
      <4>3. f[k].at <= n - k
        BY <1>2, <3>3, <4>2
      <4>. QED  BY <3>1, <4>3
    <3>. QED  BY <1>4, <2>3, <3>2, <3>3
  <2>4. Good(n)
    <3>. HIDE DEF Good
    <3>1. 0 \in T
      BY <1>2, <2>1, <2>2
    <3>2. \A k \in 1 .. n : k - 1 \in T => k \in T
      BY <1>2, <2>1, <2>3
    <3>3. n \in T
      BY <1>2, <3>1, <3>2, LoopKeeps
    <3>. QED  BY <2>1, <3>3
  <2>5. f[n].at \in 1 .. n
    BY <1>2, <1>5
  <2>6. ~(f[n].at <= n - n)
    BY <1>2, <2>5
  <2>. QED  BY <1>1, <2>4, <2>6
<1>. QED  BY <1>6, <1>7

-----------------------------------------------------------------------------
(* The operations of the heap *)

\* An index that reserve_index may have returned.
IsIndex(idx) == idx \in [slot : Nat, gen : Nat] /\ 1 <= idx.slot /\ RESERVED_MARKER < idx.gen

\* The index of an entry.
LEMMA HandleIs ==
    ASSUME NEW h, HeapOK(h), NEW i \in Positions(h)
    PROVE  /\ IsIndex(Handle(h, i).idx) /\ Handle(h, i).item \in Sessions
           /\ Handle(h, i).idx.gen <= h.generation
           /\ Handle(h, i).item = h.data[i].item
           /\ DerefIndex(h, Handle(h, i).idx) = i
<1>1. h.data[i].item \in Sessions /\ h.data[i].slot \in Nat /\ h.data[i].slot \in Slots(h) /\ Len(h.map) \in Nat
  BY HeapParts DEF HeapOK, Linked
<1>2. PICK s, g, x : s = h.data[i].slot /\ g = h.map[s].gen /\ x = h.data[i].item
  OBVIOUS
<1>3. g \in Nat /\ RESERVED_MARKER < g /\ g <= h.generation /\ h.map[s].pos = i
  BY <1>1, <1>2, HeapParts DEF HeapOK, Linked, Taken
<1>4. Handle(h, i) = [item |-> x, idx |-> [slot |-> s, gen |-> g]]
  BY <1>2 DEF Handle
<1>. QED  BY <1>1, <1>2, <1>3, <1>4 DEF IsIndex, DerefIndex, Slots

\* deref_index finds the item of an index if there is one.
LEMMA DerefOK ==
    ASSUME NEW h, HeapOK(h), NEW idx, IsIndex(idx)
    PROVE  /\ DerefIndex(h, idx) # 0 => DerefIndex(h, idx) \in Positions(h) /\ Handle(h, DerefIndex(h, idx)).idx = idx
           /\ \A e \in Handles(h) : e.idx = idx => DerefIndex(h, idx) # 0
<1>1. ASSUME DerefIndex(h, idx) # 0
      PROVE  DerefIndex(h, idx) \in Positions(h) /\ Handle(h, DerefIndex(h, idx)).idx = idx
  <2>1. PICK s, g, i : s = idx.slot /\ g = idx.gen /\ i = DerefIndex(h, idx)
    OBVIOUS
  <2>2. s \in Slots(h) /\ h.map[s].gen = g /\ h.map[s].pos = i /\ g # EMPTY_MARKER
    BY <1>1, <2>1, HeapParts DEF DerefIndex, IsIndex, Slots, HeapOK, RESERVED_MARKER, EMPTY_MARKER
  <2>3. i \in Positions(h) /\ h.data[i].slot = s
    BY <2>2 DEF HeapOK, Taken
  <2>4. idx = [slot |-> s, gen |-> g]
    BY <2>1 DEF IsIndex
  <2>. QED  BY <2>1, <2>2, <2>3, <2>4 DEF Handle
<1>2. ASSUME NEW e \in Handles(h), e.idx = idx PROVE DerefIndex(h, idx) # 0
  <2>1. PICK i \in Positions(h) : e = Handle(h, i)
    BY DEF Handles
  <2>2. i \in 1 .. Len(h.data) /\ Len(h.data) \in Nat
    BY HeapParts DEF HeapOK, Positions
  <2>3. DerefIndex(h, idx) = i
    BY <1>2, <2>1, HandleIs
  <2>. QED  BY <2>2, <2>3
<1>. QED  BY <1>1, <1>2

\* The heap h when the priority of the entry at i was set and it has not been moved yet.
WithPrio(h, i, prio) == [h EXCEPT !.data[i].prio = prio]

LEMMA PrioritySet ==
    ASSUME NEW h, HeapOK(h), NEW i \in Positions(h), NEW prio \in Nat, NEW g, g = WithPrio(h, i, prio)
    PROVE  /\ HeapOK(g) /\ Reordered(h, g) /\ i \in Positions(g) /\ i \in 1 .. Len(g.data) + 1
           /\ \A j \in Positions(h) : j # i => g.data[j] = h.data[j]
           /\ g.data[i].prio = prio
<1>1. PICK d, x : d = h.data /\ x = [d[i] EXCEPT !.prio = prio]
  OBVIOUS
<1>2. d \in Seq(HeapEntry) /\ d[i] \in HeapEntry /\ i \in 1 .. Len(d)
  BY <1>1, HeapParts DEF HeapOK, Positions
<1>3. x \in HeapEntry /\ x.item = d[i].item /\ x.slot = d[i].slot /\ x.prio = prio
  BY <1>1, <1>2 DEF HeapEntry
<1>4. PICK d1 : d1 = [d EXCEPT ![i] = x]
  OBVIOUS
<1>5. d1 \in Seq(HeapEntry) /\ Len(d1) = Len(d) /\ \A j \in 1 .. Len(d) : d1[j] = IF j = i THEN x ELSE d[j]
  BY <1>2, <1>3, <1>4, ExceptSeq
<1>6. g = [h EXCEPT !.data = d1]
  BY <1>1, <1>4 DEF WithPrio
<1>7. /\ g \in Heap /\ g.generation = h.generation /\ g.free_list_head = h.free_list_head
      /\ g.data = d1 /\ g.map = h.map
  BY <1>5, <1>6 DEF HeapOK, Heap
<1>8. /\ Len(g.data) = Len(h.data) /\ Positions(g) = Positions(h) /\ Slots(g) = Slots(h)
      /\ \A j \in Positions(h) : g.data[j].item = h.data[j].item /\ g.data[j].slot = h.data[j].slot
  BY <1>1, <1>3, <1>5, <1>7 DEF Positions, Slots
<1>9. HeapOK(g)
  BY <1>7, <1>8 DEF HeapOK, Linked, Taken, FreeList
<1>10. Reordered(h, g)
  <2>1. \A j \in Positions(h) : Handle(g, j) = Handle(h, j)
    BY <1>7, <1>8 DEF Handle
  <2>. QED  BY <1>7, <1>8, <2>1 DEF Reordered, Handles
<1>11. i \in 1 .. Len(g.data) + 1 /\ i \in Positions(g)
  BY <1>8, <1>9, HeapParts DEF Positions, HeapOK
<1>12. g.data[i].prio = prio /\ \A j \in Positions(h) : j # i => g.data[j] = h.data[j]
  BY <1>1, <1>2, <1>3, <1>5, <1>7 DEF Positions
<1>. QED  BY <1>9, <1>10, <1>11, <1>12

\* update_priority only changes the order, and what was in order stays so.
LEMMA ChangePriorityOK ==
    ASSUME NEW h, HeapOK(h), NEW idx, IsIndex(idx), NEW prio \in Nat, NEW c, c = ChangePriority(h, idx, prio)
    PROVE  /\ HeapOK(c) /\ Reordered(h, c)
           /\ \A e \in Entries(c) : e \in Entries(h) \/ e.prio = prio
           /\ Ordered(h) => Ordered(c)
<1>1. PICK i : i = DerefIndex(h, idx)
  OBVIOUS
<1>2. CASE i = 0
  BY <1>1, <1>2 DEF ChangePriority, Reordered
<1>3. CASE i # 0
  <2>1. i \in Positions(h)
    BY <1>1, <1>3, DerefOK
  <2>2. PICK g : g = WithPrio(h, i, prio)
    OBVIOUS
  <2>3. /\ HeapOK(g) /\ Reordered(h, g) /\ i \in Positions(g) /\ i \in 1 .. Len(g.data) + 1
        /\ \A j \in Positions(h) : j # i => g.data[j] = h.data[j]
        /\ g.data[i].prio = prio
    <3>1. HeapOK(g) /\ Reordered(h, g)
      BY <2>1, <2>2, PrioritySet
    <3>2. i \in Positions(g) /\ i \in 1 .. Len(g.data) + 1
      BY <2>1, <2>2, PrioritySet
    <3>3. \A j \in Positions(h) : j # i => g.data[j] = h.data[j]
      BY <2>1, <2>2, PrioritySet
    <3>4. g.data[i].prio = prio
      BY <2>1, <2>2, PrioritySet
    <3>. QED  BY <3>1, <3>2, <3>3, <3>4
  <2>. DEFINE n == Len(h.data)
              p == Prios(h)
              q == Prios(g)
  <2>4. n \in Nat /\ Len(g.data) = n /\ Positions(h) = 1 .. n /\ Positions(g) = 1 .. n /\ i \in 1 .. n
    <3>1. Len(h.data) \in Nat /\ Len(g.data) = Len(h.data)
      BY <2>3, PriosOf DEF Reordered
    <3>. QED  BY <2>1, <3>1 DEF Positions
  <2>5. p \in [1 .. n -> Nat] /\ \A j \in 1 .. n : p[j] = h.data[j].prio
    BY <2>4, PriosOf
  <2>6. q \in [1 .. n -> Nat] /\ q[i] = prio /\ \A j \in 1 .. n : j # i => q[j] = p[j]
    <3>1. q \in [1 .. n -> Nat] /\ \A j \in 1 .. n : q[j] = g.data[j].prio
      BY <2>3, <2>4, PriosOf
    <3>. QED  BY <2>3, <2>4, <2>5, <3>1
  <2>7. \A e \in Entries(g) : e \in Entries(h) \/ e.prio = prio
    BY <2>3, <2>4 DEF Entries
  <2>8. c = IF p[i] < prio THEN BubbleDown(g, i) ELSE BubbleUp(g, i)
    <3>1. c = IF h.data[i].prio < g.data[i].prio THEN BubbleDown(g, i) ELSE BubbleUp(g, i)
      BY <1>1, <1>3, <2>2 DEF ChangePriority, Greater, WithPrio
    <3>. QED  BY <2>3, <2>4, <2>5, <3>1
  <2>. HIDE DEF n, p, q
  <2>9. ASSUME Sorted(p, n)
        PROVE  /\ p[i] < prio => Sinking(q, n, i)
               /\ ~(p[i] < prio) => Rising(q, n, i)
    <3>1. ASSUME NEW j \in 2 .. n
          PROVE  /\ Parent(j) \in 1 .. n /\ Parent(j) # j /\ j \in 1 .. n /\ p[Parent(j)] <= p[j]
                 /\ Parent(j) # i /\ j # i => q[Parent(j)] <= q[j]
      <4>1. Parent(j) \in 1 .. n /\ Parent(j) # j /\ j \in 1 .. n
        BY <2>4, Half
      <4>2. p[Parent(j)] <= p[j]
        BY <2>9 DEF Sorted
      <4>. QED  BY <2>6, <4>1, <4>2
    <3>2. ASSUME NEW j \in 2 .. n, Parent(j) = i, 1 < i PROVE q[Parent(i)] <= q[j]
      <4>1. i \in 2 .. n
        BY <2>4, <3>2
      <4>2. PICK o \in 1 .. n : o = Parent(i) /\ o # i /\ p[o] <= p[i]
        BY <3>1, <4>1
      <4>3. p[i] <= p[j] /\ j # i /\ j \in 1 .. n
        BY <3>1, <3>2
      <4>4. q[o] = p[o] /\ q[j] = p[j] /\ p[o] \in Nat /\ p[i] \in Nat /\ p[j] \in Nat
        BY <2>4, <2>5, <2>6, <4>2, <4>3
      <4>. QED  BY <4>2, <4>3, <4>4
    <3>3. ASSUME p[i] < prio, NEW j \in 2 .. n, Parent(j) # i PROVE q[Parent(j)] <= q[j]
      <4>1. CASE j = i
        <5>1. PICK o \in 1 .. n : o = Parent(i) /\ o # i /\ p[o] <= p[i]
          BY <3>1, <4>1
        <5>2. q[o] = p[o] /\ q[i] = prio /\ p[o] \in Nat /\ p[i] \in Nat
          BY <2>4, <2>5, <2>6, <5>1
        <5>3. q[o] <= q[i]
          BY <3>3, <5>1, <5>2
        <5>. QED  BY <4>1, <5>1, <5>3
      <4>. QED  BY <3>1, <3>3, <4>1
    <3>4. ASSUME ~(p[i] < prio), NEW j \in 2 .. n, j # i PROVE q[Parent(j)] <= q[j]
      <4>1. CASE Parent(j) = i
        <5>1. q[j] = p[j] /\ p[i] <= p[j] /\ q[i] = prio /\ p[j] \in Nat /\ p[i] \in Nat
          BY <2>4, <2>5, <2>6, <3>1, <3>4, <4>1
        <5>2. q[i] <= q[j]
          BY <3>4, <5>1
        <5>. QED  BY <4>1, <5>2
      <4>. QED  BY <3>1, <3>4, <4>1
    <3>5. p[i] < prio => Sinking(q, n, i)
      BY <3>2, <3>3 DEF Sinking
    <3>6. ~(p[i] < prio) => Rising(q, n, i)
      BY <3>2, <3>4 DEF Rising
    <3>. QED  BY <3>5, <3>6
  <2>10. CASE p[i] < prio
    <3>1. c = BubbleDown(g, i)
      BY <2>8, <2>10
    <3>2. HeapOK(c) /\ Reordered(g, c)
      BY <2>3, <3>1, BubbleDownOK
    <3>3. Entries(c) = Entries(g) /\ (Sinking(q, n, i) => Sorted(Prios(c), n))
      BY <2>3, <2>4, <3>1, BubbleDownSorts DEF q
    <3>4. Ordered(h) => Ordered(c)
      BY <2>4, <2>9, <2>10, <3>2, <3>3 DEF Ordered, Reordered, n, p
    <3>. QED  BY <2>3, <2>7, <3>2, <3>3, <3>4 DEF Reordered
  <2>11. CASE ~(p[i] < prio)
    <3>1. c = BubbleUp(g, i)
      BY <2>8, <2>11
    <3>2. HeapOK(c) /\ Reordered(g, c)
      BY <2>3, <3>1, BubbleUpOK
    <3>3. Entries(c) = Entries(g) /\ (Rising(q, n, i) => Sorted(Prios(c), n))
      BY <2>3, <2>4, <3>1, BubbleUpSorts DEF q
    <3>4. Ordered(h) => Ordered(c)
      BY <2>4, <2>9, <2>11, <3>2, <3>3 DEF Ordered, Reordered, n, p
    <3>. QED  BY <2>3, <2>7, <3>2, <3>3, <3>4 DEF Reordered
  <2>. QED  BY <2>10, <2>11
<1>. QED  BY <1>2, <1>3

\* The last entry goes, and its slot s becomes the head of the free list.
Popped(h, s, head) ==
    [h EXCEPT !.data = Front(@), !.map[s] = [pos |-> head, gen |-> EMPTY_MARKER], !.free_list_head = s]

LEMMA PopOK ==
    ASSUME NEW h, HeapOK(h), Len(h.data) # 0, NEW s, s = h.data[Len(h.data)].slot, NEW head, head = h.free_list_head,
           NEW g, g = Popped(h, s, head)
    PROVE  /\ HeapOK(g) /\ g.generation = h.generation /\ Len(g.data) = Len(h.data) - 1
           /\ Handles(g) = Handles(h) \ {Handle(h, Len(h.data))}
           /\ \A i \in Positions(g) : i \in Positions(h) /\ g.data[i] = h.data[i]
<1>1. PICK d, m, n : d = h.data /\ m = h.map /\ n = Len(d)
  OBVIOUS
<1>2. PICK d1 : d1 = Front(d)
  OBVIOUS
<1>3. PICK m1, c : c = [pos |-> head, gen |-> EMPTY_MARKER] /\ m1 = [m EXCEPT ![s] = c]
  OBVIOUS
<1>4. n \in Nat /\ n # 0 /\ n \in Positions(h) /\ n - 1 \in Nat
  BY <1>1, HeapParts DEF HeapOK, Positions
<1>5. /\ d \in Seq(HeapEntry) /\ m \in Seq(Cell) /\ Len(m) \in Nat /\ s \in 1 .. Len(m)
      /\ s \in Nat /\ 1 <= s /\ head \in Nat
  BY <1>1, <1>4, HeapParts DEF HeapOK, Linked, Slots
<1>6. d1 \in Seq(HeapEntry) /\ Len(d1) = n - 1 /\ \A i \in 1 .. n - 1 : d1[i] = d[i]
  BY <1>1, <1>2, <1>4, <1>5 DEF Front
<1>7. c \in Cell
  BY <1>3, <1>5 DEF Cell, EMPTY_MARKER
<1>8. m1 \in Seq(Cell) /\ Len(m1) = Len(m) /\ \A i \in 1 .. Len(m) : m1[i] = IF i = s THEN c ELSE m[i]
  BY <1>3, <1>5, <1>7, ExceptSeq
<1>9. g = [h EXCEPT !.data = d1, !.map = m1, !.free_list_head = s]
  BY <1>1, <1>2, <1>3 DEF Popped
<1>10. g \in Heap /\ g.generation = h.generation /\ g.free_list_head = s /\ g.data = d1 /\ g.map = m1
  BY <1>5, <1>6, <1>8, <1>9 DEF HeapOK, Heap
<1>11. /\ Len(g.data) = n - 1 /\ Positions(h) = 1 .. n /\ Positions(g) = 1 .. n - 1 /\ Slots(g) = Slots(h)
       /\ s \in Slots(h) /\ \A i \in Positions(g) : i \in Positions(h) /\ i # n /\ g.data[i] = h.data[i]
       /\ \A k \in Slots(h) : k # s => g.map[k] = h.map[k]
       /\ g.map[s].pos = head /\ g.map[s].gen = EMPTY_MARKER
       /\ h.map[s].pos = n /\ h.data[n].slot = s /\ h.map[s].gen # EMPTY_MARKER
  <2>1. h.map[s].pos = n /\ h.data[n].slot = s /\ h.map[s].gen # EMPTY_MARKER
    BY <1>1, <1>4 DEF HeapOK, Linked
  <2>. QED  BY <1>1, <1>3, <1>4, <1>5, <1>6, <1>8, <1>10, <2>1 DEF Positions, Slots
<1>12. ASSUME NEW i \in Positions(g) PROVE h.data[i].slot \in Slots(h) /\ h.data[i].slot # s
  <2>1. i \in Positions(h) /\ i # n
    BY <1>11
  <2>2. h.data[i].slot \in Slots(h) /\ h.map[h.data[i].slot].pos = i
    BY <2>1 DEF HeapOK, Linked
  <2>3. h.map[s].pos = n
    BY <1>11
  <2>. QED  BY <2>1, <2>2, <2>3
<1>13. Linked(g)
  <2>. SUFFICES ASSUME NEW i \in Positions(g)
                PROVE  /\ g.data[i].slot \in Slots(g) /\ g.map[g.data[i].slot].pos = i
                       /\ g.map[g.data[i].slot].gen # EMPTY_MARKER
    BY DEF Linked
  <2>1. PICK k \in Slots(h) : k = h.data[i].slot /\ k # s
    BY <1>12
  <2>2. i \in Positions(h) /\ g.data[i] = h.data[i] /\ g.map[k] = h.map[k]
    BY <1>11, <2>1
  <2>3. h.map[k].pos = i /\ h.map[k].gen # EMPTY_MARKER
    BY <2>1, <2>2 DEF HeapOK, Linked
  <2>4. Slots(g) = Slots(h)
    BY <1>11
  <2>. QED  BY <2>1, <2>2, <2>3, <2>4
<1>14. Taken(g)
  <2>. SUFFICES ASSUME NEW k \in Slots(h), g.map[k].gen # EMPTY_MARKER
                PROVE  /\ g.map[k].pos \in Positions(g) /\ g.data[g.map[k].pos].slot = k
                       /\ RESERVED_MARKER < g.map[k].gen /\ g.map[k].gen <= g.generation
    BY <1>11 DEF Taken
  <2>1. k # s /\ g.map[k] = h.map[k]
    BY <1>11
  <2>2. PICK i \in Positions(h) : /\ i = h.map[k].pos /\ h.data[i].slot = k
                                  /\ RESERVED_MARKER < h.map[k].gen /\ h.map[k].gen <= h.generation
    BY <2>1 DEF HeapOK, Taken
  <2>3. i # n
    BY <1>11, <2>1, <2>2
  <2>4. i \in Positions(g)
    BY <1>4, <1>11, <2>3
  <2>. QED  BY <1>10, <1>11, <2>1, <2>2, <2>4
<1>15. FreeList(g)
  <2>1. FreeList(h)
    BY DEF HeapOK
  <2>2. head # 0 => head \in Slots(h) /\ h.map[head].gen = EMPTY_MARKER
    BY <2>1 DEF FreeList
  <2>3. head # s
    BY <1>5, <1>11, <2>2
  <2>4. g.free_list_head \in Slots(g) /\ g.map[g.free_list_head].gen = EMPTY_MARKER
    BY <1>10, <1>11
  <2>5. ASSUME NEW k \in Slots(h), g.map[k].gen = EMPTY_MARKER, g.map[k].pos # 0
        PROVE  /\ g.map[k].pos \in Slots(h) /\ g.map[g.map[k].pos].gen = EMPTY_MARKER /\ g.map[k].pos # s
               /\ \A l \in Slots(h) : g.map[l].gen = EMPTY_MARKER /\ g.map[l].pos = g.map[k].pos => l = k
    <3>1. CASE k = s
      <4>1. head # 0 /\ g.map[k].pos = head /\ g.map[head] = h.map[head]
        BY <1>11, <2>2, <2>3, <2>5, <3>1
      <4>2. ASSUME NEW l \in Slots(h), l # s, g.map[l].gen = EMPTY_MARKER, g.map[l].pos = head PROVE FALSE
        <5>1. g.map[l] = h.map[l]
          BY <1>11, <4>2
        <5>2. h.map[l].gen = EMPTY_MARKER /\ h.map[l].pos = h.free_list_head /\ h.map[l].pos # 0
          BY <4>1, <4>2, <5>1
        <5>. QED  BY <2>1, <5>2 DEF FreeList
      <4>. QED  BY <2>2, <2>3, <3>1, <4>1, <4>2
    <3>2. CASE k # s
      <4>1. PICK j : j = h.map[k].pos
        OBVIOUS
      <4>2. g.map[k].pos = j /\ h.map[k].gen = EMPTY_MARKER /\ j # 0
        BY <1>11, <2>5, <3>2, <4>1
      <4>3. /\ j \in Slots(h) /\ h.map[j].gen = EMPTY_MARKER /\ j # head
            /\ \A l \in Slots(h) : h.map[l].gen = EMPTY_MARKER /\ h.map[l].pos = j => l = k
        BY <2>1, <4>1, <4>2 DEF FreeList
      <4>4. j # s /\ g.map[j] = h.map[j]
        BY <1>11, <4>3
      <4>5. ASSUME NEW l \in Slots(h), g.map[l].gen = EMPTY_MARKER, g.map[l].pos = j PROVE l = k
        <5>1. l # s
          BY <1>11, <4>3, <4>5
        <5>. QED  BY <1>11, <4>3, <4>5, <5>1
      <4>. QED  BY <4>2, <4>3, <4>4, <4>5
    <3>. QED  BY <3>1, <3>2
  <2>6. Slots(g) = Slots(h) /\ g.free_list_head = s
    BY <1>10, <1>11
  <2>7. ASSUME NEW k \in Slots(g), g.map[k].gen = EMPTY_MARKER, g.map[k].pos # 0
        PROVE  /\ g.map[k].pos \in Slots(g) /\ g.map[g.map[k].pos].gen = EMPTY_MARKER
               /\ g.map[k].pos # g.free_list_head
               /\ \A l \in Slots(g) : g.map[l].gen = EMPTY_MARKER /\ g.map[l].pos = g.map[k].pos => l = k
    <3>1. k \in Slots(h)
      BY <2>6
    <3>2. /\ g.map[k].pos \in Slots(h) /\ g.map[g.map[k].pos].gen = EMPTY_MARKER /\ g.map[k].pos # s
          /\ \A l \in Slots(h) : g.map[l].gen = EMPTY_MARKER /\ g.map[l].pos = g.map[k].pos => l = k
      BY <2>5, <2>7, <3>1, Zenon
    <3>. QED  BY <2>6, <3>2
  <2>. QED  BY <2>4, <2>7 DEF FreeList
<1>16. Handles(g) = Handles(h) \ {Handle(h, n)}
  <2>1. ASSUME NEW i \in Positions(g) PROVE Handle(g, i) = Handle(h, i)
    <3>1. PICK k \in Slots(h) : k = h.data[i].slot /\ k # s
      BY <1>12
    <3>2. g.data[i] = h.data[i] /\ g.map[k] = h.map[k]
      BY <1>11, <3>1
    <3>. QED  BY <3>1, <3>2 DEF Handle
  <2>2. \A i \in Positions(h) : i \in Positions(g) \/ i = n
    BY <1>4, <1>11
  <2>3. \A i \in Positions(h) : DerefIndex(h, Handle(h, i).idx) = i
    BY HandleIs
  <2>4. \A i \in Positions(g) : Handle(h, i) # Handle(h, n)
    BY <1>4, <1>11, <2>3
  <2>. QED  BY <1>4, <1>11, <2>1, <2>2, <2>4 DEF Handles
<1>. QED  BY <1>1, <1>4, <1>10, <1>11, <1>13, <1>14, <1>15, <1>16 DEF HeapOK

\* The last entry in the place of the one at i: if what is above i is also above the last one, only
\* what is below i may be out of order.
LEMMA LastInPlace ==
    ASSUME NEW n \in Nat, n # 0, NEW i \in 1 .. n, NEW p \in [1 .. n -> Nat], NEW q \in [1 .. n - 1 -> Nat],
           \A j \in 1 .. n - 1 : q[j] = IF j = i THEN p[n] ELSE p[j], Sorted(p, n),
           i \in 2 .. n - 1 => p[Parent(i)] <= p[n]
    PROVE  Sinking(q, n - 1, i)
<1>1. \A j \in 2 .. n : p[Parent(j)] <= p[j]
  BY DEF Sorted
<1>3. ASSUME NEW o \in 1 .. n, i \in 2 .. n - 1, o = Parent(i) PROVE p[o] <= p[n]
  BY <1>3
<1>4. ASSUME NEW j \in 2 .. n - 1, NEW k, k = Parent(j)
      PROVE  k \in 1 .. n - 1 /\ k # j /\ j \in 1 .. n - 1 /\ j \in 2 .. n /\ p[k] <= p[j] /\ k \in Nat /\ j \in Nat
  <2>1. n - 1 \in Nat /\ j \in 2 .. n
    OBVIOUS
  <2>2. k \in 1 .. n - 1 /\ k < j /\ j \in 1 .. n - 1
    BY <1>4, <2>1, Half
  <2>. QED  BY <1>1, <1>4, <2>1, <2>2
<1>5. ASSUME NEW j \in 2 .. n - 1, NEW k, k = Parent(j), k # i PROVE q[k] <= q[j]
  <2>1. CASE j = i
    <3>1. q[j] = p[n] /\ q[k] = p[k]
      BY <1>4, <1>5, <2>1
    <3>2. k \in 1 .. n /\ i \in 2 .. n - 1
      BY <1>4, <1>5, <2>1
    <3>3. p[k] <= p[n]
      BY <1>3, <1>5, <2>1, <3>2
    <3>. QED  BY <3>1, <3>3
  <2>2. CASE j # i
    <3>1. q[j] = p[j] /\ q[k] = p[k] /\ p[k] <= p[j]
      BY <1>4, <1>5, <2>2
    <3>. QED  BY <3>1
  <2>. QED  BY <2>1, <2>2
<1>6. ASSUME NEW j \in 2 .. n - 1, Parent(j) = i, 1 < i PROVE q[Parent(i)] <= q[j]
  <2>1. i \in 2 .. n - 1 /\ p[i] <= p[j] /\ q[j] = p[j] /\ j \in 1 .. n
    <3>1. i \in 1 .. n - 1 /\ i # j /\ j \in 1 .. n - 1 /\ p[i] <= p[j]
      BY <1>4, <1>6
    <3>2. q[j] = p[j]
      BY <3>1
    <3>. QED  BY <1>6, <3>1, <3>2
  <2>2. PICK o \in 1 .. n - 1 : o = Parent(i) /\ o # i /\ p[o] <= p[i]
    BY <1>4, <2>1
  <2>3. q[o] = p[o] /\ p[o] \in Nat /\ p[i] \in Nat /\ p[j] \in Nat
    BY <2>1, <2>2
  <2>. QED  BY <2>1, <2>2, <2>3
<1>. QED  BY <1>5, <1>6 DEF Sinking

\* What is above i is not less urgent than the last entry, which takes its place.
LastFits(h, i) == i \in 2 .. Len(h.data) - 1 => ~Greater(h.data[Len(h.data)], h.data[i \div 2])

\* remove_idx removes one item, and no index but its own is lost; if the last entry fits, the others
\* stay in order.
LEMMA RemoveIdxOK ==
    ASSUME NEW h, HeapOK(h), NEW i \in Positions(h), NEW g, g = RemoveIdx(h, i)
    PROVE  /\ HeapOK(g) /\ g.generation = h.generation /\ Handles(g) = Handles(h) \ {Handle(h, i)}
           /\ Entries(g) \subseteq Entries(h)
           /\ LastFits(h, i) /\ Ordered(h) => Ordered(g)
<1>1. PICK n, x, s, head : /\ n = Len(h.data) /\ x = SwapEntries(h, i, n) /\ s = h.data[i].slot
                           /\ head = h.free_list_head
  OBVIOUS
<1>2. n \in Nat /\ n # 0 /\ n \in Positions(h) /\ i \in 1 .. n /\ Positions(h) = 1 .. n
  BY <1>1, HeapParts DEF HeapOK, Positions
<1>3. HeapOK(x) /\ Reordered(h, x)
  BY <1>1, <1>2, SwapOK
<1>4. /\ Len(x.data) = n /\ x.data[n] = h.data[i] /\ x.free_list_head = h.free_list_head
      /\ \A k \in Slots(h) : x.map[k].gen = h.map[k].gen
      /\ \A j \in 1 .. n : j # n => x.data[j] = IF j = i THEN h.data[n] ELSE h.data[j]
  BY <1>1, <1>2, SwapParts
<1>5. Handle(x, n) = Handle(h, i)
  <2>1. s \in Slots(h)
    BY <1>1 DEF HeapOK, Linked
  <2>. QED  BY <1>1, <1>4, <2>1 DEF Handle
<1>6. PICK p : p = Popped(x, s, head)
  OBVIOUS
<1>7. /\ HeapOK(p) /\ p.generation = x.generation /\ Len(p.data) = n - 1 /\ Handles(p) = Handles(x) \ {Handle(x, n)}
      /\ \A j \in Positions(p) : j \in Positions(x) /\ p.data[j] = x.data[j]
  <2>1. Len(x.data) # 0 /\ s = x.data[Len(x.data)].slot /\ head = x.free_list_head
    BY <1>1, <1>2, <1>4
  <2>2. /\ HeapOK(p) /\ p.generation = x.generation /\ Len(p.data) = Len(x.data) - 1
        /\ Handles(p) = Handles(x) \ {Handle(x, Len(x.data))}
        /\ \A j \in Positions(p) : j \in Positions(x) /\ p.data[j] = x.data[j]
    <3>1. HeapOK(p) /\ p.generation = x.generation /\ Len(p.data) = Len(x.data) - 1
      BY <1>3, <1>6, <2>1, PopOK
    <3>2. Handles(p) = Handles(x) \ {Handle(x, Len(x.data))}
      BY <1>3, <1>6, <2>1, PopOK
    <3>3. \A j \in Positions(p) : j \in Positions(x) /\ p.data[j] = x.data[j]
      BY <1>3, <1>6, <2>1, PopOK
    <3>. QED  BY <3>1, <3>2, <3>3
  <2>. QED  BY <1>4, <2>2
<1>8. g = BubbleDown(p, i)
  BY <1>1, <1>6 DEF RemoveIdx, Popped
<1>9. HeapOK(g) /\ Reordered(p, g)
  BY <1>2, <1>7, <1>8, BubbleDownOK
<1>10. Positions(p) = 1 .. n - 1 /\ \A j \in 1 .. n - 1 : j \in 1 .. n /\ p.data[j] = IF j = i THEN h.data[n] ELSE h.data[j]
  BY <1>2, <1>4, <1>7 DEF Positions
<1>11. Entries(p) \subseteq Entries(h)
  BY <1>2, <1>10 DEF Entries
<1>12. Entries(g) = Entries(p) /\ (Sinking(Prios(p), n - 1, i) => Sorted(Prios(g), n - 1))
  <2>1. i \in 1 .. Len(p.data) + 1
    BY <1>2, <1>7
  <2>2. Entries(g) = Entries(p) /\ (Sinking(Prios(p), Len(p.data), i) => Sorted(Prios(g), Len(p.data)))
    BY <1>7, <1>8, <2>1, BubbleDownSorts
  <2>. QED  BY <1>7, <2>2
<1>13. ASSUME LastFits(h, i), Ordered(h) PROVE Ordered(g)
  <2>1. PICK a, b : a = Prios(h) /\ b = Prios(p)
    OBVIOUS
  <2>2. a \in [1 .. n -> Nat] /\ \A j \in 1 .. n : a[j] = h.data[j].prio
    BY <1>1, <1>2, <2>1, PriosOf
  <2>3. b \in [1 .. n - 1 -> Nat] /\ \A j \in 1 .. n - 1 : b[j] = p.data[j].prio
    BY <1>7, <1>10, <2>1, PriosOf
  <2>4. \A j \in 1 .. n - 1 : b[j] = IF j = i THEN a[n] ELSE a[j]
    BY <1>2, <1>10, <2>2, <2>3
  <2>5. Sorted(a, n)
    BY <1>1, <1>13, <2>1 DEF Ordered
  <2>6. i \in 2 .. n - 1 => a[Parent(i)] <= a[n]
    <3>1. SUFFICES ASSUME i \in 2 .. n - 1 PROVE a[Parent(i)] <= a[n]
      OBVIOUS
    <3>2. PICK o \in 1 .. n : o = Parent(i) /\ o = i \div 2
      BY <1>2, <3>1, Half DEF Parent
    <3>3. ~Greater(h.data[n], h.data[o])
      BY <1>1, <1>13, <3>1, <3>2 DEF LastFits
    <3>4. n \in 1 .. n /\ a[o] \in Nat /\ a[n] \in Nat /\ a[o] = h.data[o].prio /\ a[n] = h.data[n].prio
      BY <1>2, <2>2, <3>2
    <3>. QED  BY <3>2, <3>3, <3>4 DEF Greater
  <2>7. Sinking(b, n - 1, i)
    BY <1>2, <2>2, <2>3, <2>4, <2>5, <2>6, LastInPlace
  <2>. QED  BY <1>7, <1>9, <1>12, <2>1, <2>7 DEF Ordered, Reordered
<1>. QED  BY <1>3, <1>5, <1>7, <1>9, <1>11, <1>12, <1>13 DEF Reordered

\* remove takes an index and its item away and leaves the others.
LEMMA RemoveIndexOK ==
    ASSUME NEW h, HeapOK(h), NEW idx, IsIndex(idx), NEW g, g = RemoveIndex(h, idx)
    PROVE  /\ HeapOK(g) /\ g.generation = h.generation /\ Handles(g) = {e \in Handles(h) : e.idx # idx}
           /\ Entries(g) \subseteq Entries(h)
           /\ g = h \/ \E i \in Positions(h) : g = RemoveIdx(h, i) /\ (LastFits(h, i) /\ Ordered(h) => Ordered(g))
<1>1. PICK i : i = DerefIndex(h, idx)
  OBVIOUS
<1>2. g = IF i = 0 THEN h ELSE RemoveIdx(h, i)
  <2>1. idx.slot \in Nat /\ 1 <= idx.slot /\ Len(h.map) \in Nat
    BY HeapParts DEF IsIndex, HeapOK
  <2>2. idx.slot <= Len(h.map) => h.map[idx.slot].gen # RESERVED_MARKER
    <3>1. idx.slot <= Len(h.map) => idx.slot \in Slots(h)
      BY <2>1 DEF Slots
    <3>. QED  BY <3>1, HeapParts DEF HeapOK, Taken, RESERVED_MARKER, EMPTY_MARKER
  <2>. QED  BY <1>1, <2>1, <2>2 DEF RemoveIndex, DerefIndex
<1>3. CASE i = 0
  BY <1>1, <1>2, <1>3, DerefOK
<1>4. CASE i # 0
  <2>1. i \in Positions(h) /\ Handle(h, i).idx = idx
    BY <1>1, <1>4, DerefOK
  <2>2. /\ HeapOK(g) /\ g.generation = h.generation /\ Handles(g) = Handles(h) \ {Handle(h, i)}
        /\ Entries(g) \subseteq Entries(h)
        /\ LastFits(h, i) /\ Ordered(h) => Ordered(g)
    BY <1>2, <1>4, <2>1, RemoveIdxOK
  <2>3. \A j \in Positions(h) : Handle(h, j).idx = idx => j = i
    BY <2>1, HandleIs
  <2>4. \A e \in Handles(h) : e.idx = idx <=> e = Handle(h, i)
    BY <2>1, <2>3 DEF Handles
  <2>5. \E j \in Positions(h) : g = RemoveIdx(h, j) /\ (LastFits(h, j) /\ Ordered(h) => Ordered(g))
    BY <1>2, <1>4, <2>1, <2>2
  <2>. QED  BY <2>2, <2>4, <2>5
<1>. QED  BY <1>3, <1>4

\* What reserve_index and push_reserved have done when bubble_up begins.
Pushed(h, item, prio) ==
    LET idx == ReservedIndex(h)
        pos == Len(h.data) + 1
    IN [generation |-> h.generation + 1,
        free_list_head |-> IF h.free_list_head # 0 THEN h.map[h.free_list_head].pos ELSE h.free_list_head,
        data |-> Append(h.data, [item |-> item, prio |-> prio, slot |-> idx.slot]),
        map |-> [m \in 1 .. (IF idx.slot <= Len(h.map) THEN Len(h.map) ELSE Len(h.map) + 1) |->
                    IF m = idx.slot THEN [pos |-> pos, gen |-> idx.gen] ELSE h.map[m]]]

LEMMA ReserveAndPush ==
    ASSUME NEW h, HeapOK(h), NEW item, NEW prio
    PROVE  PushReserved(ReserveIndex(h), ReservedIndex(h), item, prio) = BubbleUp(Pushed(h, item, prio), Len(h.data) + 1)
<1>1. PICK idx, s, r, pos : /\ idx = ReservedIndex(h) /\ s = idx.slot /\ r = ReserveIndex(h) /\ pos = Len(h.data) + 1
  OBVIOUS
<1>2. PICK m, x, cell, new : /\ m = h.map /\ x = [item |-> item, prio |-> prio, slot |-> s]
                             /\ cell = [pos |-> 0, gen |-> RESERVED_MARKER] /\ new = [pos |-> pos, gen |-> idx.gen]
  OBVIOUS
<1>3. m \in Seq(Cell) /\ Len(m) \in Nat /\ s \in 1 .. Len(m) + 1
  <2>1. m \in Seq(Cell) /\ Len(m) \in Nat /\ h.free_list_head \in Nat
    BY <1>2, HeapParts DEF HeapOK
  <2>2. h.free_list_head # 0 => h.free_list_head \in 1 .. Len(m)
    BY <1>2 DEF HeapOK, FreeList, Slots
  <2>. QED  BY <1>1, <1>2, <2>1, <2>2 DEF ReservedIndex
<1>4. PICK m1, len : /\ m1 = IF s <= Len(m) THEN [m EXCEPT ![s] = cell] ELSE Append(m, cell)
                     /\ len = IF s <= Len(m) THEN Len(m) ELSE Len(m) + 1
  OBVIOUS
<1>5. /\ m1 \in [1 .. len -> Cell] /\ Len(m1) = len /\ len \in Nat /\ s \in 1 .. len
      /\ \A k \in 1 .. len : m1[k] = IF k = s THEN cell ELSE m[k]
  <2>1. cell \in Cell
    BY <1>2 DEF Cell, RESERVED_MARKER
  <2>2. CASE s <= Len(m)
    BY <1>3, <1>4, <2>1, <2>2, ExceptSeq
  <2>3. CASE ~(s <= Len(m))
    <3>1. s = Len(m) + 1
      BY <1>3, <2>3
    <3>2. m1 = Append(m, cell) /\ len = Len(m) + 1
      BY <1>4, <2>3
    <3>3. /\ m1 \in Seq(Cell) /\ Len(m1) = Len(m) + 1 /\ m1[Len(m) + 1] = cell
          /\ \A k \in 1 .. Len(m) : m1[k] = m[k]
      BY <1>3, <2>1, <3>2, AppendProperties
    <3>4. m1 \in [1 .. len -> Cell]
      BY <3>2, <3>3, LenProperties
    <3>5. ASSUME NEW k \in 1 .. len PROVE m1[k] = IF k = s THEN cell ELSE m[k]
      <4>1. k = s \/ (k # s /\ k \in 1 .. Len(m))
        BY <1>3, <3>1, <3>2
      <4>. QED  BY <3>1, <3>3, <4>1
    <3>. QED  BY <1>3, <3>1, <3>2, <3>3, <3>4, <3>5
  <2>. QED  BY <2>2, <2>3
<1>6. r = [generation |-> h.generation + 1,
           free_list_head |-> IF h.free_list_head # 0 THEN h.map[h.free_list_head].pos ELSE h.free_list_head,
           data |-> h.data, map |-> m1]
  <2>1. h.free_list_head # 0 => s = h.free_list_head
    BY <1>1 DEF ReservedIndex
  <2>2. h = [generation |-> h.generation, free_list_head |-> h.free_list_head, data |-> h.data, map |-> m]
    BY <1>2 DEF HeapOK, Heap
  <2>3. r = [h EXCEPT !.generation = h.generation + 1,
                      !.free_list_head = IF h.free_list_head # 0 THEN h.map[s].pos ELSE h.free_list_head,
                      !.map = m1]
    BY <1>1, <1>2, <1>4 DEF ReserveIndex
  <2>. QED  BY <2>1, <2>2, <2>3
<1>7. [m1 EXCEPT ![s] = new] = [k \in 1 .. len |-> IF k = s THEN new ELSE m[k]]
  BY <1>5
<1>8. r.map[s].gen = RESERVED_MARKER /\ s <= Len(r.map)
  BY <1>2, <1>5, <1>6
<1>9. [r EXCEPT !.map[s] = new, !.data = Append(h.data, x)] = Pushed(h, item, prio)
  <2>1. PICK gen, f : /\ gen = h.generation + 1
                      /\ f = IF h.free_list_head # 0 THEN h.map[h.free_list_head].pos ELSE h.free_list_head
    OBVIOUS
  <2>2. PICK m2, d, d1 : m2 = [m1 EXCEPT ![s] = new] /\ d = h.data /\ d1 = Append(h.data, x)
    OBVIOUS
  <2>3. r = [generation |-> gen, free_list_head |-> f, data |-> d, map |-> m1]
    BY <1>6, <2>1, <2>2
  <2>4. [r EXCEPT !.map[s] = new, !.data = d1] = [generation |-> gen, free_list_head |-> f, data |-> d1, map |-> m2]
    <3>1. r.map = m1
      BY <2>3
    <3>2. [r EXCEPT !.map[s] = new, !.data = d1] = [r EXCEPT !.map = m2, !.data = d1]
      BY <2>2, <3>1
    <3>3. r \in [generation : {gen}, free_list_head : {f}, data : {d}, map : {m1}]
      BY <2>3
    <3>4. PICK q : q = [r EXCEPT !.map = m2, !.data = d1]
      OBVIOUS
    <3>5. q \in [generation : {gen}, free_list_head : {f}, data : {d1}, map : {m2}]
      BY <3>3, <3>4
    <3>. QED  BY <3>2, <3>4, <3>5
  <2>5. Pushed(h, item, prio) = [generation |-> gen, free_list_head |-> f, data |-> d1, map |-> m2]
    <3>1. m2 = [k \in 1 .. (IF idx.slot <= Len(h.map) THEN Len(h.map) ELSE Len(h.map) + 1) |->
                    IF k = idx.slot THEN [pos |-> Len(h.data) + 1, gen |-> idx.gen] ELSE h.map[k]]
      BY <1>1, <1>2, <1>4, <1>7, <2>2
    <3>2. d1 = Append(h.data, [item |-> item, prio |-> prio, slot |-> idx.slot])
      BY <1>1, <1>2, <2>2
    <3>. QED  BY <1>1, <2>1, <3>1, <3>2, Zenon DEF Pushed
  <2>. QED  BY <2>2, <2>4, <2>5
<1>. QED  BY <1>1, <1>2, <1>6, <1>8, <1>9 DEF PushReserved

\* A new item gets an index that was never given before; the others keep theirs, and the order.
LEMMA PushOK ==
    ASSUME NEW h, HeapOK(h), NEW item \in Sessions, NEW prio \in Nat, NEW idx, idx = ReservedIndex(h),
           NEW g, g = PushReserved(ReserveIndex(h), idx, item, prio)
    PROVE  /\ HeapOK(g) /\ g.generation = h.generation + 1
           /\ IsIndex(idx) /\ idx.gen = g.generation
           /\ Handles(g) = Handles(h) \cup {[item |-> item, idx |-> idx]}
           /\ \A e \in Entries(g) : e \in Entries(h) \/ e.prio = prio
           /\ Ordered(h) => Ordered(g)
<1>1. PICK s, p, n, head : s = idx.slot /\ p = Pushed(h, item, prio) /\ n = Len(h.data) /\ head = h.free_list_head
  OBVIOUS
<1>2. n \in Nat /\ Len(h.map) \in Nat /\ h.generation \in Nat /\ 1 <= h.generation /\ head \in Nat
  BY <1>1, HeapParts DEF HeapOK
<1>3. FreeList(h)
  BY DEF HeapOK
<1>4. /\ idx = [slot |-> s, gen |-> h.generation + 1]
      /\ s = IF head # 0 THEN head ELSE Len(h.map) + 1
      /\ head # 0 => head \in Slots(h) /\ h.map[head].gen = EMPTY_MARKER
  BY <1>1, <1>3 DEF ReservedIndex, FreeList
<1>5. s \in 1 .. Len(h.map) + 1 /\ s \in Nat /\ (s \in Slots(h) => s = head /\ head # 0)
  BY <1>2, <1>4 DEF Slots
<1>6. IsIndex(idx) /\ idx.gen = h.generation + 1
  BY <1>2, <1>4, <1>5 DEF IsIndex, RESERVED_MARKER
<1>7. PICK x, c, len : /\ x = [item |-> item, prio |-> prio, slot |-> s] /\ c = [pos |-> n + 1, gen |-> h.generation + 1]
                       /\ len = IF s <= Len(h.map) THEN Len(h.map) ELSE Len(h.map) + 1
  OBVIOUS
<1>8. x \in HeapEntry /\ c \in Cell /\ len \in Nat /\ s \in 1 .. len
  BY <1>2, <1>5, <1>7 DEF HeapEntry, Cell
<1>9. PICK d, m, f : /\ d = Append(h.data, x) /\ m = [k \in 1 .. len |-> IF k = s THEN c ELSE h.map[k]]
                     /\ f = IF head # 0 THEN h.map[head].pos ELSE head
  OBVIOUS
<1>10. p = [generation |-> h.generation + 1, free_list_head |-> f, data |-> d, map |-> m]
  BY <1>1, <1>4, <1>7, <1>9 DEF Pushed
<1>11. /\ d \in Seq(HeapEntry) /\ Len(d) = n + 1 /\ d[n + 1] = x
       /\ \A i \in 1 .. n : d[i] = h.data[i]
  <2>1. h.data \in Seq(HeapEntry)
    BY HeapParts DEF HeapOK
  <2>. QED  BY <1>1, <1>8, <1>9, <2>1, AppendProperties
<1>12. /\ m \in Seq(Cell) /\ Len(m) = len
  <2>1. ASSUME NEW k \in 1 .. len PROVE m[k] \in Cell
    <3>1. CASE k = s
      BY <1>8, <1>9, <3>1
    <3>2. CASE k # s
      <4>1. k \in Slots(h)
        BY <1>2, <1>5, <1>7, <3>2 DEF Slots
      <4>. QED  BY <1>9, <3>2, <4>1, HeapParts DEF HeapOK
    <3>. QED  BY <3>1, <3>2
  <2>2. m \in [1 .. len -> Cell]
    BY <1>9, <2>1
  <2>. QED  BY <1>8, <2>2
<1>13. f \in Nat
  BY <1>2, <1>4, <1>9, HeapParts DEF HeapOK
<1>14. p \in Heap
  BY <1>2, <1>10, <1>11, <1>12, <1>13 DEF Heap
<1>15. /\ Positions(h) = 1 .. n /\ Positions(p) = Positions(h) \cup {n + 1} /\ n + 1 \notin Positions(h)
       /\ Slots(p) = Slots(h) \cup {s}
       /\ p.generation = h.generation + 1 /\ p.free_list_head = f
       /\ p.data[n + 1].item = item /\ p.data[n + 1].slot = s /\ p.map[s].pos = n + 1 /\ p.map[s].gen = h.generation + 1
       /\ \A i \in Positions(h) : p.data[i] = h.data[i]
       /\ \A k \in Slots(h) : k # s => p.map[k] = h.map[k]
  <2>1. Positions(h) = 1 .. n /\ Positions(p) = 1 .. n + 1
    BY <1>1, <1>10, <1>11 DEF Positions
  <2>2. Slots(h) = 1 .. Len(h.map) /\ Slots(p) = 1 .. len /\ Slots(p) = Slots(h) \cup {s}
    BY <1>2, <1>5, <1>7, <1>10, <1>12 DEF Slots
  <2>3. p.map[s] = c /\ \A k \in Slots(h) : k # s => p.map[k] = h.map[k]
    BY <1>8, <1>9, <1>10, <2>2
  <2>4. p.data[n + 1] = x /\ \A i \in Positions(h) : p.data[i] = h.data[i]
    BY <1>10, <1>11, <2>1
  <2>5. Positions(p) = Positions(h) \cup {n + 1} /\ n + 1 \notin Positions(h)
    BY <1>2, <2>1
  <2>6. p.generation = h.generation + 1 /\ p.free_list_head = f
    BY <1>10
  <2>7. /\ p.data[n + 1].item = item /\ p.data[n + 1].slot = s
        /\ p.map[s].pos = n + 1 /\ p.map[s].gen = h.generation + 1
    BY <1>7, <2>3, <2>4
  <2>. QED  BY <2>1, <2>2, <2>3, <2>4, <2>5, <2>6, <2>7
<1>16. \A i \in Positions(h) : h.data[i].slot \in Slots(h) /\ h.data[i].slot # s /\ h.map[h.data[i].slot].gen # EMPTY_MARKER
  BY <1>4, <1>5 DEF HeapOK, Linked
<1>17. Linked(p)
  <2>1. h.generation + 1 # EMPTY_MARKER
    BY <1>2 DEF EMPTY_MARKER
  <2>. QED  BY <1>15, <1>16, <2>1 DEF HeapOK, Linked
<1>18. Taken(p)
  <2>. SUFFICES ASSUME NEW k \in Slots(p), p.map[k].gen # EMPTY_MARKER
                PROVE  /\ p.map[k].pos \in Positions(p) /\ p.data[p.map[k].pos].slot = k
                       /\ RESERVED_MARKER < p.map[k].gen /\ p.map[k].gen <= p.generation
    BY DEF Taken
  <2>1. CASE k = s
    BY <1>2, <1>15, <2>1 DEF RESERVED_MARKER
  <2>2. CASE k # s
    <3>1. k \in Slots(h) /\ p.map[k] = h.map[k]
      BY <1>15, <2>2
    <3>2. /\ h.map[k].pos \in Positions(h) /\ h.data[h.map[k].pos].slot = k
          /\ RESERVED_MARKER < h.map[k].gen /\ h.map[k].gen <= h.generation /\ h.map[k].gen \in Nat
      BY <3>1, HeapParts DEF HeapOK, Taken
    <3>. QED  BY <1>2, <1>15, <3>1, <3>2
  <2>. QED  BY <2>1, <2>2
<1>19. FreeList(p)
  <2>1. p.map[s].gen # EMPTY_MARKER
    BY <1>2, <1>15 DEF EMPTY_MARKER
  <2>2. ASSUME f # 0 PROVE f \in Slots(h) /\ h.map[f].gen = EMPTY_MARKER /\ f # s /\ head # 0 /\ f = h.map[head].pos
    <3>1. head # 0 /\ f = h.map[head].pos /\ head \in Slots(h) /\ h.map[head].gen = EMPTY_MARKER /\ s = head
      BY <1>4, <1>9, <2>2
    <3>2. f \in Slots(h) /\ h.map[f].gen = EMPTY_MARKER /\ f # head
      BY <1>1, <1>3, <2>2, <3>1 DEF FreeList
    <3>. QED  BY <3>1, <3>2
  <2>3. f # 0 => f \in Slots(p) /\ p.map[f].gen = EMPTY_MARKER
    BY <1>15, <2>2
  <2>4. ASSUME NEW k \in Slots(p), p.map[k].gen = EMPTY_MARKER, p.map[k].pos # 0
        PROVE  /\ p.map[k].pos \in Slots(p) /\ p.map[p.map[k].pos].gen = EMPTY_MARKER /\ p.map[k].pos # f
               /\ \A l \in Slots(p) : p.map[l].gen = EMPTY_MARKER /\ p.map[l].pos = p.map[k].pos => l = k
    <3>1. k # s /\ k \in Slots(h) /\ p.map[k] = h.map[k]
      BY <1>15, <2>1, <2>4
    <3>2. PICK j : j = h.map[k].pos
      OBVIOUS
    <3>3. /\ j \in Slots(h) /\ h.map[j].gen = EMPTY_MARKER /\ j # head /\ j # 0
          /\ \A l \in Slots(h) : h.map[l].gen = EMPTY_MARKER /\ h.map[l].pos = j => l = k
      BY <1>3, <1>1, <2>4, <3>1, <3>2 DEF FreeList
    <3>4. j # s
      BY <1>5, <3>3
    <3>5. j # f
      <4>. SUFFICES ASSUME j = f PROVE FALSE
        OBVIOUS
      <4>1. head = k
        BY <1>4, <2>2, <3>3
      <4>. QED  BY <1>4, <2>2, <3>1, <3>3, <4>1
    <3>6. ASSUME NEW l \in Slots(p), p.map[l].gen = EMPTY_MARKER, p.map[l].pos = j PROVE l = k
      BY <1>15, <2>1, <3>3, <3>6
    <3>. QED  BY <1>15, <3>1, <3>2, <3>3, <3>4, <3>5, <3>6
  <2>. QED  BY <1>15, <2>3, <2>4 DEF FreeList
<1>20. HeapOK(p)
  BY <1>2, <1>14, <1>15, <1>17, <1>18, <1>19 DEF HeapOK
<1>21. Handles(p) = Handles(h) \cup {[item |-> item, idx |-> idx]}
  <2>1. \A i \in Positions(h) : Handle(p, i) = Handle(h, i)
    BY <1>15, <1>16 DEF Handle
  <2>2. Handle(p, n + 1) = [item |-> item, idx |-> idx]
    BY <1>4, <1>15 DEF Handle
  <2>. QED  BY <1>15, <2>1, <2>2 DEF Handles
<1>22. g = BubbleUp(p, n + 1) /\ n + 1 \in Positions(p)
  BY <1>1, <1>15, ReserveAndPush
<1>23. HeapOK(g) /\ Reordered(p, g)
  BY <1>20, <1>22, BubbleUpOK
<1>24. Positions(p) = 1 .. n + 1 /\ Len(p.data) = n + 1 /\ p.data[n + 1].prio = prio
  BY <1>7, <1>10, <1>11 DEF Positions
<1>25. \A e \in Entries(p) : e \in Entries(h) \/ e.prio = prio
  BY <1>15, <1>24 DEF Entries
<1>26. Entries(g) = Entries(p) /\ (Rising(Prios(p), n + 1, n + 1) => Sorted(Prios(g), n + 1))
  BY <1>20, <1>22, <1>24, BubbleUpSorts
<1>27. ASSUME Ordered(h) PROVE Ordered(g)
  <2>1. PICK a, b : a = Prios(h) /\ b = Prios(p)
    OBVIOUS
  <2>2. a \in [1 .. n -> Nat] /\ Sorted(a, n) /\ \A j \in 1 .. n : a[j] = h.data[j].prio
    <3>1. a \in [1 .. n -> Nat] /\ \A j \in 1 .. n : a[j] = h.data[j].prio
      BY <1>1, <1>15, <2>1, PriosOf
    <3>2. Sorted(a, n)
      BY <1>1, <1>27, <2>1 DEF Ordered
    <3>. QED  BY <3>1, <3>2
  <2>3. b \in [1 .. n + 1 -> Nat] /\ \A j \in 1 .. n + 1 : b[j] = p.data[j].prio
    BY <1>20, <1>24, <2>1, PriosOf
  <2>4. \A j \in 1 .. n : b[j] = a[j]
    <3>1. \A j \in 1 .. n : p.data[j] = h.data[j]
      BY <1>15
    <3>2. \A j \in 1 .. n : j \in 1 .. n + 1
      BY <1>2
    <3>. QED  BY <2>2, <2>3, <3>1, <3>2
  <2>5. ASSUME NEW j \in 2 .. n + 1, j # n + 1 PROVE b[Parent(j)] <= b[j]
    <3>1. j \in 2 .. n /\ j \in 1 .. n
      BY <1>2, <2>5
    <3>2. Parent(j) \in 1 .. n
      BY <1>2, <3>1, Half
    <3>3. a[Parent(j)] <= a[j]
      BY <2>2, <3>1 DEF Sorted
    <3>. QED  BY <2>4, <3>1, <3>2, <3>3
  <2>6. \A j \in 2 .. n + 1 : Parent(j) # n + 1
    <3>1. n + 1 \in Nat
      BY <1>2
    <3>. QED  BY <1>2, <3>1, Half
  <2>7. Rising(b, n + 1, n + 1)
    BY <2>5, <2>6 DEF Rising
  <2>8. Len(g.data) = n + 1
    BY <1>23, <1>24 DEF Reordered
  <2>. QED  BY <1>26, <2>1, <2>7, <2>8 DEF Ordered
<1>28. HeapOK(g) /\ g.generation = h.generation + 1 /\ idx.gen = g.generation
       /\ Handles(g) = Handles(h) \cup {[item |-> item, idx |-> idx]}
  BY <1>6, <1>15, <1>21, <1>23 DEF Reordered
<1>. QED  BY <1>6, <1>25, <1>26, <1>27, <1>28

-----------------------------------------------------------------------------
(* Types *)

SessionState ==
    [beta : {"None", "Waiting", "S2", "Null"}, alive : BOOLEAN, resend_timer : Nat, timeout_timer : Nat,
     queue_idx : [slot : Nat, gen : Nat]]

Serving == [at : {"Loop", "Fragments", "Handshakes", "Scan", "Minimum"}, now : Nat, time : Nat]

Task ==
    {Idle} \cup [at : {"Early", "Drop"}, session : Sessions]
           \cup [at : {"Queue", "Reduce"}, session : Sessions, time : Nat]
           \cup [at : {"Reduce"}, time : Nat] \cup Serving

Pending == [local_id : Kids \cup {None}, expiry : Nat]

TypeOK ==
    /\ clock \in Nat /\ next_service_time \in Nat
    /\ sess \in [Sessions -> SessionState]
    /\ HeapOK(queue)
    /\ queue_lock \in Threads \cup {None}
    /\ cache \in [1 .. CacheSize -> Pending] /\ has_pending \in BOOLEAN
    /\ frags \subseteq Nat
    /\ thread \in [Threads -> Task]

\* The settings are natural numbers.
LEMMA Settings ==
    /\ ResendTime \in Nat /\ WaitTimeout \in Nat /\ RekeyAfterTime \in Nat /\ AssemblyTimeout \in Nat
    /\ CacheSize \in Nat /\ MIN \in Nat /\ MAX \in Nat
<1>1. {MaxTime, ResendTime, WaitTimeout, RekeyAfterTime, AssemblyTimeout, CacheSize} \subseteq Nat
  BY ServiceQueueAssumption
<1>2. PICK T : T = {ResendTime, WaitTimeout, RekeyAfterTime, AssemblyTimeout}
  OBVIOUS
<1>3. T \subseteq Nat /\ \E x \in T : \A y \in T : x >= y
  BY <1>1, <1>2
<1>4. Max(T) \in Nat
  BY <1>3 DEF Max
<1>. QED  BY <1>1, <1>2, <1>4 DEF MIN, MAX

\* The earliest of some times.
LEMMA Earliest ==
    ASSUME NEW T, T \subseteq Nat, T # {}
    PROVE  Min(T) \in T
<1>1. \E x \in T : \A y \in T : x <= y
  BY LeastOf
<1>. QED  BY <1>1 DEF Min

\* What a thread that is somewhere has with it.
LEMMA Tasks ==
    ASSUME NEW x \in Task
    PROVE  /\ x.at \in {"Early", "Queue", "Drop"} => x.session \in Sessions
           /\ x.at = "Queue" => x \in [at : {"Queue", "Reduce"}, session : Sessions, time : Nat]
           /\ x.at = "Reduce" => x.time \in Nat
           /\ x.at \in {"Loop", "Fragments", "Handshakes", "Scan", "Minimum"} => x \in Serving
           /\ x.at \in {"Idle", "Early", "Drop", "Queue", "Reduce", "Loop", "Fragments", "Handshakes", "Scan", "Minimum"}
  BY DEF Task, Serving, Idle

\* What the handlers change of a session: the state and its timers.
Timed(z, beta, r, o) == [z EXCEPT !.beta = beta, !.resend_timer = r, !.timeout_timer = o]
KeptBut(z, y, beta) == y \in SessionState /\ y.beta = beta /\ y.alive = z.alive /\ y.queue_idx = z.queue_idx

LEMMA TimersSet ==
    ASSUME NEW z \in SessionState, NEW beta \in {"Waiting", "S2", "Null"}, NEW r \in Nat, NEW o \in Nat,
           NEW y, y = Timed(z, beta, r, o)
    PROVE  KeptBut(z, y, beta)
<1>1. PICK b, a, r0, o0, q : z = [beta |-> b, alive |-> a, resend_timer |-> r0, timeout_timer |-> o0, queue_idx |-> q]
  BY DEF SessionState
<1>2. a \in BOOLEAN /\ q \in [slot : Nat, gen : Nat]
  BY <1>1 DEF SessionState
<1>3. y = [beta |-> beta, alive |-> a, resend_timer |-> r, timeout_timer |-> o, queue_idx |-> q]
  BY <1>1 DEF Timed
<1>4. y \in SessionState
  BY <1>2, <1>3 DEF SessionState
<1>. QED  BY <1>1, <1>3, <1>4 DEF KeptBut

LEMMA StatesSet ==
    ASSUME NEW z \in SessionState, NEW now \in Nat
    PROVE  /\ Waiting(z, now) \in SessionState /\ Established(z, now) \in SessionState /\ Expired(z) \in SessionState
           /\ Waiting(z, now).beta = "Waiting" /\ Established(z, now).beta = "S2" /\ Expired(z).beta = "Null"
           /\ \A y \in {Waiting(z, now), Established(z, now), Expired(z)} : y.alive = z.alive /\ y.queue_idx = z.queue_idx
<1>1. now + ResendTime \in Nat /\ now + WaitTimeout \in Nat /\ now + RekeyAfterTime \in Nat /\ MAX \in Nat
  BY Settings
<1>2. KeptBut(z, Waiting(z, now), "Waiting")
  <2>1. PICK r \in Nat, o \in Nat : r = now + ResendTime /\ o = now + WaitTimeout
    BY <1>1
  <2>2. PICK y : y = Waiting(z, now)
    OBVIOUS
  <2>3. y = Timed(z, "Waiting", r, o)
    BY <2>1, <2>2 DEF Waiting, Timed
  <2>4. KeptBut(z, y, "Waiting")
    BY <2>3, TimersSet
  <2>. QED  BY <2>2, <2>4
<1>3. KeptBut(z, Established(z, now), "S2")
  <2>1. PICK r \in Nat, o \in Nat : r = MAX /\ o = now + RekeyAfterTime
    BY <1>1
  <2>2. PICK y : y = Established(z, now)
    OBVIOUS
  <2>3. y = Timed(z, "S2", r, o)
    BY <2>1, <2>2 DEF Established, Timed
  <2>4. KeptBut(z, y, "S2")
    BY <2>3, TimersSet
  <2>. QED  BY <2>2, <2>4
<1>4. KeptBut(z, Expired(z), "Null")
  <2>1. PICK r \in Nat, o \in Nat : r = MAX /\ o = MAX
    BY <1>1
  <2>2. PICK y : y = Expired(z)
    OBVIOUS
  <2>3. y = Timed(z, "Null", r, o)
    BY <2>1, <2>2 DEF Expired, Timed
  <2>4. KeptBut(z, y, "Null")
    BY <2>3, TimersSet
  <2>. QED  BY <2>2, <2>4
<1>. QED  BY <1>2, <1>3, <1>4 DEF KeptBut

-----------------------------------------------------------------------------
(* The inductive invariant *)

Opened(s) == sess[s].beta # "None"
Served(s) == Live(s) /\ sess[s].alive

\* The index of every session that was opened is one that was given out, and no other session's.
OwnIndices ==
    /\ \A s \in Sessions : sess[s].alive => Opened(s)
    /\ \A s \in Sessions :
        Opened(s) => IsIndex(sess[s].queue_idx) /\ sess[s].queue_idx.gen <= queue.generation
    /\ \A s, u \in Sessions :
        Opened(s) /\ Opened(u) /\ sess[s].queue_idx.gen = sess[u].queue_idx.gen => s = u

\* What is in the queue is a session under its own index; sessions that are to be served are in it.
Queued ==
    /\ \A e \in Handles(queue) : Opened(e.item) /\ e.idx = sess[e.item].queue_idx
    /\ \A s \in Sessions : Served(s) => \E e \in Handles(queue) : e.item = s

\* A thread that is about to change a session's entry has a session that was opened.
Working == \A t \in Threads : thread[t].at \in {"Early", "Queue", "Drop"} => Opened(thread[t].session)

QueueInv == TypeOK /\ OwnIndices /\ Queued /\ Working

\* A step that opens no session and gives none another index.
Unmoved == \A s \in Sessions : /\ Opened(s)' <=> Opened(s)
                               /\ sess'[s].queue_idx = sess[s].queue_idx
                               /\ sess'[s].alive => sess[s].alive

LEMMA UnmovedIndices ==
    ASSUME OwnIndices, Unmoved, queue'.generation = queue.generation
    PROVE  OwnIndices'
  BY DEF OwnIndices, Unmoved, Opened

\* A step that changes at most the order of the queue.
LEMMA QueueKept ==
    ASSUME QueueInv, Unmoved, HeapOK(queue)', Handles(queue)' = Handles(queue), queue'.generation = queue.generation,
           \A s \in Sessions : Served(s)' => Served(s) \/ \E e \in Handles(queue) : e.item = s
    PROVE  OwnIndices' /\ Queued'
<1>1. \A e \in Handles(queue) : e.item \in Sessions
  BY HandleIs DEF QueueInv, TypeOK, Handles
<1>2. Queued'
  BY <1>1 DEF QueueInv, Queued, Unmoved, Opened
<1>. QED  BY <1>2, UnmovedIndices DEF QueueInv

\* A step that takes the index of session s, which is not served any longer, out of the queue.
LEMMA QueueLess ==
    ASSUME QueueInv, Unmoved, NEW s \in Sessions, Opened(s), HeapOK(queue)',
           Handles(queue)' = {e \in Handles(queue) : e.idx # sess[s].queue_idx},
           queue'.generation = queue.generation, ~Served(s)', \A u \in Sessions : u # s => (Served(u)' => Served(u))
    PROVE  OwnIndices' /\ Queued'
<1>1. \A e \in Handles(queue) : e.item \in Sessions
  BY HandleIs DEF QueueInv, TypeOK, Handles
<1>2. \A e \in Handles(queue)' : Opened(e.item)' /\ e.idx = sess'[e.item].queue_idx
  BY <1>1 DEF QueueInv, Queued, Unmoved
<1>3. ASSUME NEW u \in Sessions, Served(u)' PROVE \E e \in Handles(queue)' : e.item = u
  <2>1. u # s /\ Served(u)
    BY <1>3
  <2>2. PICK e \in Handles(queue) : e.item = u
    BY <2>1 DEF QueueInv, Queued
  <2>3. Opened(u) /\ e.idx = sess[u].queue_idx
    BY <2>2 DEF QueueInv, Queued
  <2>4. e.idx # sess[s].queue_idx
    BY <2>1, <2>3 DEF QueueInv, OwnIndices
  <2>. QED  BY <2>2, <2>4
<1>4. Queued'
  BY <1>2, <1>3 DEF Queued
<1>. QED  BY <1>4, UnmovedIndices DEF QueueInv

\* A thread goes on to something else.
LEMMA Going ==
    ASSUME QueueInv, NEW t \in Threads, NEW x \in Task, Goto(t, x),
           x.at \in {"Early", "Queue", "Drop"} => Opened(x.session)',
           \A s \in Sessions : Opened(s) => Opened(s)'
    PROVE  thread' \in [Threads -> Task] /\ Working'
<1>1. thread \in [Threads -> Task] /\ thread' = [thread EXCEPT ![t] = x]
  BY DEF QueueInv, TypeOK, Goto
<1>2. thread' \in [Threads -> Task]
  BY <1>1
<1>3. ASSUME NEW u \in Threads, thread'[u].at \in {"Early", "Queue", "Drop"} PROVE Opened(thread[u].session)'
  <2>1. CASE u = t
    BY <1>1, <2>1, <1>3 DEF Opened
  <2>2. CASE u # t
    <3>1. thread'[u] = thread[u] /\ thread[u].session \in Sessions
      BY <1>1, <1>3, <2>2, Tasks
    <3>. QED  BY <1>3, <3>1 DEF QueueInv, Working, Opened
  <2>. QED  BY <2>1, <2>2
<1>. QED  BY <1>2, <1>3 DEF Working

LEMMA Waits ==
    ASSUME QueueInv, UNCHANGED thread, \A s \in Sessions : Opened(s) => Opened(s)'
    PROVE  thread' \in [Threads -> Task] /\ Working'
<1>1. thread \in [Threads -> Task]
  BY DEF QueueInv, TypeOK
<1>2. \A u \in Threads : thread[u].at \in {"Early", "Queue", "Drop"} => thread[u].session \in Sessions
  BY <1>1, Tasks
<1>. QED  BY <1>1, <1>2 DEF QueueInv, Working

\* A step that changes neither the sessions nor the queue.
LEMMA QueueUntouched ==
    ASSUME QueueInv, UNCHANGED <<sess, queue>>
    PROVE  OwnIndices' /\ Queued' /\ \A s \in Sessions : Opened(s) => Opened(s)'
  BY DEF QueueInv, OwnIndices, Queued, Opened, Served, Live

LEMMA InitOK == Init => QueueInv
<1>. SUFFICES ASSUME Init PROVE QueueInv
  OBVIOUS
<1>1. New = [generation |-> 1, free_list_head |-> 0, data |-> <<>>, map |-> <<>>]
  BY DEF New
<1>2. HeapOK(queue) /\ Handles(queue) = {}
  <2>1. queue \in Heap /\ Positions(queue) = {} /\ Slots(queue) = {} /\ queue.free_list_head = 0 /\ queue.generation = 1
    BY <1>1 DEF Init, Heap, Positions, Slots
  <2>. QED  BY <2>1 DEF HeapOK, Linked, Taken, FreeList, Handles
<1>3. Unopened \in SessionState /\ Unopened.beta = "None" /\ ~Unopened.alive
  BY Settings DEF Unopened, SessionState
<1>4. sess \in [Sessions -> SessionState] /\ \A s \in Sessions : sess[s] = Unopened
  BY <1>3 DEF Init
<1>5. \A s \in Sessions : ~Opened(s) /\ ~sess[s].alive /\ ~Served(s)
  BY <1>3, <1>4 DEF Opened, Served, Live
<1>6. thread \in [Threads -> Task] /\ \A t \in Threads : thread[t].at = "Idle"
  BY DEF Init, Task, Idle
<1>7. TypeOK
  BY <1>2, <1>4, <1>6, Settings DEF Init, TypeOK, Pending, Vacant
<1>8. OwnIndices /\ Queued
  BY <1>2, <1>5 DEF OwnIndices, Queued
<1>9. Working
  BY <1>6 DEF Working
<1>. QED  BY <1>7, <1>8, <1>9 DEF QueueInv

-----------------------------------------------------------------------------
(* Steps that leave the sessions and the queue as they are *)

\* A thread that moves on without touching a session or the queue.
LEMMA OnlyThread ==
    ASSUME QueueInv, NEW t \in Threads, NEW x \in Task, Goto(t, x), UNCHANGED <<sess, queue>>,
           x.at \in {"Early", "Queue", "Drop"} => Opened(x.session),
           clock' \in Nat, next_service_time' \in Nat, queue_lock' \in Threads \cup {None},
           cache' \in [1 .. CacheSize -> Pending], has_pending' \in BOOLEAN, frags' \subseteq Nat
    PROVE  QueueInv'
<1>1. OwnIndices' /\ Queued' /\ \A s \in Sessions : Opened(s) => Opened(s)'
  BY QueueUntouched
<1>2. x.at \in {"Early", "Queue", "Drop"} => Opened(x.session)'
  BY DEF Opened
<1>3. thread' \in [Threads -> Task] /\ Working'
  BY <1>1, <1>2, Going
<1>4. TypeOK'
  BY <1>3 DEF QueueInv, TypeOK
<1>. QED  BY <1>1, <1>3, <1>4 DEF QueueInv

\* The fields of the state that most steps leave alone.
LEMMA Fixed ==
    ASSUME QueueInv
    PROVE  /\ clock \in Nat /\ next_service_time \in Nat /\ queue_lock \in Threads \cup {None}
           /\ cache \in [1 .. CacheSize -> Pending] /\ has_pending \in BOOLEAN /\ frags \subseteq Nat
           /\ sess \in [Sessions -> SessionState] /\ HeapOK(queue) /\ thread \in [Threads -> Task]
           /\ Idle \in Task /\ Idle.at = "Idle"
  BY DEF QueueInv, TypeOK, Task, Idle

LEMMA TickOK == ASSUME QueueInv, Tick PROVE QueueInv'
<1>1. OwnIndices' /\ Queued' /\ \A s \in Sessions : Opened(s) => Opened(s)'
  BY QueueUntouched DEF Tick
<1>2. thread' \in [Threads -> Task] /\ Working'
  BY <1>1, Waits DEF Tick
<1>3. TypeOK'
  BY <1>2 DEF QueueInv, TypeOK, Tick
<1>. QED  BY <1>1, <1>2, <1>3 DEF QueueInv

LEMMA WantRekeyOK == ASSUME QueueInv, NEW t \in Threads, NEW s \in Sessions, WantRekey(t, s) PROVE QueueInv'
<1>1. PICK x : x = [at |-> "Early", session |-> s]
  OBVIOUS
<1>2. x \in Task /\ x.session = s /\ Goto(t, x) /\ UNCHANGED <<sess, queue>>
  BY <1>1 DEF WantRekey, Task
<1>3. Opened(s)
  BY DEF WantRekey, Opened
<1>. QED  BY <1>2, <1>3, Fixed, OnlyThread DEF WantRekey

LEMMA ReduceOK == ASSUME QueueInv, NEW t \in Threads, Reduce(t) PROVE QueueInv'
<1>1. thread[t].time \in Nat
  BY Fixed, Tasks DEF Reduce
<1>2. next_service_time' \in Nat
  BY <1>1, Fixed DEF Reduce, Earlier
<1>3. Goto(t, Idle) /\ UNCHANGED <<sess, queue>>
  BY DEF Reduce
<1>4. PICK x : x = Idle
  OBVIOUS
<1>. QED  BY <1>2, <1>3, <1>4, Fixed, OnlyThread DEF Reduce

LEMMA InsertHandshakeOK ==
    ASSUME QueueInv, NEW t \in Threads, NEW kid \in Kids, InsertHandshake(t, kid) PROVE QueueInv'
<1>1. PICK x, time : time = clock + AssemblyTimeout /\ x = [at |-> "Reduce", time |-> time]
  OBVIOUS
<1>2. time \in Nat
  BY <1>1, Fixed, Settings
<1>3. x \in Task /\ x.at = "Reduce" /\ Goto(t, x)
  BY <1>1, <1>2 DEF InsertHandshake, Task
<1>4. cache' \in [1 .. CacheSize -> Pending]
  BY <1>1, <1>2, Fixed DEF InsertHandshake, Pending
<1>. QED  BY <1>3, <1>4, Fixed, OnlyThread DEF InsertHandshake

LEMMA RemoveHandshakeOK ==
    ASSUME QueueInv, NEW t \in Threads, NEW kid \in Kids, RemoveHandshake(t, kid) PROVE QueueInv'
<1>1. OwnIndices' /\ Queued' /\ \A s \in Sessions : Opened(s) => Opened(s)'
  BY QueueUntouched DEF RemoveHandshake
<1>2. thread' \in [Threads -> Task] /\ Working'
  BY <1>1, Waits DEF RemoveHandshake
<1>3. cache' \in [1 .. CacheSize -> Pending]
  BY Fixed DEF RemoveHandshake, Pending, Vacant
<1>4. TypeOK'
  BY <1>2, <1>3 DEF QueueInv, TypeOK, RemoveHandshake
<1>. QED  BY <1>1, <1>2, <1>4 DEF QueueInv

LEMMA AddFragmentOK == ASSUME QueueInv, NEW t \in Threads, AddFragment(t) PROVE QueueInv'
<1>1. PICK x, time : time = clock + AssemblyTimeout /\ x = [at |-> "Reduce", time |-> time]
  OBVIOUS
<1>2. time \in Nat
  BY <1>1, Fixed, Settings
<1>3. x \in Task /\ x.at = "Reduce" /\ Goto(t, x) /\ frags' \subseteq Nat
  BY <1>1, <1>2, Fixed DEF AddFragment, Task
<1>. QED  BY <1>3, Fixed, OnlyThread DEF AddFragment

LEMMA CompleteFragmentsOK == ASSUME QueueInv, NEW t \in Threads, CompleteFragments(t) PROVE QueueInv'
<1>1. OwnIndices' /\ Queued' /\ \A s \in Sessions : Opened(s) => Opened(s)'
  BY QueueUntouched DEF CompleteFragments
<1>2. thread' \in [Threads -> Task] /\ Working'
  BY <1>1, Waits DEF CompleteFragments
<1>3. TypeOK'
  BY <1>2 DEF QueueInv, TypeOK, CompleteFragments
<1>. QED  BY <1>1, <1>2, <1>3 DEF QueueInv

LEMMA StartServiceOK == ASSUME QueueInv, NEW t \in Threads, StartService(t) PROVE QueueInv'
<1>1. PICK x : x = [at |-> "Loop", now |-> clock, time |-> MAX]
  OBVIOUS
<1>2. x \in Task /\ x.at = "Loop" /\ Goto(t, x)
  BY <1>1, Fixed, Settings DEF StartService, Task, Serving
<1>. QED  BY <1>2, Fixed, OnlyThread DEF StartService

LEMMA StoreServiceTimeOK == ASSUME QueueInv, NEW t \in Threads, StoreServiceTime(t) PROVE QueueInv'
<1>1. thread[t] \in Serving
  BY Fixed, Tasks DEF StoreServiceTime
<1>2. PICK x : x = [thread[t] EXCEPT !.at = "Fragments"]
  OBVIOUS
<1>3. x \in Task /\ x.at = "Fragments" /\ Goto(t, x) /\ thread[t].time \in Nat
  BY <1>1, <1>2 DEF StoreServiceTime, Task, Serving
<1>4. queue.data # <<>> => Head(queue.data).prio \in Nat
  <2>1. PICK d : d = queue.data
    OBVIOUS
  <2>2. d \in Seq(HeapEntry)
    BY <2>1, Fixed, HeapParts DEF HeapOK
  <2>3. d # <<>> => Head(d) \in HeapEntry
    BY <2>2
  <2>. QED  BY <2>1, <2>3 DEF HeapEntry
<1>5. next_service_time' \in Nat
  BY <1>3, <1>4 DEF StoreServiceTime, Earlier
<1>. QED  BY <1>3, <1>5, Fixed, OnlyThread DEF StoreServiceTime

LEMMA ServiceFragmentsOK == ASSUME QueueInv, NEW t \in Threads, ServiceFragments(t) PROVE QueueInv'
<1>1. thread[t] \in Serving
  BY Fixed, Tasks DEF ServiceFragments
<1>2. PICK time, x : /\ time = IF frags' = {} THEN MAX ELSE Min(frags') + AssemblyTimeout
                     /\ x = [thread[t] EXCEPT !.at = "Handshakes", !.time = time]
  OBVIOUS
<1>3. frags' \subseteq Nat
  BY Fixed DEF ServiceFragments
<1>4. time \in Nat
  <2>1. PICK T : T = frags'
    OBVIOUS
  <2>2. T # {} => Min(T) \in Nat
    BY <1>3, <2>1, Earliest
  <2>. QED  BY <1>2, <2>1, <2>2, Settings
<1>5. x \in Task /\ x.at = "Handshakes" /\ Goto(t, x)
  BY <1>1, <1>2, <1>4 DEF ServiceFragments, Task, Serving
<1>. QED  BY <1>3, <1>5, Fixed, OnlyThread DEF ServiceFragments

LEMMA ServiceHandshakesOK == ASSUME QueueInv, NEW t \in Threads, ServiceHandshakes(t) PROVE QueueInv'
<1>1. thread[t] \in Serving
  BY Fixed, Tasks DEF ServiceHandshakes
<1>2. PICK at, x : at = (IF has_pending THEN "Scan" ELSE "Minimum") /\ x = [thread[t] EXCEPT !.at = at]
  OBVIOUS
<1>3. x \in Task /\ x.at \in {"Scan", "Minimum"} /\ Goto(t, x)
  BY <1>1, <1>2 DEF ServiceHandshakes, Task, Serving
<1>. QED  BY <1>3, Fixed, OnlyThread DEF ServiceHandshakes

LEMMA ScanHandshakesOK == ASSUME QueueInv, NEW t \in Threads, ScanHandshakes(t) PROVE QueueInv'
<1>1. thread[t] \in Serving
  BY Fixed, Tasks DEF ScanHandshakes
<1>2. PICK left : left = {i \in 1 .. CacheSize : cache[i].local_id # None /\ cache[i].expiry > thread[t].now}
  OBVIOUS
<1>3. PICK T, x : /\ T = {thread[t].time} \cup {cache[i].expiry : i \in left}
                  /\ x = [thread[t] EXCEPT !.at = "Minimum", !.time = Min(T)]
  OBVIOUS
<1>4. T \subseteq Nat /\ T # {}
  BY <1>1, <1>2, <1>3, Fixed DEF Serving, Pending
<1>5. Min(T) \in Nat
  BY <1>4, Earliest
<1>6. x \in Task /\ x.at = "Minimum" /\ Goto(t, x)
  BY <1>1, <1>2, <1>3, <1>5 DEF ScanHandshakes, Task, Serving
<1>7. Vacant \in Pending
  BY DEF Vacant, Pending
<1>8. cache' \in [1 .. CacheSize -> Pending]
  BY <1>2, <1>7, Fixed DEF ScanHandshakes
<1>9. has_pending' \in BOOLEAN
  BY Fixed DEF ScanHandshakes, StillPending
<1>. QED  BY <1>6, <1>8, <1>9, Fixed, OnlyThread DEF ScanHandshakes

LEMMA EndServiceOK == ASSUME QueueInv, NEW t \in Threads, EndService(t) PROVE QueueInv'
<1>1. thread[t].time \in Nat
  BY Fixed, Tasks DEF EndService, Serving
<1>2. next_service_time' \in Nat
  BY <1>1, Fixed DEF EndService, LowerServiceTime, Earlier
<1>3. PICK x : x = Idle
  OBVIOUS
<1>. QED  BY <1>2, <1>3, Fixed, OnlyThread DEF EndService

-----------------------------------------------------------------------------
(* Steps that change a session *)

\* A session that is given another value: what depends on all of them.
LEMMA OneSession ==
    ASSUME QueueInv, NEW s \in Sessions, Opened(s), NEW z \in SessionState, sess' = [sess EXCEPT ![s] = z],
           z.beta # "None", z.queue_idx = sess[s].queue_idx, z.alive => sess[s].alive
    PROVE  /\ sess' \in [Sessions -> SessionState] /\ Unmoved
           /\ \A u \in Sessions : Opened(u) => Opened(u)'
           /\ \A u \in Sessions : u # s => (Served(u)' => Served(u))
           /\ Served(s)' <=> z.beta \in {"Waiting", "S2"} /\ z.alive
<1>1. sess \in [Sessions -> SessionState]
  BY Fixed
<1>2. sess' \in [Sessions -> SessionState] /\ sess'[s] = z /\ \A u \in Sessions : u # s => sess'[u] = sess[u]
  BY <1>1
<1>3. \A u \in Sessions : Opened(u)' <=> Opened(u)
  BY <1>2 DEF Opened
<1>4. \A u \in Sessions : sess'[u].queue_idx = sess[u].queue_idx
  BY <1>2
<1>5. \A u \in Sessions : sess'[u].alive => sess[u].alive
  BY <1>2
<1>6. \A u \in Sessions : u # s => (Served(u)' => Served(u))
  BY <1>2 DEF Served, Live
<1>7. Served(s)' <=> z.beta \in {"Waiting", "S2"} /\ z.alive
  BY <1>2 DEF Served, Live
<1>. QED  BY <1>2, <1>3, <1>4, <1>5, <1>6, <1>7 DEF Unmoved

\* A session of which only the timers change, or the state from one to be served to another.
LEMMA StillServed ==
    ASSUME QueueInv, NEW s \in Sessions, Opened(s), NEW z \in SessionState, sess' = [sess EXCEPT ![s] = z],
           z.beta # "None", z.queue_idx = sess[s].queue_idx, z.alive => sess[s].alive,
           Served(s) \/ z.beta = sess[s].beta \/ \E e \in Handles(queue) : e.item = s,
           HeapOK(queue)', Handles(queue)' = Handles(queue), queue'.generation = queue.generation
    PROVE  sess' \in [Sessions -> SessionState] /\ OwnIndices' /\ Queued' /\ \A u \in Sessions : Opened(u) => Opened(u)'
<1>1. /\ sess' \in [Sessions -> SessionState] /\ Unmoved
      /\ \A u \in Sessions : Opened(u) => Opened(u)'
      /\ \A u \in Sessions : u # s => (Served(u)' => Served(u))
      /\ Served(s)' <=> z.beta \in {"Waiting", "S2"} /\ z.alive
  BY OneSession
<1>2. Served(s)' => Served(s) \/ \E e \in Handles(queue) : e.item = s
  BY <1>1 DEF Served, Live
<1>3. \A u \in Sessions : Served(u)' => Served(u) \/ \E e \in Handles(queue) : e.item = u
  BY <1>1, <1>2
<1>4. OwnIndices' /\ Queued'
  BY <1>1, <1>3, QueueKept
<1>. QED  BY <1>1, <1>4

LEMMA EnterWaitingOK == ASSUME QueueInv, NEW t \in Threads, NEW s \in Sessions, EnterWaiting(t, s) PROVE QueueInv'
<1>1. PICK z, x : z = Waiting(sess[s], clock) /\ x = [at |-> "Queue", session |-> s, time |-> clock + ResendTime]
  OBVIOUS
<1>2. x \in Task /\ x.session = s /\ Goto(t, x)
  BY <1>1, Fixed, Settings DEF EnterWaiting, Task
<1>3. z \in SessionState /\ z.beta = "Waiting" /\ z.alive = sess[s].alive /\ z.queue_idx = sess[s].queue_idx
  BY <1>1, Fixed, StatesSet
<1>4. sess' = [sess EXCEPT ![s] = z] /\ Opened(s) /\ Served(s)
  BY <1>1 DEF EnterWaiting, Opened, Served, Live
<1>5. UNCHANGED queue
  BY DEF EnterWaiting
<1>6. sess' \in [Sessions -> SessionState] /\ OwnIndices' /\ Queued' /\ \A u \in Sessions : Opened(u) => Opened(u)'
  BY <1>3, <1>4, <1>5, Fixed, StillServed
<1>7. thread' \in [Threads -> Task] /\ Working'
  BY <1>2, <1>4, <1>6, Going
<1>8. TypeOK'
  BY <1>6, <1>7 DEF QueueInv, TypeOK, EnterWaiting
<1>. QED  BY <1>6, <1>7, <1>8 DEF QueueInv

LEMMA EnterS2OK == ASSUME QueueInv, NEW t \in Threads, NEW s \in Sessions, EnterS2(t, s) PROVE QueueInv'
<1>1. PICK z, x : z = Established(sess[s], clock) /\ x = [at |-> "Queue", session |-> s, time |-> clock + RekeyAfterTime]
  OBVIOUS
<1>2. x \in Task /\ x.session = s /\ Goto(t, x)
  BY <1>1, Fixed, Settings DEF EnterS2, Task
<1>3. z \in SessionState /\ z.beta = "S2" /\ z.alive = sess[s].alive /\ z.queue_idx = sess[s].queue_idx
  BY <1>1, Fixed, StatesSet
<1>4. sess' = [sess EXCEPT ![s] = z] /\ Opened(s) /\ Served(s)
  BY <1>1 DEF EnterS2, Opened, Served, Live
<1>5. UNCHANGED queue
  BY DEF EnterS2
<1>6. sess' \in [Sessions -> SessionState] /\ OwnIndices' /\ Queued' /\ \A u \in Sessions : Opened(u) => Opened(u)'
  BY <1>3, <1>4, <1>5, Fixed, StillServed
<1>7. thread' \in [Threads -> Task] /\ Working'
  BY <1>2, <1>4, <1>6, Going
<1>8. TypeOK'
  BY <1>6, <1>7 DEF QueueInv, TypeOK, EnterS2
<1>. QED  BY <1>6, <1>7, <1>8 DEF QueueInv

\* A timer of a session.
LEMMA TimerSet ==
    ASSUME NEW z \in SessionState, NEW time \in Nat, NEW y,
           y = [z EXCEPT !.resend_timer = time] \/ y = [z EXCEPT !.timeout_timer = time]
    PROVE  KeptBut(z, y, z.beta)
<1>1. PICK b, a, r, o, q : z = [beta |-> b, alive |-> a, resend_timer |-> r, timeout_timer |-> o, queue_idx |-> q]
  BY DEF SessionState
<1>2. /\ b \in {"None", "Waiting", "S2", "Null"} /\ a \in BOOLEAN /\ r \in Nat /\ o \in Nat
      /\ q \in [slot : Nat, gen : Nat]
  BY <1>1 DEF SessionState
<1>3. \/ y = [beta |-> b, alive |-> a, resend_timer |-> time, timeout_timer |-> o, queue_idx |-> q]
      \/ y = [beta |-> b, alive |-> a, resend_timer |-> r, timeout_timer |-> time, queue_idx |-> q]
  BY <1>1
<1>4. y \in SessionState
  BY <1>2, <1>3 DEF SessionState
<1>. QED  BY <1>1, <1>3, <1>4 DEF KeptBut

LEMMA TriggerRekeyOK == ASSUME QueueInv, NEW t \in Threads, TriggerRekey(t) PROVE QueueInv'
<1>1. PICK s : s = thread[t].session
  OBVIOUS
<1>2. s \in Sessions /\ Opened(s)
  BY <1>1, Fixed, Tasks DEF TriggerRekey, QueueInv, Working
<1>3. PICK z, x : z = [sess[s] EXCEPT !.timeout_timer = MIN] /\ x = [at |-> "Queue", session |-> s, time |-> MIN]
  OBVIOUS
<1>4. x \in Task /\ x.session = s /\ Goto(t, x)
  BY <1>1, <1>2, <1>3, Settings DEF TriggerRekey, Task
<1>5. KeptBut(sess[s], z, sess[s].beta)
  BY <1>2, <1>3, Fixed, Settings, TimerSet
<1>6. sess' = [sess EXCEPT ![s] = z] /\ UNCHANGED queue
  BY <1>1, <1>3 DEF TriggerRekey
<1>7. sess' \in [Sessions -> SessionState] /\ OwnIndices' /\ Queued' /\ \A u \in Sessions : Opened(u) => Opened(u)'
  BY <1>2, <1>5, <1>6, Fixed, StillServed DEF KeptBut, Opened
<1>8. thread' \in [Threads -> Task] /\ Working'
  BY <1>2, <1>4, <1>7, Going
<1>9. TypeOK'
  BY <1>7, <1>8 DEF QueueInv, TypeOK, TriggerRekey
<1>. QED  BY <1>7, <1>8, <1>9 DEF QueueInv

LEMMA DropLastOK == ASSUME QueueInv, NEW t \in Threads, NEW s \in Sessions, DropLast(t, s) PROVE QueueInv'
<1>1. PICK z, x : z = [sess[s] EXCEPT !.alive = FALSE] /\ x = [at |-> "Drop", session |-> s]
  OBVIOUS
<1>2. x \in Task /\ x.session = s /\ Goto(t, x)
  BY <1>1 DEF DropLast, Task
<1>3. Opened(s)
  BY DEF DropLast, QueueInv, OwnIndices
<1>4. z \in SessionState /\ z.beta = sess[s].beta /\ ~z.alive /\ z.queue_idx = sess[s].queue_idx
  BY <1>1, Fixed DEF SessionState
<1>5. sess' = [sess EXCEPT ![s] = z] /\ UNCHANGED queue
  BY <1>1 DEF DropLast
<1>6. sess' \in [Sessions -> SessionState] /\ OwnIndices' /\ Queued' /\ \A u \in Sessions : Opened(u) => Opened(u)'
  BY <1>3, <1>4, <1>5, Fixed, StillServed DEF Opened
<1>7. thread' \in [Threads -> Task] /\ Working'
  BY <1>2, <1>3, <1>6, Going
<1>8. TypeOK'
  BY <1>6, <1>7 DEF QueueInv, TypeOK, DropLast
<1>. QED  BY <1>6, <1>7, <1>8 DEF QueueInv

-----------------------------------------------------------------------------
(* Steps that change the queue *)

\* The index of a session that was opened.
LEMMA OwnIndex ==
    ASSUME QueueInv, NEW s \in Sessions, Opened(s)
    PROVE  IsIndex(sess[s].queue_idx)
  BY DEF QueueInv, OwnIndices

LEMMA RequeueOK == ASSUME QueueInv, NEW t \in Threads, Requeue(t) PROVE QueueInv'
<1>1. thread[t] \in [at : {"Queue", "Reduce"}, session : Sessions, time : Nat] /\ Opened(thread[t].session)
  BY Fixed, Tasks DEF Requeue, QueueInv, Working
<1>2. PICK s, time, x : s = thread[t].session /\ time = thread[t].time /\ x = [thread[t] EXCEPT !.at = "Reduce"]
  OBVIOUS
<1>3. s \in Sessions /\ Opened(s) /\ time \in Nat
  BY <1>1, <1>2
<1>4. x \in Task /\ x.at = "Reduce" /\ Goto(t, x) /\ UNCHANGED sess
  BY <1>1, <1>2 DEF Requeue, Task
<1>5. PICK g, idx : g = ChangePriority(queue, idx, time) /\ idx = sess[s].queue_idx
  OBVIOUS
<1>6. queue' = g
  BY <1>2, <1>5 DEF Requeue
<1>7. HeapOK(g) /\ Reordered(queue, g)
  BY <1>3, <1>5, Fixed, OwnIndex, ChangePriorityOK
<1>8. HeapOK(queue)' /\ Handles(queue)' = Handles(queue) /\ queue'.generation = queue.generation
  BY <1>6, <1>7 DEF Reordered
<1>9. Unmoved /\ \A u \in Sessions : (Opened(u) => Opened(u)') /\ (Served(u)' => Served(u))
  BY <1>4 DEF Unmoved, Opened, Served, Live
<1>10. OwnIndices' /\ Queued'
  BY <1>8, <1>9, QueueKept
<1>11. thread' \in [Threads -> Task] /\ Working'
  BY <1>4, <1>9, Going
<1>12. TypeOK'
  BY <1>4, <1>8, <1>11 DEF QueueInv, TypeOK, Requeue
<1>. QED  BY <1>10, <1>11, <1>12 DEF QueueInv

\* A session leaves the queue and is not served any longer.
LEMMA Leaves ==
    ASSUME QueueInv, NEW s \in Sessions, Opened(s), sess' = [sess EXCEPT ![s] = Expired(sess[s])],
           queue' = IF Live(s) THEN RemoveIndex(queue, sess[s].queue_idx) ELSE queue
    PROVE  /\ sess' \in [Sessions -> SessionState] /\ HeapOK(queue)' /\ OwnIndices' /\ Queued'
           /\ \A u \in Sessions : Opened(u) => Opened(u)'
<1>1. PICK z, idx : z = Expired(sess[s]) /\ idx = sess[s].queue_idx
  OBVIOUS
<1>2. z \in SessionState /\ z.beta = "Null" /\ z.alive = sess[s].alive /\ z.queue_idx = sess[s].queue_idx
  BY <1>1, Fixed, StatesSet
<1>3. /\ sess' \in [Sessions -> SessionState] /\ Unmoved
      /\ \A u \in Sessions : Opened(u) => Opened(u)'
      /\ \A u \in Sessions : u # s => (Served(u)' => Served(u))
      /\ Served(s)' <=> z.beta \in {"Waiting", "S2"} /\ z.alive
  BY <1>1, <1>2, OneSession
<1>4. CASE Live(s)
  <2>1. PICK g : g = RemoveIndex(queue, idx)
    OBVIOUS
  <2>2. HeapOK(g) /\ g.generation = queue.generation /\ Handles(g) = {e \in Handles(queue) : e.idx # idx}
    BY <1>1, <2>1, Fixed, OwnIndex, RemoveIndexOK
  <2>3. queue' = g
    BY <1>1, <1>4, <2>1
  <2>4. HeapOK(queue)' /\ queue'.generation = queue.generation
        /\ Handles(queue)' = {e \in Handles(queue) : e.idx # sess[s].queue_idx}
    BY <1>1, <2>2, <2>3
  <2>5. OwnIndices' /\ Queued'
    BY <1>2, <1>3, <2>4, QueueLess
  <2>. QED  BY <1>3, <2>4, <2>5
<1>5. CASE ~Live(s)
  <2>1. HeapOK(queue)' /\ Handles(queue)' = Handles(queue) /\ queue'.generation = queue.generation
    BY <1>5, Fixed
  <2>2. OwnIndices' /\ Queued'
    BY <1>2, <1>3, <2>1, QueueKept
  <2>. QED  BY <1>3, <2>1, <2>2
<1>. QED  BY <1>4, <1>5

LEMMA ExpireOK == ASSUME QueueInv, NEW t \in Threads, NEW s \in Sessions, Expire(t, s) PROVE QueueInv'
<1>1. Opened(s)
  BY DEF Expire, Live, Opened
<1>2. /\ sess' \in [Sessions -> SessionState] /\ HeapOK(queue)' /\ OwnIndices' /\ Queued'
      /\ \A u \in Sessions : Opened(u) => Opened(u)'
  BY <1>1, Leaves DEF Expire
<1>3. thread' \in [Threads -> Task] /\ Working'
  BY <1>2, Waits DEF Expire
<1>4. TypeOK'
  BY <1>2, <1>3 DEF QueueInv, TypeOK, Expire
<1>. QED  BY <1>2, <1>3, <1>4 DEF QueueInv

LEMMA DropOK == ASSUME QueueInv, NEW t \in Threads, Drop(t) PROVE QueueInv'
<1>1. PICK s, x : s = thread[t].session /\ x = Idle
  OBVIOUS
<1>2. s \in Sessions /\ Opened(s)
  BY <1>1, Fixed, Tasks DEF Drop, QueueInv, Working
<1>3. /\ sess' = [sess EXCEPT ![s] = Expired(sess[s])]
      /\ queue' = IF Live(s) THEN RemoveIndex(queue, sess[s].queue_idx) ELSE queue
      /\ Goto(t, x)
  BY <1>1 DEF Drop
<1>4. /\ sess' \in [Sessions -> SessionState] /\ HeapOK(queue)' /\ OwnIndices' /\ Queued'
      /\ \A u \in Sessions : Opened(u) => Opened(u)'
  BY <1>2, <1>3, Leaves
<1>5. thread' \in [Threads -> Task] /\ Working'
  BY <1>1, <1>3, <1>4, Fixed, Going
<1>6. TypeOK'
  BY <1>4, <1>5 DEF QueueInv, TypeOK, Drop
<1>. QED  BY <1>4, <1>5, <1>6 DEF QueueInv

\* The first entry of the queue is a session's, under its own index.
LEMMA HeadIs ==
    ASSUME QueueInv, queue.data # <<>>, NEW s, s = Head(queue.data).item
    PROVE  /\ s \in Sessions /\ Opened(s) /\ PeekIndex(queue) = sess[s].queue_idx
           /\ \E e \in Handles(queue) : e.item = s
<1>1. PICK d : d = queue.data
  OBVIOUS
<1>2. d \in Seq(HeapEntry) /\ Len(d) \in Nat
  BY <1>1, Fixed, HeapParts DEF HeapOK
<1>3. Head(d) = d[1] /\ 1 \in 1 .. Len(d)
  BY <1>1, <1>2
<1>4. 1 \in Positions(queue)
  BY <1>1, <1>3 DEF Positions
<1>5. PICK e \in Handles(queue) : e = Handle(queue, 1)
  BY <1>4 DEF Handles
<1>6. e.item = s /\ s \in Sessions
  BY <1>1, <1>3, <1>4, <1>5, Fixed, HandleIs
<1>7. e.idx = PeekIndex(queue)
  BY <1>1, <1>3, <1>5 DEF Handle, PeekIndex
<1>. QED  BY <1>6, <1>7 DEF QueueInv, Queued

LEMMA ServiceDroppedOK == ASSUME QueueInv, NEW t \in Threads, ServiceDropped(t) PROVE QueueInv'
<1>1. PICK s : s = Head(queue.data).item
  OBVIOUS
<1>2. s \in Sessions /\ Opened(s) /\ PeekIndex(queue) = sess[s].queue_idx /\ ~sess[s].alive
  BY <1>1, HeadIs DEF ServiceDropped, HeadIsDue
<1>3. PICK g, idx : g = RemoveIndex(queue, idx) /\ idx = sess[s].queue_idx
  OBVIOUS
<1>4. HeapOK(g) /\ g.generation = queue.generation /\ Handles(g) = {e \in Handles(queue) : e.idx # idx}
  BY <1>2, <1>3, Fixed, OwnIndex, RemoveIndexOK
<1>5. queue' = g /\ UNCHANGED <<sess, thread>>
  BY <1>2, <1>3 DEF ServiceDropped
<1>6. /\ HeapOK(queue)' /\ queue'.generation = queue.generation
      /\ Handles(queue)' = {e \in Handles(queue) : e.idx # sess[s].queue_idx}
  BY <1>3, <1>4, <1>5
<1>7. Unmoved /\ ~Served(s)' /\ \A u \in Sessions : (Opened(u) => Opened(u)') /\ (Served(u)' => Served(u))
  BY <1>2, <1>5 DEF Unmoved, Opened, Served, Live
<1>8. OwnIndices' /\ Queued'
  BY <1>2, <1>6, <1>7, QueueLess
<1>9. thread' \in [Threads -> Task] /\ Working'
  BY <1>5, <1>7, Waits
<1>10. TypeOK'
  BY <1>5, <1>6, <1>9 DEF QueueInv, TypeOK, ServiceDropped
<1>. QED  BY <1>8, <1>9, <1>10 DEF QueueInv

\* process_timers went well.
LEMMA ProcessedToOK ==
    ASSUME QueueInv, NEW t \in Threads, thread[t] \in Serving, queue.data # <<>>, NEW s, s = Head(queue.data).item,
           NEW z, z.beta # "None", KeptBut(sess[s], z, z.beta), NEW next \in Nat, ProcessedTo(t, s, z, next),
           UNCHANGED <<clock, next_service_time, cache, has_pending, frags>>
    PROVE  QueueInv'
<1>1. /\ s \in Sessions /\ Opened(s) /\ PeekIndex(queue) = sess[s].queue_idx
      /\ \E e \in Handles(queue) : e.item = s
  BY HeadIs
<1>2. PICK g, idx : g = ChangePriority(queue, idx, next) /\ idx = sess[s].queue_idx
  OBVIOUS
<1>3. HeapOK(g) /\ Reordered(queue, g)
  BY <1>1, <1>2, Fixed, OwnIndex, ChangePriorityOK
<1>4. queue' = g /\ sess' = [sess EXCEPT ![s] = z] /\ UNCHANGED queue_lock
  BY <1>1, <1>2 DEF ProcessedTo
<1>5. HeapOK(queue)' /\ Handles(queue)' = Handles(queue) /\ queue'.generation = queue.generation
  BY <1>3, <1>4 DEF Reordered
<1>6. sess' \in [Sessions -> SessionState] /\ OwnIndices' /\ Queued' /\ \A u \in Sessions : Opened(u) => Opened(u)'
  BY <1>1, <1>4, <1>5, StillServed DEF KeptBut
<1>7. PICK x : x = [thread[t] EXCEPT !.time = Earlier(thread[t].time, next)]
  OBVIOUS
<1>8. x \in Serving /\ Goto(t, x)
  BY <1>7 DEF ProcessedTo, Serving, Earlier
<1>9. x \in Task /\ x.at \notin {"Early", "Queue", "Drop"}
  BY <1>8 DEF Task, Serving
<1>10. thread' \in [Threads -> Task] /\ Working'
  BY <1>6, <1>8, <1>9, Going
<1>11. TypeOK'
  BY <1>4, <1>5, <1>6, <1>10 DEF QueueInv, TypeOK
<1>. QED  BY <1>6, <1>10, <1>11 DEF QueueInv

LEMMA ServiceSessionOK == ASSUME QueueInv, NEW t \in Threads, ServiceSession(t) PROVE QueueInv'
<1>1. PICK s, y, now : s = Head(queue.data).item /\ y = sess[s] /\ now = thread[t].now
  OBVIOUS
<1>2. queue.data # <<>> /\ thread[t] \in Serving
  BY Fixed, Tasks DEF ServiceSession, HeadIsDue
<1>3. s \in Sessions /\ Opened(s)
  BY <1>1, <1>2, HeadIs
<1>4. y \in SessionState /\ now \in Nat /\ now + ResendTime \in Nat /\ y.beta # "None"
  BY <1>1, <1>2, <1>3, Fixed, Settings DEF Serving, Opened
<1>5. UNCHANGED <<clock, next_service_time, cache, has_pending, frags>>
  BY DEF ServiceSession
<1>6. \/ ProcessedTo(t, s, Waiting(y, now), now + ResendTime)
      \/ ProcessedTo(t, s, [y EXCEPT !.resend_timer = now + ResendTime], now + ResendTime)
      \/ ProcessedTo(t, s, y, y.resend_timer)
      \/ ProcessedErr(t, s)
  BY <1>1 DEF ServiceSession
<1>7. CASE ProcessedTo(t, s, Waiting(y, now), now + ResendTime)
  <2>1. PICK z, next : z = Waiting(y, now) /\ next = now + ResendTime
    OBVIOUS
  <2>2. z.beta # "None" /\ KeptBut(y, z, z.beta)
    BY <1>4, <2>1, StatesSet DEF KeptBut
  <2>. QED  BY <1>1, <1>2, <1>4, <1>5, <1>7, <2>1, <2>2, ProcessedToOK
<1>8. CASE ProcessedTo(t, s, [y EXCEPT !.resend_timer = now + ResendTime], now + ResendTime)
  <2>1. PICK next, z : next \in Nat /\ next = now + ResendTime /\ z = [y EXCEPT !.resend_timer = next]
    BY <1>4
  <2>2. KeptBut(y, z, y.beta)
    BY <1>4, <2>1, TimerSet
  <2>3. z.beta # "None" /\ KeptBut(y, z, z.beta)
    BY <1>4, <2>2 DEF KeptBut
  <2>. QED  BY <1>1, <1>2, <1>5, <1>8, <2>1, <2>3, ProcessedToOK
<1>9. CASE ProcessedTo(t, s, y, y.resend_timer)
  <2>1. PICK next : next = y.resend_timer
    OBVIOUS
  <2>2. next \in Nat /\ KeptBut(y, y, y.beta)
    BY <1>4, <2>1 DEF SessionState, KeptBut
  <2>. QED  BY <1>1, <1>2, <1>4, <1>5, <1>9, <2>1, <2>2, ProcessedToOK
<1>10. CASE ProcessedErr(t, s)
  <2>1. PICK x : x = Idle
    OBVIOUS
  <2>2. /\ sess' = [sess EXCEPT ![s] = Expired(sess[s])] /\ queue_lock' = None /\ Goto(t, x)
        /\ queue' = IF Live(s) THEN RemoveIndex(queue, sess[s].queue_idx) ELSE queue
    BY <1>10, <2>1 DEF ProcessedErr
  <2>3. /\ sess' \in [Sessions -> SessionState] /\ HeapOK(queue)' /\ OwnIndices' /\ Queued'
        /\ \A u \in Sessions : Opened(u) => Opened(u)'
    BY <1>3, <2>2, Leaves
  <2>4. thread' \in [Threads -> Task] /\ Working'
    BY <2>1, <2>2, <2>3, Fixed, Going
  <2>5. TypeOK'
    BY <1>5, <2>2, <2>3, <2>4 DEF QueueInv, TypeOK
  <2>. QED  BY <2>3, <2>4, <2>5 DEF QueueInv
<1>. QED  BY <1>6, <1>7, <1>8, <1>9, <1>10

LEMMA OpenOK == ASSUME QueueInv, NEW t \in Threads, NEW s \in Sessions, Open(t, s) PROVE QueueInv'
<1>1. PICK idx, w, z : /\ idx = ReservedIndex(queue) /\ w = Waiting(sess[s], clock)
                       /\ z = [w EXCEPT !.alive = TRUE, !.queue_idx = idx]
  OBVIOUS
<1>2. sess[s].beta = "None" /\ sess' = [sess EXCEPT ![s] = z] /\ UNCHANGED thread
  BY <1>1 DEF Open
<1>3. w \in SessionState /\ w.beta = "Waiting"
  BY <1>1, Fixed, StatesSet
<1>4. PICK prio : prio = z.resend_timer
  OBVIOUS
<1>5. prio \in Nat
  BY <1>1, <1>3, <1>4 DEF SessionState
<1>6. PICK g : g = PushReserved(ReserveIndex(queue), idx, s, prio)
  OBVIOUS
<1>7. /\ HeapOK(g) /\ g.generation = queue.generation + 1 /\ IsIndex(idx) /\ idx.gen = g.generation
      /\ Handles(g) = Handles(queue) \cup {[item |-> s, idx |-> idx]}
  BY <1>1, <1>5, <1>6, Fixed, PushOK
<1>8. queue' = g /\ next_service_time' = Earlier(next_service_time, prio)
  BY <1>1, <1>4, <1>6 DEF Open
<1>9. z \in SessionState /\ z.beta = "Waiting" /\ z.queue_idx = idx /\ z.alive
  BY <1>1, <1>3, <1>7 DEF SessionState, IsIndex
<1>10. sess' \in [Sessions -> SessionState] /\ sess'[s] = z /\ \A u \in Sessions : u # s => sess'[u] = sess[u]
  BY <1>2, <1>9, Fixed
<1>11. Opened(s)' /\ ~Opened(s) /\ \A u \in Sessions : u # s => (Opened(u)' <=> Opened(u)) /\ (Served(u)' <=> Served(u))
  BY <1>2, <1>9, <1>10 DEF Opened, Served, Live
<1>12. OwnIndices'
  <2>1. queue.generation \in Nat /\ queue'.generation = queue.generation + 1
    BY <1>7, <1>8, Fixed, HeapParts DEF HeapOK
  <2>2. \A u \in Sessions : sess'[u].alive => Opened(u)'
    BY <1>10, <1>11 DEF QueueInv, OwnIndices
  <2>3. ASSUME NEW u \in Sessions, Opened(u)'
        PROVE  /\ IsIndex(sess'[u].queue_idx) /\ sess'[u].queue_idx.gen <= queue'.generation
               /\ u # s => sess'[u].queue_idx.gen < queue'.generation
    <3>1. CASE u = s
      BY <1>7, <1>8, <1>9, <1>10, <2>1, <3>1
    <3>2. CASE u # s
      <4>1. sess'[u] = sess[u] /\ IsIndex(sess[u].queue_idx) /\ sess[u].queue_idx.gen <= queue.generation
        BY <1>10, <1>11, <2>3, <3>2 DEF QueueInv, OwnIndices
      <4>2. sess[u].queue_idx.gen \in Nat
        BY <4>1 DEF IsIndex
      <4>. QED  BY <2>1, <4>1, <4>2
    <3>. QED  BY <3>1, <3>2
  <2>4. ASSUME NEW u \in Sessions, NEW v \in Sessions, Opened(u)', Opened(v)',
               sess'[u].queue_idx.gen = sess'[v].queue_idx.gen
        PROVE  u = v
    <3>1. sess'[s].queue_idx.gen = queue'.generation
      BY <1>7, <1>8, <1>9, <1>10
    <3>2. queue'.generation \in Nat
      BY <2>1
    <3>3. CASE u = s \/ v = s
      BY <2>3, <2>4, <3>1, <3>2, <3>3
    <3>4. CASE u # s /\ v # s
      BY <1>10, <1>11, <2>4, <3>4 DEF QueueInv, OwnIndices
    <3>. QED  BY <3>3, <3>4
  <2>. QED  BY <2>2, <2>3, <2>4 DEF OwnIndices
<1>13. Queued'
  <2>1. PICK n : n = [item |-> s, idx |-> idx]
    OBVIOUS
  <2>2. Handles(queue)' = Handles(queue) \cup {n} /\ n.item = s /\ n.idx = idx
    BY <1>7, <1>8, <2>1
  <2>3. \A e \in Handles(queue) : e.item \in Sessions /\ Opened(e.item) /\ e.idx = sess[e.item].queue_idx
    BY Fixed, HandleIs DEF QueueInv, Queued, Handles
  <2>4. \A e \in Handles(queue)' : Opened(e.item)' /\ e.idx = sess'[e.item].queue_idx
    BY <1>9, <1>10, <1>11, <2>2, <2>3
  <2>5. \A u \in Sessions : Served(u)' => \E e \in Handles(queue)' : e.item = u
    BY <1>11, <2>2 DEF QueueInv, Queued
  <2>. QED  BY <2>4, <2>5 DEF Queued
<1>14. \A u \in Sessions : Opened(u) => Opened(u)'
  BY <1>11
<1>15. thread' \in [Threads -> Task] /\ Working'
  BY <1>2, <1>14, Waits
<1>16. TypeOK'
  BY <1>5, <1>7, <1>8, <1>10, <1>15 DEF QueueInv, TypeOK, Open, Earlier
<1>. QED  BY <1>12, <1>13, <1>15, <1>16 DEF QueueInv

-----------------------------------------------------------------------------
(* Every step *)

LEMMA NextOK == ASSUME QueueInv, [Next]_vars PROVE QueueInv'
<1>1. CASE UNCHANGED vars
  <2>1. OwnIndices' /\ Queued' /\ \A s \in Sessions : Opened(s) => Opened(s)'
    BY <1>1, QueueUntouched DEF vars
  <2>2. thread' \in [Threads -> Task] /\ Working'
    BY <1>1, <2>1, Waits DEF vars
  <2>3. TypeOK'
    BY <1>1 DEF QueueInv, TypeOK, vars
  <2>. QED  BY <2>1, <2>2, <2>3 DEF QueueInv
<1>2. CASE Tick
  BY <1>2, TickOK
<1>3. ASSUME NEW t \in Threads, Service(t) PROVE QueueInv'
  BY <1>3, StartServiceOK, ServiceDroppedOK, ServiceSessionOK, StoreServiceTimeOK, ServiceFragmentsOK,
     ServiceHandshakesOK, ScanHandshakesOK, EndServiceOK DEF Service
<1>4. ASSUME NEW t \in Threads,
             TriggerRekey(t) \/ Requeue(t) \/ Reduce(t) \/ Drop(t) \/ AddFragment(t) \/ CompleteFragments(t)
      PROVE  QueueInv'
  BY <1>4, TriggerRekeyOK, RequeueOK, ReduceOK, DropOK, AddFragmentOK, CompleteFragmentsOK
<1>5. ASSUME NEW t \in Threads, NEW kid \in Kids, InsertHandshake(t, kid) \/ RemoveHandshake(t, kid) PROVE QueueInv'
  BY <1>5, InsertHandshakeOK, RemoveHandshakeOK
<1>6. ASSUME NEW t \in Threads, NEW s \in Sessions,
             \/ Open(t, s) \/ EnterWaiting(t, s) \/ EnterS2(t, s)
             \/ WantRekey(t, s) \/ Expire(t, s) \/ DropLast(t, s)
      PROVE  QueueInv'
  BY <1>6, OpenOK, EnterWaitingOK, EnterS2OK, WantRekeyOK, ExpireOK, DropLastOK
<1>. QED  BY <1>1, <1>2, <1>3, <1>4, <1>5, <1>6 DEF Next

\* The types of the queue, the timers, the caches and what the threads carry, and the links
\* between the heap and its generational array, whatever the order of the steps.
THEOREM QueueInvariant == Spec => []QueueInv
<1>. QED  BY InitOK, NextOK, PTL DEF Spec

LEMMA QueueInvImplies == QueueInv => QueueIndexed
<1>. SUFFICES ASSUME QueueInv, NEW s \in Sessions, Opened(s), NEW i, i = DerefIndex(queue, sess[s].queue_idx)
              PROVE  /\ Served(s) => i # 0
                     /\ i # 0 => queue.data[i].item = s
                     /\ \A j \in Positions(queue) : queue.data[j].item = s => i = j
  BY DEF QueueIndexed, Opened, Served, Positions
<1>1. HeapOK(queue)
  BY Fixed
<1>2. PICK idx : idx = sess[s].queue_idx
  OBVIOUS
<1>3. IsIndex(idx)
  BY <1>2, OwnIndex
<1>4. /\ DerefIndex(queue, idx) # 0 =>
           DerefIndex(queue, idx) \in Positions(queue) /\ Handle(queue, DerefIndex(queue, idx)).idx = idx
      /\ \A e \in Handles(queue) : e.idx = idx => DerefIndex(queue, idx) # 0
  BY <1>1, <1>3, DerefOK
<1>5. ASSUME Served(s) PROVE i # 0
  <2>1. PICK e \in Handles(queue) : e.item = s
    BY <1>5 DEF QueueInv, Queued
  <2>2. e.idx = idx
    BY <1>2, <2>1 DEF QueueInv, Queued
  <2>. QED  BY <1>2, <1>4, <2>2
<1>6. ASSUME i # 0 PROVE queue.data[i].item = s
  <2>1. i \in Positions(queue) /\ Handle(queue, i).idx = idx
    BY <1>2, <1>4, <1>6
  <2>2. PICK e \in Handles(queue) : e = Handle(queue, i)
    BY <2>1 DEF Handles
  <2>3. e.item \in Sessions /\ e.item = queue.data[i].item
    BY <1>1, <2>1, <2>2, HandleIs
  <2>4. Opened(e.item) /\ sess[e.item].queue_idx = idx
    BY <2>1, <2>2 DEF QueueInv, Queued
  <2>5. e.item = s
    BY <1>2, <2>3, <2>4 DEF QueueInv, OwnIndices
  <2>. QED  BY <2>3, <2>5
<1>7. ASSUME NEW j \in Positions(queue), queue.data[j].item = s PROVE i = j
  <2>1. PICK e \in Handles(queue) : e = Handle(queue, j)
    BY DEF Handles
  <2>2. e.item = s /\ DerefIndex(queue, e.idx) = j
    BY <1>1, <1>7, <2>1, HandleIs
  <2>3. e.idx = idx
    BY <1>2, <2>2 DEF QueueInv, Queued
  <2>. QED  BY <1>2, <2>2, <2>3
<1>. QED  BY <1>5, <1>6, <1>7

\* A session that is to be served has exactly one entry in the queue, which its queue_idx leads to;
\* the index of one that left leads nowhere, even after its slot was given to another: for any
\* number of sessions and threads, any settings and whatever order the heap is in.
THEOREM QueueIndexedHolds == Spec => []QueueIndexed
<1>. QED  BY QueueInvariant, QueueInvImplies, PTL

-----------------------------------------------------------------------------
(* The handshake cache *)

\* Nothing is put into the cache, no flag taken down and no thread turns back from its scan.
LEMMA StillSeen ==
    ASSUME HandshakesPending, \A i \in 1 .. CacheSize : cache'[i].local_id # None => cache[i].local_id # None,
           has_pending => has_pending', \A t \in Threads : thread[t].at = "Scan" => thread'[t].at = "Scan"
    PROVE  HandshakesPending'
  BY DEF HandshakesPending

\* A thread that is not scanning goes elsewhere.
LEMMA Elsewhere ==
    ASSUME QueueInv, NEW t \in Threads, thread[t].at # "Scan",
           UNCHANGED thread \/ \E x : Goto(t, x)
    PROVE  \A u \in Threads : thread[u].at = "Scan" => thread'[u].at = "Scan"
  BY Fixed DEF Goto

LEMMA PendingOK == ASSUME QueueInv, HandshakesPending, [Next]_vars PROVE HandshakesPending'
<1>1. Idle.at = "Idle"
  BY DEF Idle
<1>2. CASE UNCHANGED vars
  BY <1>2 DEF HandshakesPending, vars
<1>3. CASE Tick
  BY <1>3, StillSeen DEF Tick
<1>4. ASSUME NEW t \in Threads, ScanHandshakes(t) PROVE HandshakesPending'
  <2>1. PICK left : left = {i \in 1 .. CacheSize : cache[i].local_id # None /\ cache[i].expiry > thread[t].now}
    OBVIOUS
  <2>2. cache' = [i \in 1 .. CacheSize |-> IF i \in left THEN cache[i] ELSE Vacant] /\ (left # {} => has_pending')
    BY <1>4, <2>1 DEF ScanHandshakes, StillPending
  <2>3. \A i \in 1 .. CacheSize : cache'[i].local_id # None => i \in left
    BY <2>2 DEF Vacant
  <2>. QED  BY <2>2, <2>3 DEF HandshakesPending
<1>5. ASSUME NEW t \in Threads, ServiceHandshakes(t) PROVE HandshakesPending'
  <2>1. thread[t] \in Serving /\ thread \in [Threads -> Task]
    BY <1>5, Fixed, Tasks DEF ServiceHandshakes
  <2>2. CASE has_pending
    <3>1. thread'[t].at = "Scan"
      BY <1>5, <2>1, <2>2 DEF ServiceHandshakes, Goto, Serving
    <3>. QED  BY <3>1 DEF HandshakesPending
  <2>3. CASE ~has_pending
    <3>1. \A u \in Threads : thread[u].at = "Scan" => thread'[u].at = "Scan"
      BY <1>5, <2>1, Elsewhere DEF ServiceHandshakes
    <3>. QED  BY <1>5, <2>3, <3>1, StillSeen DEF ServiceHandshakes
  <2>. QED  BY <2>2, <2>3
<1>6. ASSUME NEW t \in Threads, StartService(t) \/ ServiceDropped(t) \/ StoreServiceTime(t)
                                \/ ServiceFragments(t) \/ EndService(t)
      PROVE  HandshakesPending'
  <2>1. /\ thread[t].at # "Scan" /\ (UNCHANGED thread \/ \E x : Goto(t, x)) /\ UNCHANGED <<cache, has_pending>>
    BY <1>1, <1>6 DEF StartService, ServiceDropped, StoreServiceTime, ServiceFragments, EndService, HeadIsDue
  <2>. QED  BY <2>1, Elsewhere, StillSeen
<1>7. ASSUME NEW t \in Threads, ServiceSession(t) PROVE HandshakesPending'
  <2>1. /\ thread[t].at # "Scan" /\ (\E x : Goto(t, x)) /\ UNCHANGED <<cache, has_pending>>
    BY <1>7 DEF ServiceSession, HeadIsDue, ProcessedTo, ProcessedErr
  <2>. QED  BY <2>1, Elsewhere, StillSeen
<1>8. ASSUME NEW t \in Threads,
             TriggerRekey(t) \/ Requeue(t) \/ Reduce(t) \/ Drop(t) \/ AddFragment(t) \/ CompleteFragments(t)
      PROVE  HandshakesPending'
  <2>1. /\ thread[t].at # "Scan" /\ (UNCHANGED thread \/ \E x : Goto(t, x)) /\ UNCHANGED <<cache, has_pending>>
    BY <1>1, <1>8 DEF TriggerRekey, Requeue, Reduce, Drop, AddFragment, CompleteFragments
  <2>. QED  BY <2>1, Elsewhere, StillSeen
<1>9. ASSUME NEW t \in Threads, NEW kid \in Kids, InsertHandshake(t, kid) PROVE HandshakesPending'
  BY <1>9 DEF InsertHandshake, HandshakesPending
<1>10. ASSUME NEW t \in Threads, NEW kid \in Kids, RemoveHandshake(t, kid) PROVE HandshakesPending'
  <2>1. \A i \in 1 .. CacheSize : cache'[i].local_id # None => cache[i].local_id # None
    BY <1>10, Fixed DEF RemoveHandshake, Vacant
  <2>. QED  BY <1>10, <2>1, StillSeen DEF RemoveHandshake
<1>11. ASSUME NEW t \in Threads, NEW s \in Sessions,
              \/ Open(t, s) \/ EnterWaiting(t, s) \/ EnterS2(t, s)
              \/ WantRekey(t, s) \/ Expire(t, s) \/ DropLast(t, s)
       PROVE  HandshakesPending'
  <2>1. /\ thread[t].at # "Scan" /\ (UNCHANGED thread \/ \E x : Goto(t, x)) /\ UNCHANGED <<cache, has_pending>>
    BY <1>1, <1>11 DEF Open, EnterWaiting, EnterS2, WantRekey, Expire, DropLast
  <2>. QED  BY <2>1, Elsewhere, StillSeen
<1>. QED  BY <1>2, <1>3, <1>4, <1>5, <1>6, <1>7, <1>8, <1>9, <1>10, <1>11 DEF Next, Service

\* A handshake in the cache is looked at by the next call of service: the flag is up, or a thread
\* is about to go through the cache, although service takes the flag down before it locks the cache.
THEOREM HandshakesPendingHolds == Spec => []HandshakesPending
<1>1. Init => HandshakesPending
  BY DEF Init, HandshakesPending, Vacant
<1>2. QueueInv /\ HandshakesPending /\ [Next]_vars => HandshakesPending'
  BY PendingOK
<1>. QED  BY <1>1, <1>2, QueueInvariant, PTL DEF Spec

-----------------------------------------------------------------------------
(* The order of the queue *)

\* What a step does to the queue.
QueueStep ==
    \/ UNCHANGED queue
    \/ \E s \in Sessions : Opened(s) /\ queue' = RemoveIndex(queue, sess[s].queue_idx)
    \/ \E s \in Sessions, prio \in Nat : Opened(s) /\ queue' = ChangePriority(queue, sess[s].queue_idx, prio)
    \/ \E s \in Sessions, prio \in Nat : queue' = PushReserved(ReserveIndex(queue), ReservedIndex(queue), s, prio)

LEMMA OpenQueues == ASSUME QueueInv, NEW t \in Threads, NEW s \in Sessions, Open(t, s) PROVE QueueStep
<1>1. PICK w, z, idx : /\ w = Waiting(sess[s], clock) /\ z = [w EXCEPT !.alive = TRUE, !.queue_idx = idx]
                       /\ idx = ReservedIndex(queue)
  OBVIOUS
<1>2. w \in SessionState
  BY <1>1, Fixed, StatesSet
<1>3. PICK prio : prio = z.resend_timer
  OBVIOUS
<1>4. prio \in Nat
  BY <1>1, <1>2, <1>3 DEF SessionState
<1>5. queue' = PushReserved(ReserveIndex(queue), ReservedIndex(queue), s, prio)
  BY <1>1, <1>3 DEF Open
<1>. QED  BY <1>4, <1>5 DEF QueueStep

LEMMA RequeueQueues == ASSUME QueueInv, NEW t \in Threads, Requeue(t) PROVE QueueStep
<1>1. thread[t] \in [at : {"Queue", "Reduce"}, session : Sessions, time : Nat] /\ Opened(thread[t].session)
  BY Fixed, Tasks DEF Requeue, QueueInv, Working
<1>2. PICK s, time : s = thread[t].session /\ time = thread[t].time
  OBVIOUS
<1>3. s \in Sessions /\ Opened(s) /\ time \in Nat
  BY <1>1, <1>2
<1>4. queue' = ChangePriority(queue, sess[s].queue_idx, time)
  BY <1>2 DEF Requeue
<1>. QED  BY <1>3, <1>4 DEF QueueStep

LEMMA DropQueues == ASSUME QueueInv, NEW t \in Threads, Drop(t) PROVE QueueStep
<1>1. PICK s : s = thread[t].session
  OBVIOUS
<1>2. s \in Sessions /\ Opened(s)
  BY <1>1, Fixed, Tasks DEF Drop, QueueInv, Working
<1>3. queue' = IF Live(s) THEN RemoveIndex(queue, sess[s].queue_idx) ELSE queue
  BY <1>1 DEF Drop
<1>. QED  BY <1>2, <1>3 DEF QueueStep

LEMMA ServiceDroppedQueues == ASSUME QueueInv, NEW t \in Threads, ServiceDropped(t) PROVE QueueStep
<1>1. PICK s : s = Head(queue.data).item
  OBVIOUS
<1>2. s \in Sessions /\ Opened(s) /\ PeekIndex(queue) = sess[s].queue_idx
  BY <1>1, HeadIs DEF ServiceDropped, HeadIsDue
<1>. QED  BY <1>2 DEF ServiceDropped, QueueStep

\* What service_inner does with the session at the head: it leaves the queue, or it gets a later time.
LEMMA ServiceSessionQueues ==
    ASSUME QueueInv, NEW t \in Threads, ServiceSession(t)
    PROVE  LET s == Head(queue.data).item IN
           /\ queue.data # <<>> /\ s \in Sessions /\ Opened(s) /\ UNCHANGED <<next_service_time, cache, has_pending, frags>>
           /\ \/ /\ UNCHANGED queue \/ queue' = RemoveIndex(queue, sess[s].queue_idx)
                 /\ Goto(t, Idle)
              \/ \E next \in Nat : /\ Head(queue.data).prio <= next
                                   /\ queue' = ChangePriority(queue, sess[s].queue_idx, next)
                                   /\ Goto(t, [thread[t] EXCEPT !.time = Earlier(@, next)])
<1>1. PICK s, y, now, e : e = Head(queue.data) /\ s = e.item /\ y = sess[s] /\ now = thread[t].now
  OBVIOUS
<1>2. queue.data # <<>> /\ thread[t] \in Serving
  BY Fixed, Tasks DEF ServiceSession, HeadIsDue
<1>3. s \in Sessions /\ Opened(s) /\ PeekIndex(queue) = sess[s].queue_idx
  BY <1>1, <1>2, HeadIs
<1>4. now \in Nat /\ now + ResendTime \in Nat /\ now <= now + ResendTime /\ y.resend_timer \in Nat
  BY <1>1, <1>2, <1>3, Fixed, Settings DEF Serving, SessionState
<1>5. e.prio <= now /\ e.prio \in Nat
  <2>1. PICK d : d = queue.data
    OBVIOUS
  <2>2. d \in Seq(HeapEntry) /\ d # <<>>
    BY <1>2, <2>1, Fixed, HeapParts DEF HeapOK
  <2>3. Head(d) \in HeapEntry
    BY <2>2
  <2>. QED  BY <1>1, <2>1, <2>3 DEF ServiceSession, HeadIsDue, HeapEntry
<1>6. UNCHANGED <<next_service_time, cache, has_pending, frags>>
  BY DEF ServiceSession
<1>7. \/ ProcessedTo(t, s, Waiting(y, now), now + ResendTime)
      \/ ProcessedTo(t, s, [y EXCEPT !.resend_timer = now + ResendTime], now + ResendTime)
      \/ y.resend_timer > now /\ ProcessedTo(t, s, y, y.resend_timer)
      \/ ProcessedErr(t, s)
  BY <1>1 DEF ServiceSession
<1>8. ASSUME NEW z, NEW next \in Nat, ProcessedTo(t, s, z, next), now <= next
      PROVE  /\ e.prio <= next /\ queue' = ChangePriority(queue, sess[s].queue_idx, next)
             /\ Goto(t, [thread[t] EXCEPT !.time = Earlier(@, next)])
  BY <1>3, <1>4, <1>5, <1>8 DEF ProcessedTo
<1>9. ASSUME ProcessedErr(t, s)
      PROVE  (UNCHANGED queue \/ queue' = RemoveIndex(queue, sess[s].queue_idx)) /\ Goto(t, Idle)
  BY <1>9 DEF ProcessedErr
<1>10. \/ ProcessedErr(t, s)
       \/ \E z, next : next \in Nat /\ now <= next /\ ProcessedTo(t, s, z, next)
  BY <1>4, <1>7
<1>. QED  BY <1>1, <1>2, <1>3, <1>6, <1>8, <1>9, <1>10

LEMMA QueueSteps == ASSUME QueueInv, [Next]_vars PROVE QueueStep
<1>1. CASE UNCHANGED vars
  BY <1>1 DEF vars, QueueStep
<1>2. CASE Tick
  BY <1>2 DEF Tick, QueueStep
<1>3. ASSUME NEW t \in Threads, StartService(t) \/ StoreServiceTime(t) \/ ServiceFragments(t)
                                \/ ServiceHandshakes(t) \/ ScanHandshakes(t) \/ EndService(t)
      PROVE  QueueStep
  BY <1>3 DEF StartService, StoreServiceTime, ServiceFragments, ServiceHandshakes, ScanHandshakes, EndService, QueueStep
<1>4. ASSUME NEW t \in Threads, ServiceSession(t) PROVE QueueStep
  BY <1>4, ServiceSessionQueues DEF QueueStep
<1>5. ASSUME NEW t \in Threads,
             TriggerRekey(t) \/ Reduce(t) \/ AddFragment(t) \/ CompleteFragments(t)
      PROVE  QueueStep
  BY <1>5 DEF TriggerRekey, Reduce, AddFragment, CompleteFragments, QueueStep
<1>6. ASSUME NEW t \in Threads, NEW kid \in Kids, InsertHandshake(t, kid) \/ RemoveHandshake(t, kid) PROVE QueueStep
  BY <1>6 DEF InsertHandshake, RemoveHandshake, QueueStep
<1>7. ASSUME NEW t \in Threads, NEW s \in Sessions,
             EnterWaiting(t, s) \/ EnterS2(t, s) \/ WantRekey(t, s) \/ DropLast(t, s)
      PROVE  QueueStep
  BY <1>7 DEF EnterWaiting, EnterS2, WantRekey, DropLast, QueueStep
<1>8. ASSUME NEW t \in Threads, NEW s \in Sessions, Expire(t, s) PROVE QueueStep
  BY <1>8 DEF Expire, QueueStep, Opened, Live
<1>. QED  BY <1>1, <1>2, <1>3, <1>4, <1>5, <1>6, <1>7, <1>8, OpenQueues, RequeueQueues, DropQueues,
             ServiceDroppedQueues DEF Next, Service

\* QueueOrdered says of the queue what Ordered says of a heap.
LEMMA OrderedIs ==
    ASSUME NEW h, HeapOK(h)
    PROVE  Ordered(h) <=> \A i \in 2 .. Len(h.data) : ~Greater(h.data[i], h.data[i \div 2])
<1>1. PICK n, p : n = Len(h.data) /\ p = Prios(h)
  OBVIOUS
<1>2. n \in Nat /\ p \in [1 .. n -> Nat] /\ \A j \in 1 .. n : p[j] = h.data[j].prio
  BY <1>1, PriosOf DEF Positions
<1>3. ASSUME NEW i \in 2 .. n PROVE p[Parent(i)] <= p[i] <=> ~Greater(h.data[i], h.data[i \div 2])
  <2>1. PICK o \in 1 .. n : o = Parent(i) /\ o = i \div 2
    BY <1>2, Half DEF Parent
  <2>2. i \in 1 .. n
    BY <1>2
  <2>3. p[o] <= p[i] <=> ~Greater(h.data[i], h.data[o])
    BY <1>2, <2>2 DEF Greater
  <2>. QED  BY <2>1, <2>3
<1>4. Ordered(h) <=> \A i \in 2 .. n : p[Parent(i)] <= p[i]
  BY <1>1 DEF Ordered, Sorted
<1>. QED  BY <1>1, <1>3, <1>4

\* A step removes an entry above which is one that is less urgent than the last entry, which takes
\* the place of the removed one.
Disorders == \E i \in Positions(queue) : ~LastFits(queue, i) /\ queue' = RemoveIdx(queue, i)

LEMMA OrderedOK == ASSUME QueueInv, QueueOrdered, ~Disorders, [Next]_vars PROVE QueueOrdered'
<1>1. HeapOK(queue) /\ HeapOK(queue') /\ Ordered(queue)
  <2>1. HeapOK(queue) /\ HeapOK(queue)'
    BY NextOK DEF QueueInv, TypeOK
  <2>. QED  BY <2>1, OrderedIs DEF QueueOrdered
<1>2. PICK h, g : h = queue /\ g = queue'
  OBVIOUS
<1>3. Ordered(g)
  <2>1. CASE UNCHANGED queue
    BY <1>1, <1>2, <2>1
  <2>2. ASSUME NEW s \in Sessions, Opened(s), queue' = RemoveIndex(queue, sess[s].queue_idx) PROVE Ordered(g)
    <3>1. PICK idx : idx = sess[s].queue_idx
      OBVIOUS
    <3>2. IsIndex(idx) /\ HeapOK(h) /\ g = RemoveIndex(h, idx) /\ Ordered(h)
      BY <1>1, <1>2, <2>2, <3>1, OwnIndex
    <3>3. g = h \/ \E i \in Positions(h) : g = RemoveIdx(h, i) /\ (LastFits(h, i) /\ Ordered(h) => Ordered(g))
      BY <3>2, RemoveIndexOK
    <3>4. ~ \E i \in Positions(h) : ~LastFits(h, i) /\ g = RemoveIdx(h, i)
      BY <1>2 DEF Disorders
    <3>. QED  BY <3>2, <3>3, <3>4
  <2>3. ASSUME NEW s \in Sessions, NEW prio \in Nat, Opened(s), queue' = ChangePriority(queue, sess[s].queue_idx, prio)
        PROVE  Ordered(g)
    <3>1. PICK idx : idx = sess[s].queue_idx
      OBVIOUS
    <3>2. IsIndex(idx) /\ HeapOK(h) /\ g = ChangePriority(h, idx, prio) /\ Ordered(h)
      BY <1>1, <1>2, <2>3, <3>1, OwnIndex
    <3>. QED  BY <3>2, ChangePriorityOK
  <2>4. ASSUME NEW s \in Sessions, NEW prio \in Nat,
               queue' = PushReserved(ReserveIndex(queue), ReservedIndex(queue), s, prio)
        PROVE  Ordered(g)
    <3>1. PICK idx : idx = ReservedIndex(h)
      OBVIOUS
    <3>2. HeapOK(h) /\ g = PushReserved(ReserveIndex(h), idx, s, prio) /\ Ordered(h)
      BY <1>1, <1>2, <2>4, <3>1
    <3>. QED  BY <3>1, <3>2, PushOK
  <2>. QED  BY <2>1, <2>2, <2>3, <2>4, QueueSteps DEF QueueStep
<1>. QED  BY <1>1, <1>2, <1>3, OrderedIs DEF QueueOrdered

\* The order of the queue is lost in one way only, whatever the threads, the handlers and service do:
\* remove_idx takes an entry out of the middle and puts the last one, more urgent than what is above
\* the gap, in its place, where it is only bubbled down.  Pushes, changes of priority in either
\* direction, removals of the first or the last entry and all other removals keep it.
OnlyRemoveIdxDisorders == [][QueueOrdered /\ ~QueueOrdered' => Disorders]_vars

\* OnlyRemoveIdxDisorders, for any sessions, threads, priorities and interleavings of them.
THEOREM OnlyRemoveIdxDisordersHolds == Spec => OnlyRemoveIdxDisorders
<1>1. QueueInv /\ [Next]_vars => [QueueOrdered /\ ~QueueOrdered' => Disorders]_vars
  BY OrderedOK
<1>. QED  BY <1>1, QueueInvariant, PTL DEF Spec, OnlyRemoveIdxDisorders

-----------------------------------------------------------------------------
(* The deadlines *)

\* A thread on its way to lower next_service_time to d at least, ...
Brings(x, d) == x.at = "Reduce" /\ x.time <= d

\* ... or to look at the fragments, or with the time of the earliest, ...
SeesFragments(x, d) ==
    Brings(x, d) \/ x.at = "Fragments" \/ (x.at \in {"Handshakes", "Scan", "Minimum"} /\ x.time <= d)

\* ... or to look at the handshakes, or with the time of the earliest.
SeesHandshakes(x, d) ==
    Brings(x, d) \/ x.at \in {"Fragments", "Handshakes", "Scan"} \/ (x.at = "Minimum" /\ x.time <= d)

\* The application knows of d, or will.
Told(d)           == next_service_time <= d \/ \E t \in Threads : Brings(thread[t], d)
FragmentsTold(d)  == next_service_time <= d \/ \E t \in Threads : SeesFragments(thread[t], d)
HandshakesTold(d) == next_service_time <= d \/ \E t \in Threads : SeesHandshakes(thread[t], d)

Expiries == {cache[i].expiry : i \in {j \in 1 .. CacheSize : cache[j].local_id # None}}

\* Only what the part of service that a thread has yet to run will look at may wait for it.  A
\* session may not: service has left the queue when it stores next_service_time.
AllTold ==
    /\ \A e \in Entries(queue) : Told(e.prio)
    /\ \A f \in frags : FragmentsTold(f + AssemblyTimeout)
    /\ \A d \in Expiries : HandshakesTold(d)

LEMMA AllToldImplies == AllTold => DeadlinesKept
<1>. SUFFICES ASSUME AllTold, NEW d \in Deadlines
              PROVE  \/ next_service_time <= d
                     \/ \E t \in Threads :
                         \/ thread[t].at \in {"Fragments", "Handshakes", "Scan"}
                         \/ thread[t].at \in {"Reduce", "Minimum"} /\ thread[t].time <= d
  BY DEF DeadlinesKept
<1>1. CASE \E e \in Entries(queue) : d = e.prio
  BY <1>1 DEF AllTold, Told, Brings
<1>2. CASE \E f \in frags : d = f + AssemblyTimeout
  <2>1. FragmentsTold(d)
    BY <1>2 DEF AllTold
  <2>. QED  BY <2>1 DEF FragmentsTold, SeesFragments, Brings
<1>3. CASE d \in Expiries
  <2>1. HandshakesTold(d)
    BY <1>3 DEF AllTold
  <2>. QED  BY <2>1 DEF HandshakesTold, SeesHandshakes, Brings
<1>. QED  BY <1>1, <1>2, <1>3 DEF Deadlines, Expiries, Entries, Positions

\* One thread moves, next_service_time is not raised, and what the thread was to tell it tells or is
\* still to tell.
Lowered(t) == next_service_time' <= next_service_time /\ (UNCHANGED thread \/ \E x : Goto(t, x))

LEMMA StillTold ==
    ASSUME QueueInv, QueueInv', NEW t \in Threads, Lowered(t), NEW d \in Nat,
           Brings(thread[t], d) => Brings(thread'[t], d) \/ next_service_time' <= d, Told(d)
    PROVE  Told(d)'
<1>1. next_service_time \in Nat /\ next_service_time' \in Nat /\ thread \in [Threads -> Task]
  BY DEF QueueInv, TypeOK
<1>2. \A u \in Threads : u = t \/ thread'[u] = thread[u]
  BY <1>1 DEF Lowered, Goto
<1>3. CASE next_service_time <= d
  BY <1>1, <1>3 DEF Told, Lowered
<1>4. ASSUME NEW u \in Threads, Brings(thread[u], d) PROVE Told(d)'
  BY <1>2, <1>4 DEF Told
<1>. QED  BY <1>3, <1>4 DEF Told

LEMMA FragmentsStillTold ==
    ASSUME QueueInv, QueueInv', NEW t \in Threads, Lowered(t), NEW d \in Nat,
           SeesFragments(thread[t], d) => SeesFragments(thread'[t], d) \/ next_service_time' <= d, FragmentsTold(d)
    PROVE  FragmentsTold(d)'
<1>1. next_service_time \in Nat /\ next_service_time' \in Nat /\ thread \in [Threads -> Task]
  BY DEF QueueInv, TypeOK
<1>2. \A u \in Threads : u = t \/ thread'[u] = thread[u]
  BY <1>1 DEF Lowered, Goto
<1>3. CASE next_service_time <= d
  BY <1>1, <1>3 DEF FragmentsTold, Lowered
<1>4. ASSUME NEW u \in Threads, SeesFragments(thread[u], d) PROVE FragmentsTold(d)'
  BY <1>2, <1>4 DEF FragmentsTold
<1>. QED  BY <1>3, <1>4 DEF FragmentsTold

LEMMA HandshakesStillTold ==
    ASSUME QueueInv, QueueInv', NEW t \in Threads, Lowered(t), NEW d \in Nat,
           SeesHandshakes(thread[t], d) => SeesHandshakes(thread'[t], d) \/ next_service_time' <= d, HandshakesTold(d)
    PROVE  HandshakesTold(d)'
<1>1. next_service_time \in Nat /\ next_service_time' \in Nat /\ thread \in [Threads -> Task]
  BY DEF QueueInv, TypeOK
<1>2. \A u \in Threads : u = t \/ thread'[u] = thread[u]
  BY <1>1 DEF Lowered, Goto
<1>3. CASE next_service_time <= d
  BY <1>1, <1>3 DEF HandshakesTold, Lowered
<1>4. ASSUME NEW u \in Threads, SeesHandshakes(thread[u], d) PROVE HandshakesTold(d)'
  BY <1>2, <1>4 DEF HandshakesTold
<1>. QED  BY <1>3, <1>4 DEF HandshakesTold

\* The deadlines are natural numbers.
LEMMA DeadlineTypes ==
    ASSUME QueueInv
    PROVE  /\ \A e \in Entries(queue) : e.prio \in Nat
           /\ \A f \in frags : f + AssemblyTimeout \in Nat
           /\ Expiries \subseteq Nat
<1>1. PICK d : d = queue.data
  OBVIOUS
<1>2. d \in Seq(HeapEntry) /\ Len(d) \in Nat
  BY <1>1, Fixed, HeapParts DEF HeapOK
<1>3. \A i \in 1 .. Len(d) : d[i] \in HeapEntry
  BY <1>2
<1>4. \A e \in Entries(queue) : e.prio \in Nat
  BY <1>1, <1>3 DEF Entries, Positions, HeapEntry
<1>5. \A f \in frags : f + AssemblyTimeout \in Nat
  BY Fixed, Settings
<1>6. Expiries \subseteq Nat
  BY Fixed DEF Expiries, Pending
<1>. QED  BY <1>4, <1>5, <1>6

\* A step that keeps the deadlines that were told: what is new is told.
LEMMA StepTold ==
    ASSUME QueueInv, QueueInv', AllTold, NEW t \in Threads, Lowered(t),
           \A d \in Nat : /\ Brings(thread[t], d) => Brings(thread'[t], d) \/ next_service_time' <= d
                          /\ SeesFragments(thread[t], d) => SeesFragments(thread'[t], d) \/ next_service_time' <= d
                          /\ SeesHandshakes(thread[t], d) => SeesHandshakes(thread'[t], d) \/ next_service_time' <= d,
           \A e \in Entries(queue') : e \in Entries(queue) \/ Told(e.prio)',
           \A f \in frags' : f \in frags \/ FragmentsTold(f + AssemblyTimeout)',
           \A d \in Expiries' : d \in Expiries \/ HandshakesTold(d)'
    PROVE  AllTold'
<1>1. ASSUME NEW e \in Entries(queue) PROVE Told(e.prio)'
  <2>1. PICK d \in Nat : d = e.prio
    BY DeadlineTypes
  <2>2. Told(d)
    BY <2>1 DEF AllTold
  <2>3. Told(d)'
    BY <2>2, StillTold
  <2>. QED  BY <2>1, <2>3 DEF Told
<1>2. ASSUME NEW f \in frags PROVE FragmentsTold(f + AssemblyTimeout)'
  <2>1. PICK d \in Nat : d = f + AssemblyTimeout
    BY DeadlineTypes
  <2>2. FragmentsTold(d)
    BY <2>1 DEF AllTold
  <2>3. FragmentsTold(d)'
    BY <2>2, FragmentsStillTold
  <2>. QED  BY <2>1, <2>3 DEF FragmentsTold
<1>3. ASSUME NEW d \in Expiries PROVE HandshakesTold(d)'
  <2>1. d \in Nat
    BY DeadlineTypes
  <2>2. HandshakesTold(d)
    BY DEF AllTold
  <2>. QED  BY <2>1, <2>2, HandshakesStillTold
<1>. QED  BY <1>1, <1>2, <1>3 DEF AllTold

\* A step of a thread that had nothing to tell.
LEMMA QuietTold ==
    ASSUME QueueInv, QueueInv', AllTold, NEW t \in Threads, Lowered(t),
           thread[t].at \notin {"Reduce", "Fragments", "Handshakes", "Scan", "Minimum"},
           \A e \in Entries(queue') : e \in Entries(queue) \/ Told(e.prio)',
           \A f \in frags' : f \in frags \/ FragmentsTold(f + AssemblyTimeout)',
           \A d \in Expiries' : d \in Expiries \/ HandshakesTold(d)'
    PROVE  AllTold'
<1>1. \A d \in Nat : ~Brings(thread[t], d) /\ ~SeesFragments(thread[t], d) /\ ~SeesHandshakes(thread[t], d)
  BY DEF Brings, SeesFragments, SeesHandshakes
<1>. QED  BY <1>1, StepTold

\* Where a thread is that goes somewhere.
LEMMA Went ==
    ASSUME QueueInv, NEW t \in Threads, NEW x, Goto(t, x)
    PROVE  thread'[t] = x
  BY Fixed DEF Goto

\* What a step leaves out of the queue, or changes the time of.
LEMMA RemovedEntries ==
    ASSUME QueueInv, NEW s \in Sessions, Opened(s), queue' = RemoveIndex(queue, sess[s].queue_idx)
    PROVE  \A e \in Entries(queue') : e \in Entries(queue)
<1>1. PICK h, g, idx : h = queue /\ g = queue' /\ idx = sess[s].queue_idx
  OBVIOUS
<1>2. HeapOK(h) /\ IsIndex(idx) /\ g = RemoveIndex(h, idx)
  BY <1>1, Fixed, OwnIndex
<1>3. Entries(g) \subseteq Entries(h)
  BY <1>2, RemoveIndexOK
<1>. QED  BY <1>1, <1>3

LEMMA ChangedEntries ==
    ASSUME QueueInv, NEW s \in Sessions, Opened(s), NEW prio \in Nat, queue' = ChangePriority(queue, sess[s].queue_idx, prio)
    PROVE  \A e \in Entries(queue') : e \in Entries(queue) \/ e.prio = prio
<1>1. PICK h, g, idx : h = queue /\ g = queue' /\ idx = sess[s].queue_idx
  OBVIOUS
<1>2. HeapOK(h) /\ IsIndex(idx) /\ g = ChangePriority(h, idx, prio)
  BY <1>1, Fixed, OwnIndex
<1>3. \A e \in Entries(g) : e \in Entries(h) \/ e.prio = prio
  BY <1>2, ChangePriorityOK
<1>. QED  BY <1>1, <1>3

LEMMA PushedEntries ==
    ASSUME QueueInv, NEW s \in Sessions, NEW prio \in Nat,
           queue' = PushReserved(ReserveIndex(queue), ReservedIndex(queue), s, prio)
    PROVE  \A e \in Entries(queue') : e \in Entries(queue) \/ e.prio = prio
<1>1. PICK h, g, idx : h = queue /\ g = queue' /\ idx = ReservedIndex(queue)
  OBVIOUS
<1>2. HeapOK(h) /\ idx = ReservedIndex(h) /\ g = PushReserved(ReserveIndex(h), idx, s, prio)
  BY <1>1, Fixed
<1>3. \A e \in Entries(g) : e \in Entries(h) \/ e.prio = prio
  BY <1>2, PushOK
<1>. QED  BY <1>1, <1>3

\* The first of an ordered heap is due first.
LEMMA HeadLeast ==
    ASSUME NEW n \in Nat, NEW p \in [1 .. n -> Nat], Sorted(p, n), NEW j \in 1 .. n
    PROVE  p[1] <= p[j]
<1>. DEFINE T == {k \in 1 .. n : ~(p[1] <= p[k])}
<1>. SUFFICES ASSUME T # {} PROVE FALSE
  OBVIOUS
<1>1. PICK x \in T : \A y \in T : x <= y
  <2>1. T \subseteq Nat
    OBVIOUS
  <2>. HIDE DEF T
  <2>. QED  BY <2>1, LeastOf
<1>2. x \in 1 .. n /\ p[x] \in Nat /\ p[1] \in Nat /\ ~(p[1] <= p[x])
  OBVIOUS
<1>3. x \in 2 .. n
  BY <1>2
<1>4. PICK o : o = Parent(x)
  OBVIOUS
<1>5. o \in 1 .. n /\ o < x
  BY <1>3, <1>4, Half
<1>6. p[o] <= p[x] /\ p[o] \in Nat
  BY <1>3, <1>4, <1>5 DEF Sorted
<1>7. ~(p[1] <= p[o])
  BY <1>2, <1>6
<1>8. o \in T
  BY <1>5, <1>7
<1>9. x <= o
  BY <1>1, <1>8
<1>. QED  BY <1>2, <1>5, <1>9

LEMMA HeadFirst ==
    ASSUME QueueInv, QueueOrdered
    PROVE  \A e \in Entries(queue) : queue.data # <<>> /\ Head(queue.data).prio <= e.prio
<1>1. PICK h, n, p : h = queue /\ n = Len(h.data) /\ p = Prios(h)
  OBVIOUS
<1>2. HeapOK(h) /\ h.data \in Seq(HeapEntry)
  BY <1>1, Fixed, HeapParts DEF HeapOK
<1>3. n \in Nat /\ p \in [1 .. n -> Nat] /\ \A j \in 1 .. n : p[j] = h.data[j].prio
  BY <1>1, <1>2, PriosOf DEF Positions
<1>4. Sorted(p, n)
  BY <1>1, <1>2, OrderedIs DEF QueueOrdered, Ordered
<1>5. ASSUME NEW j \in 1 .. n PROVE h.data # <<>> /\ Head(h.data).prio <= h.data[j].prio
  <2>1. p[1] <= p[j]
    BY <1>3, <1>4, HeadLeast
  <2>2. 1 \in 1 .. n
    BY <1>3
  <2>3. Head(h.data) = h.data[1] /\ h.data # <<>>
    BY <1>1, <1>2, <2>2
  <2>. QED  BY <1>3, <2>1, <2>2, <2>3
<1>. QED  BY <1>1, <1>5 DEF Entries, Positions

LEMMA OpenTold ==
    ASSUME QueueInv, QueueInv', AllTold, NEW t \in Threads, NEW s \in Sessions, Open(t, s) PROVE AllTold'
<1>1. PICK w, z, idx : /\ w = Waiting(sess[s], clock) /\ z = [w EXCEPT !.alive = TRUE, !.queue_idx = idx]
                       /\ idx = ReservedIndex(queue)
  OBVIOUS
<1>2. w \in SessionState
  BY <1>1, Fixed, StatesSet
<1>3. PICK prio : prio = z.resend_timer
  OBVIOUS
<1>4. prio \in Nat
  BY <1>1, <1>2, <1>3 DEF SessionState
<1>5. /\ queue' = PushReserved(ReserveIndex(queue), ReservedIndex(queue), s, prio)
      /\ next_service_time' = Earlier(next_service_time, prio)
  BY <1>1, <1>3 DEF Open
<1>6. \A e \in Entries(queue') : e \in Entries(queue) \/ e.prio = prio
  BY <1>4, <1>5, PushedEntries
<1>7. next_service_time' <= prio /\ next_service_time' <= next_service_time
  BY <1>4, <1>5, Fixed DEF Earlier
<1>8. \A e \in Entries(queue') : e \in Entries(queue) \/ Told(e.prio)'
  BY <1>6, <1>7 DEF Told
<1>9. /\ thread[t].at = "Idle" /\ UNCHANGED thread /\ frags' = frags /\ Expiries' = Expiries
  BY Fixed DEF Open, Expiries
<1>10. Lowered(t)
  BY <1>7, <1>9 DEF Lowered
<1>. QED  BY <1>8, <1>9, <1>10, QuietTold

LEMMA RequeueTold == ASSUME QueueInv, QueueInv', AllTold, NEW t \in Threads, Requeue(t) PROVE AllTold'
<1>1. thread[t] \in [at : {"Queue", "Reduce"}, session : Sessions, time : Nat] /\ Opened(thread[t].session)
  BY Fixed, Tasks DEF Requeue, QueueInv, Working
<1>2. PICK s, time, x : s = thread[t].session /\ time = thread[t].time /\ x = [thread[t] EXCEPT !.at = "Reduce"]
  OBVIOUS
<1>3. s \in Sessions /\ Opened(s) /\ time \in Nat /\ x.at = "Reduce" /\ x.time = time
  BY <1>1, <1>2
<1>4. queue' = ChangePriority(queue, sess[s].queue_idx, time)
  BY <1>2 DEF Requeue
<1>5. \A e \in Entries(queue') : e \in Entries(queue) \/ e.prio = time
  BY <1>3, <1>4, ChangedEntries
<1>6. Goto(t, x) /\ next_service_time' = next_service_time /\ next_service_time \in Nat
  BY <1>2, Fixed DEF Requeue
<1>7. thread'[t] = x
  BY <1>6, Went
<1>8. Told(time)'
  BY <1>3, <1>7 DEF Told, Brings
<1>9. \A e \in Entries(queue') : e \in Entries(queue) \/ Told(e.prio)'
  BY <1>5, <1>8 DEF Told
<1>10. thread[t].at = "Queue" /\ frags' = frags /\ Expiries' = Expiries
  BY DEF Requeue, Expiries
<1>11. Lowered(t)
  BY <1>6 DEF Lowered
<1>. QED  BY <1>9, <1>10, <1>11, QuietTold

LEMMA ServiceSessionTold == ASSUME QueueInv, QueueInv', AllTold, NEW t \in Threads, ServiceSession(t) PROVE AllTold'
<1>1. PICK s, first : first = Head(queue.data) /\ s = first.item
  OBVIOUS
<1>2. /\ queue.data # <<>> /\ s \in Sessions /\ Opened(s)
      /\ UNCHANGED <<next_service_time, cache, has_pending, frags>>
      /\ \/ /\ UNCHANGED queue \/ queue' = RemoveIndex(queue, sess[s].queue_idx)
            /\ Goto(t, Idle)
         \/ \E next \in Nat : /\ first.prio <= next
                              /\ queue' = ChangePriority(queue, sess[s].queue_idx, next)
                              /\ Goto(t, [thread[t] EXCEPT !.time = Earlier(@, next)])
  BY <1>1, ServiceSessionQueues
<1>3. /\ thread[t].at = "Loop" /\ frags' = frags /\ Expiries' = Expiries /\ next_service_time' = next_service_time
      /\ next_service_time \in Nat
  <2>1. thread[t].at = "Loop"
    BY DEF ServiceSession, HeadIsDue
  <2>2. UNCHANGED <<next_service_time, cache, frags>>
    BY DEF ServiceSession
  <2>. QED  BY <2>1, <2>2, Fixed DEF Expiries
<1>4. Lowered(t)
  <2>1. \E x : Goto(t, x)
    BY <1>2
  <2>. QED  BY <1>3, <2>1 DEF Lowered
<1>5. first \in Entries(queue)
  <2>1. PICK d : d = queue.data
    OBVIOUS
  <2>2. d \in Seq(HeapEntry) /\ d # <<>>
    BY <1>2, <2>1, Fixed, HeapParts DEF HeapOK
  <2>3. Head(d) = d[1] /\ 1 \in 1 .. Len(d)
    BY <2>2
  <2>. QED  BY <1>1, <2>1, <2>3 DEF Entries, Positions
<1>6. \A e \in Entries(queue') : e \in Entries(queue) \/ Told(e.prio)'
  <2>1. CASE UNCHANGED queue
    BY <2>1
  <2>2. CASE queue' = RemoveIndex(queue, sess[s].queue_idx)
    BY <1>2, <2>2, RemovedEntries
  <2>3. ASSUME NEW next \in Nat, first.prio <= next, queue' = ChangePriority(queue, sess[s].queue_idx, next)
        PROVE  \A e \in Entries(queue') : e \in Entries(queue) \/ Told(e.prio)'
    <3>1. \A e \in Entries(queue') : e \in Entries(queue) \/ e.prio = next
      BY <1>2, <2>3, ChangedEntries
    <3>2. PICK d \in Nat : d = first.prio
      BY <1>5, DeadlineTypes
    <3>3. Told(d)
      BY <1>5, <3>2 DEF AllTold
    <3>4. ~Brings(thread[t], d)
      BY <1>3 DEF Brings
    <3>5. Told(d)'
      BY <1>4, <3>3, <3>4, StillTold
    <3>6. \A u \in Threads : Brings(thread'[u], d) => Brings(thread'[u], next)
      <4>1. thread' \in [Threads -> Task]
        BY DEF QueueInv, TypeOK
      <4>. QED  BY <2>3, <3>2, <4>1, Tasks DEF Brings
    <3>7. next_service_time' <= d => next_service_time' <= next
      BY <1>3, <2>3, <3>2
    <3>8. Told(next)'
      BY <3>5, <3>6, <3>7 DEF Told
    <3>. QED  BY <3>1, <3>8 DEF Told
  <2>. QED  BY <1>2, <2>1, <2>2, <2>3
<1>. QED  BY <1>3, <1>4, <1>6, QuietTold

LEMMA LeavesTold ==
    ASSUME QueueInv, QueueInv', AllTold, NEW t \in Threads,
           ServiceDropped(t) \/ Drop(t) \/ \E s \in Sessions : Expire(t, s)
    PROVE  AllTold'
<1>1. PICK s \in Sessions : Opened(s) /\ (UNCHANGED queue \/ queue' = RemoveIndex(queue, sess[s].queue_idx))
  <2>1. CASE ServiceDropped(t)
    <3>1. PICK s : s = Head(queue.data).item
      OBVIOUS
    <3>2. s \in Sessions /\ Opened(s) /\ PeekIndex(queue) = sess[s].queue_idx
      BY <2>1, <3>1, HeadIs DEF ServiceDropped, HeadIsDue
    <3>. QED  BY <2>1, <3>2 DEF ServiceDropped
  <2>2. CASE Drop(t)
    <3>1. PICK s : s = thread[t].session
      OBVIOUS
    <3>2. s \in Sessions /\ Opened(s)
      BY <2>2, <3>1, Fixed, Tasks DEF Drop, QueueInv, Working
    <3>. QED  BY <2>2, <3>1, <3>2 DEF Drop
  <2>3. ASSUME NEW s \in Sessions, Expire(t, s)
        PROVE  Opened(s) /\ queue' = RemoveIndex(queue, sess[s].queue_idx)
    BY <2>3 DEF Expire, Live, Opened
  <2>. QED  BY <2>1, <2>2, <2>3
<1>2. \A e \in Entries(queue') : e \in Entries(queue)
  BY <1>1, RemovedEntries
<1>3. /\ thread[t].at \in {"Loop", "Drop", "Idle"} /\ (UNCHANGED thread \/ \E x : Goto(t, x))
      /\ UNCHANGED <<frags, cache, next_service_time>>
  BY DEF ServiceDropped, HeadIsDue, Drop, Expire, Idle
<1>4. Lowered(t) /\ frags' = frags /\ Expiries' = Expiries
  BY <1>3, Fixed DEF Lowered, Expiries
<1>. QED  BY <1>2, <1>3, <1>4, QuietTold

\* Steps that add no deadline.
LEMMA OthersTold ==
    ASSUME QueueInv, QueueInv', AllTold, NEW t \in Threads,
           \/ StartService(t) \/ TriggerRekey(t)
           \/ \E s \in Sessions : EnterWaiting(t, s) \/ EnterS2(t, s) \/ WantRekey(t, s) \/ DropLast(t, s)
    PROVE  AllTold'
<1>1. /\ thread[t].at \in {"Idle", "Early"} /\ (\E x : Goto(t, x)) /\ UNCHANGED <<queue, frags, cache, next_service_time>>
  <2>1. CASE StartService(t) \/ TriggerRekey(t)
    BY <2>1 DEF StartService, TriggerRekey, Idle
  <2>2. ASSUME NEW s \in Sessions, EnterWaiting(t, s) \/ EnterS2(t, s) \/ WantRekey(t, s) \/ DropLast(t, s)
        PROVE  thread[t].at = "Idle" /\ (\E x : Goto(t, x)) /\ UNCHANGED <<queue, frags, cache, next_service_time>>
    BY <2>2 DEF EnterWaiting, EnterS2, WantRekey, DropLast, Idle
  <2>. QED  BY <2>1, <2>2
<1>2. Lowered(t) /\ queue' = queue /\ frags' = frags /\ Expiries' = Expiries
  BY <1>1, Fixed DEF Lowered, Expiries
<1>. QED  BY <1>1, <1>2, QuietTold

LEMMA CompleteFragmentsTold ==
    ASSUME QueueInv, QueueInv', AllTold, NEW t \in Threads, CompleteFragments(t) PROVE AllTold'
<1>1. /\ thread[t].at = "Idle" /\ UNCHANGED <<queue, thread, cache, next_service_time>> /\ frags' \subseteq frags
  BY DEF CompleteFragments, Idle
<1>2. Lowered(t) /\ queue' = queue /\ Expiries' = Expiries
  BY <1>1, Fixed DEF Lowered, Expiries
<1>. QED  BY <1>1, <1>2, QuietTold

LEMMA RemoveHandshakeTold ==
    ASSUME QueueInv, QueueInv', AllTold, NEW t \in Threads, NEW kid \in Kids, RemoveHandshake(t, kid) PROVE AllTold'
<1>1. /\ thread[t].at = "Idle" /\ UNCHANGED <<queue, thread, frags, next_service_time>>
  BY DEF RemoveHandshake, Idle
<1>2. PICK i : cache' = [cache EXCEPT ![i] = Vacant]
  BY DEF RemoveHandshake
<1>3. \A d \in Expiries' : d \in Expiries
  BY <1>2, Fixed DEF Expiries, Vacant
<1>4. Lowered(t) /\ queue' = queue /\ frags' = frags
  BY <1>1, Fixed DEF Lowered
<1>. QED  BY <1>1, <1>3, <1>4, QuietTold

\* What a thread adds to a cache it goes on to tell of.
LEMMA AddFragmentTold == ASSUME QueueInv, QueueInv', AllTold, NEW t \in Threads, AddFragment(t) PROVE AllTold'
<1>1. PICK x, time : time = clock + AssemblyTimeout /\ x = [at |-> "Reduce", time |-> time]
  OBVIOUS
<1>2. /\ thread[t].at = "Idle" /\ UNCHANGED <<queue, cache, next_service_time>> /\ Goto(t, x)
      /\ frags' = frags \cup {clock}
  BY <1>1 DEF AddFragment, Idle
<1>3. thread'[t] = x /\ time \in Nat
  BY <1>1, <1>2, Went, Fixed, Settings
<1>4. SeesFragments(thread'[t], time)
  BY <1>1, <1>3 DEF SeesFragments, Brings
<1>5. \A f \in frags' : f \in frags \/ FragmentsTold(f + AssemblyTimeout)'
  BY <1>1, <1>2, <1>4 DEF FragmentsTold
<1>6. Lowered(t) /\ queue' = queue /\ Expiries' = Expiries
  BY <1>2, Fixed DEF Lowered, Expiries
<1>. QED  BY <1>2, <1>5, <1>6, QuietTold

LEMMA InsertHandshakeTold ==
    ASSUME QueueInv, QueueInv', AllTold, NEW t \in Threads, NEW kid \in Kids, InsertHandshake(t, kid) PROVE AllTold'
<1>1. PICK x, time : time = clock + AssemblyTimeout /\ x = [at |-> "Reduce", time |-> time]
  OBVIOUS
<1>2. /\ thread[t].at = "Idle" /\ UNCHANGED <<queue, frags, next_service_time>> /\ Goto(t, x)
  BY <1>1 DEF InsertHandshake, Idle
<1>3. PICK i : cache' = [cache EXCEPT ![i] = [local_id |-> kid, expiry |-> time]]
  BY <1>1 DEF InsertHandshake
<1>4. \A d \in Expiries' : d \in Expiries \/ d = time
  BY <1>3, Fixed DEF Expiries
<1>5. thread'[t] = x /\ time \in Nat
  BY <1>1, <1>2, Went, Fixed, Settings
<1>6. SeesHandshakes(thread'[t], time)
  BY <1>1, <1>5 DEF SeesHandshakes, Brings
<1>7. \A d \in Expiries' : d \in Expiries \/ HandshakesTold(d)'
  BY <1>4, <1>6 DEF HandshakesTold
<1>8. Lowered(t) /\ queue' = queue /\ frags' = frags
  BY <1>2, Fixed DEF Lowered
<1>. QED  BY <1>2, <1>7, <1>8, QuietTold

\* A thread that lowers next_service_time has told what it was to tell.
LEMMA LowersTold ==
    ASSUME QueueInv, QueueInv', AllTold, NEW t \in Threads, Reduce(t) \/ EndService(t) PROVE AllTold'
<1>1. /\ thread[t].at \in {"Reduce", "Minimum"} /\ Goto(t, Idle) /\ UNCHANGED <<queue, frags, cache>>
      /\ next_service_time' = Earlier(next_service_time, thread[t].time)
  BY DEF Reduce, EndService, LowerServiceTime
<1>2. thread[t].time \in Nat /\ next_service_time \in Nat
  BY <1>1, Fixed, Tasks DEF Serving
<1>3. next_service_time' <= thread[t].time /\ next_service_time' <= next_service_time /\ next_service_time' \in Nat
  BY <1>1, <1>2 DEF Earlier
<1>4. ASSUME NEW d \in Nat, thread[t].time <= d PROVE next_service_time' <= d
  BY <1>2, <1>3, <1>4
<1>5. \A d \in Nat : SeesFragments(thread[t], d) \/ SeesHandshakes(thread[t], d) \/ Brings(thread[t], d) => thread[t].time <= d
  BY <1>1 DEF SeesFragments, SeesHandshakes, Brings
<1>6. Lowered(t) /\ queue' = queue /\ frags' = frags /\ Expiries' = Expiries
  BY <1>1, <1>3 DEF Lowered, Expiries
<1>. QED  BY <1>4, <1>5, <1>6, StepTold

\* Where next_service_time is raised: the sessions are told by it, the rest is looked at next.
LEMMA StoreServiceTimeTold ==
    ASSUME QueueInv, QueueInv', AllTold, QueueOrdered, NEW t \in Threads, StoreServiceTime(t) PROVE AllTold'
<1>1. PICK x : x = [thread[t] EXCEPT !.at = "Fragments"]
  OBVIOUS
<1>2. thread[t] \in Serving /\ Goto(t, x)
  BY <1>1, Fixed, Tasks DEF StoreServiceTime
<1>3. x.at = "Fragments" /\ thread'[t] = x /\ thread[t].time \in Nat
  BY <1>1, <1>2, Went DEF Serving
<1>4. \A d : FragmentsTold(d)' /\ HandshakesTold(d)'
  BY <1>3 DEF FragmentsTold, HandshakesTold, SeesFragments, SeesHandshakes
<1>5. ASSUME NEW e \in Entries(queue) PROVE Told(e.prio)'
  <2>1. PICK first, d : first = Head(queue.data).prio /\ d = e.prio
    OBVIOUS
  <2>2. queue.data # <<>> /\ first <= d /\ d \in Nat
    BY <2>1, HeadFirst, DeadlineTypes
  <2>3. first \in Nat
    <3>1. PICK q : q = queue.data
      OBVIOUS
    <3>2. q \in Seq(HeapEntry) /\ q # <<>>
      BY <2>2, <3>1, Fixed, HeapParts DEF HeapOK
    <3>3. Head(q) \in HeapEntry
      BY <3>2
    <3>. QED  BY <2>1, <3>1, <3>3 DEF HeapEntry
  <2>4. next_service_time' = Earlier(thread[t].time, first)
    BY <2>1, <2>2 DEF StoreServiceTime
  <2>5. next_service_time' <= d
    BY <1>3, <2>2, <2>3, <2>4 DEF Earlier
  <2>. QED  BY <2>1, <2>5 DEF Told
<1>6. UNCHANGED queue
  BY DEF StoreServiceTime
<1>. QED  BY <1>4, <1>5, <1>6 DEF AllTold

\* The earliest of some times is not after any of them.
LEMMA EarliestIsFirst ==
    ASSUME NEW T, T \subseteq Nat, NEW y \in T
    PROVE  Min(T) <= y
<1>1. \E x \in T : \A z \in T : x <= z
  BY LeastOf
<1>. QED  BY <1>1 DEF Min

\* The thread has the time of the earliest fragment from here on.
LEMMA ServiceFragmentsTold == ASSUME QueueInv, QueueInv', AllTold, NEW t \in Threads, ServiceFragments(t) PROVE AllTold'
<1>1. PICK T, time, x : /\ T = frags' /\ time = (IF T = {} THEN MAX ELSE Min(T) + AssemblyTimeout)
                        /\ x = [thread[t] EXCEPT !.at = "Handshakes", !.time = time]
  OBVIOUS
<1>2. thread[t] \in Serving /\ thread[t].at = "Fragments" /\ Goto(t, x)
  BY <1>1, Fixed, Tasks DEF ServiceFragments
<1>3. x.at = "Handshakes" /\ x.time = time /\ thread'[t] = x
  BY <1>1, <1>2, Went DEF Serving
<1>4. ASSUME NEW f \in frags' PROVE FragmentsTold(f + AssemblyTimeout)'
  <2>1. T \subseteq Nat /\ T # {} /\ f \in T
    BY <1>1 DEF QueueInv, TypeOK
  <2>2. Min(T) <= f /\ Min(T) \in Nat /\ f \in Nat /\ AssemblyTimeout \in Nat
    BY <2>1, EarliestIsFirst, Earliest, Settings
  <2>3. PICK d : d = f + AssemblyTimeout
    OBVIOUS
  <2>4. time <= d
    BY <1>1, <2>1, <2>2, <2>3
  <2>5. SeesFragments(thread'[t], d)
    BY <1>3, <2>4 DEF SeesFragments
  <2>. QED  BY <2>3, <2>5 DEF FragmentsTold
<1>5. UNCHANGED <<queue, cache, next_service_time>>
  BY DEF ServiceFragments
<1>6. Lowered(t) /\ queue' = queue /\ Expiries' = Expiries
  BY <1>2, <1>5, Fixed DEF Lowered, Expiries
<1>7. \A d \in Nat : ~Brings(thread[t], d) /\ SeesHandshakes(thread'[t], d)
  BY <1>2, <1>3 DEF Brings, SeesHandshakes
<1>8. ASSUME NEW e \in Entries(queue) PROVE Told(e.prio)'
  <2>1. PICK d \in Nat : d = e.prio
    BY DeadlineTypes
  <2>2. Told(d)
    BY <2>1 DEF AllTold
  <2>3. Told(d)'
    BY <1>6, <1>7, <2>2, StillTold
  <2>. QED  BY <2>1, <2>3 DEF Told
<1>9. ASSUME NEW d \in Expiries PROVE HandshakesTold(d)'
  BY <1>7, DeadlineTypes DEF HandshakesTold
<1>. QED  BY <1>4, <1>6, <1>8, <1>9 DEF AllTold

\* The thread does not look at the handshakes when none is pending: there are none, or another
\* thread does.
LEMMA ServiceHandshakesTold ==
    ASSUME QueueInv, QueueInv', HandshakesPending, AllTold, NEW t \in Threads, ServiceHandshakes(t) PROVE AllTold'
<1>1. PICK at, x : at = (IF has_pending THEN "Scan" ELSE "Minimum") /\ x = [thread[t] EXCEPT !.at = at]
  OBVIOUS
<1>2. thread[t] \in Serving /\ thread[t].at = "Handshakes" /\ Goto(t, x)
  BY <1>1, Fixed, Tasks DEF ServiceHandshakes
<1>3. x.at = at /\ x.time = thread[t].time /\ thread'[t] = x
  BY <1>1, <1>2, Went DEF Serving
<1>4. at \in {"Scan", "Minimum"}
  BY <1>1
<1>5. UNCHANGED <<queue, frags, cache, next_service_time>>
  BY DEF ServiceHandshakes
<1>6. Lowered(t) /\ queue' = queue /\ frags' = frags /\ Expiries' = Expiries
  BY <1>2, <1>5, Fixed DEF Lowered, Expiries
<1>7. \A d \in Nat : ~Brings(thread[t], d) /\ (SeesFragments(thread[t], d) => SeesFragments(thread'[t], d))
  BY <1>2, <1>3, <1>4 DEF Brings, SeesFragments
<1>8. ASSUME NEW d \in Expiries PROVE HandshakesTold(d)'
  <2>1. PICK u \in Threads : thread'[u].at = "Scan"
    <3>1. CASE has_pending
      BY <1>1, <1>3, <3>1
    <3>2. CASE ~has_pending
      <4>1. PICK u \in Threads : thread[u].at = "Scan"
        BY <3>2 DEF HandshakesPending, Expiries
      <4>2. thread'[u] = thread[u]
        BY <1>2, <4>1, Fixed DEF Goto
      <4>. QED  BY <4>1, <4>2
    <3>. QED  BY <3>1, <3>2
  <2>. QED  BY <2>1 DEF HandshakesTold, SeesHandshakes
<1>9. ASSUME NEW e \in Entries(queue) PROVE Told(e.prio)'
  <2>1. PICK d \in Nat : d = e.prio
    BY DeadlineTypes
  <2>2. Told(d)
    BY <2>1 DEF AllTold
  <2>3. Told(d)'
    BY <1>6, <1>7, <2>2, StillTold
  <2>. QED  BY <2>1, <2>3 DEF Told
<1>10. ASSUME NEW f \in frags PROVE FragmentsTold(f + AssemblyTimeout)'
  <2>1. PICK d \in Nat : d = f + AssemblyTimeout
    BY DeadlineTypes
  <2>2. FragmentsTold(d)
    BY <2>1 DEF AllTold
  <2>3. FragmentsTold(d)'
    BY <1>6, <1>7, <2>2, FragmentsStillTold
  <2>. QED  BY <2>1, <2>3 DEF FragmentsTold
<1>. QED  BY <1>6, <1>8, <1>9, <1>10 DEF AllTold

\* The thread has the time of the earliest handshake too from here on.
LEMMA ScanHandshakesTold == ASSUME QueueInv, QueueInv', AllTold, NEW t \in Threads, ScanHandshakes(t) PROVE AllTold'
<1>1. PICK left : left = {i \in 1 .. CacheSize : cache[i].local_id # None /\ cache[i].expiry > thread[t].now}
  OBVIOUS
<1>2. PICK T, x : /\ T = {thread[t].time} \cup {cache[i].expiry : i \in left}
                  /\ x = [thread[t] EXCEPT !.at = "Minimum", !.time = Min(T)]
  OBVIOUS
<1>3. thread[t] \in Serving /\ thread[t].at = "Scan" /\ Goto(t, x)
  BY <1>1, <1>2, Fixed, Tasks DEF ScanHandshakes
<1>4. T \subseteq Nat /\ T # {}
  BY <1>1, <1>2, <1>3, Fixed DEF Serving, Pending
<1>5. Min(T) \in Nat /\ \A y \in T : Min(T) <= y
  BY <1>4, Earliest, EarliestIsFirst
<1>6. PICK time : time = Min(T)
  OBVIOUS
<1>7. x.at = "Minimum" /\ x.time = time /\ thread'[t] = x
  BY <1>2, <1>3, <1>6, Went DEF Serving
<1>8. thread[t].time \in T /\ thread[t].time \in Nat
  BY <1>2, <1>4
<1>9. time <= thread[t].time /\ time \in Nat
  BY <1>5, <1>6, <1>8
<1>10. ASSUME NEW d \in Expiries' PROVE HandshakesTold(d)'
  <2>1. cache' = [i \in 1 .. CacheSize |-> IF i \in left THEN cache[i] ELSE Vacant]
    BY <1>1 DEF ScanHandshakes
  <2>2. d \in T
    BY <1>2, <2>1 DEF Expiries, Vacant
  <2>3. time <= d
    BY <1>5, <1>6, <2>2
  <2>. QED  BY <1>7, <2>3 DEF HandshakesTold, SeesHandshakes
<1>11. UNCHANGED <<queue, frags, next_service_time>>
  BY DEF ScanHandshakes
<1>12. Lowered(t) /\ queue' = queue /\ frags' = frags
  BY <1>3, <1>11, Fixed DEF Lowered
<1>13. ASSUME NEW d \in Nat PROVE ~Brings(thread[t], d) /\ (SeesFragments(thread[t], d) => SeesFragments(thread'[t], d))
  <2>1. thread[t].time <= d => time <= d
    BY <1>8, <1>9
  <2>. QED  BY <1>3, <1>7, <2>1 DEF Brings, SeesFragments
<1>14. ASSUME NEW e \in Entries(queue) PROVE Told(e.prio)'
  <2>1. PICK d \in Nat : d = e.prio
    BY DeadlineTypes
  <2>2. Told(d)
    BY <2>1 DEF AllTold
  <2>3. Told(d)'
    BY <1>12, <1>13, <2>2, StillTold
  <2>. QED  BY <2>1, <2>3 DEF Told
<1>15. ASSUME NEW f \in frags PROVE FragmentsTold(f + AssemblyTimeout)'
  <2>1. PICK d \in Nat : d = f + AssemblyTimeout
    BY DeadlineTypes
  <2>2. FragmentsTold(d)
    BY <2>1 DEF AllTold
  <2>3. FragmentsTold(d)'
    BY <1>12, <1>13, <2>2, FragmentsStillTold
  <2>. QED  BY <2>1, <2>3 DEF FragmentsTold
<1>. QED  BY <1>10, <1>12, <1>14, <1>15 DEF AllTold

LEMMA AllToldOK == ASSUME QueueInv, QueueInv', QueueOrdered, HandshakesPending, AllTold, [Next]_vars PROVE AllTold'
<1>1. CASE UNCHANGED vars
  BY <1>1 DEF AllTold, Told, FragmentsTold, HandshakesTold, Expiries, vars
<1>2. CASE Tick
  BY <1>2 DEF Tick, AllTold, Told, FragmentsTold, HandshakesTold, Expiries
<1>3. ASSUME NEW t \in Threads, Service(t) PROVE AllTold'
  BY <1>3, OthersTold, LeavesTold, ServiceSessionTold, StoreServiceTimeTold, ServiceFragmentsTold,
     ServiceHandshakesTold, ScanHandshakesTold, LowersTold DEF Service
<1>4. ASSUME NEW t \in Threads, \/ TriggerRekey(t) \/ Requeue(t) \/ Reduce(t) \/ Drop(t) \/ AddFragment(t)
                                \/ CompleteFragments(t)
      PROVE  AllTold'
  BY <1>4, OthersTold, RequeueTold, LowersTold, LeavesTold, AddFragmentTold, CompleteFragmentsTold
<1>5. ASSUME NEW t \in Threads, NEW kid \in Kids, InsertHandshake(t, kid) \/ RemoveHandshake(t, kid) PROVE AllTold'
  BY <1>5, InsertHandshakeTold, RemoveHandshakeTold
<1>6. ASSUME NEW t \in Threads, NEW s \in Sessions,
             \/ Open(t, s) \/ EnterWaiting(t, s) \/ EnterS2(t, s) \/ WantRekey(t, s) \/ Expire(t, s) \/ DropLast(t, s)
      PROVE  AllTold'
  BY <1>6, OpenTold, OthersTold, LeavesTold
<1>. QED  BY <1>1, <1>2, <1>3, <1>4, <1>5, <1>6 DEF Next

\* While the queue is ordered, which only the removal above can end, the application is told of every
\* deadline in time: service raises next_service_time only to what the queue allows, and
\* whatever it has not looked at by then it looks at before it returns, so that no raise hides what a
\* handler of another thread has added.
THEOREM DeadlinesKeptHolds == Spec /\ []QueueOrdered => []DeadlinesKept
<1>1. Init => AllTold
  BY DEF Init, AllTold, Entries, Positions, Expiries, New, Vacant
<1>2. QueueInv /\ QueueInv' /\ QueueOrdered /\ HandshakesPending /\ AllTold /\ [Next]_vars => AllTold'
  BY AllToldOK
<1>. QED  BY <1>1, <1>2, AllToldImplies, QueueInvariant, HandshakesPendingHolds, PTL DEF Spec

=============================================================================
