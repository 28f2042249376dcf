---------------------------- MODULE Locks_proofs ----------------------------
(***************************************************************************)
(* The documented lock order prevents deadlock, for every set of threads   *)
(* and of sessions: threads that wait for each other always include one    *)
(* that runs an operation which leaves the order.                          *)
(*                                                                         *)
(* The order gives every lock a rank.  Nested says that a program takes a  *)
(* lock only below locks of a smaller rank, and it is shown of each        *)
(* operation along its syntax, but for the three that leave the order;     *)
(* Balanced says that it releases what it takes, and is shown of all.  At  *)
(* run time, an orderly thread that holds a lock has its unlock ahead and  *)
(* takes only larger locks before it, so of orderly threads that wait for  *)
(* each other, one that wants a largest lock is not kept from it.          *)
(***************************************************************************)
EXTENDS Locks, SequenceTheorems, TLAPS

\* session_queue -> state_machine_lock -> state -> session_map.
Rank(l) ==
    IF l[1] = "session_queue" THEN 1
    ELSE IF l[1] = "state_machine_lock" THEN 2
    ELSE IF l[1] = "state" THEN 3
    ELSE 4

Modes == {"Read", "Write"}
Instrs == [op : {"Lock", "Unlock"}, lock : LockNames, mode : Modes]

\* From position i on, program p unlocks l, and until then locks only what comes after l.
Released(p, i, l, mode) ==
    \E k \in i .. Len(p) :
        /\ p[k] = Instr("Unlock", l, mode)
        /\ \A j \in i .. k - 1 : p[j].op = "Lock" => Rank(p[j].lock) > Rank(l)

\* Program p takes locks of rank r or more, in their order.
Nested(p, r) ==
    /\ p \in Seq(Instrs)
    /\ \A i \in 1 .. Len(p) : p[i].op = "Lock" =>
            Rank(p[i].lock) >= r /\ Released(p, i + 1, p[i].lock, p[i].mode)

\* From position i on, program p unlocks l.
Unlocks(p, i, l, mode) == \E k \in i .. Len(p) : p[k] = Instr("Unlock", l, mode)

\* Program p unlocks whatever it locks.
Balanced(p) ==
    /\ p \in Seq(Instrs)
    /\ \A i \in 1 .. Len(p) : p[i].op = "Lock" => Unlocks(p, i + 1, p[i].lock, p[i].mode)

-----------------------------------------------------------------------------
(* The operations *)

LEMMA Ranks ==
    /\ \A l : Rank(l) \in 1 .. 4
    /\ Rank(Queue) = 1 /\ Rank(Map) = 4
    /\ \A s : Rank(StateMachine(s)) = 2 /\ Rank(State(s)) = 3
  BY DEF Rank, Queue, Map, StateMachine, State

\* What the operations lock are locks.
LEMMA Names ==
    /\ Queue \in LockNames /\ Map \in LockNames
    /\ \A s \in Sessions : StateMachine(s) \in LockNames /\ State(s) \in LockNames
  BY DEF LockNames

\* An instruction has the fields it is made of.
LEMMA InstrFields ==
    ASSUME NEW op \in {"Lock", "Unlock"}, NEW l \in LockNames, NEW mode \in Modes
    PROVE  /\ Instr(op, l, mode) \in Instrs
           /\ Instr(op, l, mode).op = op
           /\ Instr(op, l, mode).lock = l
           /\ Instr(op, l, mode).mode = mode
  BY DEF Instr, Instrs

\* A program that has ended takes no lock.
LEMMA NestedEmpty == \A r : Nested(<<>>, r)
  BY EmptySeq DEF Nested

\* What takes no lock below rank r takes none below a smaller one.
LEMMA NestedWeaken ==
    ASSUME NEW r \in Nat, NEW q \in Nat, q <= r, NEW p, Nested(p, r)
    PROVE  Nested(p, q)
<1>1. \A l : Rank(l) \in Nat
  BY Ranks
<1>. QED  BY <1>1 DEF Nested

\* One program after the other.
LEMMA NestedConcat ==
    ASSUME NEW r \in Nat, NEW p, NEW q, Nested(p, r), Nested(q, r)
    PROVE  Nested(p \o q, r)
<1>1. p \in Seq(Instrs) /\ q \in Seq(Instrs) /\ Len(p) \in Nat /\ Len(q) \in Nat
  BY LenProperties DEF Nested
<1>2. PICK w : w = p \o q
  OBVIOUS
<1>3. /\ w \in Seq(Instrs) /\ Len(w) = Len(p) + Len(q)
      /\ \A i \in 1 .. Len(p) : w[i] = p[i]
      /\ \A i \in 1 .. Len(q) : w[Len(p) + i] = q[i]
  <2>1. /\ w \in Seq(Instrs) /\ Len(w) = Len(p) + Len(q)
        /\ \A i \in 1 .. Len(p) + Len(q) : w[i] = IF i <= Len(p) THEN p[i] ELSE q[i - Len(p)]
    BY <1>1, <1>2, ConcatProperties
  <2>2. \A i \in 1 .. Len(p) : w[i] = p[i]
    BY <1>1, <2>1
  <2>3. ASSUME NEW i \in 1 .. Len(q) PROVE w[Len(p) + i] = q[i]
    <3>1. /\ Len(p) + i \in 1 .. Len(p) + Len(q) /\ ~(Len(p) + i <= Len(p))
          /\ Len(p) + i - Len(p) = i
      BY <1>1
    <3>. QED  BY <2>1, <3>1
  <2>. QED  BY <2>1, <2>2, <2>3
<1>4. ASSUME NEW i \in 1 .. Len(p), p[i].op = "Lock"
      PROVE  Rank(w[i].lock) >= r /\ Released(w, i + 1, w[i].lock, w[i].mode)
  <2>1. Rank(p[i].lock) >= r /\ Released(p, i + 1, p[i].lock, p[i].mode)
    BY <1>4 DEF Nested
  <2>2. PICK k \in i + 1 .. Len(p) :
            /\ p[k] = Instr("Unlock", p[i].lock, p[i].mode)
            /\ \A j \in i + 1 .. k - 1 : p[j].op = "Lock" => Rank(p[j].lock) > Rank(p[i].lock)
    BY <2>1 DEF Released
  <2>3. k \in i + 1 .. Len(w) /\ k \in 1 .. Len(p) /\ \A j \in i + 1 .. k - 1 : j \in 1 .. Len(p)
    BY <1>1, <1>3
  <2>4. w[k] = p[k] /\ w[i] = p[i] /\ \A j \in i + 1 .. k - 1 : w[j] = p[j]
    BY <1>3, <2>3
  <2>. QED  BY <2>1, <2>2, <2>3, <2>4 DEF Released
<1>5. ASSUME NEW i \in 1 .. Len(q), q[i].op = "Lock", NEW n, n = Len(p) + i
      PROVE  Rank(w[n].lock) >= r /\ Released(w, n + 1, w[n].lock, w[n].mode)
  <2>1. Rank(q[i].lock) >= r /\ Released(q, i + 1, q[i].lock, q[i].mode)
    BY <1>5 DEF Nested
  <2>2. PICK k \in i + 1 .. Len(q) :
            /\ q[k] = Instr("Unlock", q[i].lock, q[i].mode)
            /\ \A j \in i + 1 .. k - 1 : q[j].op = "Lock" => Rank(q[j].lock) > Rank(q[i].lock)
    BY <2>1 DEF Released
  <2>3. /\ Len(p) + k \in n + 1 .. Len(w) /\ w[Len(p) + k] = q[k] /\ w[n] = q[i]
    BY <1>1, <1>3, <1>5
  <2>4. ASSUME NEW j \in n + 1 .. Len(p) + k - 1, w[j].op = "Lock"
        PROVE  Rank(w[j].lock) > Rank(w[n].lock)
    <3>1. j - Len(p) \in i + 1 .. k - 1 /\ j - Len(p) \in 1 .. Len(q) /\ Len(p) + (j - Len(p)) = j
      BY <1>1, <1>5
    <3>2. w[j] = q[j - Len(p)]
      BY <1>3, <3>1
    <3>. QED  BY <2>2, <2>3, <2>4, <3>1, <3>2
  <2>. QED  BY <2>1, <2>2, <2>3, <2>4 DEF Released
<1>6. ASSUME NEW i \in 1 .. Len(w), w[i].op = "Lock"
      PROVE  Rank(w[i].lock) >= r /\ Released(w, i + 1, w[i].lock, w[i].mode)
  <2>1. CASE i <= Len(p)
    BY <1>1, <1>3, <1>4, <1>6, <2>1
  <2>2. CASE i > Len(p)
    <3>1. i - Len(p) \in 1 .. Len(q) /\ i = Len(p) + (i - Len(p))
      BY <1>1, <1>3, <2>2
    <3>2. w[i] = q[i - Len(p)]
      BY <1>3, <3>1
    <3>. QED  BY <1>5, <1>6, <3>1, <3>2
  <2>. QED  BY <1>1, <2>1, <2>2
<1>. QED  BY <1>2, <1>3, <1>6 DEF Nested

\* A lock around a program that takes only larger ones.
LEMMA NestedHolding ==
    ASSUME NEW l \in LockNames, NEW mode \in Modes, NEW b, Nested(b, Rank(l) + 1)
    PROVE  Nested(Holding(l, mode, b), Rank(l))
<1>1. b \in Seq(Instrs) /\ Len(b) \in Nat
  BY LenProperties DEF Nested
<1>. DEFINE first == Instr("Lock", l, mode)
            last == Instr("Unlock", l, mode)
<1>2. /\ first \in Instrs /\ first.op = "Lock" /\ first.lock = l /\ first.mode = mode
      /\ last \in Instrs /\ last.op = "Unlock"
  BY InstrFields
<1>3. PICK w : w = Holding(l, mode, b)
  OBVIOUS
<1>4. w = (<<first>> \o b) \o <<last>> /\ last = Instr("Unlock", l, mode)
  BY <1>3 DEF Holding
<1>. HIDE DEF first, last
<1>5. /\ w \in Seq(Instrs) /\ Len(w) = Len(b) + 2
      /\ w[1] = first /\ w[Len(b) + 2] = last
      /\ \A i \in 1 .. Len(b) : w[i + 1] = b[i]
  <2>1. /\ <<first>> \in Seq(Instrs) /\ Len(<<first>>) = 1 /\ <<first>>[1] = first
        /\ <<last>> \in Seq(Instrs) /\ Len(<<last>>) = 1 /\ <<last>>[1] = last
    BY <1>2
  <2>2. PICK v : v = <<first>> \o b
    OBVIOUS
  <2>3. /\ v \in Seq(Instrs) /\ Len(v) = Len(b) + 1
        /\ \A i \in 1 .. 1 + Len(b) : v[i] = IF i <= 1 THEN <<first>>[i] ELSE b[i - 1]
    BY <1>1, <2>1, <2>2, ConcatProperties
  <2>4. /\ w \in Seq(Instrs) /\ Len(w) = Len(v) + 1
        /\ \A i \in 1 .. Len(v) + 1 : w[i] = IF i <= Len(v) THEN v[i] ELSE <<last>>[i - Len(v)]
    BY <1>4, <2>1, <2>2, <2>3, ConcatProperties
  <2>5. w[1] = first
    <3>1. 1 \in 1 .. 1 + Len(b) /\ 1 \in 1 .. Len(v) + 1 /\ 1 <= Len(v) /\ 1 <= 1
      BY <1>1, <2>3
    <3>. QED  BY <2>1, <2>3, <2>4, <3>1
  <2>6. w[Len(b) + 2] = last
    <3>1. /\ Len(b) + 2 \in 1 .. Len(v) + 1 /\ ~(Len(b) + 2 <= Len(v))
          /\ Len(b) + 2 - Len(v) = 1
      BY <1>1, <2>3
    <3>. QED  BY <2>1, <2>4, <3>1
  <2>7. ASSUME NEW i \in 1 .. Len(b) PROVE w[i + 1] = b[i]
    <3>1. i + 1 \in 1 .. Len(v) /\ i + 1 \in 1 .. Len(v) + 1 /\ ~(i + 1 <= 1) /\ i + 1 - 1 = i
      BY <1>1, <2>3
    <3>. QED  BY <2>3, <2>4, <3>1
  <2>. QED  BY <1>1, <2>3, <2>4, <2>5, <2>6, <2>7
<1>6. \A n : Rank(n) \in Nat
  BY Ranks
<1>7. \A i \in 1 .. Len(b) : b[i].op = "Lock" =>
            Rank(b[i].lock) > Rank(l) /\ Released(b, i + 1, b[i].lock, b[i].mode)
  BY <1>6 DEF Nested
<1>8. Rank(w[1].lock) >= Rank(l) /\ Released(w, 1 + 1, w[1].lock, w[1].mode)
  <2>1. Len(b) + 2 \in 1 + 1 .. Len(w)
    BY <1>1, <1>5
  <2>2. ASSUME NEW j \in 1 + 1 .. Len(b) + 2 - 1, w[j].op = "Lock" PROVE Rank(w[j].lock) > Rank(l)
    <3>1. j - 1 \in 1 .. Len(b) /\ j - 1 + 1 = j
      BY <1>1
    <3>. QED  BY <1>5, <1>7, <2>2, <3>1
  <2>3. Released(w, 1 + 1, l, mode)
    BY <1>4, <1>5, <2>1, <2>2 DEF Released
  <2>. QED  BY <1>2, <1>5, <1>6, <2>3
<1>9. ASSUME NEW i \in 1 .. Len(b), b[i].op = "Lock", NEW n, n = i + 1
      PROVE  Rank(w[n].lock) >= Rank(l) /\ Released(w, n + 1, w[n].lock, w[n].mode)
  <2>1. Rank(b[i].lock) > Rank(l) /\ Released(b, i + 1, b[i].lock, b[i].mode)
    BY <1>7, <1>9
  <2>2. PICK k \in i + 1 .. Len(b) :
            /\ b[k] = Instr("Unlock", b[i].lock, b[i].mode)
            /\ \A j \in i + 1 .. k - 1 : b[j].op = "Lock" => Rank(b[j].lock) > Rank(b[i].lock)
    BY <2>1 DEF Released
  <2>3. k + 1 \in n + 1 .. Len(w) /\ w[k + 1] = b[k] /\ w[n] = b[i]
    BY <1>1, <1>5, <1>9
  <2>4. ASSUME NEW j \in n + 1 .. k + 1 - 1, w[j].op = "Lock" PROVE Rank(w[j].lock) > Rank(w[n].lock)
    <3>1. j - 1 \in i + 1 .. k - 1 /\ j - 1 \in 1 .. Len(b) /\ j - 1 + 1 = j
      BY <1>1, <1>9
    <3>. QED  BY <1>5, <2>2, <2>3, <2>4, <3>1
  <2>. QED  BY <1>6, <2>1, <2>2, <2>3, <2>4 DEF Released
<1>10. ASSUME NEW i \in 1 .. Len(w), w[i].op = "Lock"
       PROVE  Rank(w[i].lock) >= Rank(l) /\ Released(w, i + 1, w[i].lock, w[i].mode)
  <2>1. CASE i = 1
    BY <1>8, <2>1
  <2>2. CASE i # 1
    <3>1. i # Len(b) + 2
      BY <1>2, <1>5, <1>10
    <3>2. i - 1 \in 1 .. Len(b) /\ i = (i - 1) + 1
      BY <1>1, <1>5, <2>2, <3>1
    <3>3. b[i - 1].op = "Lock"
      BY <1>5, <1>10, <3>2
    <3>. QED  BY <1>9, <3>2, <3>3
  <2>. QED  BY <2>1, <2>2
<1>. QED  BY <1>3, <1>5, <1>10 DEF Nested

\* A lock of each kind around a program.
LEMMA NestedLocks ==
    ASSUME NEW b
    PROVE  /\ Nested(b, 2) => Nested(Mutex(Queue, b), 1)
           /\ \A s \in Sessions : Nested(b, 3) => Nested(Mutex(StateMachine(s), b), 2)
           /\ \A s \in Sessions : Nested(b, 4) => Nested(Read(State(s), b), 3)
           /\ \A s \in Sessions : Nested(b, 4) => Nested(Write(State(s), b), 3)
           /\ Nested(b, 5) => Nested(Read(Map, b), 4)
           /\ Nested(b, 5) => Nested(Write(Map, b), 4)
<1>1. ASSUME NEW l \in LockNames, NEW mode \in Modes, Nested(b, Rank(l) + 1)
      PROVE  Nested(Holding(l, mode, b), Rank(l))
  BY <1>1, NestedHolding
<1>2. "Read" \in Modes /\ "Write" \in Modes
  BY DEF Modes
<1>3. 1 + 1 = 2 /\ 2 + 1 = 3 /\ 3 + 1 = 4 /\ 4 + 1 = 5
  OBVIOUS
<1>. QED  BY <1>1, <1>2, <1>3, Ranks, Names DEF Mutex, Read, Write

\* The read guard may outlast the mutex: what matters is the order in which locks are taken.
LEMMA NestedHandOver ==
    ASSUME NEW s \in Sessions
    PROVE  Nested(HandOver(s), 2)
<1>1. StateMachine(s) \in LockNames /\ State(s) \in LockNames /\ "Read" \in Modes /\ "Write" \in Modes
  BY Names DEF Modes
<1>2. Rank(StateMachine(s)) = 2 /\ Rank(State(s)) = 3
  BY Ranks
<1>. DEFINE a == Instr("Lock", StateMachine(s), "Write")
            b == Instr("Lock", State(s), "Read")
            c == Instr("Unlock", StateMachine(s), "Write")
            d == Instr("Unlock", State(s), "Read")
<1>3. /\ a \in Instrs /\ b \in Instrs /\ c \in Instrs /\ d \in Instrs
      /\ a.op = "Lock" /\ a.lock = StateMachine(s) /\ a.mode = "Write"
      /\ b.op = "Lock" /\ b.lock = State(s) /\ b.mode = "Read"
      /\ c.op = "Unlock" /\ d.op = "Unlock"
  BY <1>1, InstrFields
<1>4. /\ c = Instr("Unlock", StateMachine(s), "Write") /\ d = Instr("Unlock", State(s), "Read")
      /\ HandOver(s) = <<a, b, c, d>>
  BY DEF HandOver
<1>. HIDE DEF a, b, c, d
<1>5. PICK w : w = <<a, b, c, d>>
  OBVIOUS
<1>6. /\ w \in Seq(Instrs) /\ Len(w) = 4
      /\ w[1] = a /\ w[2] = b /\ w[3] = c /\ w[4] = d
  BY <1>3, <1>5
<1>7. Released(w, 2, StateMachine(s), "Write")
  <2>1. 3 \in 2 .. Len(w) /\ \A j \in 2 .. 3 - 1 : j = 2
    BY <1>6
  <2>2. \A j \in 2 .. 3 - 1 : w[j].op = "Lock" => Rank(w[j].lock) > Rank(StateMachine(s))
    BY <1>2, <1>3, <1>6, <2>1
  <2>. QED  BY <1>4, <1>6, <2>1, <2>2 DEF Released
<1>8. Released(w, 3, State(s), "Read")
  <2>1. 4 \in 3 .. Len(w) /\ \A j \in 3 .. 4 - 1 : j = 3
    BY <1>6
  <2>2. \A j \in 3 .. 4 - 1 : w[j].op = "Lock" => Rank(w[j].lock) > Rank(State(s))
    BY <1>3, <1>6, <2>1
  <2>. QED  BY <1>4, <1>6, <2>1, <2>2 DEF Released
<1>9. ASSUME NEW i \in 1 .. Len(w), w[i].op = "Lock"
      PROVE  Rank(w[i].lock) >= 2 /\ Released(w, i + 1, w[i].lock, w[i].mode)
  <2>1. i = 1 \/ i = 2
    BY <1>3, <1>6, <1>9
  <2>2. CASE i = 1
    BY <1>2, <1>3, <1>6, <1>7, <2>2
  <2>3. CASE i = 2
    BY <1>2, <1>3, <1>6, <1>8, <2>3
  <2>. QED  BY <2>1, <2>2, <2>3
<1>. QED  BY <1>4, <1>5, <1>6, <1>9 DEF Nested

\* The parts the operations are put together from, with the rank of their first lock.
LEMMA NestedParts ==
    ASSUME NEW s \in Sessions
    PROVE  /\ Nested(Remap, 4)
           /\ Nested(ExpireInner(s), 2)
           /\ Nested(SessionExpire(s), 1)
           /\ Nested(Mutex(StateMachine(s), Read(State(s), <<>>)), 2)
           /\ Nested(Mutex(StateMachine(s), Read(State(s), Remap)), 2)
           /\ Nested(Transition(s, <<>>), 2)
           /\ Nested(Transition(s, Remap), 2)
           /\ Nested(Lookup(s), 3)
<1>1. Nested(<<>>, 5) /\ Nested(<<>>, 4)
  BY NestedEmpty
<1>2. Nested(Write(Map, <<>>), 4) /\ Nested(Read(Map, <<>>), 4)
  BY <1>1, NestedLocks
<1>3. Nested(Remap, 4)
  BY <1>2 DEF Remap
<1>4. Nested(ExpireInner(s), 2)
  <2>1. Nested(Write(State(s), Write(Map, <<>>)), 3)
    BY <1>2, NestedLocks
  <2>. QED  BY <2>1, NestedLocks DEF ExpireInner
<1>5. Nested(SessionExpire(s), 1)
  BY <1>4, NestedLocks DEF SessionExpire
<1>6. /\ Nested(Read(State(s), <<>>), 3) /\ Nested(Write(State(s), <<>>), 3)
      /\ Nested(Read(State(s), Remap), 3)
  BY <1>1, <1>3, NestedLocks
<1>7. /\ Nested(Mutex(StateMachine(s), Read(State(s), <<>>)), 2)
      /\ Nested(Mutex(StateMachine(s), Read(State(s), Remap)), 2)
  BY <1>6, NestedLocks
<1>8. Nested(Transition(s, <<>>), 2) /\ Nested(Transition(s, Remap), 2)
  <2>1. /\ Nested(Read(State(s), <<>>) \o Write(State(s), <<>>), 3)
        /\ Nested(Read(State(s), Remap) \o Write(State(s), <<>>), 3)
    BY <1>6, NestedConcat
  <2>. QED  BY <2>1, NestedLocks DEF Transition
<1>9. Nested(Lookup(s), 3)
  <2>1. Nested(Read(Map, <<>>), 3)
    BY <1>2, NestedWeaken
  <2>. QED  BY <1>6, <2>1, NestedConcat DEF Lookup
<1>. QED  BY <1>3, <1>4, <1>5, <1>7, <1>8, <1>9

\* Every operation takes its locks in the documented order, but for the three that do not.
LEMMA ProgramsNested ==
    ASSUME NEW p \in OrderedPrograms
    PROVE  Nested(p, 1)
<1>1. \A q, n \in Nat : \A b : Nested(b, n) /\ q <= n => Nested(b, q)
  BY NestedWeaken
<1>2. \A b, d : Nested(b, 1) /\ Nested(d, 1) => Nested(b \o d, 1)
  BY NestedConcat
<1>3. ASSUME NEW s \in Sessions
      PROVE  /\ Nested(SessionExpire(s), 1) /\ Nested(Lookup(s), 1)
             /\ Nested(Mutex(StateMachine(s), Read(State(s), <<>>)), 1)
             /\ Nested(Mutex(StateMachine(s), Read(State(s), Remap)), 1)
             /\ Nested(Transition(s, <<>>), 1) /\ Nested(Transition(s, Remap), 1)
             /\ Nested(Read(State(s), <<>>), 1) /\ Nested(Write(State(s), <<>>), 1)
             /\ Nested(HandOver(s), 1)
  <2>1. /\ Nested(SessionExpire(s), 1) /\ Nested(Lookup(s), 3)
        /\ Nested(Mutex(StateMachine(s), Read(State(s), <<>>)), 2)
        /\ Nested(Mutex(StateMachine(s), Read(State(s), Remap)), 2)
        /\ Nested(Transition(s, <<>>), 2) /\ Nested(Transition(s, Remap), 2)
    BY NestedParts
  <2>2. Nested(Read(State(s), <<>>), 3) /\ Nested(Write(State(s), <<>>), 3)
    BY NestedEmpty, NestedLocks
  <2>3. Nested(HandOver(s), 2)
    BY NestedHandOver
  <2>. QED  BY <1>1, <2>1, <2>2, <2>3
<1>4. Nested(Mutex(Queue, <<>>), 1)
  BY NestedEmpty, NestedLocks
<1>5. ASSUME NEW s \in Sessions, NEW h \in Handlers(s) PROVE Nested(h, 1)
  <2>1. Nested(Transition(s, <<>>) \o Mutex(Queue, <<>>), 1)
    BY <1>2, <1>3, <1>4
  <2>2. Nested(Transition(s, Remap) \o Mutex(Queue, <<>>), 1)
    BY <1>2, <1>3, <1>4
  <2>3. Nested(Answered(s, <<>>), 1) /\ Nested(Answered(s, Remap), 1)
    BY <1>2, <1>3, <2>1, <2>2 DEF Answered
  <2>. QED  BY <1>2, <1>3, <1>5, <2>1, <2>3 DEF Handlers
<1>6. ASSUME NEW s \in Sessions, p \in ReceiveLocks(s) PROVE Nested(p, 1)
  <2>1. ASSUME NEW h \in Handlers(s)
        PROVE  Nested(Lookup(s) \o h, 1) /\ Nested((Lookup(s) \o h) \o SessionExpire(s), 1)
    <3>1. Nested(Lookup(s) \o h, 1)
      BY <1>2, <1>3, <1>5
    <3>. QED  BY <1>2, <1>3, <3>1
  <2>. QED  BY <1>3, <1>6, <2>1 DEF ReceiveLocks
<1>7. ASSUME NEW s \in Sessions, p \in SendPayloadLocks(s) PROVE Nested(p, 1)
  <2>1. Nested(Read(State(s), <<>>) \o Write(State(s), <<>>), 1)
    BY <1>2, <1>3
  <2>. QED  BY <1>2, <1>3, <1>4, <1>7, <2>1 DEF SendPayloadLocks
<1>8. ASSUME NEW s \in Sessions, p \in ServiceLocks(s) PROVE Nested(p, 1)
  <2>1. ASSUME NEW q \in ProcessTimers(s) PROVE Nested(q, 2) /\ Nested(q \o ExpireInner(s), 2)
    <3>1. Nested(Read(State(s), <<>>), 2)
      <4>1. Nested(Read(State(s), <<>>), 3)
        BY NestedEmpty, NestedLocks
      <4>. QED  BY <4>1, <1>1
    <3>2. Nested(Transition(s, Remap) \o Read(State(s), <<>>), 2)
      BY <3>1, NestedParts, NestedConcat
    <3>3. Nested(q, 2)
      BY <2>1, <3>2, NestedParts DEF ProcessTimers
    <3>. QED  BY <3>3, NestedParts, NestedConcat
  <2>2. PICK q \in ProcessTimers(s) : p = Mutex(Queue, q) \/ p = Mutex(Queue, q \o ExpireInner(s))
    BY <1>8 DEF ServiceLocks
  <2>. QED  BY <2>1, <2>2, NestedLocks
<1>9. Nested(TransToA1, 1) /\ Nested(ReceivedX1, 1)
  <2>1. Nested(Write(Map, <<>>), 4) /\ Nested(Read(Map, <<>>), 4)
    BY NestedEmpty, NestedLocks
  <2>2. Nested(Write(Map, <<>>), 2) /\ Nested(Read(Map, <<>>), 1)
    BY <1>1, <2>1
  <2>. QED  BY <2>2, NestedLocks DEF TransToA1, ReceivedX1
<1>10. \/ p \in {TransToA1, ReceivedX1}
       \/ \E s \in Sessions : p \in ReceiveLocks(s) \/ p \in SendPayloadLocks(s) \/ p \in ServiceLocks(s)
                              \/ p = SessionExpire(s)
  BY DEF OrderedPrograms
<1>. QED  BY <1>3, <1>6, <1>7, <1>8, <1>9, <1>10

\* What takes its locks in order releases them.
LEMMA NestedBalanced ==
    ASSUME NEW p, NEW r, Nested(p, r)
    PROVE  Balanced(p)
  BY DEF Nested, Balanced, Released, Unlocks

\* One program after the other.
LEMMA BalancedConcat ==
    ASSUME NEW p, NEW q, Balanced(p), Balanced(q)
    PROVE  Balanced(p \o q)
<1>1. p \in Seq(Instrs) /\ q \in Seq(Instrs) /\ Len(p) \in Nat /\ Len(q) \in Nat
  BY LenProperties DEF Balanced
<1>2. PICK w : w = p \o q
  OBVIOUS
<1>3. /\ w \in Seq(Instrs) /\ Len(w) = Len(p) + Len(q)
      /\ \A i \in 1 .. Len(p) + Len(q) : w[i] = IF i <= Len(p) THEN p[i] ELSE q[i - Len(p)]
  BY <1>1, <1>2, ConcatProperties
<1>4. ASSUME NEW i \in 1 .. Len(w), w[i].op = "Lock"
      PROVE  Unlocks(w, i + 1, w[i].lock, w[i].mode)
  <2>1. CASE i <= Len(p)
    <3>1. i \in 1 .. Len(p) /\ w[i] = p[i]
      BY <1>1, <1>3, <2>1
    <3>2. PICK k \in i + 1 .. Len(p) : p[k] = Instr("Unlock", p[i].lock, p[i].mode)
      BY <1>4, <3>1 DEF Balanced, Unlocks
    <3>3. k \in i + 1 .. Len(w) /\ w[k] = p[k]
      BY <1>1, <1>3, <3>1
    <3>. QED  BY <3>1, <3>2, <3>3 DEF Unlocks
  <2>2. CASE i > Len(p)
    <3>1. i - Len(p) \in 1 .. Len(q) /\ w[i] = q[i - Len(p)]
      BY <1>1, <1>3, <2>2
    <3>2. PICK k \in (i - Len(p)) + 1 .. Len(q) : q[k] = Instr("Unlock", w[i].lock, w[i].mode)
      BY <1>4, <3>1 DEF Balanced, Unlocks
    <3>3. k + Len(p) \in i + 1 .. Len(w) /\ ~(k + Len(p) <= Len(p)) /\ (k + Len(p)) - Len(p) = k
      BY <1>1, <1>3, <3>1
    <3>4. w[k + Len(p)] = q[k]
      BY <1>1, <1>3, <3>1, <3>3
    <3>. QED  BY <3>2, <3>3, <3>4 DEF Unlocks
  <2>. QED  BY <1>1, <2>1, <2>2
<1>. QED  BY <1>2, <1>3, <1>4 DEF Balanced

\* A lock around a program, whatever the program locks.
LEMMA BalancedHolding ==
    ASSUME NEW l \in LockNames, NEW mode \in Modes, NEW b, Balanced(b)
    PROVE  Balanced(Holding(l, mode, b))
<1>1. b \in Seq(Instrs) /\ Len(b) \in Nat
  BY LenProperties DEF Balanced
<1>. DEFINE first == Instr("Lock", l, mode)
            last == Instr("Unlock", l, mode)
<1>2. /\ first \in Instrs /\ first.op = "Lock" /\ first.lock = l /\ first.mode = mode
      /\ last \in Instrs /\ last.op = "Unlock"
  BY InstrFields
<1>3. PICK w : w = Holding(l, mode, b)
  OBVIOUS
<1>4. w = (<<first>> \o b) \o <<last>> /\ last = Instr("Unlock", l, mode)
  BY <1>3 DEF Holding
<1>. HIDE DEF first, last
<1>5. /\ <<first>> \in Seq(Instrs) /\ Len(<<first>>) = 1 /\ <<first>>[1] = first
      /\ <<last>> \in Seq(Instrs) /\ Len(<<last>>) = 1 /\ <<last>>[1] = last
  BY <1>2
<1>6. PICK v : v = <<first>> \o b
  OBVIOUS
<1>7. /\ v \in Seq(Instrs) /\ Len(v) = Len(b) + 1
      /\ \A i \in 1 .. 1 + Len(b) : v[i] = IF i <= 1 THEN <<first>>[i] ELSE b[i - 1]
  BY <1>1, <1>5, <1>6, ConcatProperties
<1>8. /\ w \in Seq(Instrs) /\ Len(w) = Len(v) + 1
      /\ \A i \in 1 .. Len(v) + 1 : w[i] = IF i <= Len(v) THEN v[i] ELSE <<last>>[i - Len(v)]
  BY <1>4, <1>5, <1>6, <1>7, ConcatProperties
<1>9. w[Len(w)] = last
  <2>1. Len(w) \in 1 .. Len(v) + 1 /\ ~(Len(w) <= Len(v)) /\ Len(w) - Len(v) = 1
    BY <1>1, <1>7, <1>8
  <2>. QED  BY <1>5, <1>8, <2>1
<1>10. w[1] = first
  <2>1. 1 \in 1 .. 1 + Len(b) /\ 1 \in 1 .. Len(v) + 1 /\ 1 <= Len(v) /\ 1 <= 1
    BY <1>1, <1>7
  <2>. QED  BY <1>5, <1>7, <1>8, <2>1
<1>11. \A i \in 2 .. Len(v) : w[i] = b[i - 1] /\ i - 1 \in 1 .. Len(b)
  BY <1>1, <1>7, <1>8
<1>12. ASSUME NEW i \in 1 .. Len(w), w[i].op = "Lock"
       PROVE  Unlocks(w, i + 1, w[i].lock, w[i].mode)
  <2>1. i # Len(w)
    BY <1>2, <1>9, <1>12
  <2>2. CASE i = 1
    <3>1. Len(w) \in 1 + 1 .. Len(w)
      BY <1>1, <1>7, <1>8
    <3>. QED  BY <1>2, <1>4, <1>9, <1>10, <2>2, <3>1 DEF Unlocks
  <2>3. CASE i # 1
    <3>1. i \in 2 .. Len(v)
      BY <1>1, <1>7, <1>8, <2>1, <2>3
    <3>2. w[i] = b[i - 1] /\ i - 1 \in 1 .. Len(b)
      BY <1>11, <3>1
    <3>3. PICK k \in (i - 1) + 1 .. Len(b) : b[k] = Instr("Unlock", w[i].lock, w[i].mode)
      BY <1>12, <3>2 DEF Balanced, Unlocks
    <3>4. k + 1 \in 2 .. Len(v) /\ k + 1 \in i + 1 .. Len(w) /\ (k + 1) - 1 = k
      BY <1>1, <1>7, <1>8, <3>1
    <3>5. w[k + 1] = b[k]
      BY <1>11, <3>4
    <3>. QED  BY <3>3, <3>4, <3>5 DEF Unlocks
  <2>. QED  BY <2>2, <2>3
<1>. QED  BY <1>3, <1>8, <1>12 DEF Balanced

\* The operations that leave the order release what they take too.
LEMMA ProgramsBalanced ==
    ASSUME NEW p \in OrderedPrograms \cup UnorderedPrograms
    PROVE  Balanced(p)
<1>1. CASE p \in OrderedPrograms
  BY <1>1, ProgramsNested, NestedBalanced
<1>2. Balanced(<<>>)
  BY NestedEmpty, NestedBalanced
<1>3. \A l \in LockNames : \A b : Balanced(b) => Balanced(Mutex(l, b)) /\ Balanced(Read(l, b)) /\ Balanced(Write(l, b))
  BY BalancedHolding DEF Mutex, Read, Write, Modes
<1>4. \A b, d : Balanced(b) /\ Balanced(d) => Balanced(b \o d)
  BY BalancedConcat
<1>5. Balanced(ReceivedX3)
  <2>1. Balanced(Read(Map, <<>>)) /\ Balanced(Mutex(Queue, <<>>))
    BY <1>2, <1>3, Names
  <2>2. Balanced(Write(Map, Mutex(Queue, <<>>)))
    BY <1>3, <2>1, Names
  <2>. QED  BY <1>4, <2>1, <2>2 DEF ReceivedX3
<1>6. ASSUME NEW s \in Sessions PROVE Balanced(RespondToChallenge(s))
  <2>1. Balanced(Write(State(s), <<>>))
    BY <1>2, <1>3, Names
  <2>. QED  BY <1>3, <2>1, Names DEF RespondToChallenge
<1>7. ASSUME NEW s \in Sessions, NEW d \in DropInService(s) PROVE Balanced(d)
  <2>1. PICK q \in ProcessTimers(s) : d = Mutex(Queue, q \o SessionExpire(s))
    BY <1>7 DEF DropInService
  <2>2. Balanced(SessionExpire(s))
    BY NestedParts, NestedBalanced
  <2>3. /\ Balanced(Mutex(StateMachine(s), Read(State(s), <<>>)))
        /\ Balanced(Transition(s, Remap))
    BY NestedParts, NestedBalanced
  <2>4. Balanced(Transition(s, Remap) \o Read(State(s), <<>>))
    <3>1. Balanced(Read(State(s), <<>>))
      BY <1>2, <1>3, Names
    <3>. QED  BY <1>4, <2>3, <3>1
  <2>5. Balanced(q)
    BY <2>3, <2>4 DEF ProcessTimers
  <2>6. Balanced(q \o SessionExpire(s))
    BY <1>4, <2>2, <2>5
  <2>. QED  BY <1>3, <2>1, <2>6, Names
<1>8. CASE p \in UnorderedPrograms
  <2>1. p = ReceivedX3 \/ \E s \in Sessions : p = RespondToChallenge(s) \/ p \in DropInService(s)
    BY <1>8 DEF UnorderedPrograms
  <2>. QED  BY <1>5, <1>6, <1>7, <2>1
<1>. QED  BY <1>1, <1>8

-----------------------------------------------------------------------------
(* The threads *)

TypeOK ==
    /\ prog \in [Threads -> Seq(Instrs)]
    /\ readers \in [LockNames -> SUBSET Threads]
    /\ writer \in [LockNames -> Threads \cup {None}]
    /\ pending \in [LockNames -> Threads \cup {None}]
    /\ disorderly \in SUBSET Threads

\* What is known of the program of a thread that runs an operation of the order, or another.
Manner(t) == IF t \in disorderly THEN "any" ELSE "ordered"
Proper(p, manner) == IF manner = "ordered" THEN Nested(p, 1) ELSE Balanced(p)
Frees(p, l, mode, manner) ==
    IF manner = "ordered" THEN Released(p, 1, l, mode) ELSE Unlocks(p, 1, l, mode)

\* What a thread still has before it releases what it locks, in order where that is promised.
Ordered == \A t \in Threads : Proper(prog[t], Manner(t))

\* A thread releases what it holds; an orderly one takes only larger locks before that.
Releases ==
    \A t \in Threads, l \in LockNames :
        /\ t \in readers[l] => Frees(prog[t], l, "Read", Manner(t))
        /\ t = writer[l] => Frees(prog[t], l, "Write", Manner(t))

\* Only a thread that is about to write a lock keeps new readers out.
PendingWrites ==
    \A t \in Threads, l \in LockNames : t = pending[l] => At(t, "Lock", l, "Write")

IInv == TypeOK /\ Ordered /\ Releases /\ PendingWrites

\* What is left of a program after its first instruction.
LEMMA NestedTail ==
    ASSUME NEW p, Nested(p, 1), p # <<>>
    PROVE  /\ Nested(Tail(p), 1)
           /\ Head(p).op = "Lock" => Released(Tail(p), 1, Head(p).lock, Head(p).mode)
           /\ \A l \in LockNames, mode \in Modes :
                Released(p, 1, l, mode) /\ Head(p) # Instr("Unlock", l, mode) =>
                    Released(Tail(p), 1, l, mode)
<1>1. p \in Seq(Instrs) /\ Len(p) \in Nat /\ Len(p) >= 1
  BY LenProperties, EmptySeq DEF Nested
<1>2. PICK w : w = Tail(p)
  OBVIOUS
<1>3. /\ w \in Seq(Instrs) /\ Len(w) = Len(p) - 1 /\ Head(p) = p[1]
      /\ \A i \in 1 .. Len(w) : w[i] = p[i + 1]
  BY <1>1, <1>2, HeadTailProperties
<1>4. ASSUME NEW i \in 1 .. Len(p), NEW l, NEW mode, Released(p, i + 1, l, mode)
      PROVE  Released(w, i, l, mode)
  <2>1. PICK k \in i + 1 .. Len(p) :
            /\ p[k] = Instr("Unlock", l, mode)
            /\ \A j \in i + 1 .. k - 1 : p[j].op = "Lock" => Rank(p[j].lock) > Rank(l)
    BY <1>4 DEF Released
  <2>2. k - 1 \in i .. Len(w) /\ k - 1 \in 1 .. Len(w) /\ k - 1 + 1 = k
    BY <1>1, <1>3
  <2>3. w[k - 1] = p[k]
    BY <1>3, <2>2
  <2>4. ASSUME NEW j \in i .. k - 1 - 1, w[j].op = "Lock" PROVE Rank(w[j].lock) > Rank(l)
    <3>1. j + 1 \in i + 1 .. k - 1 /\ j \in 1 .. Len(w)
      BY <1>1, <1>3
    <3>. QED  BY <1>3, <2>1, <2>4, <3>1
  <2>. QED  BY <2>1, <2>2, <2>3, <2>4 DEF Released
<1>5. Nested(w, 1)
  <2>1. ASSUME NEW i \in 1 .. Len(w), w[i].op = "Lock"
        PROVE  Rank(w[i].lock) >= 1 /\ Released(w, i + 1, w[i].lock, w[i].mode)
    <3>1. i + 1 \in 1 .. Len(p) /\ w[i] = p[i + 1]
      BY <1>1, <1>3
    <3>2. Rank(w[i].lock) >= 1 /\ Released(p, (i + 1) + 1, w[i].lock, w[i].mode)
      BY <2>1, <3>1 DEF Nested
    <3>. QED  BY <1>4, <3>1, <3>2
  <2>. QED  BY <1>3, <2>1 DEF Nested
<1>6. Head(p).op = "Lock" => Released(w, 1, Head(p).lock, Head(p).mode)
  <2>1. 1 \in 1 .. Len(p)
    BY <1>1
  <2>. QED  BY <1>3, <1>4, <2>1 DEF Nested
<1>7. ASSUME NEW l \in LockNames, NEW mode \in Modes,
             Released(p, 1, l, mode), Head(p) # Instr("Unlock", l, mode)
      PROVE  Released(w, 1, l, mode)
  <2>1. PICK k \in 1 .. Len(p) :
            /\ p[k] = Instr("Unlock", l, mode)
            /\ \A j \in 1 .. k - 1 : p[j].op = "Lock" => Rank(p[j].lock) > Rank(l)
    BY <1>7 DEF Released
  <2>2. k \in 1 + 1 .. Len(p) /\ \A j \in 1 + 1 .. k - 1 : j \in 1 .. k - 1
    BY <1>1, <1>3, <1>7, <2>1
  <2>3. Released(p, 1 + 1, l, mode)
    BY <2>1, <2>2 DEF Released
  <2>. QED  BY <1>1, <1>4, <2>3
<1>. QED  BY <1>2, <1>5, <1>6, <1>7

\* The same of a program that is only known to release what it locks.
LEMMA BalancedTail ==
    ASSUME NEW p, Balanced(p), p # <<>>
    PROVE  /\ Balanced(Tail(p))
           /\ Head(p).op = "Lock" => Unlocks(Tail(p), 1, Head(p).lock, Head(p).mode)
           /\ \A l \in LockNames, mode \in Modes :
                Unlocks(p, 1, l, mode) /\ Head(p) # Instr("Unlock", l, mode) =>
                    Unlocks(Tail(p), 1, l, mode)
<1>1. p \in Seq(Instrs) /\ Len(p) \in Nat /\ Len(p) >= 1
  BY LenProperties, EmptySeq DEF Balanced
<1>2. PICK w : w = Tail(p)
  OBVIOUS
<1>3. /\ w \in Seq(Instrs) /\ Len(w) = Len(p) - 1 /\ Head(p) = p[1]
      /\ \A i \in 1 .. Len(w) : w[i] = p[i + 1]
  BY <1>1, <1>2, HeadTailProperties
<1>4. ASSUME NEW i \in 1 .. Len(p), NEW l, NEW mode, Unlocks(p, i + 1, l, mode)
      PROVE  Unlocks(w, i, l, mode)
  <2>1. PICK k \in i + 1 .. Len(p) : p[k] = Instr("Unlock", l, mode)
    BY <1>4 DEF Unlocks
  <2>2. k - 1 \in i .. Len(w) /\ k - 1 \in 1 .. Len(w) /\ k - 1 + 1 = k
    BY <1>1, <1>3
  <2>3. w[k - 1] = p[k]
    BY <1>3, <2>2
  <2>. QED  BY <2>1, <2>2, <2>3 DEF Unlocks
<1>5. Balanced(w)
  <2>1. ASSUME NEW i \in 1 .. Len(w), w[i].op = "Lock"
        PROVE  Unlocks(w, i + 1, w[i].lock, w[i].mode)
    <3>1. i + 1 \in 1 .. Len(p) /\ w[i] = p[i + 1]
      BY <1>1, <1>3
    <3>2. Unlocks(p, (i + 1) + 1, w[i].lock, w[i].mode)
      BY <2>1, <3>1 DEF Balanced
    <3>. QED  BY <1>4, <3>1, <3>2
  <2>. QED  BY <1>3, <2>1 DEF Balanced
<1>6. Head(p).op = "Lock" => Unlocks(w, 1, Head(p).lock, Head(p).mode)
  <2>1. 1 \in 1 .. Len(p)
    BY <1>1
  <2>. QED  BY <1>3, <1>4, <2>1 DEF Balanced
<1>7. ASSUME NEW l \in LockNames, NEW mode \in Modes,
             Unlocks(p, 1, l, mode), Head(p) # Instr("Unlock", l, mode)
      PROVE  Unlocks(w, 1, l, mode)
  <2>1. PICK k \in 1 .. Len(p) : p[k] = Instr("Unlock", l, mode)
    BY <1>7 DEF Unlocks
  <2>2. k \in 1 + 1 .. Len(p)
    BY <1>1, <1>3, <1>7, <2>1
  <2>3. Unlocks(p, 1 + 1, l, mode)
    BY <2>1, <2>2 DEF Unlocks
  <2>. QED  BY <1>1, <1>4, <2>3
<1>. QED  BY <1>2, <1>5, <1>6, <1>7

\* The two together.
LEMMA ProperTail ==
    ASSUME NEW p, NEW manner, Proper(p, manner), p # <<>>
    PROVE  /\ Proper(Tail(p), manner)
           /\ Tail(p) \in Seq(Instrs)
           /\ Head(p).op = "Lock" => Frees(Tail(p), Head(p).lock, Head(p).mode, manner)
           /\ \A l \in LockNames, mode \in Modes :
                Frees(p, l, mode, manner) /\ Head(p) # Instr("Unlock", l, mode) =>
                    Frees(Tail(p), l, mode, manner)
<1>1. CASE manner = "ordered"
  <2>1. Nested(Tail(p), 1) /\ Tail(p) \in Seq(Instrs)
    BY <1>1, NestedTail DEF Proper, Nested
  <2>. QED  BY <1>1, <2>1, NestedTail DEF Proper, Frees
<1>2. CASE manner # "ordered"
  <2>1. Balanced(Tail(p)) /\ Tail(p) \in Seq(Instrs)
    BY <1>2, BalancedTail DEF Proper, Balanced
  <2>. QED  BY <1>2, <2>1, BalancedTail DEF Proper, Frees
<1>. QED  BY <1>1, <1>2

\* A thread that executes an instruction keeps its program in order, and what threads hold is
\* still released, but for what the instruction unlocks.
LEMMA AdvanceStep ==
    ASSUME IInv, NEW t \in Threads, prog[t] # <<>>, Advance(t), UNCHANGED disorderly
    PROVE  /\ prog' \in [Threads -> Seq(Instrs)]
           /\ \A u \in Threads : u # t => prog'[u] = prog[u]
           /\ Ordered'
           /\ Head(prog[t]).op = "Lock" =>
                Frees(prog'[t], Head(prog[t]).lock, Head(prog[t]).mode, Manner(t))
           /\ \A u \in Threads, l \in LockNames, mode \in Modes :
                Frees(prog[u], l, mode, Manner(u)) /\ (u = t => Head(prog[t]) # Instr("Unlock", l, mode)) =>
                    Frees(prog'[u], l, mode, Manner(u))
<1>1. prog \in [Threads -> Seq(Instrs)] /\ prog' = [prog EXCEPT ![t] = Tail(@)]
  BY DEF IInv, TypeOK, Advance
<1>2. Proper(prog[t], Manner(t))
  BY DEF IInv, Ordered
<1>3. PICK p : p = prog[t]
  OBVIOUS
<1>4. PICK w : w = Tail(p)
  OBVIOUS
<1>5. /\ Proper(w, Manner(t)) /\ w \in Seq(Instrs)
      /\ Head(p).op = "Lock" => Frees(w, Head(p).lock, Head(p).mode, Manner(t))
      /\ \A l \in LockNames, mode \in Modes :
           Frees(p, l, mode, Manner(t)) /\ Head(p) # Instr("Unlock", l, mode) => Frees(w, l, mode, Manner(t))
  BY <1>2, <1>3, <1>4, ProperTail
<1>6. prog'[t] = w /\ \A u \in Threads : u # t => prog'[u] = prog[u]
  BY <1>1, <1>3, <1>4
<1>7. prog' \in [Threads -> Seq(Instrs)]
  BY <1>1, <1>3, <1>4, <1>5
<1>8. Ordered'
  <2>1. \A u \in Threads : Manner(u)' = Manner(u)
    BY DEF Manner
  <2>. QED  BY <1>5, <1>6, <2>1 DEF IInv, Ordered
<1>. QED  BY <1>3, <1>5, <1>6, <1>7, <1>8

\* A thread that has returned holds nothing, and what it is called to do next is proper.
LEMMA CallStep ==
    ASSUME IInv, NEW t \in Threads, Call(t)
    PROVE  IInv'
<1>1. PICK p : /\ prog' = [prog EXCEPT ![t] = p]
               /\ \/ p \in OrderedPrograms /\ disorderly' = disorderly \ {t}
                  \/ p \in UnorderedPrograms /\ disorderly' = disorderly \cup {t}
  BY DEF Call
<1>2. /\ Balanced(p) /\ p \in Seq(Instrs)
      /\ p \in OrderedPrograms => Nested(p, 1)
  BY <1>1, ProgramsBalanced, ProgramsNested DEF Balanced
<1>3. /\ prog' \in [Threads -> Seq(Instrs)] /\ prog'[t] = p
      /\ \A u \in Threads : u # t => prog'[u] = prog[u]
  BY <1>1, <1>2 DEF IInv, TypeOK
<1>4. prog[t] = <<>> /\ UNCHANGED <<readers, writer, pending>>
  BY DEF Call
<1>5. TypeOK'
  BY <1>1, <1>3, <1>4 DEF IInv, TypeOK
<1>6. \A u \in Threads : u # t => Manner(u)' = Manner(u)
  BY <1>1 DEF Manner
<1>7. Proper(p, Manner(t)')
  <2>1. CASE p \in OrderedPrograms /\ disorderly' = disorderly \ {t}
    BY <1>2, <2>1 DEF Proper, Manner
  <2>2. CASE p \in UnorderedPrograms /\ disorderly' = disorderly \cup {t}
    BY <1>2, <2>2 DEF Proper, Manner
  <2>. QED  BY <1>1, <2>1, <2>2
<1>8. Ordered'
  BY <1>3, <1>6, <1>7 DEF IInv, Ordered
<1>9. \A l, mode, manner : ~Frees(<<>>, l, mode, manner)
  BY DEF Released, Unlocks, Frees
<1>10. Releases'
  BY <1>3, <1>4, <1>6, <1>9 DEF IInv, Releases
<1>11. PendingWrites'
  BY <1>3, <1>4 DEF IInv, PendingWrites, At
<1>. QED  BY <1>5, <1>8, <1>10, <1>11 DEF IInv

\* A thread before an instruction.
LEMMA AtInstr ==
    ASSUME NEW t, NEW op \in {"Lock", "Unlock"}, NEW l \in LockNames, NEW mode \in Modes,
           At(t, op, l, mode)
    PROVE  /\ prog[t] # <<>> /\ Head(prog[t]).op = op /\ Head(prog[t]).lock = l
           /\ Head(prog[t]).mode = mode
  BY InstrFields DEF At

\* A thread gets a read lock.
LEMMA LockReadStep ==
    ASSUME IInv, NEW t \in Threads, NEW l \in LockNames, LockRead(t, l)
    PROVE  IInv'
<1>1. /\ At(t, "Lock", l, "Read") /\ Advance(t) /\ UNCHANGED <<writer, pending, disorderly>>
      /\ readers' = [readers EXCEPT ![l] = @ \cup {t}]
  BY DEF LockRead
<1>2. /\ prog[t] # <<>> /\ Head(prog[t]).op = "Lock" /\ Head(prog[t]).lock = l
      /\ Head(prog[t]).mode = "Read"
  BY <1>1, AtInstr DEF Modes
<1>3. \A n \in LockNames, mode \in Modes : Head(prog[t]) # Instr("Unlock", n, mode)
  BY <1>2, InstrFields
<1>4. /\ prog' \in [Threads -> Seq(Instrs)] /\ Ordered'
      /\ \A u \in Threads : u # t => prog'[u] = prog[u]
      /\ Frees(prog'[t], l, "Read", Manner(t))
      /\ \A u \in Threads, n \in LockNames, mode \in Modes :
           Frees(prog[u], n, mode, Manner(u)) => Frees(prog'[u], n, mode, Manner(u))
  BY <1>1, <1>2, <1>3, AdvanceStep
<1>5. TypeOK'
  BY <1>1, <1>4 DEF IInv, TypeOK
<1>6. \A u \in Threads, n \in LockNames : u \in readers'[n] => u \in readers[n] \/ (u = t /\ n = l)
  BY <1>1 DEF IInv, TypeOK
<1>7. Releases'
  BY <1>1, <1>4, <1>6 DEF IInv, Releases, Modes, Manner
<1>8. PendingWrites'
  <2>1. \A n \in LockNames : t # pending[n]
    BY <1>2, AtInstr DEF IInv, PendingWrites, Modes
  <2>. QED  BY <1>1, <1>4, <2>1 DEF IInv, PendingWrites, At
<1>. QED  BY <1>4, <1>5, <1>7, <1>8 DEF IInv

\* A thread gets a write lock or a mutex.
LEMMA LockWriteStep ==
    ASSUME IInv, NEW t \in Threads, NEW l \in LockNames, LockWrite(t, l)
    PROVE  IInv'
<1>1. /\ At(t, "Lock", l, "Write") /\ Advance(t) /\ UNCHANGED <<readers, disorderly>>
      /\ writer' = [writer EXCEPT ![l] = t] /\ pending' = [pending EXCEPT ![l] = None]
  BY DEF LockWrite
<1>2. /\ prog[t] # <<>> /\ Head(prog[t]).op = "Lock" /\ Head(prog[t]).lock = l
      /\ Head(prog[t]).mode = "Write"
  BY <1>1, AtInstr DEF Modes
<1>3. \A n \in LockNames, mode \in Modes : Head(prog[t]) # Instr("Unlock", n, mode)
  BY <1>2, InstrFields
<1>4. /\ prog' \in [Threads -> Seq(Instrs)] /\ Ordered'
      /\ \A u \in Threads : u # t => prog'[u] = prog[u]
      /\ Frees(prog'[t], l, "Write", Manner(t))
      /\ \A u \in Threads, n \in LockNames, mode \in Modes :
           Frees(prog[u], n, mode, Manner(u)) => Frees(prog'[u], n, mode, Manner(u))
  BY <1>1, <1>2, <1>3, AdvanceStep
<1>5. TypeOK'
  BY <1>1, <1>4 DEF IInv, TypeOK
<1>6. \A u \in Threads, n \in LockNames :
        /\ u = writer'[n] => u = writer[n] \/ (u = t /\ n = l)
        /\ u = pending'[n] => u = pending[n] /\ n # l
  BY <1>1, LocksAssumption DEF IInv, TypeOK
<1>7. Releases'
  BY <1>1, <1>4, <1>6 DEF IInv, Releases, Modes, Manner
<1>8. PendingWrites'
  <2>1. \A n \in LockNames : t = pending[n] => n = l
    BY <1>2, AtInstr DEF IInv, PendingWrites, Modes
  <2>. QED  BY <1>1, <1>4, <1>6, <2>1 DEF IInv, PendingWrites, At
<1>. QED  BY <1>4, <1>5, <1>7, <1>8 DEF IInv

\* A writer announces itself and waits for the readers.
LEMMA WaitStep ==
    ASSUME IInv, NEW t \in Threads, NEW l \in LockNames, WaitForReaders(t, l)
    PROVE  IInv'
<1>1. /\ At(t, "Lock", l, "Write") /\ UNCHANGED <<prog, readers, writer, disorderly>>
      /\ pending' = [pending EXCEPT ![l] = t]
  BY DEF WaitForReaders
<1>2. TypeOK' /\ Ordered' /\ Releases'
  BY <1>1 DEF IInv, TypeOK, Ordered, Releases, Manner
<1>3. PendingWrites'
  BY <1>1 DEF IInv, TypeOK, PendingWrites, At
<1>. QED  BY <1>2, <1>3 DEF IInv

\* A thread releases a lock.
LEMMA UnlockStep ==
    ASSUME IInv, NEW t \in Threads, NEW l \in LockNames, Unlock(t, l)
    PROVE  IInv'
<1>1. /\ Advance(t) /\ UNCHANGED <<pending, disorderly>>
      /\ \/ At(t, "Unlock", l, "Read") /\ readers' = [readers EXCEPT ![l] = @ \ {t}] /\ UNCHANGED writer
         \/ At(t, "Unlock", l, "Write") /\ writer' = [writer EXCEPT ![l] = None] /\ UNCHANGED readers
  BY DEF Unlock
<1>2. prog[t] # <<>> /\ Head(prog[t]).op = "Unlock" /\ Head(prog[t]).lock = l
  BY <1>1, AtInstr DEF Modes
<1>3. /\ prog' \in [Threads -> Seq(Instrs)] /\ Ordered'
      /\ \A u \in Threads : u # t => prog'[u] = prog[u]
      /\ \A u \in Threads, n \in LockNames, mode \in Modes :
           Frees(prog[u], n, mode, Manner(u)) /\ (u = t => Head(prog[t]) # Instr("Unlock", n, mode)) =>
              Frees(prog'[u], n, mode, Manner(u))
  BY <1>1, <1>2, AdvanceStep
<1>4. TypeOK'
  BY <1>1, <1>3 DEF IInv, TypeOK
<1>5. ASSUME NEW u \in Threads, NEW n \in LockNames, NEW mode \in Modes,
             mode = "Read" => u \in readers'[n], mode = "Write" => u = writer'[n]
      PROVE  Frees(prog'[u], n, mode, Manner(u))
  <2>1. (mode = "Read" => u \in readers[n]) /\ (mode = "Write" => u = writer[n])
    BY <1>1, <1>5, LocksAssumption DEF IInv, TypeOK
  <2>2. Frees(prog[u], n, mode, Manner(u))
    BY <2>1 DEF IInv, Releases, Modes
  <2>3. ASSUME u = t PROVE Head(prog[t]) # Instr("Unlock", n, mode)
    <3>1. ASSUME Head(prog[t]) = Instr("Unlock", n, mode) PROVE n = l
      BY <1>2, <3>1, InstrFields
    <3>2. CASE At(t, "Unlock", l, "Read") /\ readers' = [readers EXCEPT ![l] = @ \ {t}]
      <4>1. Head(prog[t]).mode = "Read"
        BY <3>2, AtInstr DEF Modes
      <4>2. t \notin readers'[l]
        BY <3>2 DEF IInv, TypeOK
      <4>. QED  BY <1>5, <2>3, <3>1, <4>1, <4>2, InstrFields
    <3>3. CASE At(t, "Unlock", l, "Write") /\ writer' = [writer EXCEPT ![l] = None]
      <4>1. Head(prog[t]).mode = "Write"
        BY <3>3, AtInstr DEF Modes
      <4>2. t # writer'[l]
        BY <3>3, LocksAssumption DEF IInv, TypeOK
      <4>. QED  BY <1>5, <2>3, <3>1, <4>1, <4>2, InstrFields
    <3>. QED  BY <1>1, <3>2, <3>3
  <2>. QED  BY <1>3, <2>2, <2>3
<1>6. Releases'
  BY <1>1, <1>5 DEF Releases, Modes, Manner
<1>7. PendingWrites'
  <2>1. \A n \in LockNames : t # pending[n]
    BY <1>2, AtInstr DEF IInv, PendingWrites, Modes
  <2>. QED  BY <1>1, <1>3, <2>1 DEF IInv, PendingWrites, At
<1>. QED  BY <1>3, <1>4, <1>6, <1>7 DEF IInv

\* At first no thread is in an operation.
LEMMA InitIInv == LocksInit => IInv
<1>. SUFFICES ASSUME LocksInit PROVE IInv
  OBVIOUS
<1>1. TypeOK
  BY EmptySeq DEF LocksInit, TypeOK
<1>2. Ordered
  BY NestedEmpty DEF LocksInit, Ordered, Proper, Manner
<1>3. Releases /\ PendingWrites
  BY LocksAssumption DEF LocksInit, Releases, PendingWrites
<1>. QED  BY <1>1, <1>2, <1>3 DEF IInv

\* Every step keeps the order of what is held and what is ahead.
LEMMA StepIInv ==
    ASSUME IInv, [LocksNext]_locksVars PROVE IInv'
<1>1. ASSUME NEW t \in Threads, Call(t) PROVE IInv'
  BY <1>1, CallStep
<1>2. ASSUME NEW t \in Threads, NEW l \in LockNames,
             LockRead(t, l) \/ LockWrite(t, l) \/ WaitForReaders(t, l) \/ Unlock(t, l)
      PROVE  IInv'
  BY <1>2, LockReadStep, LockWriteStep, WaitStep, UnlockStep
<1>3. CASE UNCHANGED locksVars
  BY <1>3 DEF locksVars, IInv, TypeOK, Ordered, Releases, PendingWrites, At, Manner
<1>. QED  BY <1>1, <1>2, <1>3 DEF LocksNext, Step

\* An orderly thread that holds a lock and wants another wants a larger one.
LEMMA HoldersWantMore ==
    ASSUME IInv, NEW u \in Threads \ disorderly, prog[u] # <<>>, Head(prog[u]).op = "Lock", NEW l \in LockNames,
           u \in readers[l] \/ u = writer[l]
    PROVE  Rank(Head(prog[u]).lock) > Rank(l)
<1>1. PICK mode \in Modes : Released(prog[u], 1, l, mode)
  BY DEF IInv, Releases, Modes, Frees, Manner
<1>2. PICK k \in 1 .. Len(prog[u]) :
            /\ prog[u][k] = Instr("Unlock", l, mode)
            /\ \A j \in 1 .. k - 1 : prog[u][j].op = "Lock" => Rank(prog[u][j].lock) > Rank(l)
  BY <1>1 DEF Released
<1>3. Head(prog[u]) = prog[u][1]
  BY HeadTailProperties DEF IInv, TypeOK
<1>4. k # 1
  BY <1>2, <1>3, InstrFields
<1>5. 1 \in 1 .. k - 1
  BY <1>4
<1>. QED  BY <1>2, <1>3, <1>5

\* One of four ranks is the largest, however many threads there are.
LEMMA Largest ==
    ASSUME NEW T, T # {}, NEW f \in [T -> 1 .. 4]
    PROVE  \E t \in T : \A u \in T : f[u] <= f[t]
<1>1. \A u \in T : f[u] = 1 \/ f[u] = 2 \/ f[u] = 3 \/ f[u] = 4
  OBVIOUS
<1>2. ASSUME NEW t \in T, f[t] = 4 PROVE \A u \in T : f[u] <= f[t]
  BY <1>1, <1>2
<1>3. ASSUME NEW t \in T, f[t] = 3, \A u \in T : f[u] # 4 PROVE \A u \in T : f[u] <= f[t]
  BY <1>1, <1>3
<1>4. ASSUME NEW t \in T, f[t] = 2, \A u \in T : f[u] # 4 /\ f[u] # 3 PROVE \A u \in T : f[u] <= f[t]
  BY <1>1, <1>4
<1>5. ASSUME NEW t \in T, \A u \in T : f[u] # 4 /\ f[u] # 3 /\ f[u] # 2 PROVE \A u \in T : f[u] <= f[t]
  BY <1>1, <1>5
<1>. QED  BY <1>1, <1>2, <1>3, <1>4, <1>5

\* No set of orderly threads waits for itself.
LEMMA NoCycle == IInv => OrderPreventsDeadlock
<1>. SUFFICES ASSUME IInv, NEW T \in SUBSET Threads, T # {}, T \cap disorderly = {},
                     \A t \in T : BlockedBy(t) \cap T # {}
              PROVE  FALSE
  BY DEF OrderPreventsDeadlock, Deadlocked
<1>. DEFINE Wants(t) == Head(prog[t]).lock
<1>1. ASSUME NEW t \in T
      PROVE  /\ prog[t] # <<>> /\ Head(prog[t]).op = "Lock" /\ Wants(t) \in LockNames
             /\ Rank(Wants(t)) \in 1 .. 4
  <2>1. prog[t] # <<>> /\ Head(prog[t]).op # "Unlock"
    BY DEF BlockedBy
  <2>2. Head(prog[t]) \in Instrs
    BY <2>1, HeadTailProperties DEF IInv, TypeOK
  <2>. QED  BY <2>1, <2>2, Ranks DEF Instrs
<1>2. PICK t \in T : \A u \in T : Rank(Wants(u)) <= Rank(Wants(t))
  <2>1. PICK f : f = [u \in T |-> Rank(Wants(u))]
    OBVIOUS
  <2>2. f \in [T -> 1 .. 4]
    BY <1>1, <2>1
  <2>3. \E s \in T : \A u \in T : f[u] <= f[s]
    BY <2>2, Largest
  <2>. QED  BY <2>1, <2>3
<1>3. PICK l \in LockNames : l = Wants(t)
  BY <1>1
<1>4. ASSUME NEW u \in T, u \in readers[l] \/ u = writer[l] PROVE FALSE
  <2>1. Rank(Wants(u)) > Rank(l)
    BY <1>1, <1>4, HoldersWantMore
  <2>. QED  BY <1>1, <1>2, <1>3, <2>1
<1>5. ASSUME NEW u \in T, Wants(u) = l
      PROVE  \E v \in T : v = pending[l] /\ v # u
  <2>1. PICK v \in T : v \in BlockedBy(u)
    OBVIOUS
  <2>2. v \in readers[l] \/ v = writer[l] \/ (v = pending[l] /\ v # u)
    BY <1>5, <2>1 DEF BlockedBy
  <2>. QED  BY <1>4, <2>2
<1>6. PICK v \in T : v = pending[l] /\ v # t
  BY <1>3, <1>5
<1>7. Wants(v) = l
  BY <1>6, AtInstr DEF IInv, PendingWrites, Modes
<1>. QED  BY <1>5, <1>6, <1>7

\* OrderPreventsDeadlock: however many threads call whatever operations of the API on however
\* many sessions, threads that wait for each other include one that runs received_x3_trans,
\* respond_to_challenge or a drop inside service (zssp.rs:60, zeta.rs:46).
THEOREM OrderPreventsDeadlockHolds == LocksSpec => []OrderPreventsDeadlock
<1>1. IInv /\ [LocksNext]_locksVars => IInv'
  BY StepIInv
<1>. QED  BY <1>1, InitIInv, NoCycle, PTL DEF LocksSpec

=============================================================================
