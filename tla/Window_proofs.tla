--------------------------- MODULE Window_proofs ----------------------------
(***************************************************************************)
(* Facts about the counter window that both of its users rest on, for      *)
(* every window size, skip bound and word size.                            *)
(***************************************************************************)
EXTENDS Window, TLAPS

\* A counter falls in a slot of the array.
LEMMA SlotInRange == \A c \in Counters : Slot(c) \in 0 .. L - 1
  BY WindowAssumption DEF Slot, Counters

\* A counter is its quotient by L, times L, plus its slot.
LEMMA Division ==
    ASSUME NEW c \in Nat
    PROVE  /\ c \div L \in Nat
           /\ c = L * (c \div L) + Slot(c)
  BY WindowAssumption DEF Slot

\* A larger factor makes the product larger by L at least.
LEMMA Multiples ==
    ASSUME NEW p \in Nat, NEW q \in Nat, q + 1 <= p
    PROVE  L * p >= L * q + L
<1>1. PICK k \in Nat : p = q + 1 + k
  <2>1. p - (q + 1) \in Nat /\ p = q + 1 + (p - (q + 1))
    OBVIOUS
  <2>. QED  BY <2>1
<1>2. L * p = L * q + L + L * k
  BY <1>1, WindowAssumption
<1>3. L * k \in Nat /\ L * q \in Nat
  BY WindowAssumption
<1>. QED  BY <1>2, <1>3, WindowAssumption

\* Two counters of one slot that differ are at least L apart.
LEMMA SameSlotApart ==
    ASSUME NEW c \in Counters, NEW d \in Counters, Slot(c) = Slot(d), c < d
    PROVE  d >= c + L
<1>. DEFINE q == c \div L
            p == d \div L
            s == Slot(c)
<1>1. c \in Nat /\ d \in Nat
  BY WindowAssumption DEF Counters
<1>2. q \in Nat /\ p \in Nat /\ s \in Nat
  <2>1. q \in Nat /\ p \in Nat
    BY <1>1, Division
  <2>2. s \in 0 .. L - 1
    BY SlotInRange
  <2>. QED  BY <2>1, <2>2, WindowAssumption
<1>3. c = L * q + s /\ d = L * p + s
  BY <1>1, Division
<1>. HIDE DEF q, p, s
<1>4. CASE p <= q
  <2>1. p = q \/ p + 1 <= q
    BY <1>2, <1>4
  <2>2. CASE p = q
    BY <2>2, <1>3, <1>1
  <2>3. CASE p + 1 <= q
    <3>1. L * q >= L * p + L
      BY <2>3, <1>2, Multiples
    <3>2. L * q \in Nat /\ L * p \in Nat
      BY <1>2, WindowAssumption
    <3>. QED  BY <3>1, <3>2, <1>2, <1>3, <1>1, WindowAssumption
  <2>. QED  BY <2>1, <2>2, <2>3
<1>5. CASE q + 1 <= p
  <2>1. L * p >= L * q + L
    BY <1>5, <1>2, Multiples
  <2>2. L * q \in Nat /\ L * p \in Nat
    BY <1>2, WindowAssumption
  <2>. QED  BY <2>1, <2>2, <1>2, <1>3, <1>1, WindowAssumption
<1>. QED  BY <1>2, <1>4, <1>5

\* What update leaves in the array is a window.
LEMMA UpdateType ==
    ASSUME NEW w \in Windows, NEW c \in Counters
    PROVE  Update(w, c) \in Windows
<1>1. Slot(c) \in 0 .. L - 1
  BY SlotInRange
<1>2. WrappingSucc(c) \in Counters
  BY WindowAssumption DEF WrappingSucc, Counters
<1>. QED  BY <1>1, <1>2 DEF Update, Windows

\* No slot ever decreases, and the slot of a recorded counter is above it.
LEMMA UpdateGrows ==
    ASSUME NEW w \in Windows, NEW c \in Counters
    PROVE  /\ \A k \in 0 .. L - 1 : /\ w[k] \in Nat /\ Update(w, c)[k] \in Nat
                                   /\ w[k] <= Update(w, c)[k]
           /\ \A k \in 0 .. L - 1 : k # Slot(c) => Update(w, c)[k] = w[k]
           /\ c # Modulus - 1 =>
                /\ Update(w, c)[Slot(c)] > c
                /\ Update(w, c)[Slot(c)] = c + 1 \/ Update(w, c)[Slot(c)] = w[Slot(c)]
<1>1. Slot(c) \in 0 .. L - 1 /\ c \in Nat /\ WrappingSucc(c) \in Nat
  BY SlotInRange, WindowAssumption DEF WrappingSucc, Counters
<1>2. \A k \in 0 .. L - 1 : w[k] \in Nat
  BY WindowAssumption DEF Windows, Counters
<1>3. \A k \in 0 .. L - 1 : Update(w, c)[k] =
        IF k = Slot(c) /\ w[k] < WrappingSucc(c) THEN WrappingSucc(c) ELSE w[k]
  BY <1>1 DEF Update, Windows
<1>4. c # Modulus - 1 => WrappingSucc(c) = c + 1
  BY DEF WrappingSucc
<1>. QED  BY <1>1, <1>2, <1>3, <1>4

=============================================================================
