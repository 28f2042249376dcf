------------------------------- MODULE Window -------------------------------
(***************************************************************************)
(* The counter window of performance/src/antireplay.rs: an array of L      *)
(* atomic slots, slot i holding one more than the largest counter of the   *)
(* residue class i that was recorded, and 0 when there is none.  Counters  *)
(* are machine words that wrap at Modulus (2^64 in the code).              *)
(***************************************************************************)
EXTENDS Word

CONSTANTS
    L,        \* number of slots: COUNTER_WINDOW_MAX_OOO, CHALLENGE_COUNTER_WINDOW_MAX_OOO
    MAX       \* largest step ahead a slot accepts: COUNTER_WINDOW_MAX_SKIP_AHEAD, u64::MAX

ASSUME WindowAssumption == L \in Nat \ {0} /\ MAX \in Nat /\ Modulus \in Nat \ {0}

Counters == 0 .. Modulus - 1
Windows == [0 .. L - 1 -> Counters]
NewWindow == [i \in 0 .. L - 1 |-> 0]

\* Mutant: the array is indexed as if it were one slot shorter.
Slot_Shorter(c) == IF L = 1 THEN 0 ELSE c % (L - 1)

\* The slot of counter c.
Slot(c) == c % L

\* The verdict both functions end with, on the slot's value prev.
Accepts(prev, c) == prev < WrappingSucc(c) /\ WrappingSucc(c) - prev <= MAX

\* Window::check, an atomic load.
Check(w, c) == Accepts(w[Slot(c)], c)

\* What Window::update leaves in the array, an atomic fetch_max; its verdict is Check(w, c).
Update(w, c) == [w EXCEPT ![Slot(c)] = IF @ < WrappingSucc(c) THEN WrappingSucc(c) ELSE @]

=============================================================================
