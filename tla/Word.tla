-------------------------------- MODULE Word --------------------------------
(***************************************************************************)
(* Counters are machine words (u64) and wrap around.                       *)
(***************************************************************************)
EXTENDS Naturals

CONSTANT Modulus   \* number of values of a counter: 2^64 in the code

\* counter.wrapping_add(1), and AtomicU64::fetch_add(1)
WrappingSucc(c) == IF c = Modulus - 1 THEN 0 ELSE c + 1

\* The sum of two words.
WrappingAdd(a, b) == IF a + b < Modulus THEN a + b ELSE a + b - Modulus

=============================================================================
