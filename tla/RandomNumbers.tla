---------------------------- MODULE RandomNumbers ----------------------------
(***************************************************************************)
(* The pseudo-random numbers of the tests (util/random.hpp): a seed in 31  *)
(* bits, multiplied modulo 2^31 - 1 without a division.                    *)
(*                                                                         *)
(* The names carry the component's, so that a module may extend several.   *)
(***************************************************************************)
EXTENDS Naturals, FiniteSets

CONSTANTS
  HighBit,     \* 2^31 in the code: a shift by 31 bits divides by it
  A,           \* the multiplier, 16807 in the code
  MaxDraws     \* bound: numbers drawn

VARIABLES
  seed_,       \* 0 before the constructor has run
  drawn,       \* the numbers drawn so far
  draws        \* how often

randomVars == <<seed_, drawn, draws>>

(* seed_ is a uint32_t, one bit wider than M.                              *)
M == HighBit - 1
Word == 2 * HighBit

ASSUME RandomAssumption ==
  HighBit \in Nat /\ HighBit > 2 /\ A \in 1..M - 1 /\ MaxDraws \in Nat

(* Powers of A modulo M.                                                   *)
Power[n \in 0..M - 1] == IF n = 0 THEN 1 ELSE (Power[n - 1] * A) % M

(* What the choice of the two numbers gives: 2^31 - 1 is a prime, and 16807*)
(* is one of its primitive roots (random.hpp:24-29).                       *)
ASSUME PrimitiveRoot ==
  /\ \A x, y \in 1..M - 1 : (x * y) % M # 0
  /\ \A n \in 1..M - 2 : Power[n] # 1

RandomInit ==
  /\ seed_ = 0
  /\ drawn = {}
  /\ draws = 0

(* Mutant: M is not avoided.                                               *)
GoodSeedNotZero(s) == IF s % HighBit = 0 THEN 1 ELSE s % HighBit

GoodSeed(s) == IF s % HighBit \in {0, M} THEN 1 ELSE s % HighBit

(* The constructor.                                                        *)
NewRandom(s) ==
  /\ seed_ = 0
  /\ seed_' = GoodSeed(s)
  /\ UNCHANGED <<drawn, draws>>

(* Mutant: the second reduction is left out.                               *)
NextSeedOnce(seed) == ((seed * A) \div HighBit + ((seed * A) % HighBit)) % Word

NextSeed(seed) ==
  LET product == seed * A
      reduced == (product \div HighBit + (product % HighBit)) % Word IN
  IF reduced > M THEN reduced - M ELSE reduced

(* Next, and Uniform with it.                                              *)
NextNumber ==
  /\ seed_ # 0
  /\ draws < MaxDraws
  /\ seed_' = NextSeed(seed_)
  /\ drawn' = drawn \cup {seed_'}
  /\ draws' = draws + 1

(* Skewed asks Uniform for a number of bits and then for the bits.         *)
Skewed ==
  /\ seed_ # 0
  /\ draws + 1 < MaxDraws
  /\ seed_' = NextSeed(NextSeed(seed_))
  /\ drawn' = drawn \cup {NextSeed(seed_), seed_'}
  /\ draws' = draws + 2

RandomNext ==
  \/ \E s \in 0..Word - 1 : NewRandom(s)
  \/ NextNumber
  \/ Skewed

RandomSpec == RandomInit /\ [][RandomNext]_randomVars

-----------------------------------------------------------------------------
(* Whatever the generator was constructed with, no number comes twice      *)
(* before every number from 1 to M - 1 has come: seed_ "will end up cycling*)
(* through every number in [1, M-1]" (random.hpp:28), which is lost as soon*)
(* as one reduction goes wrong or the seed is 0 or M.                      *)
FullPeriod ==
  /\ drawn \subseteq 1..M - 1
  /\ Cardinality(drawn) = IF draws < M - 1 THEN draws ELSE M - 1
=============================================================================
