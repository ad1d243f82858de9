---------------------------- MODULE ByteHistogram -----------------------------
(***************************************************************************)
(* The byte counts of compute_entropy (src/util.h).  They are kept in a    *)
(* std::vector<uint8_t>, so each wraps at 2^8 (CountMod here), and the     *)
(* entropy sums over the bytes whose count is not zero.  The logarithms    *)
(* are left out: what is checked is which probabilities they are given.    *)
(***************************************************************************)
EXTENDS Integers, FiniteSets

CONSTANTS
  Byte,       \* values of a byte
  CountMod,   \* where a uint8_t count wraps
  MaxSize     \* bound: bytes of the largest memory

ASSUME HistogramAssumption ==
  /\ IsFiniteSet(Byte)
  /\ CountMod \in Nat \ {0}
  /\ MaxSize \in Nat

VARIABLES
  size,             \* the argument size
  mem,              \* the argument mem
  i,                \* bytes counted
  probablilities,   \* the counts
  stage             \* "count" or "sum"

countVars == <<size, mem, i, probablilities, stage>>

CountInit ==
  /\ size \in 1 .. MaxSize
  /\ mem \in [0 .. size - 1 -> Byte]
  /\ i = 0
  /\ probablilities = [b \in Byte |-> 0]
  /\ stage = "count"

\* ++probablilities[byte]
IncrementedBug(n) == IF n = CountMod - 1 THEN n ELSE n + 1
Incremented(n) == (n + 1) % CountMod

CountByte ==
  /\ stage = "count"
  /\ i < size
  /\ probablilities' = [probablilities EXCEPT ![mem[i]] = Incremented(@)]
  /\ i' = i + 1
  /\ UNCHANGED <<size, mem, stage>>

CountDone ==
  /\ stage = "count"
  /\ i = size
  /\ stage' = "sum"
  /\ UNCHANGED <<size, mem, i, probablilities>>

CountNext == CountByte \/ CountDone

CountSpec == CountInit /\ [][CountNext]_countVars

-------------------------------------------------------------------------------

CountTypeOK ==
  /\ size \in 1 .. MaxSize
  /\ mem \in [0 .. size - 1 -> Byte]
  /\ i \in 0 .. size
  /\ probablilities \in [Byte -> 0 .. CountMod - 1]
  /\ stage \in {"count", "sum"}

Occurrences(b) == {j \in 0 .. i - 1 : mem[j] = b}

(* Every count is the number of occurrences modulo the width of uint8_t:   *)
(* the histogram is exact as long as no byte occurs 2^8 times, and all     *)
(* that a larger memory loses is whole multiples of 2^8.                   *)
CountsModulo ==
  \A b \in Byte : probablilities[b] = Cardinality(Occurrences(b)) % CountMod

(* "Compute Shannon entropy" (util.h:97): the sum has a term for each byte *)
(* that occurs in the memory, with its frequency as the probability.       *)
ShannonProbabilities ==
  stage = "sum" => \A b \in Byte : probablilities[b] = Cardinality(Occurrences(b))
===============================================================================
