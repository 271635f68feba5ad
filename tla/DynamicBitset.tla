---------------------------- MODULE DynamicBitset ----------------------------
(***************************************************************************)
(* DynamicBitset (include/matching/bitset.h): bit b is bit b % WordBits of *)
(* word b \div WordBits.  A word is the set of the positions that are 1 in *)
(* it, so that counting leading or trailing zeros is a maximum or minimum. *)
(***************************************************************************)
EXTENDS Integers, FiniteSetsExt

CONSTANTS
  MaxLevels,   \* num_bits_, which for a ladder is its number of levels
  WordBits     \* bits in a word: 64 in the code

ASSUME BitsetAssumption == MaxLevels \in Nat \ {0} /\ WordBits \in Nat \ {0}

Levels == 0 .. MaxLevels - 1

\* num_words_, rounded up: the last word may have bits that stand for no level.
Words == 0 .. ((MaxLevels + WordBits - 1) \div WordBits) - 1

NoBits == [w \in Words |-> {}]

SetBit(data, bit) ==
  IF bit \in Levels THEN [data EXCEPT ![bit \div WordBits] = @ \cup {bit % WordBits}]
  ELSE data

ClearBit(data, bit) ==
  IF bit \in Levels THEN [data EXCEPT ![bit \div WordBits] = @ \ {bit % WordBits}]
  ELSE data

Test(data, bit) == bit \in Levels /\ bit % WordBits \in data[bit \div WordBits]

\* The words are searched for one that is not 0, from the end or from the start.
NonZero(data) == {w \in Words : data[w] # {}}

FindHighestFromStart(data) ==
  IF NonZero(data) = {} THEN -1
  ELSE Min(NonZero(data)) * WordBits + Max(data[Min(NonZero(data))])

FindHighestPlusOne(data) ==
  IF NonZero(data) = {} THEN -1
  ELSE Max(NonZero(data)) * WordBits + Max(data[Max(NonZero(data))]) + 1

FindHighest(data) ==
  IF NonZero(data) = {} THEN -1
  ELSE Max(NonZero(data)) * WordBits + Max(data[Max(NonZero(data))])

FindLowest(data) ==
  IF NonZero(data) = {} THEN -1
  ELSE Min(NonZero(data)) * WordBits + Min(data[Min(NonZero(data))])

-----------------------------------------------------------------------------
\* Words of the right width, in which no bit beyond the last level is set.
BitArrays ==
  {data \in [Words -> SUBSET (0 .. WordBits - 1)] :
     \A w \in Words : \A b \in data[w] : w * WordBits + b \in Levels}

SetBits(data) == {bit \in Levels : Test(data, bit)}
=============================================================================
