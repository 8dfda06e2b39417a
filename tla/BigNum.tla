------------------------------- MODULE BigNum -------------------------------
(***************************************************************************)
(* Arithmetic on arrays of words, the most significant word first,         *)
(* src/core/math/modexp/src/model/c/src/bignum_uint32_t.c.                 *)
(***************************************************************************)
EXTENDS Integers, FiniteSets

CONSTANTS
    WordBits,  \* bits of a word, 32 in the code
    Length     \* words of an array

ASSUME ArrayAssumption == WordBits \in Nat \ {0} /\ Length \in Nat \ {0}

\* b to the k, by recursion: the provers do not know ^.
Power(b, k) == LET power[j \in 0 .. k] == IF j = 0 THEN 1 ELSE b * power[j - 1]
               IN  power[k]

WordBase == Power(2, WordBits)
Places   == 1 .. Length

\* The number an array stands for, and the array of a number.
Weight(j) == Power(WordBase, Length - j)
Value(a) ==
    LET upTo[j \in 0 .. Length] == IF j = 0 THEN 0 ELSE upTo[j - 1] * WordBase + a[j]
    IN  upTo[Length]
Words(n) == [j \in Places |-> (n \div Weight(j)) % WordBase]

\* Mutant of Sum: the carry is lost.
SumNoCarry(a, b, carry0) ==
    [j \in Places |-> (a[j] + b[j] + (IF j = Length THEN carry0 ELSE 0)) % WordBase]

\* Words are added from the last to the first; the last carry is dropped.
Sum(a, b, carry0) ==
    LET carry[k \in 0 .. Length] ==
            IF k = 0 THEN carry0
            ELSE (a[Length - k + 1] + b[Length - k + 1] + carry[k - 1]) \div WordBase
    IN  [j \in Places |-> (a[j] + b[j] + carry[Length - j]) % WordBase]

add_array(a, b) == Sum(a, b, 0)
sub_array(a, b) == Sum(a, [j \in Places |-> WordBase - 1 - b[j]], 1)

shift_right_1_array(a) ==
    [j \in Places |-> (a[j] \div 2)
        + (IF j > 1 THEN (a[j - 1] % 2) ELSE 0) * (WordBase \div 2)]

shift_left_1_array(a) ==
    [j \in Places |-> ((a[j] * 2) % WordBase)
        + (IF j < Length THEN a[j + 1] \div (WordBase \div 2) ELSE 0)]

greater_than_array(a, b) ==
    \E k \in Places : a[k] > b[k] /\ \A j \in 1 .. k - 1 : a[j] = b[j]

\* Bit number i from the right.
BitOf(a, i) == (a[Length - (i \div WordBits)] \div Power(2, i % WordBits)) % 2

\* Mutant of findN: the place of the highest bit instead of their number.
findN_last(a) ==
    LET ones == {i \in 0 .. WordBits * Length - 1 : BitOf(a, i) = 1}
    IN  IF ones = {} THEN 0 ELSE CHOOSE n \in ones : \A i \in ones : i <= n

\* Bits of the number without its leading zeros.
findN(a) ==
    LET ones == {i \in 0 .. WordBits * Length - 1 : BitOf(a, i) = 1}
    IN  IF ones = {} THEN 0 ELSE 1 + CHOOSE n \in ones : \A i \in ones : i <= n
=============================================================================
