------------------------------ MODULE MontProd ------------------------------
(***************************************************************************)
(* The Montgomery product of the C model of the modexp core,               *)
(* src/core/math/modexp/src/model/c/src/montgomery_array.c, one bit of the *)
(* multiplier per step.  An array of words is the number it stands for,    *)
(* and arithmetic on arrays wraps around at Base; what the words do is in  *)
(* BigNum.                                                                 *)
(***************************************************************************)
EXTENDS Integers

CONSTANT Base  \* two to the number of bits of an array, 32 for each word

ASSUME BaseAssumption == Base \in Nat \ {0}

VARIABLES
    A, B, M,  \* the factors and the modulus
    s,        \* the sum so far, and at the end the product
    rest,     \* B without the bits that have been looked at
    pow,      \* the weight of the bit of B that is looked at next
    qsum      \* the multiple of M that has been added (only for the proofs)

prodVars == <<A, B, M, s, rest, pow, qsum>>

\* add_array and shift_right_1_array, on the numbers.
Add(a, b) == (a + b) % Base

\* Mutant of Halve: the sum is left as it was.
HalveNot(a) == a

Halve(a) == a \div 2

\* The call: zero_array(s), and the loops over words and bits begin.
Begin(a, b) ==
    /\ A' = a /\ B' = b
    /\ s' = 0 /\ rest' = b /\ pow' = 1 /\ qsum' = 0
    /\ UNCHANGED M

\* The next bit of B.
b_bit == rest % 2

\* Mutant of q_bit: the parity of the sum before b * A is added.
q_bit_early == s % 2

\* Whether M must be added for the sum to be even: the exclusive or of the
\* last bits of s and b * A.
q_bit == (s + b_bit * A) % 2

PlusM == IF q_bit = 1 THEN Add(s, M) ELSE s
PlusA == IF b_bit = 1 THEN Add(PlusM, A) ELSE PlusM

\* Mutant of ProdBit: the loop takes one bit too many.
ProdBit_long ==
    /\ pow <= Base
    /\ s' = Halve(PlusA)
    /\ rest' = rest \div 2
    /\ pow' = 2 * pow
    /\ qsum' = qsum + q_bit * pow
    /\ UNCHANGED <<A, B, M>>

\* One bit: s = (s + q * M + b * A) >> 1.
ProdBit ==
    /\ pow < Base
    /\ s' = Halve(PlusA)
    /\ rest' = rest \div 2
    /\ pow' = 2 * pow
    /\ qsum' = qsum + q_bit * pow
    /\ UNCHANGED <<A, B, M>>

Finished == pow >= Base

-----------------------------------------------------------------------------
(* The product on its own: any factors with an odd modulus that leave room *)
(* for the sum of the four terms.                                          *)

Room(a, m) == 2 * (a + m) <= Base

ProdInit ==
    /\ A \in Nat /\ B \in 0 .. Base - 1 /\ M \in Nat
    /\ M % 2 = 1 /\ Room(A, M)
    /\ s = 0 /\ rest = B /\ pow = 1 /\ qsum = 0

ProdSpec == ProdInit /\ [][ProdBit]_prodVars

\* The sums that a step forms fit the array: no carry out of the first word
\* is lost, which add_array would not notice.
SumsFit == s + M + A < Base

\* After each bit the sum is the partial product, a multiple of M away, and
\* divided by the weight: the division by two was exact every time.
PartialProduct == pow * s = (B - rest * pow) * A + qsum * M

\* In the end the weight times the result is A * B modulo M, which is what
\* mont_prod_array is for.
ProductIsMontgomery == Finished => pow * s = A * B + qsum * M
=============================================================================
