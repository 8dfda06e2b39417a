------------------------------- MODULE ModExp -------------------------------
(***************************************************************************)
(* Modular exponentiation in the C model of the modexp core,               *)
(* src/core/math/modexp/src/model/c/src/montgomery_array.c: the residue of *)
(* 2^2N by shifts and subtractions, and the square-and-multiply loop over  *)
(* the bits of the exponent, every product computed bit by bit (MontProd). *)
(* The result must be what exponentiation means; there is no other check   *)
(* in the code.                                                            *)
(***************************************************************************)
EXTENDS MontProd, BigNum

CONSTANT Problems  \* records [x, e, m] of message, exponent and modulus

N == WordBits * Length

ASSUME BaseIsTheArray == Base = Power(2, N)

ASSUME ProblemsAssumption == \A p \in Problems : {p.x, p.e, p.m} \subseteq Nat

\* The modulus is odd and leaves room for the sums, the message is reduced.
Solvable(p) == p.m % 2 = 1 /\ p.x < p.m /\ 6 * p.m <= Base /\ p.e < Base

VARIABLES
    X, E,      \* message and exponent
    all_bits,  \* mont_exp_array2: loop over all bits of the exponent
    Nr, temp,  \* the residue, and the multiple of M subtracted from it
    P, Z,      \* the powers and the result
    i,         \* the loop counters
    stage,     \* where mont_exp_array is
    after      \* which product is being computed

expVars == <<X, E, all_bits, Nr, temp, P, Z, i, stage, after>>
vars    == <<prodVars, expVars>>
inputs  == <<X, E, all_bits>>

Init ==
    /\ \E p \in {q \in Problems : Solvable(q)} : X = p.x /\ E = p.e /\ M = p.m
    /\ all_bits \in BOOLEAN
    /\ A = 0 /\ B = 0 /\ s = 0 /\ rest = 0 /\ pow = 1 /\ qsum = 0
    /\ Nr = 1 /\ temp = 0 /\ P = 0 /\ Z = 0 /\ i = 0
    /\ stage = "residue" /\ after = "none"

-----------------------------------------------------------------------------
(* m_residue_2_2N_array with modulus_array: Nr = 2^2N mod M.               *)

Double(a) == (2 * a) % Base

ShiftResidue ==
    /\ stage = "residue" /\ i < 2 * N
    /\ Nr' = Double(Nr)
    /\ stage' = "reduce"
    /\ UNCHANGED <<prodVars, inputs, temp, P, Z, i, after>>

\* The outer loop of modulus_array, which ends below the modulus.
Reduce ==
    /\ stage = "reduce"
    /\ IF M > Nr
       THEN stage' = "residue" /\ i' = i + 1 /\ UNCHANGED temp
       ELSE stage' = "subtract" /\ temp' = M /\ UNCHANGED i
    /\ UNCHANGED <<prodVars, inputs, Nr, P, Z, after>>

\* Mutant of TopBitClear: two bits too low.
TopBitClear_low(n) == n < Base \div 8

\* temp can be doubled without losing its highest bit.
TopBitClear(n) == n < Base \div 2

\* The inner loop: the modulus, its double, and so on are subtracted.
Subtract ==
    /\ stage = "subtract"
    /\ IF TopBitClear(temp) /\ temp <= Nr
       THEN /\ Nr' = (Nr - temp) % Base
            /\ temp' = Double(temp)
            /\ UNCHANGED stage
       ELSE stage' = "reduce" /\ UNCHANGED <<Nr, temp>>
    /\ UNCHANGED <<prodVars, inputs, P, Z, i, after>>

-----------------------------------------------------------------------------
(* mont_exp_array and mont_exp_array2.                                     *)

Call(which, a, b) ==
    /\ Begin(a, b)
    /\ after' = which /\ stage' = "product"

\* Z0 = MontProd(1, Nr).
ResidueReturns ==
    /\ stage = "residue" /\ i = 2 * N
    /\ Call("Z0", 1, Nr)
    /\ UNCHANGED <<inputs, Nr, temp, P, Z, i>>

Product ==
    /\ stage = "product" /\ ProdBit
    /\ UNCHANGED expVars

Returns(which) == stage = "product" /\ Finished /\ after = which

\* P0 = MontProd(X, Nr).
Z0Returns ==
    /\ Returns("Z0")
    /\ Z' = s
    /\ Call("P0", X, Nr)
    /\ UNCHANGED <<inputs, Nr, temp, P, i>>

P0Returns ==
    /\ Returns("P0")
    /\ P' = s /\ i' = 0 /\ stage' = "loop"
    /\ UNCHANGED <<prodVars, inputs, Nr, temp, Z, after>>

n == IF all_bits THEN N ELSE findN(Words(E))

\* The head of the loop: multiply for a one, square in any case, and leave
\* through MontProd(1, Z).
Loop ==
    /\ stage = "loop"
    /\ \/ i < n /\ BitOf(Words(E), i) = 1 /\ Call("multiply", Z, P)
       \/ i < n /\ BitOf(Words(E), i) # 1 /\ Call("square", P, P)
       \/ i >= n /\ Call("final", 1, Z)
    /\ UNCHANGED <<inputs, Nr, temp, P, Z, i>>

MultiplyReturns ==
    /\ Returns("multiply")
    /\ Z' = s
    /\ Call("square", P, P)
    /\ UNCHANGED <<inputs, Nr, temp, P, i>>

\* Mutant of SquareReturns: the square is not copied back.
SquareReturns_dropped ==
    /\ Returns("square")
    /\ i' = i + 1 /\ stage' = "loop"
    /\ UNCHANGED <<prodVars, inputs, Nr, temp, P, Z, after>>

SquareReturns ==
    /\ Returns("square")
    /\ P' = s /\ i' = i + 1 /\ stage' = "loop"
    /\ UNCHANGED <<prodVars, inputs, Nr, temp, Z, after>>

FinalReturns ==
    /\ Returns("final")
    /\ Z' = s /\ stage' = "done"
    /\ UNCHANGED <<prodVars, inputs, Nr, temp, P, i, after>>

Next ==
    \/ ShiftResidue \/ Reduce \/ Subtract \/ ResidueReturns
    \/ Product
    \/ Z0Returns \/ P0Returns \/ Loop \/ MultiplyReturns \/ SquareReturns \/ FinalReturns

\* A sequential program that is not stopped.
Spec == Init /\ [][Next]_vars /\ WF_vars(Next)

-----------------------------------------------------------------------------
(* Properties.                                                             *)

Stages == {"residue", "reduce", "subtract", "product", "loop", "done"}
Calls  == {"none", "Z0", "P0", "multiply", "square", "final"}

ModExpTypeOK ==
    /\ {A, B, s, rest, Nr, temp, P, Z} \subseteq 0 .. Base - 1
    /\ pow \in 1 .. Base
    /\ i \in 0 .. 2 * N
    /\ stage \in Stages /\ after \in Calls

\* No carry is lost in any of the products, whatever was multiplied before:
\* results are not reduced below M, only below 2 * M.
NothingOverflows ==
    /\ SumsFit
    /\ after # "none" => {P, Z} \subseteq 0 .. 2 * M - 1

\* Powers modulo the modulus, by definition.
PowerMod(x, e, m) ==
    LET power[k \in 0 .. e] == IF k = 0 THEN 1 % m ELSE (power[k - 1] * x) % m
    IN  power[e]

\* A number in Montgomery form: v is f times 2^N.
InForm(v, f) == v % M = (f * Base) % M

\* At the head of the loop Z is the power for the bits seen, and P the power
\* for the bit that comes next.
LoopInvariant ==
    stage = "loop" =>
        /\ InForm(Z, PowerMod(X, E % Power(2, i), M))
        /\ InForm(P, PowerMod(X, Power(2, i), M))

\* The result is X^E mod M, except that M may stand for 0.
ResultIsPower ==
    stage = "done" => Z % M = PowerMod(X, E, M) /\ Z <= M

\* What the words of the arrays do is what the numbers do.
WordArithmetic ==
    /\ Value(add_array(Words(s), Words(M))) = Add(s, M)
    /\ Value(add_array(Words(s), Words(A))) = Add(s, A)
    /\ Value(sub_array(Words(Nr), Words(temp))) = (Nr - temp) % Base
    /\ Value(shift_right_1_array(Words(s))) = Halve(s)
    /\ Value(shift_left_1_array(Words(Nr))) = Double(Nr)
    /\ greater_than_array(Words(temp), Words(Nr)) <=> temp > Nr
    /\ greater_than_array(Words(M), Words(Nr)) <=> M > Nr

\* The exponentiation ends: both loops of modulus_array do, for a modulus
\* whose first bit is clear.
Terminates == <>(stage = "done")
=============================================================================
