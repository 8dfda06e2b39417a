---------------------------- MODULE ModExpProofs ----------------------------
(***************************************************************************)
(* The Montgomery product and the exponentiation, for arrays of every      *)
(* length: no sum overflows, every halving is exact, the product is that   *)
(* of the factors modulo the modulus, up to the power of two, the result   *)
(* is the power, and the arrays of words compute the numbers.              *)
(***************************************************************************)
EXTENDS ModExp, BigNumProofs

-----------------------------------------------------------------------------
(* One product.                                                            *)

\* Types, and what never changes during a product.
ProdTypes ==
    /\ A \in Nat /\ B \in Nat /\ M \in Nat /\ s \in Nat
    /\ rest \in Nat /\ pow \in Nat /\ qsum \in Nat

Fixed == B < Base /\ M % 2 = 1 /\ 2 * (A + M) <= Base

\* The inductive invariant: the sum stays below M + A, the bits not looked at
\* are those above the weight, and the sum is the partial product.
Below    == s < M + A
RestOfB  == pow >= 1 /\ rest * pow <= B
IInv     == ProdTypes /\ Fixed /\ Below /\ RestOfB /\ PartialProduct

\* A number is its half, twice, and its last bit.
LEMMA HalfAndBit ==
    ASSUME NEW k \in Nat
    PROVE  /\ k \div 2 \in Nat /\ k % 2 \in {0, 1}
           /\ k = 2 * (k \div 2) + (k % 2)
  OBVIOUS

\* The product of two naturals is one.
LEMMA ProductOfNaturals ==
    ASSUME NEW k \in Nat, NEW l \in Nat
    PROVE  k * l \in Nat
  OBVIOUS

\* The sum before the halving, as a number: no carry is lost and it is even.
LEMMA SumIsExact ==
    ASSUME ProdTypes, Fixed, Below
    PROVE  /\ q_bit \in {0, 1} /\ b_bit \in {0, 1}
           /\ PlusA = s + q_bit * M + b_bit * A
           /\ PlusA % 2 = 0
           /\ PlusA < 2 * (M + A)
<1>1. A \in Nat /\ M \in Nat /\ s \in Nat /\ rest \in Nat /\ Base \in Nat
  BY BaseAssumption DEF ProdTypes
<1>2. b_bit \in {0, 1} /\ q_bit \in {0, 1}
  BY <1>1 DEF b_bit, q_bit
<1>3. s + M + A < Base /\ s < M + A /\ M % 2 = 1
  BY <1>1 DEF Fixed, Below
<1>4. \A x \in Nat : x < Base => x % Base = x
  BY <1>1
<1>5. CASE b_bit = 0
  <2>1. q_bit = s % 2
    BY <1>1, <1>5 DEF q_bit
  <2>2. PlusA = s + q_bit * M
    <3>1. CASE q_bit = 1
      BY <1>1, <1>3, <1>4, <1>5, <3>1 DEF PlusA, PlusM, Add
    <3>2. CASE q_bit = 0
      BY <1>1, <1>3, <1>5, <3>2 DEF PlusA, PlusM
    <3> QED BY <1>2, <3>1, <3>2
  <2>3. PlusA % 2 = 0
    <3>1. CASE q_bit = 1
      BY <1>1, <1>3, <2>1, <2>2, <3>1
    <3>2. CASE q_bit = 0
      BY <1>1, <2>1, <2>2, <3>2
    <3> QED BY <1>2, <3>1, <3>2
  <2>4. PlusA < 2 * (M + A)
    <3>1. CASE q_bit = 1
      BY <1>1, <1>3, <2>2, <3>1
    <3>2. CASE q_bit = 0
      BY <1>1, <1>3, <2>2, <3>2
    <3> QED BY <1>2, <3>1, <3>2
  <2>5. b_bit * A = 0
    BY <1>1, <1>5
  <2>6. q_bit * M \in Nat
    BY <1>1, <1>2
  <2> QED BY <1>1, <1>2, <2>2, <2>3, <2>4, <2>5, <2>6
<1>6. CASE b_bit = 1
  <2>1. q_bit = (s + A) % 2
    BY <1>1, <1>6 DEF q_bit
  <2>2. PlusA = s + q_bit * M + A
    <3>1. CASE q_bit = 1
      <4>1. PlusM = s + M
        BY <1>1, <1>3, <1>4, <3>1 DEF PlusM, Add
      <4>2. PlusA = (s + M + A) % Base
        BY <1>1, <1>6, <4>1 DEF PlusA, Add
      <4> QED BY <1>1, <1>3, <1>4, <4>2, <3>1
    <3>2. CASE q_bit = 0
      <4>1. PlusA = (s + A) % Base
        BY <1>1, <1>6, <3>2 DEF PlusA, PlusM, Add
      <4> QED BY <1>1, <1>3, <1>4, <4>1, <3>2
    <3> QED BY <1>2, <3>1, <3>2
  <2>3. PlusA % 2 = 0
    <3>1. CASE q_bit = 1
      BY <1>1, <1>3, <2>1, <2>2, <3>1
    <3>2. CASE q_bit = 0
      BY <1>1, <2>1, <2>2, <3>2
    <3> QED BY <1>2, <3>1, <3>2
  <2>4. PlusA < 2 * (M + A)
    <3>1. CASE q_bit = 1
      BY <1>1, <1>3, <2>2, <3>1
    <3>2. CASE q_bit = 0
      BY <1>1, <1>3, <2>2, <3>2
    <3> QED BY <1>2, <3>1, <3>2
  <2>5. b_bit * A = A
    BY <1>1, <1>6
  <2> QED BY <1>2, <2>2, <2>3, <2>4, <2>5
<1> QED BY <1>2, <1>5, <1>6

\* One bit preserves the invariant.
LEMMA BitPreserves ==
    ASSUME IInv, ProdBit
    PROVE  IInv'
<1>1. A \in Nat /\ B \in Nat /\ M \in Nat /\ s \in Nat /\ rest \in Nat /\ pow \in Nat
      /\ qsum \in Nat
  BY DEF IInv, ProdTypes
<1>2. /\ q_bit \in {0, 1} /\ b_bit \in {0, 1}
      /\ PlusA = s + q_bit * M + b_bit * A
      /\ PlusA % 2 = 0
      /\ PlusA < 2 * (M + A)
  BY SumIsExact DEF IInv
<1>3. A' = A /\ B' = B /\ M' = M /\ pow' = 2 * pow /\ rest' = rest \div 2
      /\ qsum' = qsum + q_bit * pow /\ s' = PlusA \div 2
  BY DEF ProdBit, Halve
<1>4. PlusA \in Nat
  <2>1. q_bit * M \in Nat /\ b_bit * A \in Nat
    BY <1>1, <1>2
  <2> QED BY <1>1, <1>2, <2>1
<1>5. s' \in Nat /\ PlusA = 2 * s'
  BY <1>2, <1>3, <1>4
<1>6. rest' \in Nat /\ rest = 2 * rest' + b_bit
  BY <1>1, <1>3, HalfAndBit DEF b_bit
<1>7. ProdTypes'
  <2>1. q_bit * pow \in Nat
    BY <1>1, <1>2
  <2> QED BY <1>1, <1>3, <1>5, <1>6, <2>1 DEF ProdTypes
<1>8. Fixed'
  BY <1>3 DEF IInv, Fixed
<1>9. Below'
  BY <1>1, <1>2, <1>3, <1>5 DEF Below
<1>10. RestOfB'
  <2>1. pow >= 1 /\ rest * pow <= B
    BY DEF IInv, RestOfB
  <2>2. rest * pow = rest' * (2 * pow) + b_bit * pow
    BY <1>1, <1>2, <1>6
  <2>3. b_bit * pow \in Nat
    BY <1>1, <1>2
  <2>4. rest' * (2 * pow) \in Nat /\ rest * pow \in Nat
    BY <1>1, <1>6, 2 * pow \in Nat, ProductOfNaturals
  <2>5. rest' * (2 * pow) <= B
    BY <1>1, <2>1, <2>2, <2>3, <2>4
  <2> QED BY <1>1, <1>3, <2>1, <2>5 DEF RestOfB
<1>11. PartialProduct'
  <2>1. pow * s = (B - rest * pow) * A + qsum * M
    BY DEF IInv, PartialProduct
  <2>2. pow' * s' = pow * (s + q_bit * M + b_bit * A)
    BY <1>1, <1>2, <1>3, <1>5
  <2>3. rest' * pow' = rest * pow - b_bit * pow
    BY <1>1, <1>2, <1>3, <1>6
  <2>4. CASE q_bit = 0 /\ b_bit = 0
    BY <1>1, <1>3, <2>1, <2>2, <2>3, <2>4 DEF PartialProduct
  <2>5. CASE q_bit = 1 /\ b_bit = 0
    <3>1. pow' * s' = pow * s + pow * M
      BY <1>1, <2>2, <2>5
    <3>2. qsum' * M = qsum * M + pow * M
      BY <1>1, <1>3, <2>5
    <3>3. rest' * pow' = rest * pow
      BY <1>1, <2>3, <2>5
    <3>4. (B' - rest' * pow') * A' = (B - rest * pow) * A
      BY <1>3, <3>3
    <3>5. pow' * s' = (B - rest * pow) * A + (qsum * M + pow * M)
      BY <1>1, <2>1, <3>1
    <3> QED BY <1>3, <3>2, <3>4, <3>5 DEF PartialProduct
  <2>6. CASE q_bit = 0 /\ b_bit = 1
    <3>1. pow' * s' = pow * s + pow * A
      BY <1>1, <2>2, <2>6
    <3>2. qsum' = qsum
      BY <1>1, <1>3, <2>6
    <3>3. rest' * pow' = rest * pow - pow
      BY <1>1, <2>3, <2>6
    <3>4. (B - (rest * pow - pow)) * A = (B - rest * pow) * A + pow * A
      BY <1>1
    <3> QED BY <1>1, <1>3, <2>1, <3>1, <3>2, <3>3, <3>4 DEF PartialProduct
  <2>7. CASE q_bit = 1 /\ b_bit = 1
    <3>1. pow' * s' = pow * s + pow * M + pow * A
      BY <1>1, <2>2, <2>7
    <3>2. qsum' * M = qsum * M + pow * M
      BY <1>1, <1>3, <2>7
    <3>3. rest' * pow' = rest * pow - pow
      BY <1>1, <2>3, <2>7
    <3>4. (B - (rest * pow - pow)) * A = (B - rest * pow) * A + pow * A
      BY <1>1
    <3> QED BY <1>1, <1>3, <2>1, <3>1, <3>2, <3>3, <3>4 DEF PartialProduct
  <2> QED BY <1>2, <2>4, <2>5, <2>6, <2>7
<1> QED BY <1>7, <1>8, <1>9, <1>10, <1>11 DEF IInv

\* The invariant holds in every state of every product.
THEOREM ProductInvariant == ProdSpec => []IInv
<1>1. ProdInit => IInv
  <2> SUFFICES ASSUME ProdInit PROVE IInv
    OBVIOUS
  <2>1. A \in Nat /\ B \in Nat /\ M \in Nat /\ B < Base /\ M % 2 = 1
        /\ 2 * (A + M) <= Base
    BY BaseAssumption DEF ProdInit, Room
  <2>2. s = 0 /\ rest = B /\ pow = 1 /\ qsum = 0
    BY DEF ProdInit
  <2>3. ProdTypes /\ Fixed /\ RestOfB
    BY <2>1, <2>2 DEF ProdTypes, Fixed, RestOfB
  <2>4. Below
    BY <2>1, <2>2 DEF Below
  <2>5. PartialProduct
    BY <2>1, <2>2 DEF PartialProduct
  <2> QED BY <2>3, <2>4, <2>5 DEF IInv
<1>2. IInv /\ [ProdBit]_prodVars => IInv'
  <2>1. CASE ProdBit
    BY <2>1, BitPreserves
  <2>2. CASE UNCHANGED prodVars
    BY <2>2 DEF prodVars, IInv, ProdTypes, Fixed, Below, RestOfB, PartialProduct
  <2> QED BY <2>1, <2>2
<1> QED BY <1>1, <1>2, PTL DEF ProdSpec

\* No carry out of the first word is ever lost in a sum (add_array drops it).
THEOREM SumsAlwaysFit == ProdSpec => []SumsFit
<1>1. IInv => SumsFit
  BY BaseAssumption DEF IInv, ProdTypes, Fixed, Below, SumsFit
<1> QED BY <1>1, ProductInvariant, PTL

\* Every halving of the sum is exact: after each bit it is the partial
\* product, a multiple of the modulus away.
THEOREM PartialProductHolds == ProdSpec => []PartialProduct
<1>1. IInv => PartialProduct
  BY DEF IInv
<1> QED BY <1>1, ProductInvariant, PTL

\* mont_prod_array returns s with pow * s = A * B modulo M, pow being the
\* power of two that the array holds.
THEOREM ProductIsCorrect == ProdSpec => []ProductIsMontgomery
<1>1. IInv => ProductIsMontgomery
  <2> SUFFICES ASSUME IInv, Finished
               PROVE  pow * s = A * B + qsum * M
    BY DEF ProductIsMontgomery
  <2>1. A \in Nat /\ B \in Nat /\ M \in Nat /\ rest \in Nat /\ pow \in Nat /\ qsum \in Nat
        /\ Base \in Nat /\ s \in Nat
    BY BaseAssumption DEF IInv, ProdTypes
  <2>2. rest * pow <= B /\ B < Base /\ Base <= pow
    BY <2>1 DEF IInv, RestOfB, Fixed, Finished
  <2>3. rest = 0
    <3> SUFFICES ASSUME rest >= 1 PROVE FALSE
      BY <2>1
    <3>1. rest * pow >= pow
      BY <2>1
    <3>2. rest * pow \in Nat
      BY <2>1
    <3> QED BY <2>1, <2>2, <3>1, <3>2
  <2>4. pow * s = (B - rest * pow) * A + qsum * M
    BY DEF IInv, PartialProduct
  <2>5. rest * pow = 0
    BY <2>1, <2>3
  <2>6. (B - rest * pow) * A = A * B
    BY <2>1, <2>5
  <2> QED BY <2>4, <2>6
<1> QED BY <1>1, ProductInvariant, PTL

-----------------------------------------------------------------------------
(* Powers modulo a number.                                                 *)

IsPowerMod(x, f, e, m) ==
    f = [k \in 0 .. e |-> IF k = 0 THEN 1 % m ELSE (f[k - 1] * x) % m]

\* The function by which PowerMod is defined exists,
LEMMA PowersModExist ==
    ASSUME NEW x, NEW e \in Nat, NEW m
    PROVE  \E f : IsPowerMod(x, f, e, m)
<1> DEFINE S == {l \in Nat : \E f : IsPowerMod(x, f, l, m)}
<1>1. 0 \in S
  <2> DEFINE f == [j \in 0 .. 0 |-> 1 % m]
  <2>1. IsPowerMod(x, f, 0, m)
    BY DEF IsPowerMod
  <2> QED BY <2>1
<1>2. ASSUME NEW l \in Nat, l \in S PROVE l + 1 \in S
  <2>1. PICK f : IsPowerMod(x, f, l, m)
    BY <1>2
  <2> DEFINE g == [j \in 0 .. l + 1 |-> IF j = l + 1 THEN (f[l] * x) % m ELSE f[j]]
  <2>2. \A j \in 0 .. l + 1 : g[j] = IF j = 0 THEN 1 % m ELSE (g[j - 1] * x) % m
    BY <2>1 DEF IsPowerMod
  <2>3. IsPowerMod(x, g, l + 1, m)
    BY <2>2 DEF IsPowerMod
  <2> QED BY <2>3
<1> HIDE DEF S
<1>3. e \in S
  BY <1>1, <1>2, Induction
<1> QED BY <1>3 DEF S

\* and is the same for every last argument.
LEMMA PowersModUnique ==
    ASSUME NEW x, NEW m, NEW k \in Nat, NEW l \in Nat, NEW f, NEW g,
           IsPowerMod(x, f, k, m), IsPowerMod(x, g, l, m)
    PROVE  \A j \in Nat : j <= k /\ j <= l => f[j] = g[j]
<1> DEFINE S == {j \in Nat : j <= k /\ j <= l => f[j] = g[j]}
<1>1. 0 \in S
  <2>1. f[0] = 1 % m /\ g[0] = 1 % m
    BY DEF IsPowerMod
  <2> QED BY <2>1
<1>2. ASSUME NEW j \in Nat, j \in S PROVE j + 1 \in S
  <2>1. SUFFICES ASSUME j + 1 <= k, j + 1 <= l PROVE f[j + 1] = g[j + 1]
    OBVIOUS
  <2>2. f[j] = g[j]
    BY <1>2, <2>1
  <2>3. j + 1 \in 0 .. k /\ j + 1 \in 0 .. l /\ j + 1 # 0 /\ (j + 1) - 1 = j
    BY <2>1
  <2>4. f[j + 1] = (f[j] * x) % m /\ g[j + 1] = (g[j] * x) % m
    BY <2>3 DEF IsPowerMod
  <2> QED BY <2>2, <2>4
<1> HIDE DEF S
<1>3. \A j \in Nat : j \in S
  BY <1>1, <1>2, Induction
<1> QED BY <1>3 DEF S

\* PowerMod by its recursion.
LEMMA PowerModRecursion ==
    ASSUME NEW x, NEW e \in Nat, NEW m
    PROVE  /\ PowerMod(x, 0, m) = 1 % m
           /\ PowerMod(x, e + 1, m) = (PowerMod(x, e, m) * x) % m
<1> DEFINE Q(l) == CHOOSE f : IsPowerMod(x, f, l, m)
<1>1. ASSUME NEW l \in Nat PROVE IsPowerMod(x, Q(l), l, m) /\ PowerMod(x, l, m) = Q(l)[l]
  <2>1. IsPowerMod(x, Q(l), l, m)
    BY PowersModExist
  <2>2. PowerMod(x, l, m) = Q(l)[l]
    BY DEF PowerMod, IsPowerMod
  <2> QED BY <2>1, <2>2
<1> HIDE DEF Q
<1>2. PowerMod(x, 0, m) = 1 % m
  BY <1>1 DEF IsPowerMod
<1>3. e + 1 \in Nat /\ (e + 1) - 1 = e
  OBVIOUS
<1>4. Q(e + 1)[e + 1] = (Q(e + 1)[(e + 1) - 1] * x) % m
  BY <1>1, <1>3 DEF IsPowerMod
<1>5. Q(e + 1)[e] = Q(e)[e]
  <2>1. IsPowerMod(x, Q(e), e, m) /\ IsPowerMod(x, Q(e + 1), e + 1, m)
    BY <1>1, <1>3
  <2> QED BY <1>3, <2>1, PowersModUnique
<1>6. PowerMod(x, e, m) = Q(e)[e] /\ PowerMod(x, e + 1, m) = Q(e + 1)[e + 1]
  BY <1>1, <1>3
<1> QED BY <1>2, <1>3, <1>4, <1>5, <1>6

\* A power modulo m is a natural number below m.
LEMMA PowerModType ==
    ASSUME NEW x \in Nat, NEW e \in Nat, NEW m \in Nat \ {0}
    PROVE  PowerMod(x, e, m) \in Nat /\ PowerMod(x, e, m) < m
<1> DEFINE S == {l \in Nat : PowerMod(x, l, m) \in Nat /\ PowerMod(x, l, m) < m}
<1>1. 0 \in S
  <2>1. 1 % m \in Nat /\ 1 % m < m
    BY Division
  <2> QED BY <2>1, PowerModRecursion
<1>2. ASSUME NEW l \in Nat, l \in S PROVE l + 1 \in S
  <2>1. PowerMod(x, l, m) * x \in Nat
    BY <1>2
  <2>2. (PowerMod(x, l, m) * x) % m \in Nat /\ (PowerMod(x, l, m) * x) % m < m
    BY <2>1, Division
  <2> QED BY <2>2, PowerModRecursion
<1> HIDE DEF S
<1>3. e \in S
  BY <1>1, <1>2, Induction
<1> QED BY <1>3 DEF S

\* Exponents are added.
LEMMA PowerModOfSum ==
    ASSUME NEW x \in Nat, NEW d \in Nat, NEW e \in Nat, NEW m \in Nat \ {0}
    PROVE  Congruent(PowerMod(x, d + e, m), PowerMod(x, d, m) * PowerMod(x, e, m), m)
<1> DEFINE Q(l) == PowerMod(x, l, m)
           S == {l \in Nat : Congruent(Q(d + l), Q(d) * Q(l), m)}
<1>0. ASSUME NEW l \in Nat
      PROVE  Q(l) \in Nat /\ Q(l + 1) \in Nat /\ Congruent(Q(l + 1), Q(l) * x, m)
  <2>1. Q(l) \in Nat /\ Q(l) * x \in Nat
    BY PowerModType
  <2>2. Congruent((Q(l) * x) % m, Q(l) * x, m)
    BY <2>1, CongruentRemainders
  <2>3. Q(l + 1) \in Nat
    BY l + 1 \in Nat, PowerModType
  <2> QED BY <2>1, <2>2, <2>3, PowerModRecursion
<1>1. 0 \in S
  <2>1. Congruent(1 % m, 1, m)
    BY CongruentRemainders
  <2>2. Q(0) = 1 % m /\ Q(0) \in Nat /\ Q(d) \in Nat
    BY <1>0, PowerModRecursion
  <2>3. Congruent(Q(d), Q(d), m)
    BY <2>2, CongruenceIsEquivalence
  <2> HIDE DEF Q
  <2>4. Congruent(Q(d) * Q(0), Q(d) * 1, m)
    BY <2>1, <2>2, <2>3, CongruentProducts
  <2>5. Q(d) * 1 = Q(d) /\ Q(d) * Q(0) \in Nat /\ d + 0 = d
    BY <2>2
  <2>6. Congruent(Q(d), Q(d) * Q(0), m)
    BY <2>2, <2>4, <2>5, CongruenceIsEquivalence
  <2> QED BY <2>5, <2>6
<1>2. ASSUME NEW l \in Nat, l \in S PROVE l + 1 \in S
  <2>1. Congruent(Q(d + l), Q(d) * Q(l), m)
    BY <1>2
  <2> HIDE DEF Q
  <2>2. /\ d + l \in Nat /\ d + (l + 1) = (d + l) + 1
        /\ Q(d) \in Nat /\ Q(l) \in Nat /\ Q(l + 1) \in Nat /\ Q(d + l) \in Nat
        /\ Q(d + (l + 1)) \in Nat
    BY <1>0
  <2>3. Congruent(Q(d + (l + 1)), Q(d + l) * x, m)
    BY <1>0, <2>2
  <2>4. Congruent(Q(d + l) * x, (Q(d) * Q(l)) * x, m)
    <3>1. Congruent(x, x, m)
      BY CongruenceIsEquivalence
    <3>2. Q(d) * Q(l) \in Int
      BY <2>2
    <3> QED BY <2>1, <2>2, <3>1, <3>2, CongruentProducts
  <2>5. Congruent(Q(l + 1), Q(l) * x, m) /\ Q(l) * x \in Int
    BY <1>0, <2>2
  <2>6. Congruent(Q(d) * Q(l + 1), Q(d) * (Q(l) * x), m)
    <3>1. Congruent(Q(d), Q(d), m)
      BY <2>2, CongruenceIsEquivalence
    <3> QED BY <2>2, <2>5, <3>1, CongruentProducts
  <2>7. Q(d) * (Q(l) * x) = (Q(d) * Q(l)) * x
    BY <2>2
  <2> DEFINE u == Q(d + (l + 1))
             v == Q(d + l) * x
             w == (Q(d) * Q(l)) * x
             z == Q(d) * Q(l + 1)
  <2>8. u \in Int /\ v \in Int /\ w \in Int /\ z \in Int
    BY <2>2
  <2>9. Congruent(u, v, m) /\ Congruent(v, w, m) /\ Congruent(z, w, m)
    BY <2>3, <2>4, <2>6, <2>7
  <2> HIDE DEF u, v, w, z
  <2>10. Congruent(u, w, m) /\ Congruent(w, z, m)
    BY <2>8, <2>9, CongruenceIsEquivalence
  <2>11. Congruent(u, z, m)
    BY <2>8, <2>10, CongruenceIsEquivalence
  <2> QED BY <2>11 DEF u, z
<1> HIDE DEF S, Q
<1>3. e \in S
  BY <1>1, <1>2, Induction
<1> QED BY <1>3 DEF S, Q

-----------------------------------------------------------------------------
(* Montgomery form.                                                        *)

\* The number v is the power e in Montgomery form.
FormOf(v, e) == Congruent(v, PowerMod(X, e, M) * Base, M)

\* The invariant.  The problem that is solved:
ProblemInv ==
    /\ M \in Nat /\ M % 2 = 1 /\ 6 * M <= Base
    /\ X \in Nat /\ X < M
    /\ E \in Nat /\ E < Base
    /\ all_bits \in BOOLEAN

\* a product has factors below 2 * M, and its weight is a power of two;
ProductInv ==
    /\ IInv
    /\ A < 2 * M /\ B < 2 * M
    /\ qsum < pow
    /\ \E k \in Nat : k <= N /\ pow = Power(2, k)

\* the numbers and the loop counter stay in their ranges;
RangeInv ==
    /\ Nr \in Nat /\ Nr < Base /\ temp \in Nat /\ temp < Base
    /\ P \in Nat /\ P < 2 * M /\ Z \in Nat /\ Z < 2 * M
    /\ i \in Nat /\ i <= 2 * N
    /\ stage \in Stages /\ after \in Calls
    /\ stage \in {"residue", "reduce", "subtract"} <=> after = "none"
    /\ stage \in {"reduce", "subtract"} => i < 2 * N

\* Nr is a power of two modulo M, in the end the square of Base;
ResidueInv ==
    /\ stage = "residue" => /\ Congruent(Nr, Power(2, i), M)
                            /\ Nr < M \/ (i = 0 /\ Nr = 1)
    /\ stage \in {"reduce", "subtract"} => Congruent(Nr, Power(2, i + 1), M)
    /\ stage = "subtract" => Congruent(temp, 0, M)
    /\ after # "none" => Congruent(Nr, Base * Base, M) /\ Nr < M

\* and Z and P are the powers of the message for the bits that have been seen.
SquareArgs   == A = P /\ B = P /\ i < n /\ FormOf(Z, E % Power(2, i + 1)) /\ FormOf(P, Power(2, i))
MultiplyArgs == /\ A = Z /\ B = P /\ i < n /\ BitOf(Words(E), i) = 1
                /\ FormOf(Z, E % Power(2, i)) /\ FormOf(P, Power(2, i))
CallInv ==
    stage = "product" =>
        /\ after = "Z0" => A = 1 /\ B = Nr
        /\ after = "P0" => A = X /\ B = Nr /\ FormOf(Z, 0)
        /\ after = "multiply" => MultiplyArgs
        /\ after = "square" => SquareArgs
        /\ after = "final" => A = 1 /\ B = Z /\ FormOf(Z, E)
LoopInv == stage = "loop" => i <= n /\ FormOf(Z, E % Power(2, i)) /\ FormOf(P, Power(2, i))
DoneInv == stage = "done" => Congruent(Z, PowerMod(X, E, M), M) /\ Z <= M

ExpInv == /\ ProblemInv /\ ProductInv /\ RangeInv /\ ResidueInv
          /\ CallInv /\ LoopInv /\ DoneInv

\* The base, and the number of bits the loop goes through.
LEMMA BitsOfProblem ==
    ASSUME ProblemInv
    PROVE  /\ N \in Nat \ {0} /\ Base = Power(2, N) /\ Base \in Nat \ {0} /\ M \in Nat \ {0}
           /\ n \in Nat /\ n <= N /\ E % Power(2, n) = E
<1>1. N \in Nat \ {0}
  <2>1. WordBits \in Nat \ {0} /\ Length \in Nat \ {0}
    BY ArrayTypes
  <2> QED BY <2>1 DEF N
<1>2. Base = Power(2, N) /\ Base \in Nat \ {0}
  BY BaseIsTheArray, BaseAssumption
<1>3. M \in Nat \ {0}
  BY DEF ProblemInv
<1>4. E \in Nat /\ E < Power(2, WordBits * Length)
  BY <1>2 DEF ProblemInv, N
<1>5. CASE all_bits
  <2>1. n = N
    BY <1>5 DEF n
  <2>2. E = Power(2, N) * 0 + E
    BY <1>2, <1>4
  <2>3. Power(2, N) \in Nat \ {0} /\ E < Power(2, N)
    BY <1>2, <1>4 DEF N
  <2>4. E % Power(2, N) = E
    BY <1>4, <2>2, <2>3, 0 \in Int, DivisionUnique
  <2> QED BY <1>1, <1>2, <1>3, <2>1, <2>4
<1>6. CASE ~all_bits
  <2>1. n = findN(Words(E))
    BY <1>6 DEF n
  <2>2. n \in Nat /\ n <= N /\ E % Power(2, n) = E
    BY <1>4, <2>1, BitsFound DEF N
  <2> QED BY <1>1, <1>2, <1>3, <2>2
<1> QED BY <1>5, <1>6 DEF ProblemInv

\* A product that is finished: the weight is Base, the product is below 2 * M,
\* and it is the product of the factors divided by Base.
LEMMA ProductFinished ==
    ASSUME ProblemInv, ProductInv, Finished
    PROVE  /\ pow = Base
           /\ s \in Nat /\ s < 2 * M
           /\ A \in Nat /\ B \in Nat
           /\ Congruent(Base * s, A * B, M)
           /\ A = 1 => s <= M
<1>1. /\ N \in Nat \ {0} /\ Base = Power(2, N) /\ Base \in Nat \ {0} /\ M \in Nat \ {0}
      /\ 6 * M <= Base
  BY BitsOfProblem DEF ProblemInv
<1>2. pow = Base
  <2>1. PICK k \in Nat : k <= N /\ pow = Power(2, k)
    BY DEF ProductInv
  <2>2. pow >= Base
    BY DEF Finished
  <2>3. Power(2, k) \in Nat /\ Power(2, k) > 0 /\ (k < N => 2 * Power(2, k) <= Power(2, N))
    BY <1>1, PowersOfTwo
  <2>4. k = N
    BY <1>1, <2>1, <2>2, <2>3
  <2> QED BY <1>1, <2>1, <2>4
<1>3. /\ A \in Nat /\ B \in Nat /\ s \in Nat /\ rest \in Nat /\ qsum \in Nat
      /\ rest * pow <= B /\ B < Base /\ qsum < Base
      /\ A < 2 * M /\ B < 2 * M
  BY <1>2 DEF ProductInv, IInv, ProdTypes, RestOfB, Fixed
<1>4. rest = 0
  <2> SUFFICES ASSUME rest >= 1 PROVE FALSE
    BY <1>3
  <2>1. rest * pow >= pow
    BY <1>1, <1>2, <1>3
  <2>2. rest * pow \in Nat
    BY <1>1, <1>2, <1>3
  <2> QED BY <1>1, <1>2, <1>3, <2>1, <2>2
<1>5. Base * s = A * B + qsum * M
  <2>1. pow * s = (B - rest * pow) * A + qsum * M
    BY DEF ProductInv, IInv, PartialProduct
  <2>2. rest * pow = 0
    BY <1>1, <1>2, <1>4
  <2>3. (B - rest * pow) * A = A * B
    BY <1>3, <2>2
  <2> QED BY <1>2, <2>1, <2>3
<1>6. Congruent(Base * s, A * B, M)
  BY <1>3, <1>5 DEF Congruent
<1>7. qsum * M <= Base * M - M
  <2>1. qsum * M <= (Base - 1) * M
    BY <1>1, <1>3
  <2> QED BY <1>1, <2>1
<1>8. s < 2 * M
  <2>1. A * B <= (2 * M) * (2 * M)
    BY <1>1, <1>3
  <2>2. (2 * M) * (2 * M) = (4 * M) * M
    BY <1>1
  <2>3. (4 * M) * M <= Base * M
    BY <1>1
  <2>4. /\ Base * s \in Nat /\ A * B \in Nat /\ qsum * M \in Nat /\ Base * M \in Nat
        /\ (4 * M) * M \in Nat
    BY <1>1, <1>3
  <2>5. Base * s < 2 * (Base * M)
    BY <1>1, <1>5, <1>7, <2>1, <2>2, <2>3, <2>4
  <2> SUFFICES ASSUME s >= 2 * M PROVE FALSE
    BY <1>1, <1>3
  <2>6. Base * s >= Base * (2 * M)
    BY <1>1, <1>3
  <2>7. Base * (2 * M) = 2 * (Base * M)
    BY <1>1
  <2> QED BY <2>4, <2>5, <2>6, <2>7
<1>9. A = 1 => s <= M
  <2> SUFFICES ASSUME A = 1, s >= M + 1 PROVE FALSE
    BY <1>1, <1>3
  <2>1. A * B = B
    BY <1>3
  <2>2. Base * s >= Base * (M + 1)
    BY <1>1, <1>3
  <2>3. Base * (M + 1) = Base * M + Base
    BY <1>1
  <2>4. Base * s \in Nat /\ qsum * M \in Nat /\ Base * M \in Nat
    BY <1>1, <1>3
  <2> QED BY <1>1, <1>3, <1>5, <1>7, <2>1, <2>2, <2>3, <2>4
<1> QED BY <1>2, <1>3, <1>6, <1>8, <1>9

\* What the finished product is congruent to, when the product of the factors is.
LEMMA ProductCongruent ==
    ASSUME ProblemInv, ProductInv, Finished, NEW c \in Nat, Congruent(A * B, Base * c, M)
    PROVE  Congruent(s, c, M)
<1>1. /\ s \in Nat /\ A \in Nat /\ B \in Nat /\ Congruent(Base * s, A * B, M)
      /\ M \in Nat /\ M % 2 = 1 /\ Base \in Nat /\ N \in Nat /\ Base = Power(2, N)
  BY ProductFinished, BitsOfProblem DEF ProblemInv
<1> DEFINE u == Base * s
           v == A * B
           w == Base * c
<1>2. u \in Int /\ v \in Int /\ w \in Int
  BY <1>1
<1>3. Congruent(u, v, M) /\ Congruent(v, w, M)
  BY <1>1
<1> HIDE DEF u, v, w
<1>4. Congruent(u, w, M)
  BY <1>1, <1>2, <1>3, CongruenceIsEquivalence
<1>5. Congruent(Power(2, N) * s, Power(2, N) * c, M) /\ s \in Int /\ c \in Int
  BY <1>1, <1>4 DEF u, w
<1> QED BY <1>1, <1>5, Cancel

\* The product of two powers in Montgomery form is one.
LEMMA ProductOfForms ==
    ASSUME ProblemInv, ProductInv, Finished, NEW d \in Nat, NEW e \in Nat,
           FormOf(A, d), FormOf(B, e)
    PROVE  FormOf(s, d + e)
<1> DEFINE u == PowerMod(X, d, M)
           v == PowerMod(X, e, M)
           w == PowerMod(X, d + e, M)
<1>1. s \in Nat /\ A \in Nat /\ B \in Nat
  BY ProductFinished
<1>2. Base \in Nat /\ M \in Nat \ {0} /\ X \in Nat
  BY BitsOfProblem DEF ProblemInv
<1>3. u \in Nat /\ v \in Nat /\ w \in Nat
  BY <1>2, d + e \in Nat, PowerModType
<1>4. Congruent(A, u * Base, M) /\ Congruent(B, v * Base, M)
  BY DEF FormOf
<1>5. Congruent(w, u * v, M)
  BY <1>2, PowerModOfSum
<1> HIDE DEF u, v, w
<1>6. u * Base \in Nat /\ v * Base \in Nat /\ u * v \in Nat /\ (u * v) * Base \in Nat /\ w * Base \in Nat
  BY <1>2, <1>3
<1>7. Congruent(A * B, (u * Base) * (v * Base), M)
  BY <1>1, <1>2, <1>4, <1>6, CongruentProducts
<1>8. (u * Base) * (v * Base) = Base * ((u * v) * Base)
  BY <1>2, <1>3
<1>9. Congruent(s, (u * v) * Base, M)
  BY <1>6, <1>7, <1>8, ProductCongruent
<1>10. Congruent(w * Base, (u * v) * Base, M)
  <2>1. Congruent(Base, Base, M)
    BY <1>2, CongruenceIsEquivalence
  <2> QED BY <1>2, <1>3, <1>5, <1>6, <2>1, CongruentProducts
<1>11. Congruent((u * v) * Base, w * Base, M)
  BY <1>2, <1>6, <1>10, CongruenceIsEquivalence
<1>12. Congruent(s, w * Base, M)
  BY <1>1, <1>2, <1>6, <1>9, <1>11, CongruenceIsEquivalence
<1> QED BY <1>12 DEF FormOf, w

\* The numbers the loop starts from: the powers 0 and 1 in Montgomery form.
LEMMA FirstForms ==
    ASSUME ProblemInv, ProductInv, Finished, Congruent(Nr, Base * Base, M), Nr \in Nat,
           B = Nr
    PROVE  /\ A = 1 => FormOf(s, 0)
           /\ A = X => FormOf(s, 1)
<1>1. s \in Nat /\ A \in Nat /\ B \in Nat
  BY ProductFinished
<1>2. Base \in Nat /\ M \in Nat \ {0} /\ X \in Nat
  BY BitsOfProblem DEF ProblemInv
<1>3. Base * Base \in Nat /\ A * B \in Nat /\ A * Base \in Nat
  BY <1>1, <1>2
<1>4. Congruent(A, A, M)
  BY <1>1, <1>2, CongruenceIsEquivalence
<1>5. Congruent(A * B, A * (Base * Base), M)
  BY <1>1, <1>2, <1>3, <1>4, CongruentProducts
<1>6. A * (Base * Base) = Base * (A * Base)
  BY <1>1, <1>2
<1>7. Congruent(s, A * Base, M)
  BY <1>3, <1>5, <1>6, ProductCongruent
<1>8. ASSUME NEW c \in Nat, Congruent(c, A, M) PROVE Congruent(s, c * Base, M)
  <2>1. Congruent(Base, Base, M)
    BY <1>2, CongruenceIsEquivalence
  <2>2. Congruent(c * Base, A * Base, M)
    BY <1>1, <1>2, <1>8, <2>1, CongruentProducts
  <2>3. c * Base \in Nat
    BY <1>2
  <2>4. Congruent(A * Base, c * Base, M)
    BY <1>2, <1>3, <2>2, <2>3, CongruenceIsEquivalence
  <2> QED BY <1>1, <1>2, <1>3, <1>7, <2>3, <2>4, CongruenceIsEquivalence
<1>9. PowerMod(X, 0, M) = 1 % M /\ PowerMod(X, 0, M) \in Nat /\ Congruent(1 % M, 1, M)
  BY <1>2, PowerModRecursion, PowerModType, CongruentRemainders
<1>10. A = 1 => FormOf(s, 0)
  BY <1>8, <1>9 DEF FormOf
<1>11. PowerMod(X, 1, M) \in Nat /\ Congruent(PowerMod(X, 1, M), X, M)
  <2> DEFINE u == PowerMod(X, 0, M)
             v == PowerMod(X, 1, M)
  <2>1. u \in Nat /\ v \in Nat /\ Congruent(u, 1, M)
    BY <1>2, <1>9, 1 \in Nat, PowerModType
  <2>2. v = (u * X) % M
    <3>1. 0 + 1 = 1
      OBVIOUS
    <3> QED BY <3>1, 0 \in Nat, PowerModRecursion
  <2> HIDE DEF u, v
  <2>3. u * X \in Nat
    BY <1>2, <2>1
  <2>4. Congruent(v, u * X, M)
    BY <1>2, <2>2, <2>3, CongruentRemainders
  <2>5. Congruent(X, X, M)
    BY <1>2, CongruenceIsEquivalence
  <2>6. Congruent(u * X, 1 * X, M)
    BY <1>2, <2>1, <2>5, CongruentProducts
  <2>7. 1 * X = X
    BY <1>2
  <2>8. Congruent(v, X, M)
    BY <1>2, <2>1, <2>3, <2>4, <2>6, <2>7, CongruenceIsEquivalence
  <2> QED BY <2>1, <2>8 DEF v
<1>12. A = X => FormOf(s, 1)
  BY <1>8, <1>11 DEF FormOf
<1> QED BY <1>10, <1>12

\* The product of 1 and a power in Montgomery form is the power.
LEMMA FormLeft ==
    ASSUME ProblemInv, ProductInv, Finished, NEW e \in Nat, A = 1, FormOf(B, e)
    PROVE  Congruent(s, PowerMod(X, e, M), M)
<1> DEFINE v == PowerMod(X, e, M)
<1>1. B \in Nat
  BY ProductFinished
<1>2. Base \in Nat /\ M \in Nat \ {0} /\ X \in Nat
  BY BitsOfProblem DEF ProblemInv
<1>3. v \in Nat
  BY <1>2, PowerModType
<1>4. Congruent(B, v * Base, M)
  BY DEF FormOf
<1> HIDE DEF v
<1>5. A * B = B /\ v * Base = Base * v
  BY <1>1, <1>2, <1>3
<1>6. Congruent(A * B, Base * v, M)
  BY <1>4, <1>5
<1>7. Congruent(s, v, M)
  BY <1>3, <1>6, ProductCongruent
<1> QED BY <1>7 DEF v

\* A call begins a product that the array has room for.
LEMMA CallBegins ==
    ASSUME ProblemInv, NEW a \in Nat, NEW b \in Nat, a < 2 * M, b < 2 * M, Begin(a, b)
    PROVE  ProductInv' /\ A' = a /\ B' = b /\ M' = M
<1>1. M \in Nat /\ M % 2 = 1 /\ 6 * M <= Base /\ N \in Nat /\ Base \in Nat
  BY BitsOfProblem DEF ProblemInv
<1>2. /\ A' = a /\ B' = b /\ M' = M
      /\ s' = 0 /\ rest' = b /\ pow' = 1 /\ qsum' = 0
  BY DEF Begin
<1>3. ProdTypes' /\ Fixed' /\ RestOfB'
  BY <1>1, <1>2 DEF ProdTypes, Fixed, RestOfB
<1>4. Below'
  BY <1>1, <1>2 DEF Below
<1>5. PartialProduct'
  BY <1>1, <1>2 DEF PartialProduct
<1>6. \E k \in Nat : k <= N /\ 1 = Power(2, k)
  <2>1. Power(2, 0) = 1
    BY PowersOfTwo
  <2> QED BY <1>1, <2>1
<1>7. pow' = 1 /\ (\E k \in Nat : k <= N /\ pow = Power(2, k))'
  BY <1>2, <1>6
<1> QED BY <1>2, <1>3, <1>4, <1>5, <1>7 DEF ProductInv, IInv

-----------------------------------------------------------------------------
(* The steps.                                                              *)

\* Shifting and subtracting the residue.
LEMMA ResidueStep ==
    ASSUME ExpInv, ShiftResidue \/ Reduce \/ Subtract
    PROVE  ExpInv'
<1>1. /\ M \in Nat \ {0} /\ 6 * M <= Base /\ Base \in Nat /\ N \in Nat
      /\ Nr \in Nat /\ Nr < Base /\ temp \in Nat /\ temp < Base /\ i \in Nat /\ i <= 2 * N
  BY BitsOfProblem DEF ExpInv, ProblemInv, RangeInv
<1>2. /\ UNCHANGED <<prodVars, inputs, P, Z, after>>
      /\ stage \in {"residue", "reduce", "subtract"} /\ stage' \in {"residue", "reduce", "subtract"}
      /\ after = "none"
  BY DEF ShiftResidue, Reduce, Subtract, ExpInv, RangeInv
<1>3. ProblemInv' /\ M' = M
  BY <1>2 DEF ExpInv, ProblemInv, prodVars, inputs
<1>4. ProductInv'
  BY <1>2 DEF ExpInv, ProductInv, IInv, ProdTypes, Fixed, Below, RestOfB, PartialProduct, prodVars
<1>5. CallInv' /\ LoopInv' /\ DoneInv'
  BY <1>2 DEF CallInv, LoopInv, DoneInv
<1>6. \A a \in Nat : a < Base => a % Base = a
  BY <1>1
<1>7. CASE ShiftResidue
  <2>1. /\ Congruent(Nr, Power(2, i), M) /\ (Nr < M \/ (i = 0 /\ Nr = 1))
        /\ stage' = "reduce" /\ i' = i /\ temp' = temp /\ i < 2 * N
        /\ Nr' = (2 * Nr) % Base
    BY <1>7 DEF ExpInv, ResidueInv, ShiftResidue, Double
  <2>2. 2 * Nr \in Nat /\ 2 * Nr < Base
    BY <1>1, <2>1
  <2>3. Nr' = 2 * Nr
    BY <1>6, <2>1, <2>2
  <2>4. Congruent(Nr', Power(2, i + 1), M)
    <3>1. Power(2, i) \in Nat /\ Power(2, i + 1) = 2 * Power(2, i)
      BY <1>1, PowersOfTwo
    <3>2. Congruent(2, 2, M)
      BY <1>1, CongruenceIsEquivalence
    <3> DEFINE u == Power(2, i)
    <3>3. u \in Int /\ Nr \in Int /\ Congruent(Nr, u, M)
      BY <1>1, <2>1, <3>1
    <3> HIDE DEF u
    <3>4. Congruent(2 * Nr, 2 * u, M)
      BY <1>1, <3>2, <3>3, CongruentProducts
    <3> QED BY <2>3, <3>1, <3>4 DEF u
  <2>5. RangeInv'
    BY <1>1, <1>2, <1>3, <2>1, <2>2, <2>3 DEF ExpInv, RangeInv, Stages, Calls
  <2>6. ResidueInv'
    BY <1>2, <1>3, <2>1, <2>4 DEF ResidueInv
  <2> QED BY <1>3, <1>4, <1>5, <2>5, <2>6 DEF ExpInv
<1>8. CASE Reduce
  <2>1. /\ Congruent(Nr, Power(2, i + 1), M) /\ i < 2 * N
        /\ stage = "reduce" /\ Nr' = Nr
    BY <1>8 DEF ExpInv, ResidueInv, RangeInv, Reduce
  <2>2. CASE M > Nr
    <3>1. stage' = "residue" /\ i' = i + 1 /\ temp' = temp
      BY <1>8, <2>2 DEF Reduce
    <3>2. RangeInv'
      BY <1>1, <1>2, <1>3, <2>1, <3>1 DEF ExpInv, RangeInv, Stages, Calls
    <3>3. ResidueInv'
      BY <1>1, <1>2, <1>3, <2>1, <2>2, <3>1 DEF ResidueInv
    <3> QED BY <1>3, <1>4, <1>5, <3>2, <3>3 DEF ExpInv
  <2>3. CASE ~(M > Nr)
    <3>1. stage' = "subtract" /\ i' = i /\ temp' = M
      BY <1>8, <2>3 DEF Reduce
    <3>2. RangeInv'
      BY <1>1, <1>2, <1>3, <2>1, <3>1 DEF ExpInv, RangeInv, Stages, Calls
    <3>3. Congruent(M, 0, M)
      <4>1. M = 0 + 1 * M
        BY <1>1
      <4> QED BY <4>1 DEF Congruent
    <3>4. ResidueInv'
      BY <1>2, <1>3, <2>1, <3>1, <3>3 DEF ResidueInv
    <3> QED BY <1>3, <1>4, <1>5, <3>2, <3>4 DEF ExpInv
  <2> QED BY <2>2, <2>3
<1>9. CASE Subtract
  <2>1. /\ Congruent(Nr, Power(2, i + 1), M) /\ Congruent(temp, 0, M) /\ i < 2 * N
        /\ stage = "subtract" /\ i' = i
    BY <1>9 DEF ExpInv, ResidueInv, RangeInv, Subtract
  <2>2. CASE TopBitClear(temp) /\ temp <= Nr
    <3>1. Nr' = (Nr - temp) % Base /\ temp' = (2 * temp) % Base /\ stage' = "subtract"
      BY <1>9, <2>1, <2>2 DEF Subtract, Double
    <3>2. 2 * temp \in Nat /\ 2 * temp < Base
      BY <1>1, <2>2 DEF TopBitClear
    <3>3. Nr - temp \in Nat /\ Nr - temp < Base
      BY <1>1, <2>2
    <3>4. Nr' = Nr - temp /\ temp' = 2 * temp
      BY <1>6, <3>1, <3>2, <3>3
    <3>5. RangeInv'
      BY <1>1, <1>2, <1>3, <2>1, <3>1, <3>2, <3>3, <3>4 DEF ExpInv, RangeInv, Stages, Calls
    <3>6. PICK k \in Int : temp = 0 + k * M
      BY <2>1 DEF Congruent
    <3>7. PICK l \in Int : Nr = Power(2, i + 1) + l * M
      BY <2>1 DEF Congruent
    <3>8. Congruent(temp', 0, M)
      <4>1. (2 * k) * M = 2 * (k * M) /\ k * M \in Int
        BY <1>1
      <4>2. temp' = 0 + (2 * k) * M
        BY <3>4, <3>6, <4>1
      <4> QED BY <4>2 DEF Congruent
    <3>9. Congruent(Nr', Power(2, i + 1), M)
      <4>1. (l - k) * M = l * M - k * M /\ l * M \in Int /\ k * M \in Int
        BY <1>1
      <4>2. Power(2, i + 1) \in Nat
        BY <1>1, PositivePowers
      <4>3. Nr' = Power(2, i + 1) + (l - k) * M
        BY <3>4, <3>6, <3>7, <4>1, <4>2
      <4> QED BY <4>3 DEF Congruent
    <3>10. ResidueInv'
      BY <1>2, <1>3, <2>1, <3>1, <3>8, <3>9 DEF ResidueInv
    <3> QED BY <1>3, <1>4, <1>5, <3>5, <3>10 DEF ExpInv
  <2>3. CASE ~(TopBitClear(temp) /\ temp <= Nr)
    <3>1. Nr' = Nr /\ temp' = temp /\ stage' = "reduce"
      BY <1>9, <2>3 DEF Subtract
    <3>2. RangeInv'
      BY <1>1, <1>2, <1>3, <2>1, <3>1 DEF ExpInv, RangeInv, Stages, Calls
    <3>3. ResidueInv'
      BY <1>2, <1>3, <2>1, <3>1 DEF ResidueInv
    <3> QED BY <1>3, <1>4, <1>5, <3>2, <3>3 DEF ExpInv
  <2> QED BY <2>2, <2>3
<1> QED BY <1>7, <1>8, <1>9

\* One bit of a product.
LEMMA ProductStep ==
    ASSUME ExpInv, Product
    PROVE  ExpInv'
<1>1. /\ ProdBit /\ stage = "product" /\ UNCHANGED expVars
      /\ A' = A /\ B' = B /\ M' = M /\ pow' = 2 * pow /\ pow < Base
      /\ qsum' = qsum + q_bit * pow
  BY DEF Product, ProdBit
<1>2. N \in Nat /\ Base = Power(2, N) /\ M \in Nat \ {0}
  BY BitsOfProblem DEF ExpInv
<1>3. IInv /\ qsum < pow /\ qsum \in Nat /\ pow \in Nat /\ A < 2 * M /\ B < 2 * M
  BY DEF ExpInv, ProductInv, IInv, ProdTypes
<1>4. IInv'
  BY <1>1, <1>3, BitPreserves
<1>5. qsum' < pow'
  <2>1. q_bit \in {0, 1}
    BY <1>3, SumIsExact DEF IInv
  <2> QED BY <1>1, <1>3, <2>1
<1>6. (\E k \in Nat : k <= N /\ pow = Power(2, k))'
  <2>1. PICK k \in Nat : k <= N /\ pow = Power(2, k)
    BY DEF ExpInv, ProductInv
  <2>2. k # N
    BY <1>1, <1>2, <1>3, <2>1
  <2>3. k + 1 \in Nat /\ k + 1 <= N /\ Power(2, k + 1) = 2 * Power(2, k)
    BY <1>2, <2>1, <2>2, PowersOfTwo
  <2> QED BY <1>1, <2>1, <2>3
<1>7. ProductInv'
  BY <1>1, <1>3, <1>4, <1>5, <1>6 DEF ProductInv
<1>8. ProblemInv' /\ RangeInv' /\ ResidueInv' /\ LoopInv' /\ DoneInv'
  BY <1>1 DEF ExpInv, ProblemInv, RangeInv, ResidueInv, LoopInv, DoneInv, FormOf, expVars, n
<1>9. CallInv'
  BY <1>1 DEF ExpInv, CallInv, MultiplyArgs, SquareArgs, FormOf, expVars, n
<1> QED BY <1>7, <1>8, <1>9 DEF ExpInv

\* The residue is known: the first product begins.
LEMMA ResidueReturnsStep ==
    ASSUME ExpInv, ResidueReturns
    PROVE  ExpInv'
<1>1. /\ stage = "residue" /\ i = 2 * N /\ Begin(1, Nr) /\ after' = "Z0" /\ stage' = "product"
      /\ UNCHANGED <<inputs, Nr, temp, P, Z, i>>
  BY DEF ResidueReturns, Call
<1>2. /\ N \in Nat \ {0} /\ Base = Power(2, N) /\ M \in Nat \ {0} /\ Base \in Nat
      /\ Nr \in Nat /\ ProblemInv
  BY BitsOfProblem DEF ExpInv, RangeInv
<1>3. Congruent(Nr, Power(2, i), M) /\ Nr < M
  BY <1>1, <1>2 DEF ExpInv, ResidueInv
<1>4. Congruent(Nr, Base * Base, M)
  <2>1. N + N = 2 * N
    BY <1>2
  <2>2. Power(2, N + N) = Power(2, N) * Power(2, N)
    BY <1>2, 2 \in Nat, PowerOfSum
  <2> QED BY <1>1, <1>2, <1>3, <2>1, <2>2
<1>5. ProductInv' /\ A' = 1 /\ B' = Nr /\ M' = M
  BY <1>1, <1>2, <1>3, CallBegins
<1>6. ProblemInv'
  BY <1>1, <1>2, <1>5 DEF ProblemInv, inputs
<1>7. RangeInv' /\ ResidueInv'
  BY <1>1, <1>3, <1>4, <1>5 DEF ExpInv, RangeInv, ResidueInv, Stages, Calls
<1>8. CallInv' /\ LoopInv' /\ DoneInv'
  BY <1>1, <1>5 DEF CallInv, LoopInv, DoneInv
<1> QED BY <1>5, <1>6, <1>7, <1>8 DEF ExpInv

\* What a return knows, whichever it is.
LEMMA Return ==
    ASSUME ExpInv, Finished, stage = "product", UNCHANGED inputs, M' = M
    PROVE  /\ ProblemInv /\ ProductInv /\ ProblemInv' /\ n' = n
           /\ s \in Nat /\ s < 2 * M /\ (A = 1 => s <= M)
           /\ N \in Nat \ {0} /\ M \in Nat \ {0} /\ X \in Nat /\ X < 2 * M /\ E \in Nat
           /\ n \in Nat /\ n <= N /\ i \in Nat
           /\ P \in Nat /\ P < 2 * M /\ Z \in Nat /\ Z < 2 * M /\ Nr \in Nat
<1>1. ProblemInv /\ ProductInv
  BY DEF ExpInv
<1>2. ProblemInv' /\ n' = n
  BY <1>1 DEF ProblemInv, inputs, n
<1>3. s \in Nat /\ s < 2 * M /\ (A = 1 => s <= M)
  BY <1>1, ProductFinished
<1>4. /\ N \in Nat \ {0} /\ M \in Nat \ {0} /\ X \in Nat /\ X < 2 * M /\ E \in Nat
      /\ n \in Nat /\ n <= N
  BY <1>1, BitsOfProblem DEF ProblemInv
<1> QED BY <1>1, <1>2, <1>3, <1>4 DEF ExpInv, RangeInv

\* The first number of the loop is there, and the second is begun.
LEMMA Z0ReturnsStep ==
    ASSUME ExpInv, Z0Returns
    PROVE  ExpInv'
<1>1. /\ Finished /\ stage = "product" /\ after = "Z0" /\ Z' = s
      /\ Begin(X, Nr) /\ after' = "P0" /\ stage' = "product"
      /\ UNCHANGED <<inputs, Nr, temp, P, i>> /\ M' = M
  BY DEF Z0Returns, Returns, Call, Begin
<1>2. /\ ProblemInv /\ ProductInv /\ ProblemInv'
      /\ s \in Nat /\ s < 2 * M /\ X \in Nat /\ X < 2 * M /\ Nr \in Nat
  BY <1>1, Return DEF inputs
<1>3. Congruent(Nr, Base * Base, M) /\ Nr < M /\ A = 1 /\ B = Nr
  BY <1>1 DEF ExpInv, ResidueInv, CallInv
<1>4. FormOf(s, 0)
  BY <1>1, <1>2, <1>3, FirstForms
<1>5. ProductInv' /\ A' = X /\ B' = Nr
  <2>1. Nr < 2 * M
    BY <1>2, <1>3 DEF ProblemInv
  <2> QED BY <1>1, <1>2, <2>1, CallBegins
<1>6. RangeInv' /\ ResidueInv'
  BY <1>1, <1>2, <1>3 DEF ExpInv, RangeInv, ResidueInv, Stages, Calls
<1>7. CallInv' /\ LoopInv' /\ DoneInv'
  BY <1>1, <1>4, <1>5 DEF CallInv, LoopInv, DoneInv, FormOf, inputs
<1> QED BY <1>2, <1>5, <1>6, <1>7 DEF ExpInv

\* The second number is there: the loop begins with no bit seen.
LEMMA P0ReturnsStep ==
    ASSUME ExpInv, P0Returns
    PROVE  ExpInv'
<1>1. /\ Finished /\ stage = "product" /\ after = "P0" /\ P' = s /\ i' = 0 /\ stage' = "loop"
      /\ UNCHANGED <<prodVars, inputs, Nr, temp, Z, after>> /\ M' = M
  BY DEF P0Returns, Returns, prodVars
<1>2. /\ ProblemInv /\ ProductInv /\ ProblemInv' /\ n' = n /\ n \in Nat
      /\ s \in Nat /\ s < 2 * M /\ Nr \in Nat /\ E \in Nat /\ N \in Nat
  BY <1>1, Return
<1>3. Congruent(Nr, Base * Base, M) /\ A = X /\ B = Nr /\ FormOf(Z, 0)
  BY <1>1 DEF ExpInv, ResidueInv, CallInv
<1>4. FormOf(s, 1)
  BY <1>1, <1>2, <1>3, FirstForms
<1>5. Power(2, 0) = 1 /\ E % 1 = 0
  BY <1>2, PowersOfTwo
<1>6. LoopInv'
  BY <1>1, <1>2, <1>3, <1>4, <1>5 DEF LoopInv, FormOf, inputs
<1>7. ProductInv'
  BY <1>1, <1>2 DEF ProductInv, IInv, ProdTypes, Fixed, Below, RestOfB, PartialProduct, prodVars
<1>8. RangeInv' /\ ResidueInv'
  BY <1>1, <1>2 DEF ExpInv, RangeInv, ResidueInv, Stages, Calls
<1>9. CallInv' /\ DoneInv'
  BY <1>1 DEF CallInv, DoneInv
<1> QED BY <1>2, <1>6, <1>7, <1>8, <1>9 DEF ExpInv

\* The head of the loop: a bit that is 0 leaves the number in the bits seen as
\* it was; when no bit is left it is the exponent.
LEMMA LoopStep ==
    ASSUME ExpInv, Loop
    PROVE  ExpInv'
<1>1. /\ stage = "loop" /\ stage' = "product" /\ M' = M
      /\ UNCHANGED <<inputs, Nr, temp, P, Z, i>>
  BY DEF Loop, Call, Begin
<1>2. /\ ProblemInv /\ M \in Nat \ {0} /\ N \in Nat \ {0} /\ n \in Nat /\ n <= N
      /\ E % Power(2, n) = E /\ E \in Nat
  BY BitsOfProblem DEF ExpInv, ProblemInv
<1>3. ProblemInv' /\ n' = n
  BY <1>1, <1>2 DEF ProblemInv, inputs, n
<1>4. /\ i \in Nat /\ P \in Nat /\ P < 2 * M /\ Z \in Nat /\ Z < 2 * M
      /\ i <= n /\ FormOf(Z, E % Power(2, i)) /\ FormOf(P, Power(2, i))
  BY <1>1 DEF ExpInv, RangeInv, LoopInv
<1>5. LoopInv' /\ DoneInv'
  BY <1>1 DEF LoopInv, DoneInv
<1>6. after' \in Calls \ {"none"} => RangeInv' /\ ResidueInv'
  BY <1>1, <1>4 DEF ExpInv, RangeInv, ResidueInv, Stages
<1>7. CASE i < n /\ BitOf(Words(E), i) = 1 /\ Call("multiply", Z, P)
  <2>1. Begin(Z, P) /\ after' = "multiply"
    BY <1>7 DEF Call
  <2>2. ProductInv' /\ A' = Z /\ B' = P
    BY <1>2, <1>4, <2>1, CallBegins
  <2>3. MultiplyArgs'
    BY <1>1, <1>3, <1>4, <1>7, <2>2 DEF MultiplyArgs, FormOf, inputs
  <2>4. CallInv'
    BY <2>1, <2>3 DEF CallInv
  <2> QED BY <1>3, <1>5, <1>6, <2>1, <2>2, <2>4 DEF ExpInv, Calls
<1>8. CASE i < n /\ BitOf(Words(E), i) # 1 /\ Call("square", P, P)
  <2>1. Begin(P, P) /\ after' = "square"
    BY <1>8 DEF Call
  <2>2. ProductInv' /\ A' = P /\ B' = P
    BY <1>2, <1>4, <2>1, CallBegins
  <2>3. E % Power(2, i + 1) = E % Power(2, i)
    <3>1. i < WordBits * Length
      BY <1>2, <1>4, <1>8 DEF N
    <3>2. BitOf(Words(E), i) = 0
      BY <1>2, <1>4, <1>8, <3>1, BitType
    <3>3. Power(2, i) \in Nat \ {0}
      BY <1>4, PositivePowers
    <3>4. E % Power(2, i) \in Nat /\ Power(2, i) * 0 = 0
      BY <1>2, <3>3, Division
    <3> QED BY <1>2, <1>4, <3>1, <3>2, <3>4, OneMoreBit
  <2>4. FormOf(Z, E % Power(2, i + 1))
    BY <1>4, <2>3
  <2>5. SquareArgs'
    BY <1>1, <1>3, <1>4, <1>8, <2>2, <2>4 DEF SquareArgs, FormOf, inputs
  <2>6. CallInv'
    BY <2>1, <2>5 DEF CallInv
  <2> QED BY <1>3, <1>5, <1>6, <2>1, <2>2, <2>6 DEF ExpInv, Calls
<1>9. CASE i >= n /\ Call("final", 1, Z)
  <2>1. Begin(1, Z) /\ after' = "final"
    BY <1>9 DEF Call
  <2>2. ProductInv' /\ A' = 1 /\ B' = Z
    BY <1>2, <1>4, <2>1, CallBegins
  <2>3. i = n
    BY <1>2, <1>4, <1>9
  <2>4. FormOf(Z, E)
    BY <1>2, <1>4, <2>3
  <2>5. CallInv'
    BY <1>1, <2>1, <2>2, <2>4 DEF CallInv, FormOf, inputs
  <2> QED BY <1>3, <1>5, <1>6, <2>1, <2>2, <2>5 DEF ExpInv, Calls
<1> QED BY <1>7, <1>8, <1>9 DEF Loop

\* A bit that is 1 has been multiplied in.
LEMMA MultiplyReturnsStep ==
    ASSUME ExpInv, MultiplyReturns
    PROVE  ExpInv'
<1>1. /\ Finished /\ stage = "product" /\ after = "multiply" /\ Z' = s
      /\ Begin(P, P) /\ after' = "square" /\ stage' = "product"
      /\ UNCHANGED <<inputs, Nr, temp, P, i>> /\ M' = M
  BY DEF MultiplyReturns, Returns, Call, Begin
<1>2. /\ ProblemInv /\ ProductInv /\ ProblemInv' /\ n' = n
      /\ s \in Nat /\ s < 2 * M /\ P \in Nat /\ P < 2 * M
      /\ E \in Nat /\ i \in Nat /\ n \in Nat /\ n <= N /\ N \in Nat
  BY <1>1, Return DEF inputs
<1>3. MultiplyArgs
  BY <1>1 DEF ExpInv, CallInv
<1>4. ProductInv' /\ A' = P /\ B' = P
  BY <1>1, <1>2, CallBegins
<1>5. FormOf(s, E % Power(2, i + 1))
  <2> DEFINE d == E % Power(2, i)
             e == Power(2, i)
  <2>1. FormOf(A, d) /\ FormOf(B, e)
    BY <1>3 DEF MultiplyArgs
  <2>2. e \in Nat \ {0}
    BY <1>2, PositivePowers
  <2>3. d \in Nat
    BY <1>2, <2>2, Division
  <2>4. i < WordBits * Length /\ BitOf(Words(E), i) = 1
    BY <1>2, <1>3 DEF MultiplyArgs, N
  <2>5. E % Power(2, i + 1) = e * 1 + d
    BY <1>2, <2>4, OneMoreBit
  <2> HIDE DEF d, e
  <2>6. e * 1 + d = d + e
    BY <2>2, <2>3
  <2>7. FormOf(s, d + e)
    BY <1>1, <1>2, <2>1, <2>2, <2>3, ProductOfForms
  <2> QED BY <2>5, <2>6, <2>7
<1>6. SquareArgs'
  BY <1>1, <1>2, <1>3, <1>4, <1>5 DEF SquareArgs, MultiplyArgs, FormOf, inputs
<1>7. RangeInv' /\ ResidueInv'
  BY <1>1, <1>2 DEF ExpInv, RangeInv, ResidueInv, Stages, Calls
<1>8. CallInv' /\ LoopInv' /\ DoneInv'
  BY <1>1, <1>6 DEF CallInv, LoopInv, DoneInv
<1> QED BY <1>2, <1>4, <1>7, <1>8 DEF ExpInv

\* The next power is there: the loop goes on with the next bit.
LEMMA SquareReturnsStep ==
    ASSUME ExpInv, SquareReturns
    PROVE  ExpInv'
<1>1. /\ Finished /\ stage = "product" /\ after = "square" /\ P' = s /\ i' = i + 1
      /\ stage' = "loop" /\ UNCHANGED <<prodVars, inputs, Nr, temp, Z, after>> /\ M' = M
  BY DEF SquareReturns, Returns, prodVars
<1>2. /\ ProblemInv /\ ProductInv /\ ProblemInv' /\ n' = n
      /\ s \in Nat /\ s < 2 * M /\ i \in Nat /\ n \in Nat /\ n <= N /\ N \in Nat
  BY <1>1, Return
<1>3. SquareArgs
  BY <1>1 DEF ExpInv, CallInv
<1>4. FormOf(s, Power(2, i + 1))
  <2> DEFINE e == Power(2, i)
  <2>1. FormOf(A, e) /\ FormOf(B, e)
    BY <1>3 DEF SquareArgs
  <2>2. e \in Nat /\ Power(2, i + 1) = e + e
    <3>1. e \in Nat /\ Power(2, i + 1) = 2 * e
      BY <1>2, PowersOfTwo
    <3> HIDE DEF e
    <3> QED BY <3>1
  <2> HIDE DEF e
  <2>3. FormOf(s, e + e)
    BY <1>1, <1>2, <2>1, <2>2, ProductOfForms
  <2> QED BY <2>2, <2>3
<1>5. i < n
  BY <1>3 DEF SquareArgs
<1>6. LoopInv'
  BY <1>1, <1>2, <1>3, <1>4, <1>5 DEF LoopInv, SquareArgs, FormOf, inputs
<1>7. ProductInv'
  BY <1>1, <1>2 DEF ProductInv, IInv, ProdTypes, Fixed, Below, RestOfB, PartialProduct, prodVars
<1>8. RangeInv' /\ ResidueInv'
  BY <1>1, <1>2, <1>5 DEF ExpInv, RangeInv, ResidueInv, Stages, Calls
<1>9. CallInv' /\ DoneInv'
  BY <1>1 DEF CallInv, DoneInv
<1> QED BY <1>2, <1>6, <1>7, <1>8, <1>9 DEF ExpInv

\* The power has left the Montgomery form.
LEMMA FinalReturnsStep ==
    ASSUME ExpInv, FinalReturns
    PROVE  ExpInv'
<1>1. /\ Finished /\ stage = "product" /\ after = "final" /\ Z' = s /\ stage' = "done"
      /\ UNCHANGED <<prodVars, inputs, Nr, temp, P, i, after>> /\ M' = M
  BY DEF FinalReturns, Returns, prodVars
<1>2. /\ ProblemInv /\ ProductInv /\ ProblemInv' /\ E \in Nat
      /\ s \in Nat /\ s < 2 * M /\ (A = 1 => s <= M)
  BY <1>1, Return
<1>3. A = 1 /\ B = Z /\ FormOf(Z, E)
  BY <1>1 DEF ExpInv, CallInv
<1>4. Congruent(s, PowerMod(X, E, M), M)
  BY <1>1, <1>2, <1>3, FormLeft
<1>5. DoneInv'
  BY <1>1, <1>2, <1>3, <1>4 DEF DoneInv, inputs
<1>6. ProductInv'
  BY <1>1, <1>2 DEF ProductInv, IInv, ProdTypes, Fixed, Below, RestOfB, PartialProduct, prodVars
<1>7. RangeInv' /\ ResidueInv'
  BY <1>1, <1>2 DEF ExpInv, RangeInv, ResidueInv, Stages, Calls
<1>8. CallInv' /\ LoopInv'
  BY <1>1 DEF CallInv, LoopInv
<1> QED BY <1>2, <1>5, <1>6, <1>7, <1>8 DEF ExpInv

-----------------------------------------------------------------------------
(* The theorems.                                                           *)

\* The invariant holds of every exponentiation.
THEOREM ExpInvariant == Spec => []ExpInv
<1>1. Init => ExpInv
  <2> SUFFICES ASSUME Init PROVE ExpInv
    OBVIOUS
  <2>1. PICK q \in Problems : Solvable(q) /\ X = q.x /\ E = q.e /\ M = q.m
    BY DEF Init
  <2>2. /\ A = 0 /\ B = 0 /\ s = 0 /\ rest = 0 /\ pow = 1 /\ qsum = 0
        /\ Nr = 1 /\ temp = 0 /\ P = 0 /\ Z = 0 /\ i = 0
        /\ stage = "residue" /\ after = "none" /\ all_bits \in BOOLEAN
    BY DEF Init
  <2>3. ProblemInv
    BY <2>1, <2>2, ProblemsAssumption DEF Solvable, ProblemInv
  <2>4. M \in Nat \ {0} /\ M % 2 = 1 /\ 6 * M <= Base /\ N \in Nat /\ Base \in Nat
    BY <2>3, BitsOfProblem DEF ProblemInv
  <2>5. Power(2, 0) = 1 /\ Congruent(1, 1, M)
    <3>1. Power(2, 0) = 1
      BY PowersOfTwo, 0 \in Nat
    <3>2. Congruent(1, 1, M)
      BY <2>4, 1 \in Int, CongruenceIsEquivalence
    <3> QED BY <3>1, <3>2
  <2>6. ProdTypes /\ Fixed /\ Below /\ RestOfB
    BY <2>2, <2>4 DEF ProdTypes, Fixed, Below, RestOfB
  <2>7. PartialProduct
    BY <2>2, <2>4 DEF PartialProduct
  <2>8. ProductInv
    BY <2>2, <2>4, <2>5, <2>6, <2>7 DEF ProductInv, IInv
  <2>9. RangeInv /\ ResidueInv
    BY <2>2, <2>4, <2>5 DEF RangeInv, ResidueInv, Stages, Calls
  <2>10. CallInv /\ LoopInv /\ DoneInv
    BY <2>2 DEF CallInv, LoopInv, DoneInv
  <2> QED BY <2>3, <2>8, <2>9, <2>10 DEF ExpInv
<1>2. ExpInv /\ [Next]_vars => ExpInv'
  <2> SUFFICES ASSUME ExpInv, [Next]_vars PROVE ExpInv'
    OBVIOUS
  <2>1. CASE ShiftResidue \/ Reduce \/ Subtract
    BY <2>1, ResidueStep
  <2>2. CASE ResidueReturns
    BY <2>2, ResidueReturnsStep
  <2>3. CASE Product
    BY <2>3, ProductStep
  <2>4. CASE Z0Returns
    BY <2>4, Z0ReturnsStep
  <2>5. CASE P0Returns
    BY <2>5, P0ReturnsStep
  <2>6. CASE Loop
    BY <2>6, LoopStep
  <2>7. CASE MultiplyReturns
    BY <2>7, MultiplyReturnsStep
  <2>8. CASE SquareReturns
    BY <2>8, SquareReturnsStep
  <2>9. CASE FinalReturns
    BY <2>9, FinalReturnsStep
  <2>10. CASE UNCHANGED vars
    <3>1. ProblemInv' /\ RangeInv' /\ ResidueInv' /\ LoopInv' /\ DoneInv'
      BY <2>10 DEF ExpInv, ProblemInv, RangeInv, ResidueInv, LoopInv, DoneInv, FormOf,
                   vars, prodVars, expVars, n
    <3>2. ProductInv'
      BY <2>10 DEF ExpInv, ProductInv, IInv, ProdTypes, Fixed, Below, RestOfB,
                   PartialProduct, vars, prodVars
    <3>3. CallInv'
      BY <2>10 DEF ExpInv, CallInv, MultiplyArgs, SquareArgs, FormOf, vars, prodVars, expVars, n
    <3> QED BY <3>1, <3>2, <3>3 DEF ExpInv
  <2> QED BY <2>1, <2>2, <2>3, <2>4, <2>5, <2>6, <2>7, <2>8, <2>9, <2>10 DEF Next
<1> QED BY <1>1, <1>2, PTL DEF Spec

\* Every variable of the exponentiation stays in its range, the weight of a
\* product not above Base.
THEOREM ModExpTypeCorrect == Spec => []ModExpTypeOK
<1>1. ExpInv => ModExpTypeOK
  <2> SUFFICES ASSUME ExpInv PROVE ModExpTypeOK
    OBVIOUS
  <2>1. /\ N \in Nat /\ Base = Power(2, N) /\ Base \in Nat \ {0} /\ M \in Nat /\ 6 * M <= Base
    BY BitsOfProblem DEF ExpInv, ProblemInv
  <2>2. /\ A \in Nat /\ B \in Nat /\ s \in Nat /\ rest \in Nat /\ pow \in Nat /\ pow >= 1
        /\ rest * pow <= B /\ s < M + A /\ A < 2 * M /\ B < 2 * M
    BY DEF ExpInv, ProductInv, IInv, ProdTypes, RestOfB, Below
  <2>3. pow <= Base
    <3>1. PICK k \in Nat : k <= N /\ pow = Power(2, k)
      BY DEF ExpInv, ProductInv
    <3> QED BY <2>1, <3>1, PowersOfTwo
  <2>4. rest <= rest * pow
    BY <2>2
  <2>5. rest <= B
    <3>1. rest * pow \in Nat
      BY <2>2
    <3> QED BY <2>2, <2>4, <3>1
  <2>6. {A, B, s, rest, Nr, temp, P, Z} \subseteq 0 .. Base - 1
    BY <2>1, <2>2, <2>5 DEF ExpInv, RangeInv
  <2> QED BY <2>1, <2>2, <2>3, <2>6 DEF ExpInv, RangeInv, ModExpTypeOK
<1> QED BY <1>1, ExpInvariant, PTL

\* No carry is lost in any of the products.
THEOREM NothingOverflowsEver == Spec => []NothingOverflows
<1>1. ExpInv => NothingOverflows
  <2> SUFFICES ASSUME ExpInv PROVE NothingOverflows
    OBVIOUS
  <2>1. SumsFit
    BY BaseAssumption DEF ExpInv, ProductInv, IInv, ProdTypes, Fixed, Below, SumsFit
  <2>2. M \in Nat /\ P \in Nat /\ P < 2 * M /\ Z \in Nat /\ Z < 2 * M
    BY DEF ExpInv, ProblemInv, RangeInv
  <2> QED BY <2>1, <2>2 DEF NothingOverflows
<1> QED BY <1>1, ExpInvariant, PTL

\* Every halving in every product of the exponentiation is exact.
THEOREM ProductsExact == Spec => []PartialProduct
<1>1. ExpInv => PartialProduct
  BY DEF ExpInv, ProductInv, IInv
<1> QED BY <1>1, ExpInvariant, PTL

\* At the head of the loop Z and P are the powers for the bits seen and for
\* the next bit.
THEOREM LoopCorrect == Spec => []LoopInvariant
<1>1. ExpInv => LoopInvariant
  <2> SUFFICES ASSUME ExpInv, stage = "loop"
               PROVE  /\ InForm(Z, PowerMod(X, E % Power(2, i), M))
                      /\ InForm(P, PowerMod(X, Power(2, i), M))
    BY DEF LoopInvariant
  <2>1. FormOf(Z, E % Power(2, i)) /\ FormOf(P, Power(2, i)) /\ Z \in Nat /\ P \in Nat
        /\ i \in Nat /\ E \in Nat
    BY DEF ExpInv, LoopInv, RangeInv, ProblemInv
  <2>2. Base \in Nat /\ M \in Nat \ {0} /\ X \in Nat
    BY BitsOfProblem DEF ExpInv, ProblemInv
  <2>3. ASSUME NEW v \in Nat, NEW e \in Nat, FormOf(v, e)
        PROVE  InForm(v, PowerMod(X, e, M))
    <3>1. PowerMod(X, e, M) \in Nat
      BY <2>2, PowerModType
    <3>2. PowerMod(X, e, M) * Base \in Nat
      BY <2>2, <3>1
    <3>3. Congruent(v, PowerMod(X, e, M) * Base, M)
      BY <2>3 DEF FormOf
    <3>4. v % M = (PowerMod(X, e, M) * Base) % M
      BY <2>2, <3>2, <3>3, CongruentRemainders
    <3> QED BY <3>4 DEF InForm
  <2>4. Power(2, i) \in Nat \ {0}
    BY <2>1, PositivePowers
  <2>5. E % Power(2, i) \in Nat
    BY <2>1, <2>4, Division
  <2> QED BY <2>1, <2>3, <2>4, <2>5
<1> QED BY <1>1, ExpInvariant, PTL

\* The result is the power of the message modulo M, except that M may stand
\* for 0: for every length of the arrays, every odd modulus with three bits to
\* spare, every message below it and every exponent.
THEOREM ResultCorrect == Spec => []ResultIsPower
<1>1. ExpInv => ResultIsPower
  <2> SUFFICES ASSUME ExpInv, stage = "done"
               PROVE  Z % M = PowerMod(X, E, M) /\ Z <= M
    BY DEF ResultIsPower
  <2>1. Congruent(Z, PowerMod(X, E, M), M) /\ Z <= M /\ Z \in Nat
    BY DEF ExpInv, DoneInv, RangeInv
  <2>2. M \in Nat \ {0} /\ X \in Nat /\ E \in Nat
    BY BitsOfProblem DEF ExpInv, ProblemInv
  <2> DEFINE v == PowerMod(X, E, M)
  <2>3. v \in Nat /\ v < M
    BY <2>2, PowerModType
  <2> HIDE DEF v
  <2>4. Z % M = v % M
    BY <2>1, <2>2, <2>3, CongruentRemainders DEF v
  <2>5. v % M = v
    <3>1. v = M * 0 + v
      BY <2>2, <2>3
    <3> QED BY <2>2, <2>3, <3>1, 0 \in Int, DivisionUnique
  <2> QED BY <2>1, <2>4, <2>5 DEF v
<1> QED BY <1>1, ExpInvariant, PTL

\* Whatever the exponentiation computes on arrays of words is what it means on
\* numbers: sums, differences, shifts and comparisons.
THEOREM WordsAreNumbers == Spec => []WordArithmetic
<1>1. ExpInv => WordArithmetic
  <2> SUFFICES ASSUME ExpInv PROVE WordArithmetic
    OBVIOUS
  <2>1. Base = Top /\ Top \in Nat \ {0}
    BY TopIsTwoToBits, BaseIsTheArray DEF N
  <2>2. /\ s \in Nat /\ s < Top /\ A \in Nat /\ M \in Nat /\ M < Top
        /\ Nr \in Nat /\ Nr < Top /\ temp \in Nat /\ temp < Top
    <3>1. s \in Nat /\ A \in Nat /\ M \in Nat /\ s < M + A /\ 2 * (A + M) <= Base
      BY DEF ExpInv, ProductInv, IInv, ProdTypes, Fixed, Below
    <3>2. M \in Nat \ {0} /\ 6 * M <= Base
      BY BitsOfProblem DEF ExpInv, ProblemInv
    <3>3. Nr \in Nat /\ Nr < Base /\ temp \in Nat /\ temp < Base
      BY DEF ExpInv, RangeInv
    <3> QED BY <2>1, <3>1, <3>2, <3>3
  <2>3. ASSUME NEW x \in Nat, NEW y \in Nat
        PROVE  Value(add_array(Words(x), Words(y))) = Add(x, y)
    <3>1. add_array(Words(x), Words(y)) = Words(x + y + 0)
      BY 0 \in {0, 1}, SumOfWords DEF add_array
    <3>2. x + y + 0 = x + y /\ x + y \in Nat
      OBVIOUS
    <3>3. Value(Words(x + y)) = (x + y) % Top
      BY <3>2, ValueOfWords
    <3> QED BY <2>1, <3>1, <3>2, <3>3 DEF Add
  <2>4. Value(sub_array(Words(Nr), Words(temp))) = (Nr - temp) % Base
    BY <2>1, <2>2, DifferenceOfWords
  <2>5. Value(shift_right_1_array(Words(s))) = Halve(s)
    <3> DEFINE h == s \div 2
    <3>1. h \in Nat /\ h < Top
      BY <2>1, <2>2
    <3>2. shift_right_1_array(Words(s)) = Words(h)
      BY <2>2, HalfOfWords
    <3> HIDE DEF h
    <3>3. Value(Words(h)) = h % Top
      BY <3>1, ValueOfWords
    <3>4. h % Top = h
      <4>1. h = Top * 0 + h
        BY <2>1, <3>1
      <4> QED BY <2>1, <3>1, <4>1, 0 \in Int, DivisionUnique
    <3> QED BY <3>2, <3>3, <3>4 DEF h, Halve
  <2>6. Value(shift_left_1_array(Words(Nr))) = Double(Nr)
    <3>1. shift_left_1_array(Words(Nr)) = Words(2 * Nr) /\ 2 * Nr \in Nat
      BY <2>2, DoubleOfWords
    <3>2. Value(Words(2 * Nr)) = (2 * Nr) % Top
      BY <3>1, ValueOfWords
    <3> QED BY <2>1, <3>1, <3>2 DEF Double
  <2>7. /\ greater_than_array(Words(temp), Words(Nr)) <=> temp > Nr
        /\ greater_than_array(Words(M), Words(Nr)) <=> M > Nr
    BY <2>2, ComparisonOfWords
  <2> QED BY <2>2, <2>3, <2>4, <2>5, <2>6, <2>7 DEF WordArithmetic
<1> QED BY <1>1, ExpInvariant, PTL
=============================================================================
