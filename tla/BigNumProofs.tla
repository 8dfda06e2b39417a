---------------------------- MODULE BigNumProofs ----------------------------
(***************************************************************************)
(* The arithmetic of BigNum for arrays and words of every length.          *)
(***************************************************************************)
EXTENDS BigNum, WellFoundedInduction, TLAPS

-----------------------------------------------------------------------------
(* Induction over the natural numbers, for a property given as a set: what *)
(* it says of a k is that k is in the set.  It follows from the order being *)
(* well founded, by way of the least counterexample.                        *)

Down == {p \in Nat \X Nat : p[1] < p[2]}

\* The order of the naturals is well founded.
LEMMA DownWellFounded == IsWellFoundedOn(Down, Nat)
<1>1. OpToRel(<, Nat) = Down
  BY DEF OpToRel, Down
<1> QED BY <1>1, NatLessThanWellFounded

\* A set of naturals that is not empty has a least element.
LEMMA LeastElement ==
    ASSUME NEW T \in SUBSET Nat, T # {}
    PROVE  \E x \in T : \A y \in T : x <= y
<1>1. ASSUME NEW x \in Nat, NEW y \in Nat, <<y, x>> \notin Down
      PROVE  x <= y
  <2>1. ~(y < x)
    BY <1>1 DEF Down
  <2> QED BY <2>1
<1>2. PICK x \in T : \A y \in T : <<y, x>> \notin Down
  BY WFMin, DownWellFounded
<1>3. \A y \in T : x <= y
  BY <1>1, <1>2
<1> QED BY <1>3

\* What holds for 0 and, with every k, for k + 1, holds for every natural.
LEMMA Induction ==
    ASSUME NEW S, 0 \in S, \A k \in Nat : k \in S => k + 1 \in S
    PROVE  \A k \in Nat : k \in S
<1> DEFINE T == {k \in Nat : k \notin S}
<1> SUFFICES ASSUME T # {} PROVE FALSE
  OBVIOUS
<1>1. PICK x \in T : \A y \in T : x <= y
  BY LeastElement
<1>2. x # 0 /\ x \in Nat
  OBVIOUS
<1>3. x - 1 \in Nat /\ x - 1 \notin T
  BY <1>1, <1>2
<1>4. (x - 1) + 1 \in S
  BY <1>3
<1> QED BY <1>2, <1>4

\* A set of naturals with an upper bound has a greatest element.
LEMMA GreatestElement ==
    ASSUME NEW T \in SUBSET Nat, T # {}, NEW bound \in Nat, \A y \in T : y <= bound
    PROVE  \E x \in T : \A y \in T : y <= x
<1> DEFINE U == {k \in Nat : bound - k \in T}
<1>1. U \in SUBSET Nat /\ U # {}
  <2>1. PICK y \in T : TRUE
    OBVIOUS
  <2>2. bound - y \in Nat /\ bound - (bound - y) = y
    OBVIOUS
  <2>3. bound - y \in U
    BY <2>2
  <2> QED BY <2>3
<1>2. PICK k \in U : \A l \in U : k <= l
  BY <1>1, LeastElement
<1>3. k \in Nat /\ bound - k \in T
  OBVIOUS
<1>4. ASSUME NEW y \in T PROVE y <= bound - k
  <2>1. y \in Nat /\ y <= bound
    OBVIOUS
  <2>2. bound - y \in Nat /\ bound - (bound - y) = y
    BY <2>1
  <2>3. k <= bound - y
    BY <1>2, <2>2
  <2> QED BY <1>3, <2>1, <2>3
<1> QED BY <1>3, <1>4
-----------------------------------------------------------------------------
(* Powers.                                                                 *)

IsPower(b, f, k) == f = [j \in 0 .. k |-> IF j = 0 THEN 1 ELSE b * f[j - 1]]

\* The function by which Power is defined exists,
LEMMA PowersExist ==
    ASSUME NEW b, NEW k \in Nat
    PROVE  \E f : IsPower(b, f, k)
<1> DEFINE S == {l \in Nat : \E f : IsPower(b, f, l)}
<1>1. 0 \in S
  <2> DEFINE f == [j \in 0 .. 0 |-> 1]
  <2>1. IsPower(b, f, 0)
    BY DEF IsPower
  <2> QED BY <2>1
<1>2. ASSUME NEW l \in Nat, l \in S PROVE l + 1 \in S
  <2>1. PICK f : IsPower(b, f, l)
    BY <1>2
  <2> DEFINE g == [j \in 0 .. l + 1 |-> IF j = l + 1 THEN b * f[l] ELSE f[j]]
  <2>2. \A j \in 0 .. l + 1 : g[j] = IF j = 0 THEN 1 ELSE b * g[j - 1]
    BY <2>1 DEF IsPower
  <2>3. IsPower(b, g, l + 1)
    BY <2>2 DEF IsPower
  <2> QED BY <2>3
<1> HIDE DEF S
<1>3. k \in S
  BY <1>1, <1>2, Induction
<1> QED BY <1>3 DEF S

\* and is the same for every last argument.
LEMMA PowersUnique ==
    ASSUME NEW b, NEW k \in Nat, NEW l \in Nat, NEW f, NEW g,
           IsPower(b, f, k), IsPower(b, g, l)
    PROVE  \A j \in Nat : j <= k /\ j <= l => f[j] = g[j]
<1> DEFINE S == {j \in Nat : j <= k /\ j <= l => f[j] = g[j]}
<1>1. 0 \in S
  <2>1. f[0] = 1 /\ g[0] = 1
    BY DEF IsPower
  <2> QED BY <2>1
<1>2. ASSUME NEW j \in Nat, j \in S PROVE j + 1 \in S
  <2>1. SUFFICES ASSUME j + 1 <= k, j + 1 <= l PROVE f[j + 1] = g[j + 1]
    OBVIOUS
  <2>2. f[j] = g[j]
    BY <1>2, <2>1
  <2>3. j + 1 \in 0 .. k /\ j + 1 \in 0 .. l /\ j + 1 # 0 /\ (j + 1) - 1 = j
    BY <2>1
  <2>4. f[j + 1] = b * f[j] /\ g[j + 1] = b * g[j]
    BY <2>3 DEF IsPower
  <2> QED BY <2>2, <2>4
<1> HIDE DEF S
<1>3. \A j \in Nat : j \in S
  BY <1>1, <1>2, Induction
<1> QED BY <1>3 DEF S

\* Power by its recursion.
LEMMA PowerRecursion ==
    ASSUME NEW b, NEW k \in Nat
    PROVE  Power(b, 0) = 1 /\ Power(b, k + 1) = b * Power(b, k)
<1> DEFINE P(l) == CHOOSE f : IsPower(b, f, l)
<1>1. ASSUME NEW l \in Nat PROVE IsPower(b, P(l), l) /\ Power(b, l) = P(l)[l]
  <2>1. IsPower(b, P(l), l)
    BY PowersExist
  <2>2. Power(b, l) = P(l)[l]
    BY DEF Power, IsPower
  <2> QED BY <2>1, <2>2
<1> HIDE DEF P
<1>2. Power(b, 0) = 1
  BY <1>1 DEF IsPower
<1>3. k + 1 \in Nat
  OBVIOUS
<1>4. P(k + 1)[k + 1] = b * P(k + 1)[(k + 1) - 1]
  BY <1>1, <1>3 DEF IsPower
<1>5. P(k + 1)[k] = P(k)[k]
  <2>1. IsPower(b, P(k), k) /\ IsPower(b, P(k + 1), k + 1)
    BY <1>1, <1>3
  <2> QED BY <1>3, <2>1, PowersUnique
<1>6. Power(b, k) = P(k)[k] /\ Power(b, k + 1) = P(k + 1)[k + 1]
  BY <1>1, <1>3
<1>7. (k + 1) - 1 = k
  OBVIOUS
<1> QED BY <1>2, <1>4, <1>5, <1>6, <1>7

\* A power is a natural number, and of a positive base positive.
LEMMA PowerType ==
    ASSUME NEW b \in Nat, NEW k \in Nat
    PROVE  Power(b, k) \in Nat /\ (b > 0 => Power(b, k) > 0)
<1> DEFINE S == {l \in Nat : Power(b, l) \in Nat /\ (b > 0 => Power(b, l) > 0)}
<1>1. 0 \in S
  BY PowerRecursion
<1>2. ASSUME NEW l \in Nat, l \in S PROVE l + 1 \in S
  <2>1. Power(b, l) \in Nat /\ Power(b, l + 1) = b * Power(b, l)
    BY <1>2, PowerRecursion
  <2>2. b * Power(b, l) \in Nat
    BY <2>1
  <2>3. b > 0 => b * Power(b, l) > 0
    BY <1>2, <2>1
  <2> QED BY <2>1, <2>2, <2>3
<1> HIDE DEF S
<1>3. k \in S
  BY <1>1, <1>2, Induction
<1> QED BY <1>3 DEF S

\* Exponents are added,
LEMMA PowerOfSum ==
    ASSUME NEW b \in Nat, NEW k \in Nat, NEW l \in Nat
    PROVE  Power(b, k + l) = Power(b, k) * Power(b, l)
<1> DEFINE S == {j \in Nat : Power(b, k + j) = Power(b, k) * Power(b, j)}
<1>0. Power(b, k) \in Nat
  BY PowerType
<1>1. 0 \in S
  <2>1. Power(b, 0) = 1 /\ k + 0 = k
    BY PowerRecursion
  <2> QED BY <1>0, <2>1
<1>2. ASSUME NEW j \in Nat, j \in S PROVE j + 1 \in S
  <2>1. Power(b, k + j) = Power(b, k) * Power(b, j)
    BY <1>2
  <2>2. Power(b, j + 1) = b * Power(b, j)
    BY PowerRecursion
  <2>3. k + j \in Nat /\ k + (j + 1) = (k + j) + 1
    OBVIOUS
  <2>4. Power(b, k + (j + 1)) = b * Power(b, k + j)
    BY <2>3, PowerRecursion
  <2>5. Power(b, j) \in Nat
    BY PowerType
  <2>6. b * (Power(b, k) * Power(b, j)) = Power(b, k) * (b * Power(b, j))
    BY <1>0, <2>5
  <2>7. Power(b, k + (j + 1)) = Power(b, k) * Power(b, j + 1)
    BY <2>1, <2>2, <2>4, <2>6
  <2> QED BY <2>7
<1> HIDE DEF S
<1>3. l \in S
  BY <1>1, <1>2, Induction
<1> QED BY <1>3 DEF S

\* and multiplied.
LEMMA PowerOfPower ==
    ASSUME NEW b \in Nat, NEW k \in Nat, NEW l \in Nat
    PROVE  k * l \in Nat /\ Power(Power(b, k), l) = Power(b, k * l)
<1> DEFINE S == {j \in Nat : k * j \in Nat /\ Power(Power(b, k), j) = Power(b, k * j)}
<1>0. Power(b, k) \in Nat
  BY PowerType
<1>1. 0 \in S
  <2>1. k * 0 = 0
    OBVIOUS
  <2>2. Power(b, 0) = 1 /\ Power(Power(b, k), 0) = 1
    BY <1>0, PowerRecursion
  <2> QED BY <2>1, <2>2
<1>2. ASSUME NEW j \in Nat, j \in S PROVE j + 1 \in S
  <2>1. k * (j + 1) = k + k * j
    OBVIOUS
  <2>2. k * j \in Nat /\ Power(Power(b, k), j) = Power(b, k * j)
    BY <1>2
  <2>3. Power(Power(b, k), j + 1) = Power(b, k) * Power(b, k * j)
    BY <1>0, <2>2, PowerRecursion
  <2>4. Power(b, k + k * j) = Power(b, k) * Power(b, k * j)
    BY <2>2, PowerOfSum
  <2>5. k * (j + 1) \in Nat
    BY <2>1, <2>2
  <2> QED BY <2>1, <2>3, <2>4, <2>5
<1> HIDE DEF S
<1>3. l \in S
  BY <1>1, <1>2, Induction
<1> QED BY <1>3 DEF S

\* The powers of 2 are positive, 1 or even, and grow with the exponent.
LEMMA PowersOfTwo ==
    ASSUME NEW k \in Nat, NEW l \in Nat
    PROVE  /\ Power(2, k) \in Nat /\ Power(2, k) > 0
           /\ Power(2, 0) = 1 /\ Power(2, k + 1) = 2 * Power(2, k)
           /\ k <= l => /\ Power(2, l) = Power(2, l - k) * Power(2, k)
                        /\ Power(2, k) <= Power(2, l)
           /\ k < l => 2 * Power(2, k) <= Power(2, l)
<1>1. /\ Power(2, k) \in Nat /\ Power(2, k) > 0
      /\ Power(2, 0) = 1 /\ Power(2, k + 1) = 2 * Power(2, k)
  BY PowerType, PowerRecursion
<1>2. ASSUME NEW i \in Nat, NEW j \in Nat, i <= j
      PROVE  Power(2, j) = Power(2, j - i) * Power(2, i) /\ Power(2, i) <= Power(2, j)
  <2>1. j - i \in Nat /\ (j - i) + i = j
    BY <1>2
  <2>2. Power(2, j) = Power(2, j - i) * Power(2, i)
    BY <2>1, PowerOfSum
  <2>3. Power(2, j - i) \in Nat /\ Power(2, j - i) > 0
    BY <2>1, PowerType, 2 \in Nat, 2 > 0
  <2>5. Power(2, i) \in Nat
    BY PowerType, 2 \in Nat
  <2>4. Power(2, i) <= Power(2, j - i) * Power(2, i)
    BY <2>3, <2>5
  <2> QED BY <2>2, <2>4
<1>3. k < l => 2 * Power(2, k) <= Power(2, l)
  <2> SUFFICES ASSUME k < l PROVE 2 * Power(2, k) <= Power(2, l)
    OBVIOUS
  <2>1. k + 1 \in Nat /\ k + 1 <= l
    OBVIOUS
  <2> QED BY <1>1, <1>2, <2>1
<1> QED BY <1>1, <1>2, <1>3

\* They are positive.
LEMMA PositivePowers == \A k \in Nat : Power(2, k) \in Nat \ {0}
<1> SUFFICES ASSUME NEW k \in Nat PROVE Power(2, k) \in Nat \ {0}
  OBVIOUS
<1>1. Power(2, k) \in Nat /\ Power(2, k) > 0
  BY PowersOfTwo
<1> QED BY <1>1

-----------------------------------------------------------------------------
(* Quotients and remainders.                                               *)

\* A number is the quotient times the divisor and the remainder.
LEMMA Division ==
    ASSUME NEW a \in Nat, NEW d \in Nat \ {0}
    PROVE  /\ a \div d \in Nat /\ a % d \in Nat /\ a % d < d
           /\ a = d * (a \div d) + (a % d)
OBVIOUS

\* Quotient and remainder are the only numbers with that property.
LEMMA DivisionUnique ==
    ASSUME NEW a \in Nat, NEW d \in Nat \ {0}, NEW q \in Int, NEW r \in Nat,
           r < d, a = d * q + r
    PROVE  a \div d = q /\ a % d = r
<1> DEFINE p == a \div d
           e == a % d
<1>1. p \in Nat /\ e \in Nat /\ e < d /\ a = d * p + e
  BY Division
<1> HIDE DEF p, e
<1>2. p = q
  <2>1. CASE p < q
    <3>1. d * (p + 1) <= d * q
      BY <1>1, <2>1
    <3> QED BY <1>1, <3>1
  <2>2. CASE q < p
    <3>1. d * (q + 1) <= d * p
      BY <1>1, <2>2
    <3> QED BY <1>1, <3>1
  <2> QED BY <1>1, <2>1, <2>2
<1>3. e = r
  BY <1>1, <1>2
<1> QED BY <1>2, <1>3 DEF p, e

\* Dividing twice is dividing by the product; the remainder by the product is
\* the first remainder and a digit above it.
LEMMA DivisionTwice ==
    ASSUME NEW a \in Nat, NEW d \in Nat \ {0}, NEW e \in Nat \ {0}
    PROVE  /\ d * e \in Nat \ {0}
           /\ (a \div d) \div e = a \div (d * e)
           /\ a % (d * e) = d * ((a \div d) % e) + (a % d)
<1> DEFINE p == a \div d
           r == a % d
           q == p \div e
           t == p % e
<1>1. p \in Nat /\ r \in Nat /\ r < d /\ a = d * p + r
  BY Division
<1>2. q \in Nat /\ t \in Nat /\ t < e /\ p = e * q + t
  BY <1>1, Division
<1> HIDE DEF p, r, q, t
<1>3. d * e \in Nat \ {0}
  OBVIOUS
<1>4. a = (d * e) * q + (d * t + r)
  <2>1. d * p = d * (e * q) + d * t
    BY <1>1, <1>2
  <2>2. d * (e * q) = (d * e) * q
    BY <1>2
  <2>3. d * t \in Nat /\ (d * e) * q \in Nat
    BY <1>2, <1>3
  <2> QED BY <1>1, <2>1, <2>2, <2>3
<1>5. d * t + r \in Nat /\ d * t + r < d * e
  <2>1. d * (t + 1) <= d * e
    BY <1>2
  <2>2. d * (t + 1) = d * t + d /\ d * t \in Nat
    BY <1>2
  <2> QED BY <1>1, <1>3, <2>1, <2>2
<1>6. a \div (d * e) = q /\ a % (d * e) = d * t + r
  <2> DEFINE m == d * e
             u == d * t + r
  <2>1. m \in Nat \ {0} /\ u \in Nat /\ u < m /\ a = m * q + u /\ q \in Int
    BY <1>2, <1>3, <1>4, <1>5
  <2> HIDE DEF m, u
  <2>2. a \div m = q /\ a % m = u
    BY <2>1, DivisionUnique
  <2> QED BY <2>2 DEF m, u
<1>7. (a \div d) \div e = q /\ d * ((a \div d) % e) + (a % d) = d * t + r
  BY Zenon DEF q, p, t, r
<1> QED BY <1>3, <1>6, <1>7, Zenon

\* The first of these, to be cited on its own.
LEMMA QuotientTwice ==
    ASSUME NEW x \in Nat, NEW u \in Nat \ {0}, NEW v \in Nat \ {0}
    PROVE  (x \div u) \div v = x \div (u * v)
BY DivisionTwice, ZenonT(60)

\* Digits below a remainder's divisor are digits of the number: the remainder
\* by d * w * c has the same digit to the base w above d as the number.
LEMMA DigitOfRemainder ==
    ASSUME NEW a \in Nat, NEW d \in Nat \ {0}, NEW w \in Nat \ {0}, NEW c \in Nat \ {0}
    PROVE  ((a % (d * (w * c))) \div d) % w = (a \div d) % w
<1> DEFINE m == w * c
           p == a \div d
           r == a % d
           t == p % m
           q == p \div m
<1>0. m \in Nat \ {0}
  OBVIOUS
<1>1. p \in Nat /\ r \in Nat /\ r < d
  BY Division
<1> HIDE DEF m
<1>2. a % (d * m) = d * t + r
  BY <1>0, DivisionTwice, Zenon
<1>3. t \in Nat /\ q \in Nat /\ p = m * q + t
  BY <1>0, <1>1, Division
<1> HIDE DEF p, r, q, t
<1>4. (d * t + r) \div d = t
  <2>1. d * t + r \in Nat
    BY <1>1, <1>3
  <2> QED BY <1>1, <1>3, <2>1, DivisionUnique
<1>5. p % w = t % w
  <2> DEFINE u == t % w
             v == t \div w
  <2>1. u \in Nat /\ u < w /\ t = w * v + u /\ v \in Nat
    BY <1>3, Division
  <2> HIDE DEF u, v
  <2>2. m * q = w * (c * q) /\ c * q \in Nat
    BY <1>3 DEF m
  <2>3. w * (c * q + v) = w * (c * q) + w * v
    BY <2>1, <2>2
  <2>4. p = w * (c * q + v) + u /\ c * q + v \in Int
    BY <1>3, <2>1, <2>2, <2>3
  <2>5. p % w = u
    BY <1>1, <2>1, <2>4, DivisionUnique
  <2> QED BY <2>5 DEF u
<1> QED BY <1>2, <1>4, <1>5 DEF p, m

-----------------------------------------------------------------------------
(* Bits.                                                                   *)

\* The words have a base and the array a number of bits.
LEMMA ArrayTypes ==
    /\ WordBits \in Nat \ {0} /\ Length \in Nat \ {0}
    /\ WordBase \in Nat \ {0} /\ WordBits * Length \in Nat
<1>1. WordBits \in Nat \ {0} /\ Length \in Nat \ {0}
  BY ArrayAssumption
<1>2. WordBase \in Nat \ {0}
  BY <1>1, PowersOfTwo DEF WordBase
<1>3. WordBits * Length \in Nat
  BY <1>1
<1> QED BY <1>1, <1>2, <1>3

\* Bit i of an array is bit i of the number it stands for.
LEMMA BitOfNumber ==
    ASSUME NEW x \in Nat, NEW i \in Nat, i < WordBits * Length
    PROVE  BitOf(Words(x), i) = (x \div Power(2, i)) % 2
<1> DEFINE a == i \div WordBits
           b == i % WordBits
           low == Power(2, b)
           high == Power(2, (WordBits - b) - 1)
           below == Power(2, WordBits * a)
<1>1. /\ WordBits \in Nat \ {0} /\ Length \in Nat \ {0}
      /\ a \in Nat /\ b \in Nat /\ b < WordBits /\ i = WordBits * a + b
  BY ArrayTypes, Division
<1>2. Words(x)[Length - a] = (x \div Weight(Length - a)) % WordBase
  <2> HIDE DEF a, b
  <2>1. a < Length
    <3> SUFFICES ASSUME a >= Length PROVE FALSE
      BY <1>1
    <3>1. WordBits * a >= WordBits * Length
      BY <1>1
    <3>2. WordBits * a \in Nat /\ WordBits * Length \in Nat
      BY <1>1
    <3> QED BY <1>1, <3>1, <3>2
  <2>2. Length - a \in 1 .. Length
    BY <1>1, <2>1
  <2> QED BY <2>2 DEF Words, Places
<1>3. BitOf(Words(x), i) = (Words(x)[Length - a] \div low) % 2
  BY DEF BitOf
<1> HIDE DEF a, b
<1>4. /\ WordBits * a \in Nat /\ (WordBits - b) - 1 \in Nat
      /\ low \in Nat \ {0} /\ high \in Nat \ {0} /\ below \in Nat \ {0}
  <2>1. WordBits * a \in Nat /\ (WordBits - b) - 1 \in Nat
    BY <1>1
  <2> QED BY <1>1, <2>1, PositivePowers
<1>5. Weight(Length - a) = below
  <2>1. Length - (Length - a) = a
    BY <1>1
  <2>2. Weight(Length - a) = Power(WordBase, a)
    BY <2>1 DEF Weight
  <2>3. Power(Power(2, WordBits), a) = Power(2, WordBits * a)
    BY <1>1, 2 \in Nat, PowerOfPower
  <2> QED BY <2>2, <2>3 DEF WordBase
<1>6. WordBase = low * (2 * high)
  <2>1. ((WordBits - b) - 1) + 1 = WordBits - b
    BY <1>1
  <2>2. WordBits - b \in Nat /\ (WordBits - b) + b = WordBits
    BY <1>1
  <2>3. Power(2, WordBits - b) = 2 * high
    BY <1>4, <2>1, PowersOfTwo
  <2>4. Power(2, WordBits) = Power(2, WordBits - b) * low
    BY <1>1, <2>2, 2 \in Nat, PowerOfSum
  <2> HIDE DEF low, high
  <2> QED BY <1>4, <2>3, <2>4 DEF WordBase
<1>7. Power(2, i) = below * low
  BY <1>1, <1>4, 2 \in Nat, PowerOfSum
<1> HIDE DEF low, high, below
<1>8. x \div below \in Nat /\ (x \div below) \div low = x \div (below * low)
  <2>1. x \div below \in Nat
    BY <1>4, Division
  <2>2. below \in Nat \ {0} /\ low \in Nat \ {0}
    BY <1>4
  <2>3. (x \div below) \div low = x \div (below * low)
    BY <2>2, QuotientTwice
  <2> QED BY <2>1, <2>3
<1>9. (((x \div below) % (low * (2 * high))) \div low) % 2 = ((x \div below) \div low) % 2
  <2> DEFINE y == x \div below
  <2>1. y \in Nat /\ 2 \in Nat \ {0} /\ low \in Nat \ {0} /\ high \in Nat \ {0}
    BY <1>4, <1>8
  <2> HIDE DEF y
  <2>2. ((y % (low * (2 * high))) \div low) % 2 = (y \div low) % 2
    BY <2>1, DigitOfRemainder, ZenonT(60)
  <2> QED BY <2>2 DEF y
<1> QED BY <1>2, <1>3, <1>5, <1>6, <1>7, <1>8, <1>9

\* The number in the first i + 1 bits is bit i and the number in the first i.
LEMMA OneMoreBit ==
    ASSUME NEW x \in Nat, NEW i \in Nat, i < WordBits * Length
    PROVE  x % Power(2, i + 1) = Power(2, i) * BitOf(Words(x), i) + (x % Power(2, i))
<1>1. Power(2, i) \in Nat \ {0} /\ Power(2, i + 1) = 2 * Power(2, i)
  BY PowersOfTwo
<1>2. Power(2, i) * 2 = 2 * Power(2, i)
  BY <1>1
<1>3. x % (Power(2, i) * 2) = Power(2, i) * ((x \div Power(2, i)) % 2) + (x % Power(2, i))
  BY <1>1, DivisionTwice, 2 \in Nat \ {0}, Zenon
<1> QED BY <1>1, <1>2, <1>3, BitOfNumber

\* A bit is 0 or 1.
LEMMA BitType ==
    ASSUME NEW x \in Nat, NEW i \in Nat, i < WordBits * Length
    PROVE  BitOf(Words(x), i) \in {0, 1}
<1>1. Power(2, i) \in Nat \ {0}
  BY PowersOfTwo
<1>2. x \div Power(2, i) \in Nat
  BY <1>1, Division
<1>3. (x \div Power(2, i)) % 2 \in {0, 1}
  BY <1>2
<1> QED BY <1>3, BitOfNumber

\* findN is a number of bits, and the number has no more bits than that: what
\* the loop over the first findN bits leaves out is nothing.
LEMMA BitsFound ==
    ASSUME NEW x \in Nat, x < Power(2, WordBits * Length)
    PROVE  /\ findN(Words(x)) \in Nat /\ findN(Words(x)) <= WordBits * Length
           /\ x % Power(2, findN(Words(x))) = x
<1> DEFINE N == WordBits * Length
           n == findN(Words(x))
           ones == {i \in 0 .. WordBits * Length - 1 : BitOf(Words(x), i) = 1}
<1>1. N \in Nat
  BY ArrayTypes
<1>2. n \in Nat /\ n <= N /\ \A i \in Nat : n <= i /\ i < N => BitOf(Words(x), i) # 1
  <2>1. ones \in SUBSET Nat /\ \A i \in ones : i <= N - 1
    BY <1>1
  <2>2. CASE ones = {}
    <3>1. n = 0
      BY <2>2 DEF findN
    <3> QED BY <1>1, <2>2, <3>1
  <2>3. CASE ones # {}
    <3> DEFINE top == CHOOSE k \in ones : \A i \in ones : i <= k
    <3>1. N - 1 \in Nat
      BY <1>1, <2>3
    <3> HIDE DEF ones, N
    <3>2. \E k \in ones : \A i \in ones : i <= k
      BY <2>1, <2>3, <3>1, GreatestElement
    <3>3. top \in ones /\ \A i \in ones : i <= top
      BY <3>2
    <3> USE DEF ones
    <3>4. n = 1 + top
      BY <2>3 DEF findN
    <3> HIDE DEF top, ones, n
    <3>5. top \in Nat /\ top <= N - 1
      BY <2>1, <3>3
    <3>6. ASSUME NEW i \in Nat, n <= i, i < N PROVE BitOf(Words(x), i) # 1
      <4>1. i \notin ones
        BY <3>3, <3>4, <3>5, <3>6
      <4>2. i \in 0 .. WordBits * Length - 1
        BY <1>1, <3>6 DEF N
      <4> QED BY <4>1, <4>2 DEF ones
    <3> QED BY <1>1, <3>4, <3>5, <3>6
  <2> QED BY <2>2, <2>3
<1> HIDE DEF n, ones
<1> DEFINE S == {d \in Nat : n + d <= N => x % Power(2, n + d) = x % Power(2, n)}
<1>3. 0 \in S
  BY <1>2
<1>4. ASSUME NEW d \in Nat, d \in S PROVE d + 1 \in S
  <2> SUFFICES ASSUME n + (d + 1) <= N PROVE x % Power(2, n + (d + 1)) = x % Power(2, n)
    OBVIOUS
  <2>1. /\ n + d \in Nat /\ n + d < N /\ n <= n + d /\ n + d <= N
        /\ n + (d + 1) = (n + d) + 1
    BY <1>1, <1>2
  <2>2. BitOf(Words(x), n + d) = 0
    BY <1>2, <2>1, BitType
  <2>3. Power(2, n + d) \in Nat \ {0}
    BY <2>1, PowersOfTwo
  <2>4. x % Power(2, n + d) \in Nat
    BY <2>3, Division
  <2>5. Power(2, n + d) * 0 = 0
    BY <2>3
  <2>6. x % Power(2, (n + d) + 1) = x % Power(2, n + d)
    BY <2>1, <2>2, <2>4, <2>5, OneMoreBit
  <2>7. x % Power(2, n + d) = x % Power(2, n)
    BY <1>4, <2>1
  <2> QED BY <2>1, <2>6, <2>7
<1>5. N - n \in Nat /\ n + (N - n) = N
  BY <1>1, <1>2
<1> HIDE DEF S
<1>6. N - n \in S
  BY <1>3, <1>4, <1>5, Induction
<1>7. x % Power(2, N) = x % Power(2, n)
  BY <1>1, <1>5, <1>6 DEF S
<1>8. x % Power(2, N) = x
  <2>1. Power(2, N) \in Nat \ {0}
    BY <1>1, PowersOfTwo
  <2>2. x = Power(2, N) * 0 + x
    BY <2>1
  <2> QED BY <2>1, <2>2, DivisionUnique
<1> QED BY <1>2, <1>7, <1>8 DEF n

-----------------------------------------------------------------------------
(* Congruence.                                                             *)

Congruent(a, b, m) == \E k \in Int : a = b + k * m

\* Congruence is an equivalence,
LEMMA CongruenceIsEquivalence ==
    ASSUME NEW a \in Int, NEW b \in Int, NEW c \in Int, NEW m \in Nat
    PROVE  /\ Congruent(a, a, m)
           /\ Congruent(a, b, m) => Congruent(b, a, m)
           /\ Congruent(a, b, m) /\ Congruent(b, c, m) => Congruent(a, c, m)
<1>1. Congruent(a, a, m)
  <2>1. a = a + 0 * m
    OBVIOUS
  <2> QED BY <2>1 DEF Congruent
<1>2. ASSUME Congruent(a, b, m) PROVE Congruent(b, a, m)
  <2>1. PICK k \in Int : a = b + k * m
    BY <1>2 DEF Congruent
  <2>2. (-k) * m = -(k * m) /\ k * m \in Int
    OBVIOUS
  <2>3. b = a + (-k) * m /\ -k \in Int
    BY <2>1, <2>2
  <2> QED BY <2>3 DEF Congruent
<1>3. ASSUME Congruent(a, b, m), Congruent(b, c, m) PROVE Congruent(a, c, m)
  <2>1. PICK k \in Int : a = b + k * m
    BY <1>3 DEF Congruent
  <2>2. PICK l \in Int : b = c + l * m
    BY <1>3 DEF Congruent
  <2>3. (k + l) * m = k * m + l * m /\ k * m \in Int /\ l * m \in Int
    OBVIOUS
  <2>4. a = c + (k + l) * m /\ k + l \in Int
    BY <2>1, <2>2, <2>3
  <2> QED BY <2>4 DEF Congruent
<1> QED BY <1>1, <1>2, <1>3

\* which products respect,
LEMMA CongruentProducts ==
    ASSUME NEW a \in Int, NEW b \in Int, NEW c \in Int, NEW d \in Int, NEW m \in Nat,
           Congruent(a, b, m), Congruent(c, d, m)
    PROVE  Congruent(a * c, b * d, m)
<1>1. PICK k \in Int : a = b + k * m
  BY DEF Congruent
<1>2. PICK l \in Int : c = d + l * m
  BY DEF Congruent
<1> DEFINE j == b * l + k * d + (k * l) * m
<1>3. j \in Int
  OBVIOUS
<1>4. a * c = b * d + j * m
  <2>1. a * c = (b + k * m) * c
    BY <1>1
  <2>2. (b + k * m) * c = b * c + (k * m) * c
    OBVIOUS
  <2>3. b * c = b * d + b * (l * m)
    BY <1>2
  <2>4. (k * m) * c = (k * m) * d + (k * m) * (l * m)
    BY <1>2
  <2>5. b * (l * m) = (b * l) * m /\ (k * m) * d = (k * d) * m
    OBVIOUS
  <2>6. (k * m) * (l * m) = ((k * l) * m) * m
    OBVIOUS
  <2>7. j * m = (b * l) * m + (k * d) * m + ((k * l) * m) * m
    OBVIOUS
  <2> QED BY <2>1, <2>2, <2>3, <2>4, <2>5, <2>6, <2>7
<1> HIDE DEF j
<1> QED BY <1>3, <1>4 DEF Congruent

\* and which is equality of the remainders.
LEMMA CongruentRemainders ==
    ASSUME NEW a \in Nat, NEW b \in Nat, NEW m \in Nat \ {0}
    PROVE  /\ Congruent(a, b, m) <=> a % m = b % m
           /\ Congruent(a % m, a, m)
<1> DEFINE p == a \div m
           r == a % m
           q == b \div m
           t == b % m
<1>1. p \in Nat /\ r \in Nat /\ r < m /\ a = m * p + r
  BY Division
<1>2. q \in Nat /\ t \in Nat /\ t < m /\ b = m * q + t
  BY Division
<1>3. \A l \in Int, u \in Nat : u < m /\ a = m * l + u => r = u
  BY DivisionUnique
<1> HIDE DEF p, r, q, t
<1>4. ASSUME Congruent(a, b, m) PROVE r = t
  <2>1. PICK k \in Int : a = b + k * m
    BY <1>4 DEF Congruent
  <2>2. m * (q + k) = m * q + k * m
    BY <1>2
  <2>3. a = m * (q + k) + t /\ q + k \in Int
    BY <1>2, <2>1, <2>2
  <2> QED BY <1>2, <1>3, <2>3
<1>5. ASSUME r = t PROVE Congruent(a, b, m)
  <2>1. (p - q) * m = m * p - m * q /\ p - q \in Int
    BY <1>1, <1>2
  <2>2. a = b + (p - q) * m
    BY <1>1, <1>2, <1>5, <2>1
  <2> QED BY <2>1, <2>2 DEF Congruent
<1>6. Congruent(r, a, m)
  <2>1. (-p) * m = -(m * p) /\ -p \in Int /\ m * p \in Int
    BY <1>1
  <2>2. r = a + (-p) * m
    BY <1>1, <2>1
  <2> QED BY <2>1, <2>2 DEF Congruent
<1> QED BY <1>4, <1>5, <1>6 DEF r, t

\* Powers of two can be cancelled when the modulus is odd.
LEMMA Cancel ==
    ASSUME NEW a \in Int, NEW b \in Int, NEW m \in Nat, m % 2 = 1, NEW k \in Nat,
           Congruent(Power(2, k) * a, Power(2, k) * b, m)
    PROVE  Congruent(a, b, m)
<1>1. ASSUME NEW c \in Int, NEW d \in Int, Congruent(2 * c, 2 * d, m)
      PROVE  Congruent(c, d, m)
  <2>1. PICK l \in Int : 2 * c = 2 * d + l * m
    BY <1>1 DEF Congruent
  <2> DEFINE h == m \div 2
  <2>2. h \in Nat /\ m = 2 * h + 1
    BY Division
  <2> HIDE DEF h
  <2>3. l * m = 2 * (l * h) + l /\ l * h \in Int
    BY <2>2
  <2>4. l = 2 * (c - d - l * h)
    BY <2>1, <2>3
  <2> DEFINE j == c - d - l * h
  <2>5. j \in Int /\ l = 2 * j
    BY <2>3, <2>4
  <2> HIDE DEF j
  <2>6. l * m = 2 * (j * m) /\ j * m \in Int
    BY <2>5
  <2>7. c = d + j * m
    BY <2>1, <2>6
  <2> QED BY <2>5, <2>7 DEF Congruent
<1> DEFINE S == {l \in Nat : \A c, d \in Int :
                  Congruent(Power(2, l) * c, Power(2, l) * d, m) => Congruent(c, d, m)}
<1>2. 0 \in S
  <2>1. \A c \in Int : Power(2, 0) * c = c
    BY PowersOfTwo
  <2> QED BY <2>1
<1>3. ASSUME NEW l \in Nat, l \in S PROVE l + 1 \in S
  <2>1. SUFFICES ASSUME NEW c \in Int, NEW d \in Int,
                        Congruent(Power(2, l + 1) * c, Power(2, l + 1) * d, m)
                 PROVE  Congruent(c, d, m)
    OBVIOUS
  <2>2. Power(2, l) \in Nat /\ Power(2, l + 1) = 2 * Power(2, l)
    BY PowersOfTwo
  <2>3. /\ Power(2, l + 1) * c = 2 * (Power(2, l) * c) /\ Power(2, l) * c \in Int
        /\ Power(2, l + 1) * d = 2 * (Power(2, l) * d) /\ Power(2, l) * d \in Int
    BY <2>2
  <2>4. Congruent(Power(2, l) * c, Power(2, l) * d, m)
    BY <1>1, <2>1, <2>3
  <2> QED BY <1>3, <2>4
<1> HIDE DEF S
<1>4. k \in S
  BY <1>2, <1>3, Induction
<1> QED BY <1>4 DEF S

-----------------------------------------------------------------------------
(* Words.  The weights are powers of WordBase, which is even.              *)

Top == Power(WordBase, Length)

\* The base of the words and its powers.
LEMMA WordPowers ==
    ASSUME NEW k \in Nat
    PROVE  /\ WordBase \in Nat \ {0} /\ WordBase \div 2 \in Nat \ {0}
           /\ WordBase = 2 * (WordBase \div 2)
           /\ Power(WordBase, k) \in Nat \ {0}
           /\ Power(WordBase, 0) = 1
           /\ Power(WordBase, k + 1) = WordBase * Power(WordBase, k)
<1>1. WordBase \in Nat \ {0}
  BY ArrayTypes
<1>2. /\ Power(WordBase, k) \in Nat /\ Power(WordBase, k) > 0 /\ Power(WordBase, 0) = 1
      /\ Power(WordBase, k + 1) = WordBase * Power(WordBase, k)
  BY <1>1, PowerType, PowerRecursion
<1>3. WordBase \div 2 \in Nat \ {0} /\ WordBase = 2 * (WordBase \div 2)
  <2>1. WordBits - 1 \in Nat /\ (WordBits - 1) + 1 = WordBits
    BY ArrayTypes
  <2>2. Power(2, WordBits - 1) \in Nat \ {0}
    BY <2>1, PositivePowers
  <2>3. Power(2, WordBits) = 2 * Power(2, WordBits - 1)
    BY <2>1, PowersOfTwo
  <2> QED BY <2>2, <2>3 DEF WordBase
<1> QED BY <1>1, <1>2, <1>3

\* The array as a whole: Top is two to the number of its bits.
LEMMA TopIsTwoToBits == Top = Power(2, WordBits * Length) /\ Top \in Nat \ {0}
<1>1. WordBits \in Nat /\ Length \in Nat
  BY ArrayTypes
<1>2. Power(Power(2, WordBits), Length) = Power(2, WordBits * Length)
  BY <1>1, 2 \in Nat, PowerOfPower
<1>3. Top \in Nat \ {0}
  BY <1>1, WordPowers DEF Top
<1> QED BY <1>2, <1>3 DEF Top, WordBase

\* The weight of a word, and that of all words from it on.
LEMMA WeightOfWord ==
    ASSUME NEW j \in Places
    PROVE  /\ j \in Nat /\ j >= 1 /\ j <= Length /\ Length \in Nat
           /\ Weight(j) \in Nat \ {0}
           /\ \E c \in Nat \ {0} : Top = Weight(j) * (WordBase * c) /\ c = Power(WordBase, j - 1)
           /\ \A x : Words(x)[j] = (x \div Weight(j)) % WordBase
<1>1. j \in Nat /\ j >= 1 /\ j <= Length /\ Length \in Nat
  BY ArrayTypes DEF Places
<1>2. Length - j \in Nat /\ j - 1 \in Nat /\ (j - 1) + 1 = j /\ (Length - j) + j = Length
  BY <1>1
<1>3. Weight(j) \in Nat \ {0}
  BY <1>2, WordPowers DEF Weight
<1>4. Power(WordBase, j - 1) \in Nat \ {0} /\ Power(WordBase, j) = WordBase * Power(WordBase, j - 1)
  BY <1>2, WordPowers
<1>5. Top = Weight(j) * Power(WordBase, j)
  <2>1. WordBase \in Nat
    BY ArrayTypes
  <2>2. Power(WordBase, (Length - j) + j) = Power(WordBase, Length - j) * Power(WordBase, j)
    BY <1>1, <1>2, <2>1, PowerOfSum
  <2> QED BY <1>2, <2>2 DEF Top, Weight
<1>6. \A x : Words(x)[j] = (x \div Weight(j)) % WordBase
  BY DEF Words
<1> QED BY <1>1, <1>3, <1>4, <1>5, <1>6

\* Words(x) stands for x modulo Top: it is the array of the remainder.
LEMMA WordsOfRemainder ==
    ASSUME NEW x \in Nat
    PROVE  Words(x % Top) = Words(x)
<1>1. ASSUME NEW j \in Places
      PROVE  ((x % Top) \div Weight(j)) % WordBase = (x \div Weight(j)) % WordBase
  <2>1. PICK c \in Nat \ {0} : Top = Weight(j) * (WordBase * c)
    BY WeightOfWord
  <2>2. Weight(j) \in Nat \ {0} /\ WordBase \in Nat \ {0}
    BY WeightOfWord, ArrayTypes
  <2> QED BY <2>1, <2>2, DigitOfRemainder, ZenonT(60)
<1> QED BY <1>1, Zenon DEF Words

IsValue(a, f) == f = [j \in 0 .. Length |-> IF j = 0 THEN 0 ELSE f[j - 1] * WordBase + a[j]]

\* The first j words of a number stand for the number without the others.
LEMMA FirstWords ==
    ASSUME NEW x \in Nat, x < Top, NEW j \in Nat, j <= Length
    PROVE  LET Prefix(k) == x \div Power(WordBase, Length - k)
           IN  /\ Prefix(j) \in Nat /\ Prefix(0) = 0 /\ Prefix(Length) = x
               /\ j > 0 => Prefix(j) = Prefix(j - 1) * WordBase + Words(x)[j]
<1> DEFINE Prefix(k) == x \div Power(WordBase, Length - k)
<1>1. Length \in Nat /\ Length - j \in Nat
  BY ArrayTypes
<1>2. Prefix(j) \in Nat
  <2>1. Power(WordBase, Length - j) \in Nat \ {0}
    BY <1>1, WordPowers
  <2> QED BY <2>1, Division
<1>3. Prefix(0) = 0
  <2>1. Length - 0 = Length /\ Top \in Nat \ {0} /\ x = Top * 0 + x
    BY <1>1, TopIsTwoToBits
  <2>2. x \div Top = 0
    BY <2>1, 0 \in Int, DivisionUnique
  <2> QED BY <2>1, <2>2 DEF Top
<1>4. Prefix(Length) = x
  <2>1. Length - Length = 0 /\ Power(WordBase, 0) = 1
    BY <1>1, WordPowers
  <2>2. x \div 1 = x
    OBVIOUS
  <2> QED BY <2>1, <2>2
<1>5. ASSUME j > 0 PROVE Prefix(j) = Prefix(j - 1) * WordBase + Words(x)[j]
  <2> DEFINE w == Power(WordBase, Length - j)
             y == x \div w
             z == y \div WordBase
             u == y % WordBase
  <2>1. w \in Nat \ {0} /\ WordBase \in Nat \ {0} /\ Power(WordBase, Length - (j - 1)) = WordBase * w
    <3>1. Length - (j - 1) = (Length - j) + 1
      BY <1>1
    <3> QED BY <1>1, <3>1, WordPowers
  <2>2. y \in Nat
    BY <2>1, Division
  <2>3. Words(x)[j] = u
    BY <1>1, <1>5, WeightOfWord DEF Places, Weight
  <2> HIDE DEF w
  <2>4. Prefix(j - 1) = z
    <3>1. (x \div w) \div WordBase = x \div (w * WordBase)
      BY <2>1, QuotientTwice
    <3>2. w * WordBase = WordBase * w
      BY <2>1
    <3> QED BY <2>1, <3>1, <3>2
  <2>5. Prefix(j) = y
    BY DEF w
  <2>6. y = z * WordBase + u
    <3> HIDE DEF y
    <3>1. y = WordBase * z + u /\ z \in Nat
      BY <2>1, <2>2, Division
    <3> HIDE DEF z, u
    <3> QED BY <2>1, <3>1
  <2> QED BY <2>3, <2>4, <2>5, <2>6
<1> QED BY <1>2, <1>3, <1>4, <1>5

\* The value of the words of a number is the number, modulo Top.
LEMMA ValueOfWords ==
    ASSUME NEW x \in Nat
    PROVE  Value(Words(x)) = x % Top
<1> DEFINE y == x % Top
           Prefix(k) == y \div Power(WordBase, Length - k)
           a == Words(y)
<1>1. y \in Nat /\ y < Top /\ Length \in Nat
  BY TopIsTwoToBits, Division, ArrayTypes
<1> HIDE DEF y
<1>2. \A j \in 0 .. Length : /\ Prefix(0) = 0 /\ Prefix(Length) = y
                             /\ j > 0 => Prefix(j) = Prefix(j - 1) * WordBase + a[j]
  BY <1>1, FirstWords
<1> HIDE DEF Prefix, a
<1>3. \E f : IsValue(a, f)
  <2> DEFINE f == [j \in 0 .. Length |-> Prefix(j)]
  <2>1. \A j \in 0 .. Length : f[j] = IF j = 0 THEN 0 ELSE f[j - 1] * WordBase + a[j]
    BY <1>1, <1>2
  <2>2. IsValue(a, f)
    BY <2>1 DEF IsValue
  <2> QED BY <2>2
<1>4. ASSUME NEW f, IsValue(a, f) PROVE f[Length] = y
  <2> DEFINE S == {j \in Nat : j <= Length => f[j] = Prefix(j)}
  <2>1. 0 \in S
    BY <1>1, <1>2, <1>4 DEF IsValue
  <2>2. ASSUME NEW j \in Nat, j \in S PROVE j + 1 \in S
    <3> SUFFICES ASSUME j + 1 <= Length PROVE f[j + 1] = Prefix(j + 1)
      OBVIOUS
    <3>1. j + 1 \in 0 .. Length /\ j + 1 > 0 /\ (j + 1) - 1 = j /\ j + 1 # 0
      BY <1>1
    <3>2. f[j + 1] = f[j] * WordBase + a[j + 1]
      BY <1>4, <3>1 DEF IsValue
    <3>3. Prefix(j + 1) = Prefix(j) * WordBase + a[j + 1]
      BY <1>2, <3>1
    <3>4. f[j] = Prefix(j)
      BY <1>1, <2>2
    <3> QED BY <3>2, <3>3, <3>4
  <2> HIDE DEF S
  <2>3. Length \in S
    BY <1>1, <2>1, <2>2, Induction
  <2>4. f[Length] = Prefix(Length)
    BY <1>1, <2>3 DEF S
  <2>5. Prefix(Length) = y
    BY <1>1, <1>2
  <2> QED BY <2>4, <2>5
<1>5. Value(a) = (CHOOSE f : IsValue(a, f))[Length]
  BY DEF Value, IsValue
<1>6. Value(a) = y
  BY <1>3, <1>4, <1>5
<1> QED BY <1>6, WordsOfRemainder DEF a, y

-----------------------------------------------------------------------------
(* Sums.                                                                   *)

\* The quotient of a sum is the sum of the quotients and the carry.
LEMMA SplitSum ==
    ASSUME NEW x \in Nat, NEW y \in Nat, NEW c \in Nat, NEW d \in Nat \ {0}
    PROVE  /\ ((x % d) + (y % d) + c) \div d \in Nat
           /\ (x + y + c) \div d = (x \div d) + (y \div d) + (((x % d) + (y % d) + c) \div d)
<1> DEFINE p == x \div d
           u == x % d
           q == y \div d
           v == y % d
           e == (u + v + c) \div d
           t == (u + v + c) % d
<1>1. p \in Nat /\ u \in Nat /\ x = d * p + u
  BY Division
<1>2. q \in Nat /\ v \in Nat /\ y = d * q + v
  BY Division
<1> HIDE DEF p, u, q, v
<1>3. e \in Nat /\ t \in Nat /\ t < d /\ u + v + c = d * e + t
  BY <1>1, <1>2, u + v + c \in Nat, Division
<1> HIDE DEF e, t
<1>4. d * (p + q + e) = d * p + d * q + d * e
  BY <1>1, <1>2, <1>3
<1>5. x + y + c = d * (p + q + e) + t
  BY <1>1, <1>2, <1>3, <1>4
<1>6. (x + y + c) \div d = p + q + e
  BY <1>1, <1>2, <1>3, <1>5, x + y + c \in Nat, p + q + e \in Int, DivisionUnique
<1> QED BY <1>3, <1>6 DEF p, q, u, v, e

\* The carry out of the last k words when x, y and c are added.
CarryOf(x, y, c, k) ==
    ((x % Power(WordBase, k)) + (y % Power(WordBase, k)) + c) \div Power(WordBase, k)

IsCarry(a, b, c, f) ==
    f = [k \in 0 .. Length |->
            IF k = 0 THEN c ELSE (a[Length - k + 1] + b[Length - k + 1] + f[k - 1]) \div WordBase]

\* It is what the words compute from the carry out of one word less.
LEMMA CarryStep ==
    ASSUME NEW x \in Nat, NEW y \in Nat, NEW c \in {0, 1}, NEW k \in Nat, k < Length
    PROVE  /\ CarryOf(x, y, c, 0) = c
           /\ CarryOf(x, y, c, k + 1) =
                  (Words(x)[Length - k] + Words(y)[Length - k] + CarryOf(x, y, c, k))
                      \div WordBase
<1> DEFINE w == Power(WordBase, k)
           Carry(j) == CarryOf(x, y, c, j)
           p == (x \div w) % WordBase
           u == x % w
           q == (y \div w) % WordBase
           v == y % w
           z == x % (w * WordBase)
           t == y % (w * WordBase)
<1>1. /\ w \in Nat \ {0} /\ WordBase \in Nat \ {0} /\ Power(WordBase, 0) = 1
      /\ Power(WordBase, k + 1) = w * WordBase
  BY WordPowers
<1>2. Words(x)[Length - k] = p /\ Words(y)[Length - k] = q
  <2>1. Length - k \in Places /\ Length - (Length - k) = k
    BY ArrayTypes DEF Places
  <2> QED BY <2>1 DEF Words, Weight
<1>3. Carry(0) = c
  <2>1. x % 1 = 0 /\ y % 1 = 0 /\ (0 + 0 + c) \div 1 = c
    OBVIOUS
  <2> QED BY <1>1, <2>1 DEF CarryOf
<1>4. Carry(k + 1) = (z + t + c) \div (w * WordBase)
  BY <1>1 DEF CarryOf
<1> HIDE DEF w
<1>5. z = w * p + u /\ t = w * q + v
  BY <1>1, DivisionTwice
<1>6. /\ x \div w \in Nat /\ u \in Nat /\ u < w
      /\ y \div w \in Nat /\ v \in Nat /\ v < w
  BY <1>1, Division
<1>7. p \in Nat /\ q \in Nat
  BY <1>1, <1>6, Division
<1> HIDE DEF p, q, u, v, z, t
<1>8. z \in Nat /\ t \in Nat /\ w * p \in Nat /\ w * q \in Nat
  BY <1>1, <1>5, <1>6, <1>7
<1>9. (z + t + c) \div w = p + q + ((u + v + c) \div w) /\ (u + v + c) \div w \in Nat
  <2> DEFINE e == (u + v + c) \div w
             r == (u + v + c) % w
  <2>1. e \in Nat /\ r \in Nat /\ r < w /\ u + v + c = w * e + r
    BY <1>1, <1>6, u + v + c \in Nat, Division
  <2> HIDE DEF e, r
  <2>2. w * (p + q + e) = w * p + w * q + w * e
    BY <1>1, <1>7, <2>1
  <2>3. z + t + c = w * (p + q + e) + r /\ z + t + c \in Nat /\ p + q + e \in Int
    <3>1. c \in Nat /\ w * e \in Nat
      BY <1>1, <2>1
    <3>2. z + t + c = w * p + w * q + (u + v + c)
      BY <1>5, <1>6, <1>8, <3>1
    <3>3. z + t + c = w * p + w * q + w * e + r
      BY <1>8, <2>1, <3>1, <3>2
    <3> QED BY <1>7, <1>8, <2>1, <2>2, <3>1, <3>3
  <2>4. (z + t + c) \div w = p + q + e
    BY <1>1, <2>1, <2>3, DivisionUnique
  <2> QED BY <2>1, <2>4 DEF e
<1>12. (z + t + c) \div (w * WordBase) = ((z + t + c) \div w) \div WordBase
  BY <1>1, <1>8, z + t + c \in Nat, QuotientTwice
<1>13. Carry(k) = (u + v + c) \div w
  BY DEF u, v, w, CarryOf
<1>14. Carry(k + 1) = (p + q + Carry(k)) \div WordBase
  BY <1>4, <1>9, <1>12, <1>13
<1> QED BY <1>2, <1>3, <1>14

\* Adding the words adds the numbers.
LEMMA SumOfWords ==
    ASSUME NEW x \in Nat, NEW y \in Nat, NEW c \in {0, 1}
    PROVE  Sum(Words(x), Words(y), c) = Words(x + y + c)
<1> DEFINE a == Words(x)
           b == Words(y)
           Carry(j) == CarryOf(x, y, c, j)
<1>1. Length \in Nat \ {0}
  BY ArrayTypes
<1>2. \A k \in Nat : k < Length =>
          /\ Carry(0) = c
          /\ Carry(k + 1) = (a[Length - k] + b[Length - k] + Carry(k)) \div WordBase
  <2> SUFFICES ASSUME NEW k \in Nat, k < Length
               PROVE  /\ Carry(0) = c
                      /\ Carry(k + 1) = (a[Length - k] + b[Length - k] + Carry(k)) \div WordBase
    OBVIOUS
  <2> QED BY CarryStep
<1> HIDE DEF a, b, Carry
<1>3. Carry(0) = c
  BY <1>1, <1>2
<1>4. \E f : IsCarry(a, b, c, f)
  <2> DEFINE f == [k \in 0 .. Length |-> Carry(k)]
  <2>1. ASSUME NEW k \in 0 .. Length
        PROVE  f[k] = IF k = 0 THEN c
                      ELSE (a[Length - k + 1] + b[Length - k + 1] + f[k - 1]) \div WordBase
    <3>1. CASE k = 0
      BY <1>3, <3>1
    <3>2. CASE k # 0
      <4>1. k - 1 \in Nat /\ k - 1 < Length /\ (k - 1) + 1 = k /\ k - 1 \in 0 .. Length
            /\ Length - (k - 1) = Length - k + 1
        BY <1>1, <3>2
      <4> QED BY <1>2, <3>2, <4>1
    <3> QED BY <3>1, <3>2
  <2>2. IsCarry(a, b, c, f)
    BY <2>1 DEF IsCarry
  <2> QED BY <2>2
<1>5. ASSUME NEW f, IsCarry(a, b, c, f) PROVE \A k \in Nat : k <= Length => f[k] = Carry(k)
  <2> DEFINE S == {k \in Nat : k <= Length => f[k] = Carry(k)}
  <2>1. 0 \in S
    BY <1>1, <1>3, <1>5 DEF IsCarry
  <2>2. ASSUME NEW k \in Nat, k \in S PROVE k + 1 \in S
    <3> SUFFICES ASSUME k + 1 <= Length PROVE f[k + 1] = Carry(k + 1)
      OBVIOUS
    <3>1. /\ k + 1 \in 0 .. Length /\ k + 1 # 0 /\ (k + 1) - 1 = k /\ k < Length
          /\ Length - (k + 1) + 1 = Length - k
      BY <1>1
    <3>2. f[k + 1] = (a[Length - k] + b[Length - k] + f[k]) \div WordBase
      BY <1>5, <3>1 DEF IsCarry
    <3>3. f[k] = Carry(k)
      BY <1>1, <2>2, <3>1
    <3> QED BY <1>2, <3>1, <3>2, <3>3
  <2> HIDE DEF S
  <2>3. \A k \in Nat : k \in S
    BY <2>1, <2>2, Induction
  <2> QED BY <2>3 DEF S
<1> DEFINE carry == CHOOSE f : IsCarry(a, b, c, f)
<1>6. IsCarry(a, b, c, carry)
  BY <1>4
<1>7. Sum(a, b, c) = [j \in Places |-> (a[j] + b[j] + carry[Length - j]) % WordBase]
  BY DEF Sum, IsCarry
<1> HIDE DEF carry
<1>8. ASSUME NEW j \in Places
      PROVE  (a[j] + b[j] + carry[Length - j]) % WordBase
                 = ((x + y + c) \div Weight(j)) % WordBase
  <2> DEFINE w == Weight(j)
             p == x \div w
             q == y \div w
             e == ((x % w) + (y % w) + c) \div w
  <2>1. w \in Nat \ {0} /\ WordBase \in Nat \ {0} /\ Length - j \in Nat /\ Length - j <= Length
    BY WeightOfWord, ArrayTypes
  <2>2. a[j] = p % WordBase /\ b[j] = q % WordBase
    BY WeightOfWord DEF a, b
  <2>3. carry[Length - j] = e
    <3>1. carry[Length - j] = Carry(Length - j)
      BY <1>5, <1>6, <2>1
    <3> QED BY <3>1 DEF Carry, CarryOf, Weight
  <2> HIDE DEF w
  <2>4. p \in Nat /\ q \in Nat
    BY <2>1, Division
  <2>5. e \in Nat /\ (x + y + c) \div w = p + q + e
    BY <2>1, c \in Nat, SplitSum
  <2> HIDE DEF p, q, e
  <2>6. ((p % WordBase) + (q % WordBase) + e) % WordBase = (p + q + e) % WordBase
    <3> DEFINE g == p \div WordBase
               u == p % WordBase
               h == q \div WordBase
               v == q % WordBase
               k == (u + v + e) \div WordBase
               r == (u + v + e) % WordBase
    <3>1. g \in Nat /\ u \in Nat /\ p = WordBase * g + u
      BY <2>1, <2>4, Division
    <3>2. h \in Nat /\ v \in Nat /\ q = WordBase * h + v
      BY <2>1, <2>4, Division
    <3> HIDE DEF g, u, h, v
    <3>3. k \in Nat /\ r \in Nat /\ r < WordBase /\ u + v + e = WordBase * k + r
      BY <2>1, <2>5, <3>1, <3>2, u + v + e \in Nat, Division
    <3> HIDE DEF k, r
    <3>4. WordBase * (g + h + k) = WordBase * g + WordBase * h + WordBase * k
      BY <2>1, <3>1, <3>2, <3>3
    <3>5. p + q + e = WordBase * (g + h + k) + r
      BY <2>1, <2>4, <2>5, <3>1, <3>2, <3>3, <3>4
    <3>6. p + q + e \in Nat /\ g + h + k \in Int
      BY <2>4, <2>5, <3>1, <3>2, <3>3
    <3>7. (p + q + e) % WordBase = r
      BY <2>1, <3>3, <3>5, <3>6, DivisionUnique
    <3> QED BY <3>7 DEF u, v, r
  <2> QED BY <2>2, <2>3, <2>5, <2>6 DEF w
<1> QED BY <1>7, <1>8 DEF a, b, Words

-----------------------------------------------------------------------------
(* Differences, shifts and comparison.                                     *)

\* The complements of the words are the words of the complement.
LEMMA ComplementOfWords ==
    ASSUME NEW y \in Nat, y < Top
    PROVE  /\ Top - 1 - y \in Nat
           /\ [j \in Places |-> WordBase - 1 - Words(y)[j]] = Words(Top - 1 - y)
<1> DEFINE z == Top - 1 - y
<1>1. z \in Nat
  BY TopIsTwoToBits
<1>2. ASSUME NEW j \in Places
      PROVE  WordBase - 1 - Words(y)[j] = (z \div Weight(j)) % WordBase
  <2> DEFINE w == Weight(j)
             q == y \div w
             r == y % w
             g == q \div WordBase
             u == q % WordBase
  <2>1. w \in Nat \ {0} /\ WordBase \in Nat \ {0} /\ Words(y)[j] = u
    BY WeightOfWord, ArrayTypes
  <2>2. PICK c \in Nat \ {0} : Top = w * (WordBase * c)
    BY WeightOfWord
  <2> HIDE DEF w
  <2>3. q \in Nat /\ r \in Nat /\ r < w /\ y = w * q + r
    BY <2>1, Division
  <2> HIDE DEF q, r
  <2>4. g \in Nat /\ u \in Nat /\ u < WordBase /\ q = WordBase * g + u
    BY <2>1, <2>3, Division
  <2> HIDE DEF g, u
  <2> DEFINE m == WordBase * c
             k == m - 1 - q
  <2>5. m \in Nat /\ k \in Int
    BY <2>1, <2>3
  <2>6. z = w * k + (w - 1 - r) /\ w - 1 - r \in Nat /\ w - 1 - r < w
    <3> HIDE DEF m
    <3>1. w * k = w * m - w - w * q
      BY <2>1, <2>3, <2>5
    <3>2. Top = w * m
      BY <2>2 DEF m
    <3>3. w * m \in Int /\ w * q \in Int
      BY <2>1, <2>3, <2>5
    <3> QED BY <2>1, <2>3, <3>1, <3>2, <3>3
  <2> HIDE DEF z
  <2>7. z \div w = k
    BY <1>1, <2>1, <2>5, <2>6, DivisionUnique
  <2>8. k \in Nat
    <3>1. z \div w \in Nat
      BY <1>1, <2>1, Division
    <3> QED BY <2>7, <3>1
  <2>9. /\ k = WordBase * (c - 1 - g) + (WordBase - 1 - u) /\ c - 1 - g \in Int
        /\ WordBase - 1 - u \in Nat /\ WordBase - 1 - u < WordBase
    <3>1. WordBase * (c - 1 - g) = WordBase * c - WordBase - WordBase * g
      BY <2>1, <2>4
    <3>2. WordBase * c \in Int /\ WordBase * g \in Int
      BY <2>1, <2>4
    <3> QED BY <2>1, <2>4, <3>1, <3>2
  <2> HIDE DEF k
  <2>10. k % WordBase = WordBase - 1 - u
    BY <2>1, <2>8, <2>9, DivisionUnique
  <2> QED BY <2>1, <2>7, <2>10 DEF w
<1> QED BY <1>1, <1>2 DEF Words

\* Subtracting the words subtracts the numbers, modulo Top.
LEMMA DifferenceOfWords ==
    ASSUME NEW x \in Nat, NEW y \in Nat, y < Top
    PROVE  Value(sub_array(Words(x), Words(y))) = (x - y) % Top
<1> DEFINE z == Top - 1 - y
           k == (x - y) \div Top
           r == (x - y) % Top
<1>1. z \in Nat /\ [j \in Places |-> WordBase - 1 - Words(y)[j]] = Words(z)
  BY ComplementOfWords
<1>2. sub_array(Words(x), Words(y)) = Sum(Words(x), Words(z), 1)
  BY <1>1 DEF sub_array
<1>3. Sum(Words(x), Words(z), 1) = Words(x + z + 1)
  BY <1>1, SumOfWords
<1>4. Top \in Nat \ {0}
  BY TopIsTwoToBits
<1>5. x + z + 1 = Top + (x - y) /\ x + z + 1 \in Nat
  BY <1>1, <1>4
<1>6. k \in Int /\ r \in Nat /\ r < Top /\ x - y = Top * k + r
  <2> DEFINE d == x - y
             m == Top
  <2>1. d \in Int /\ m \in Nat \ {0}
    BY <1>4
  <2> HIDE DEF d, m
  <2>2. d \div m \in Int /\ d % m \in Nat /\ d % m < m /\ d = m * (d \div m) + (d % m)
    BY <2>1
  <2> QED BY <2>2 DEF d, m
<1> HIDE DEF z, k, r
<1>7. Top * (k + 1) = Top * k + Top
  BY <1>4, <1>6
<1>8. x + z + 1 = Top * (k + 1) + r /\ k + 1 \in Int
  BY <1>4, <1>5, <1>6, <1>7
<1>9. (x + z + 1) % Top = r
  BY <1>4, <1>5, <1>6, <1>8, DivisionUnique
<1>10. Value(Words(x + z + 1)) = (x + z + 1) % Top
  BY <1>5, ValueOfWords
<1> QED BY <1>2, <1>3, <1>9, <1>10 DEF r

\* Halving the words halves the number.
LEMMA HalfOfWords ==
    ASSUME NEW x \in Nat, x < Top
    PROVE  shift_right_1_array(Words(x)) = Words(x \div 2)
<1> DEFINE half == WordBase \div 2
<1>1. half \in Nat \ {0} /\ WordBase \in Nat \ {0} /\ WordBase = 2 * half /\ x \div 2 \in Nat
  BY WordPowers, 0 \in Nat
<1>2. ASSUME NEW j \in Places
      PROVE  (Words(x)[j] \div 2) + (IF j > 1 THEN (Words(x)[j - 1] % 2) ELSE 0) * half
                 = ((x \div 2) \div Weight(j)) % WordBase
  <2> DEFINE w == Weight(j)
             q == x \div w
             g == q \div WordBase
             r == q % WordBase
             b == g % 2
             h == g \div 2
  <2>1. w \in Nat \ {0} /\ Words(x)[j] = r /\ j \in Nat /\ j >= 1 /\ j <= Length /\ Length \in Nat
    BY WeightOfWord
  <2>2. (x \div 2) \div w = q \div 2
    <3> HIDE DEF w
    <3>1. (x \div 2) \div w = x \div (2 * w)
      BY <2>1, 2 \in Nat \ {0}, QuotientTwice
    <3>2. (x \div w) \div 2 = x \div (w * 2)
      BY <2>1, 2 \in Nat \ {0}, QuotientTwice
    <3>3. 2 * w = w * 2
      BY <2>1
    <3> QED BY <3>1, <3>2, <3>3
  <2>3. g = x \div (w * WordBase)
    <3> HIDE DEF w
    <3> QED BY <1>1, <2>1, QuotientTwice
  <2>4. (IF j > 1 THEN (Words(x)[j - 1] % 2) ELSE 0) = b
    <3>1. CASE j > 1
      <4>1. j - 1 \in Places /\ Length - (j - 1) = (Length - j) + 1 /\ Length - j \in Nat
        BY <2>1, <3>1 DEF Places
      <4>2. Weight(j - 1) = WordBase * w
        BY <4>1, WordPowers DEF Weight
      <4>3. WordBase * w = w * WordBase
        <5> HIDE DEF w
        <5> QED BY <1>1, <2>1
      <4>4. Words(x)[j - 1] = g % WordBase
        BY <2>3, <4>1, <4>2, <4>3, WeightOfWord
      <4>5. (g % WordBase) % 2 = g % 2
        <5>1. g \in Nat
          <6> HIDE DEF w
          <6> QED BY <1>1, <2>1, Division
        <5> HIDE DEF g
        <5> DEFINE u == g % WordBase
                   v == g \div WordBase
        <5>2. u \in Nat /\ v \in Nat /\ g = WordBase * v + u
          BY <1>1, <5>1, Division
        <5> HIDE DEF u, v
        <5>3. WordBase * v = 2 * (half * v) /\ half * v \in Nat
          BY <1>1, <5>2
        <5>4. g = 2 * (half * v) + u
          BY <5>2, <5>3
        <5>5. g % 2 = u % 2
          BY <5>1, <5>2, <5>3, <5>4
        <5> QED BY <5>5 DEF u
      <4> QED BY <3>1, <4>4, <4>5
    <3>2. CASE ~(j > 1)
      <4>1. j = 1
        BY <2>1, <3>2
      <4>2. Length - 1 \in Nat /\ (Length - 1) + 1 = Length
        BY <2>1
      <4>3. Top = WordBase * Power(WordBase, Length - 1)
        BY <4>2, WordPowers DEF Top
      <4>4. Top = WordBase * w
        BY <4>1, <4>3 DEF Weight
      <4>5. w * WordBase = Top
        <5> HIDE DEF w
        <5> QED BY <1>1, <2>1, <4>4
      <4>6. x \div Top = 0
        <5>1. Top \in Nat \ {0} /\ x = Top * 0 + x
          BY TopIsTwoToBits
        <5> QED BY <5>1, 0 \in Int, DivisionUnique
      <4>7. g = 0
        BY <2>3, <4>5, <4>6
      <4>8. 0 % 2 = 0
        OBVIOUS
      <4> QED BY <3>2, <4>7, <4>8
    <3> QED BY <3>1, <3>2
  <2> HIDE DEF w
  <2>5. q \in Nat
    BY <2>1, Division
  <2> HIDE DEF q
  <2>6. g \in Nat /\ r \in Nat /\ r < WordBase /\ q = WordBase * g + r
    BY <1>1, <2>5, Division
  <2> HIDE DEF g, r
  <2>7. b \in {0, 1} /\ h \in Nat /\ g = 2 * h + b
    BY <2>6
  <2> HIDE DEF b, h
  <2>8. (q \div 2) = half * g + (r \div 2)
    <3>1. WordBase * g = 2 * (half * g) /\ half * g \in Nat
      BY <1>1, <2>6
    <3>2. q = 2 * (half * g) + r
      BY <2>6, <3>1
    <3> QED BY <2>5, <2>6, <3>1, <3>2
  <2>9. half * g = WordBase * h + b * half /\ b * half \in Nat /\ b * half <= half
    <3>1. half * g = half * (2 * h) + half * b
      BY <1>1, <2>7
    <3>2. half * (2 * h) = WordBase * h /\ half * b = b * half
      BY <1>1, <2>7
    <3>3. b * half \in Nat /\ b * half <= half
      BY <1>1, <2>7
    <3> QED BY <3>1, <3>2, <3>3
  <2>10. r \div 2 \in Nat /\ r \div 2 < half
    BY <1>1, <2>6
  <2>11. (q \div 2) % WordBase = (r \div 2) + b * half
    <3> DEFINE e == (r \div 2) + b * half
               k == q \div 2
    <3>1. e \in Nat /\ e < WordBase
      BY <1>1, <2>9, <2>10
    <3>2. WordBase * h \in Nat
      BY <1>1, <2>7
    <3>3. k = WordBase * h + e /\ k \in Nat
      BY <2>8, <2>9, <2>10, <3>2
    <3> HIDE DEF e, k
    <3>4. k % WordBase = e
      BY <1>1, <2>7, <3>1, <3>3, DivisionUnique
    <3> QED BY <3>4 DEF e, k
  <2> QED BY <2>1, <2>2, <2>4, <2>11 DEF w
<1> HIDE DEF half
<1>3. shift_right_1_array(Words(x)) =
          [j \in Places |-> ((x \div 2) \div Weight(j)) % WordBase]
  BY <1>2 DEF shift_right_1_array, half
<1> QED BY <1>1, <1>3 DEF Words

\* Doubling the words doubles the number, modulo Top.
LEMMA DoubleOfWords ==
    ASSUME NEW x \in Nat
    PROVE  shift_left_1_array(Words(x)) = Words(2 * x)
<1> DEFINE half == WordBase \div 2
<1>1. half \in Nat \ {0} /\ WordBase \in Nat \ {0} /\ WordBase = 2 * half /\ 2 * x \in Nat
  BY WordPowers, 0 \in Nat
<1>2. ASSUME NEW j \in Places
      PROVE  ((Words(x)[j] * 2) % WordBase)
                 + (IF j < Length THEN Words(x)[j + 1] \div half ELSE 0)
                 = ((2 * x) \div Weight(j)) % WordBase
  <2> DEFINE w == Weight(j)
             q == x \div w
             t == x % w
             r == q % WordBase
             g == q \div WordBase
             e == (2 * t) \div w
             d == (2 * t) % w
  <2>1. w \in Nat \ {0} /\ Words(x)[j] = r /\ j \in Nat /\ j >= 1 /\ j <= Length /\ Length \in Nat
    BY WeightOfWord
  <2>2. (IF j < Length THEN Words(x)[j + 1] \div half ELSE 0) = e
    <3>1. CASE j < Length
      <4> DEFINE v == Weight(j + 1)
                 k == (x \div v) % WordBase
                 l == x % v
      <4>1. j + 1 \in Places /\ Length - j = (Length - (j + 1)) + 1 /\ Length - (j + 1) \in Nat
        BY <2>1, <3>1 DEF Places
      <4>2. v \in Nat \ {0} /\ Words(x)[j + 1] = k
        BY <4>1, WeightOfWord
      <4>3. w = WordBase * v
        BY <4>1, WordPowers DEF Weight
      <4> HIDE DEF v
      <4>4. WordBase * v = v * WordBase
        BY <1>1, <4>2
      <4>5. t = v * k + l
        <5>1. x % (v * WordBase) = v * k + l
          BY <1>1, <4>2, DivisionTwice, ZenonT(60)
        <5> HIDE DEF k, l
        <5> QED BY <4>3, <4>4, <5>1
      <4>6. x \div v \in Nat /\ l \in Nat /\ l < v
        BY <4>2, Division
      <4>7. k \in Nat /\ k < WordBase
        BY <1>1, <4>6, Division
      <4> HIDE DEF k, l, w, t
      <4> DEFINE h == k \div half
                 i == k % half
      <4>8. h \in Nat /\ i \in Nat /\ i < half /\ k = half * h + i
        BY <1>1, <4>7, Division
      <4> HIDE DEF h, i
      <4>9. 2 * t = w * h + 2 * (v * i + l)
        <5>1. v * k = v * (half * h) + v * i
          <6>1. half * h \in Nat /\ k = half * h + i
            BY <1>1, <4>8
          <6> QED BY <4>2, <4>8, <6>1
        <5>2. w * h = 2 * (v * (half * h))
          <6>1. w * h = ((2 * half) * v) * h
            BY <1>1, <4>3
          <6>2. ((2 * half) * v) * h = 2 * (v * (half * h))
            BY <1>1, <4>2, <4>8
          <6> QED BY <6>1, <6>2
        <5>3. v * (half * h) \in Nat /\ v * i \in Nat
          BY <1>1, <4>2, <4>8
        <5> QED BY <4>5, <4>6, <5>1, <5>2, <5>3
      <4>10. 2 * (v * i + l) \in Nat /\ 2 * (v * i + l) < w
        <5>1. v * (i + 1) <= v * half
          BY <1>1, <4>2, <4>8
        <5>2. v * (i + 1) = v * i + v /\ v * i \in Nat
          BY <4>2, <4>8
        <5>3. w = 2 * (v * half)
          BY <1>1, <4>2, <4>3
        <5> QED BY <1>1, <4>2, <4>6, <5>1, <5>2, <5>3
      <4> DEFINE f == 2 * (v * i + l)
                 y == 2 * t
      <4>11. y = w * h + f /\ f \in Nat /\ f < w /\ w * h \in Nat
        BY <2>1, <4>8, <4>9, <4>10
      <4>12. y \in Nat
        <5> HIDE DEF y, f
        <5> QED BY <4>11
      <4> HIDE DEF y, f
      <4>13. h \in Int /\ y \in Nat /\ w \in Nat \ {0} /\ f \in Nat /\ f < w /\ y = w * h + f
        BY <2>1, <4>8, <4>11, <4>12
      <4>14. y \div w = h
        BY <4>13, DivisionUnique
      <4> QED BY <3>1, <4>2, <4>14 DEF h, y
    <3>2. CASE ~(j < Length)
      <4>1. Length - j = 0
        BY <2>1, <3>2
      <4>2. w = 1
        BY <4>1, WordPowers, 0 \in Nat DEF Weight
      <4>3. x % 1 = 0 /\ (2 * 0) \div 1 = 0
        OBVIOUS
      <4> QED BY <3>2, <4>2, <4>3
    <3> QED BY <3>1, <3>2
  <2> HIDE DEF w
  <2>3. q \in Nat /\ t \in Nat /\ t < w /\ x = w * q + t
    BY <2>1, Division
  <2> HIDE DEF q, t
  <2>4. g \in Nat /\ r \in Nat /\ r < WordBase /\ q = WordBase * g + r
    BY <1>1, <2>3, Division
  <2> HIDE DEF g, r
  <2>5. e \in Nat /\ d \in Nat /\ d < w /\ 2 * t = w * e + d
    BY <2>1, <2>3, 2 * t \in Nat, Division
  <2> HIDE DEF e, d
  <2>6. e \in {0, 1}
    <3> SUFFICES ASSUME e >= 2 PROVE FALSE
      BY <2>5
    <3>1. w * e >= w * 2
      BY <2>1, <2>5
    <3>2. w * e \in Nat
      BY <2>1, <2>5
    <3> QED BY <2>1, <2>3, <2>5, <3>1, <3>2
  <2>7. (2 * x) \div w = 2 * q + e
    <3>1. w * (2 * q + e) = 2 * (w * q) + w * e /\ w * q \in Nat /\ w * e \in Nat
      BY <2>1, <2>3, <2>5
    <3>2. 2 * x = w * (2 * q + e) + d
      BY <2>3, <2>5, <3>1
    <3> DEFINE y == 2 * x
               k == 2 * q + e
    <3>3. y \in Nat /\ k \in Int /\ y = w * k + d
      BY <2>3, <2>5, <3>2
    <3> HIDE DEF y, k
    <3>4. y \div w = k
      BY <2>1, <2>5, <3>3, DivisionUnique
    <3> QED BY <3>4 DEF y, k
  <2>8. (2 * q + e) % WordBase = ((r * 2) % WordBase) + e
    <3> DEFINE h == (r * 2) \div WordBase
               u == (r * 2) % WordBase
    <3>1. h \in Nat /\ u \in Nat /\ u < WordBase /\ r * 2 = WordBase * h + u
      BY <1>1, <2>4, r * 2 \in Nat, Division
    <3> HIDE DEF h, u
    <3>2. u + e < WordBase
      <4>1. WordBase * h = 2 * (half * h) /\ half * h \in Nat
        BY <1>1, <3>1
      <4>2. u = 2 * (r - half * h)
        BY <2>4, <3>1, <4>1
      <4> DEFINE m == r - half * h
      <4>3. m \in Int /\ u = 2 * m
        BY <2>4, <4>1, <4>2
      <4> HIDE DEF m
      <4>4. m < half
        BY <1>1, <3>1, <4>3
      <4> QED BY <1>1, <2>6, <4>3, <4>4
    <3>3. WordBase * (2 * g + h) = 2 * (WordBase * g) + WordBase * h
      BY <1>1, <2>4, <3>1
    <3>4. WordBase * g \in Nat /\ WordBase * h \in Nat
      BY <1>1, <2>4, <3>1
    <3> DEFINE y == 2 * q + e
               k == 2 * g + h
               f == u + e
    <3>5. y = WordBase * k + f
      BY <2>4, <2>5, <3>1, <3>3, <3>4
    <3>6. y \in Nat /\ k \in Int /\ f \in Nat /\ f < WordBase
      BY <2>3, <2>4, <2>5, <3>1, <3>2
    <3> HIDE DEF y, k, f
    <3>7. y % WordBase = f
      BY <1>1, <3>5, <3>6, DivisionUnique
    <3> QED BY <3>7 DEF y, f, u
  <2> QED BY <2>1, <2>2, <2>7, <2>8 DEF w
<1> HIDE DEF half
<1>3. shift_left_1_array(Words(x)) =
          [j \in Places |-> ((2 * x) \div Weight(j)) % WordBase]
  BY <1>2 DEF shift_left_1_array, half
<1> QED BY <1>1, <1>3 DEF Words

\* Comparing the words from the first on compares the numbers.
LEMMA ComparisonOfWords ==
    ASSUME NEW x \in Nat, NEW y \in Nat, x < Top, y < Top
    PROVE  greater_than_array(Words(x), Words(y)) <=> x > y
<1> DEFINE a == Words(x)
           b == Words(y)
           Px(k) == x \div Power(WordBase, Length - k)
           Py(k) == y \div Power(WordBase, Length - k)
<1>1. Length \in Nat \ {0} /\ WordBase \in Nat \ {0}
  BY ArrayTypes
<1>2. ASSUME NEW k \in Nat, k <= Length
      PROVE  /\ Px(k) \in Nat /\ Px(0) = 0 /\ Px(Length) = x
             /\ k > 0 => Px(k) = Px(k - 1) * WordBase + a[k]
             /\ Py(k) \in Nat /\ Py(0) = 0 /\ Py(Length) = y
             /\ k > 0 => Py(k) = Py(k - 1) * WordBase + b[k]
  <2>1. /\ Px(k) \in Nat /\ Px(0) = 0 /\ Px(Length) = x
        /\ k > 0 => Px(k) = Px(k - 1) * WordBase + a[k]
    BY <1>2, FirstWords
  <2>2. /\ Py(k) \in Nat /\ Py(0) = 0 /\ Py(Length) = y
        /\ k > 0 => Py(k) = Py(k - 1) * WordBase + b[k]
    BY <1>2, FirstWords
  <2> QED BY <2>1, <2>2
<1>3. ASSUME NEW k \in Nat, k <= Length
      PROVE  (x >= y => Px(k) >= Py(k)) /\ (y >= x => Py(k) >= Px(k))
  <2> DEFINE w == Power(WordBase, Length - k)
             p == x \div w
             q == y \div w
  <2>1. w \in Nat \ {0}
    <3>1. Length - k \in Nat
      BY <1>1, <1>3
    <3> QED BY <3>1, WordPowers
  <2> HIDE DEF w
  <2> DEFINE r == x % w
             t == y % w
  <2>2. p \in Nat /\ r \in Nat /\ r < w /\ x = w * p + r
    BY <2>1, Division
  <2>3. q \in Nat /\ t \in Nat /\ t < w /\ y = w * q + t
    BY <2>1, Division
  <2> HIDE DEF p, q, r, t
  <2>4. ASSUME p < q PROVE x < y
    <3>1. w * (p + 1) <= w * q
      BY <2>1, <2>2, <2>3, <2>4
    <3>2. w * (p + 1) = w * p + w /\ w * p \in Nat /\ w * q \in Nat
      BY <2>1, <2>2, <2>3
    <3> QED BY <2>1, <2>2, <2>3, <3>1, <3>2
  <2>5. ASSUME q < p PROVE y < x
    <3>1. w * (q + 1) <= w * p
      BY <2>1, <2>2, <2>3, <2>5
    <3>2. w * (q + 1) = w * q + w /\ w * p \in Nat /\ w * q \in Nat
      BY <2>1, <2>2, <2>3
    <3> QED BY <2>1, <2>2, <2>3, <3>1, <3>2
  <2>6. (x >= y => p >= q) /\ (y >= x => q >= p)
    BY <2>2, <2>3, <2>4, <2>5
  <2> QED BY <2>6 DEF p, q, w
<1>4. ASSUME NEW k \in Places PROVE a[k] \in Nat /\ b[k] \in Nat
  <2>1. Weight(k) \in Nat \ {0} /\ a[k] = (x \div Weight(k)) % WordBase
        /\ b[k] = (y \div Weight(k)) % WordBase
    BY WeightOfWord
  <2> HIDE DEF a, b
  <2>2. x \div Weight(k) \in Nat /\ y \div Weight(k) \in Nat
    BY <2>1, Division
  <2> QED BY <1>1, <2>1, <2>2, Division
<1> HIDE DEF a, b, Px, Py
<1>5. ASSUME greater_than_array(a, b) PROVE x > y
  <2>1. PICK k \in Places : a[k] > b[k] /\ \A j \in 1 .. k - 1 : a[j] = b[j]
    BY <1>5 DEF greater_than_array
  <2>2. k \in Nat /\ k >= 1 /\ k <= Length /\ k - 1 \in Nat
    BY <1>1 DEF Places
  <2> DEFINE S == {j \in Nat : j < k => Px(j) = Py(j)}
  <2>3. 0 \in S
    BY <1>1, <1>2
  <2>4. ASSUME NEW j \in Nat, j \in S PROVE j + 1 \in S
    <3> SUFFICES ASSUME j + 1 < k PROVE Px(j + 1) = Py(j + 1)
      OBVIOUS
    <3>1. j + 1 \in Nat /\ j + 1 <= Length /\ j + 1 > 0 /\ (j + 1) - 1 = j /\ j + 1 \in 1 .. k - 1
      BY <1>1, <2>2
    <3>2. Px(j) = Py(j)
      BY <2>2, <2>4
    <3>3. a[j + 1] = b[j + 1]
      BY <2>1, <3>1
    <3>4. Px(j + 1) = Px(j) * WordBase + a[j + 1] /\ Py(j + 1) = Py(j) * WordBase + b[j + 1]
      BY <1>2, <3>1
    <3> QED BY <3>2, <3>3, <3>4
  <2> HIDE DEF S
  <2>5. k - 1 \in S
    BY <2>2, <2>3, <2>4, Induction
  <2>6. Px(k - 1) = Py(k - 1)
    BY <2>2, <2>5 DEF S
  <2>7. Px(k) = Px(k - 1) * WordBase + a[k] /\ Py(k) = Py(k - 1) * WordBase + b[k]
    BY <1>2, <2>2
  <2>8. Px(k) \in Nat /\ Py(k) \in Nat /\ Px(k - 1) \in Nat
    <3>1. k - 1 <= Length
      BY <1>1, <2>2
    <3>2. Px(k) \in Nat /\ Py(k) \in Nat
      BY <1>2, <2>2
    <3>3. Px(k - 1) \in Nat
      BY <1>2, <2>2, <3>1
    <3> QED BY <3>2, <3>3
  <2>9. Px(k) > Py(k)
    <3>1. Px(k - 1) * WordBase \in Nat
      BY <1>1, <2>8
    <3> QED BY <1>4, <2>1, <2>6, <2>7, <3>1
  <2> QED BY <1>3, <2>2, <2>8, <2>9
<1>6. ASSUME x > y PROVE greater_than_array(a, b)
  <2> DEFINE T == {k \in Nat : k <= Length /\ Px(k) # Py(k)}
  <2>1. Length \in T
    BY <1>1, <1>2, <1>6
  <2>2. PICK k \in T : \A j \in T : k <= j
    BY <2>1, LeastElement
  <2>3. k \in Nat /\ k <= Length /\ Px(k) # Py(k)
    OBVIOUS
  <2>4. ASSUME NEW j \in Nat, j < k PROVE Px(j) = Py(j)
    <3>1. j <= Length /\ ~(k <= j)
      BY <1>1, <2>3, <2>4
    <3>2. j \notin T
      BY <2>2, <3>1
    <3> QED BY <3>1, <3>2
  <2> HIDE DEF T
  <2>5. k >= 1
    <3>1. Px(0) = Py(0)
      BY <1>2, <2>3
    <3> QED BY <2>3, <3>1
  <2>6. ASSUME NEW j \in Nat, j > 0, j < k PROVE a[j] = b[j]
    <3>1. /\ j <= Length /\ j - 1 \in Nat /\ j - 1 < k
          /\ j - 1 <= Length /\ j \in Places
      BY <1>1, <2>3, <2>6 DEF Places
    <3>2. Px(j) = Px(j - 1) * WordBase + a[j] /\ Py(j) = Py(j - 1) * WordBase + b[j]
      BY <1>2, <2>6, <3>1
    <3>3. Px(j) = Py(j) /\ Px(j - 1) = Py(j - 1)
      BY <2>4, <2>6, <3>1
    <3>4. Px(j - 1) * WordBase \in Nat
      <4>1. Px(j - 1) \in Nat
        BY <1>2, <3>1
      <4> QED BY <1>1, <4>1
    <3>5. a[j] \in Nat /\ b[j] \in Nat
      BY <1>4, <3>1
    <3>6. Px(j - 1) * WordBase + a[j] = Px(j - 1) * WordBase + b[j]
      BY <3>2, <3>3
    <3> DEFINE z == Px(j - 1) * WordBase
               u == a[j]
               v == b[j]
    <3>7. z \in Nat /\ u \in Nat /\ v \in Nat /\ z + u = z + v
      BY <3>4, <3>5, <3>6
    <3> HIDE DEF z, u, v
    <3>8. u = v
      BY <3>7
    <3> QED BY <3>8 DEF u, v
  <2>7. a[k] > b[k]
    <3>1. k - 1 \in Nat /\ k - 1 < k /\ k - 1 <= Length /\ k > 0 /\ k \in Places
      BY <1>1, <2>3, <2>5 DEF Places
    <3>2. Px(k) = Px(k - 1) * WordBase + a[k] /\ Py(k) = Py(k - 1) * WordBase + b[k]
      BY <1>2, <2>3, <3>1
    <3>3. Px(k - 1) = Py(k - 1) /\ Px(k - 1) \in Nat
      BY <1>2, <2>4, <3>1
    <3>4. Px(k - 1) * WordBase \in Nat
      BY <1>1, <3>3
    <3>5. a[k] \in Nat /\ b[k] \in Nat
      BY <1>4, <3>1
    <3>6. Px(k) >= Py(k) /\ Px(k) \in Nat /\ Py(k) \in Nat
      BY <1>2, <1>3, <1>6, <2>3
    <3> QED BY <2>3, <3>2, <3>3, <3>4, <3>5, <3>6
  <2>8. k \in Places
    BY <1>1, <2>3, <2>5 DEF Places
  <2>9. \A j \in 1 .. k - 1 : a[j] = b[j]
    BY <2>3, <2>6
  <2> QED BY <2>7, <2>8, <2>9 DEF greater_than_array
<1> QED BY <1>5, <1>6 DEF a, b
=============================================================================
