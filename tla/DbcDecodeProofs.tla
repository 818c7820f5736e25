----------------------------- MODULE DbcDecodeProofs -----------------------------
(***************************************************************************)
(* Theorems about DbcDecode, for every document, every frame and every     *)
(* text.                                                                   *)
(***************************************************************************)
EXTENDS DbcDecode, FiniteSetTheorems, SequenceTheorems, WellFoundedInduction, TLAPS

LEMMA LeastOf ==
  ASSUME NEW T, T \subseteq Nat, T # {}
  PROVE  \E x \in T : \A y \in T : x <= y
<1>1. PICK x \in T : \A y \in T : ~(<<y, x>> \in OpToRel(<, Nat))
  BY NatLessThanWellFounded, WFMin
<1>2. \A y, z \in Nat : <<y, z>> \in OpToRel(<, Nat) <=> y < z
  BY DEF OpToRel
<1>3. \A y \in T : ~(y < x)
  BY <1>1, <1>2
<1>4. \A y \in T : x <= y
  BY <1>3
<1>5. QED
  BY <1>4

LEMMA SetInduction ==
  ASSUME NEW S, 0 \in S, \A n \in Nat : n \in S => n + 1 \in S
  PROVE  Nat \subseteq S
<1>1. SUFFICES ASSUME Nat \ S # {} PROVE FALSE
  OBVIOUS
<1>2. PICK x \in Nat \ S : \A y \in Nat \ S : x <= y
  BY <1>1, LeastOf
<1>3. x # 0 /\ x - 1 \in Nat /\ x - 1 \in S
  BY <1>2
<1>4. QED
  BY <1>2, <1>3

\* Induction up to a bound.
LEMMA BoundedInduction ==
  ASSUME NEW n \in Nat, NEW S, 0 \in S, \A k \in 1..n : k - 1 \in S => k \in S
  PROVE  0..n \subseteq S
<1> DEFINE R == {k \in Nat : k <= n => k \in S}
<1>1. 0 \in R
  OBVIOUS
<1>2. ASSUME NEW k \in Nat, k \in R PROVE k + 1 \in R
  <2>1. CASE k + 1 <= n
    <3>1. k + 1 \in 1..n /\ (k + 1) - 1 = k /\ k \in S
      BY <1>2, <2>1
    <3>2. QED
      BY <3>1
  <2>2. QED
    BY <2>1
<1>3. Nat \subseteq R
  <2> HIDE DEF R
  <2> QED
    BY <1>1, <1>2, SetInduction
<1>4. QED
  BY <1>3

---------------------------------------------------------------------------
(* Recursive functions. *)

\* f starts with base, and each value is what step makes of the one before.
Iterates(f, n, base, step) ==
  /\ f[0] = base
  /\ \A k \in 1..n : f[k] = step[<<f[k - 1], k>>]

LEMMA Iteration ==
  ASSUME NEW X, NEW n \in Nat, NEW base \in X, NEW step \in [X \X (1..n) -> X]
  PROVE  \E f \in [0..n -> X] : Iterates(f, n, base, step)
<1> DEFINE S == {m \in 0..n : \E f \in [0..m -> X] : Iterates(f, m, base, step)}
<1>1. 0 \in S
  <2> DEFINE f == [k \in 0..0 |-> base]
  <2>1. f \in [0..0 -> X] /\ Iterates(f, 0, base, step)
    BY DEF Iterates
  <2>2. QED
    BY <2>1
<1>2. ASSUME NEW m \in 1..n, m - 1 \in S PROVE m \in S
  <2>1. PICK f \in [0..(m - 1) -> X] : Iterates(f, m - 1, base, step)
    BY <1>2
  <2> DEFINE g == [k \in 0..m |-> IF k = m THEN step[<<f[m - 1], m>>] ELSE f[k]]
  <2>2. f[m - 1] \in X /\ <<f[m - 1], m>> \in X \X (1..n)
    BY <2>1
  <2>3. step[<<f[m - 1], m>>] \in X
    BY <2>2
  <2>4. g \in [0..m -> X]
    BY <2>1, <2>3
  <2>5. Iterates(g, m, base, step)
    <3>1. \A k \in 0..(m - 1) : g[k] = f[k]
      OBVIOUS
    <3>2. g[m] = step[<<g[m - 1], m>>]
      <4>1. m - 1 \in 0..(m - 1) /\ m \in 0..m
        OBVIOUS
      <4>2. g[m] = step[<<f[m - 1], m>>]
        BY <4>1
      <4>3. g[m - 1] = f[m - 1]
        BY <3>1, <4>1
      <4>4. QED
        BY <4>2, <4>3
    <3>3. ASSUME NEW k \in 1..(m - 1) PROVE g[k] = step[<<g[k - 1], k>>]
      BY <2>1, <3>1, <3>3 DEF Iterates
    <3>4. g[0] = base
      BY <2>1, <3>1 DEF Iterates
    <3> HIDE DEF g
    <3>5. QED
      BY <3>2, <3>3, <3>4 DEF Iterates
  <2>6. QED
    BY <2>4, <2>5
<1>3. 0..n \subseteq S
  <2> HIDE DEF S
  <2> QED
    BY <1>1, <1>2, BoundedInduction
<1>4. n \in S
  BY <1>3
<1>5. QED
  BY <1>4


---------------------------------------------------------------------------
(* Powers of two. *)

LEMMA DoublingExists ==
  ASSUME NEW n \in Nat
  PROVE  \E f \in [0..n -> Nat] : f[0] = 1 /\ \A k \in 1..n : f[k] = 2 * f[k - 1]
<1> DEFINE step == [p \in Nat \X (1..n) |-> 2 * p[1]]
<1>1. step \in [Nat \X (1..n) -> Nat] /\ 1 \in Nat
  OBVIOUS
<1>2. PICK f \in [0..n -> Nat] : Iterates(f, n, 1, step)
  <2> HIDE DEF step
  <2> QED
    BY <1>1, Iteration
<1>3. ASSUME NEW k \in 1..n PROVE f[k] = 2 * f[k - 1]
  <2>1. f[k] = step[<<f[k - 1], k>>]
    BY <1>2 DEF Iterates
  <2>2. f[k - 1] \in Nat
    OBVIOUS
  <2>3. <<f[k - 1], k>> \in Nat \X (1..n)
    BY <2>2
  <2>4. QED
    BY <2>1, <2>3
<1>4. QED
  BY <1>2, <1>3 DEF Iterates

LEMMA DoublingUnique ==
  ASSUME NEW n \in Nat, NEW m \in Nat, n <= m, NEW f, NEW g,
         f[0] = 1, \A k \in 1..n : f[k] = 2 * f[k - 1],
         g[0] = 1, \A k \in 1..m : g[k] = 2 * g[k - 1]
  PROVE  f[n] = g[n]
<1> DEFINE S == {k \in 0..n : f[k] = g[k]}
<1>1. 0 \in S
  OBVIOUS
<1>2. ASSUME NEW k \in 1..n, k - 1 \in S PROVE k \in S
  <2>1. k \in 1..m
    OBVIOUS
  <2>2. QED
    BY <1>2, <2>1
<1>3. 0..n \subseteq S
  <2> HIDE DEF S
  <2> QED
    BY <1>1, <1>2, BoundedInduction
<1>4. QED
  BY <1>3

LEMMA Pow2Unfolds ==
  Pow2 = [k \in Nat |-> IF k = 0 THEN 1 ELSE 2 * Pow2[k - 1]]
<1> DEFINE Good(f, n) == f[0] = 1 /\ \A k \in 1..n : f[k] = 2 * f[k - 1]
           some == [n \in Nat |-> CHOOSE f : Good(f, n)]
           h == [n \in Nat |-> some[n][n]]
<1>1. ASSUME NEW n \in Nat PROVE Good(some[n], n)
  <2>1. \E f : Good(f, n)
    BY DoublingExists
  <2>2. QED
    BY <2>1
<1>2. h[0] = 1
  BY <1>1
<1>3. ASSUME NEW n \in Nat \ {0} PROVE h[n] = 2 * h[n - 1]
  <2>1. n - 1 \in Nat /\ n - 1 <= n /\ n \in 1..n
    OBVIOUS
  <2>2. Good(some[n - 1], n - 1) /\ Good(some[n], n)
    BY <1>1, <2>1
  <2>3. some[n - 1][n - 1] = some[n][n - 1]
    <3> HIDE DEF some
    <3> QED
      BY <2>1, <2>2, DoublingUnique
  <2>4. some[n][n] = 2 * some[n][n - 1]
    BY <2>1, <2>2
  <2>5. h[n] = some[n][n] /\ h[n - 1] = some[n - 1][n - 1]
    BY <2>1
  <2>6. QED
    BY <2>3, <2>4, <2>5
<1>4. h = [k \in Nat |-> IF k = 0 THEN 1 ELSE 2 * h[k - 1]]
  <2>1. \A k \in Nat : h[k] = IF k = 0 THEN 1 ELSE 2 * h[k - 1]
    <3> HIDE DEF h
    <3> QED
      BY <1>2, <1>3
  <2>2. h = [k \in Nat |-> h[k]]
    OBVIOUS
  <2> HIDE DEF h
  <2>3. QED
    BY <2>1, <2>2
<1>5. QED
  <2> HIDE DEF h
  <2> QED
    BY <1>4 DEF Pow2

LEMMA Pow2Facts ==
  /\ \A k \in Nat : Pow2[k] \in Nat \ {0}
  /\ Pow2[0] = 1
  /\ \A k \in Nat : Pow2[k + 1] = 2 * Pow2[k]
<1>1. Pow2[0] = 1
  BY Pow2Unfolds
<1>2. ASSUME NEW k \in Nat PROVE Pow2[k + 1] = 2 * Pow2[k]
  <2>1. k + 1 \in Nat /\ k + 1 # 0 /\ (k + 1) - 1 = k
    OBVIOUS
  <2>2. QED
    BY Pow2Unfolds, <2>1
<1> DEFINE S == {k \in Nat : Pow2[k] \in Nat \ {0}}
<1>3. 0 \in S
  BY <1>1
<1>4. ASSUME NEW k \in Nat, k \in S PROVE k + 1 \in S
  BY <1>2, <1>4
<1>5. Nat \subseteq S
  <2> HIDE DEF S
  <2> QED
    BY <1>3, <1>4, SetInduction
<1>6. QED
  BY <1>1, <1>2, <1>5

LEMMA Pow2Type ==
  ASSUME NEW k \in Nat
  PROVE  Pow2[k] \in Nat /\ Pow2[k] > 0
BY Pow2Facts

LEMMA Pow2Sum ==
  ASSUME NEW a \in Nat, NEW b \in Nat
  PROVE  Pow2[a + b] = Pow2[a] * Pow2[b]
<1> DEFINE S == {k \in Nat : Pow2[a + k] = Pow2[a] * Pow2[k]}
<1>1. 0 \in S
  <2>1. Pow2[0] = 1 /\ a + 0 = a /\ Pow2[a] \in Nat
    BY Pow2Facts
  <2>2. QED
    BY <2>1
<1>2. ASSUME NEW k \in Nat, k \in S PROVE k + 1 \in S
  <2>1. Pow2[a] \in Nat /\ Pow2[k] \in Nat /\ a + k \in Nat
    BY Pow2Type
  <2>2. Pow2[a + (k + 1)] = 2 * Pow2[a + k]
    <3>1. a + (k + 1) = (a + k) + 1
      OBVIOUS
    <3>2. QED
      BY <2>1, <3>1, Pow2Facts
  <2>3. Pow2[k + 1] = 2 * Pow2[k]
    BY Pow2Facts
  <2>4. PICK x \in Nat, y \in Nat : x = Pow2[a] /\ y = Pow2[k]
    BY <2>1
  <2>5. 2 * (x * y) = x * (2 * y)
    OBVIOUS
  <2>6. QED
    BY <1>2, <2>2, <2>3, <2>4, <2>5
<1>3. Nat \subseteq S
  <2> HIDE DEF S
  <2> QED
    BY <1>1, <1>2, SetInduction
<1>4. QED
  BY <1>3

LEMMA Pow2Eight ==
  /\ Pow2[1] = 2 /\ Pow2[2] = 4 /\ Pow2[3] = 8 /\ Pow2[4] = 16
  /\ Pow2[5] = 32 /\ Pow2[6] = 64 /\ Pow2[7] = 128 /\ Pow2[8] = 256
<1>1. Pow2[1] = 2
  <2>1. Pow2[0 + 1] = 2 * Pow2[0]
    BY Pow2Facts
  <2>2. QED
    BY <2>1, Pow2Facts
<1>2. Pow2[2] = 4
  <2>1. Pow2[1 + 1] = 2 * Pow2[1]
    BY Pow2Facts
  <2>2. QED
    BY <2>1, <1>1
<1>3. Pow2[3] = 8
  <2>1. Pow2[2 + 1] = 2 * Pow2[2]
    BY Pow2Facts
  <2>2. QED
    BY <2>1, <1>2
<1>4. Pow2[4] = 16
  <2>1. Pow2[3 + 1] = 2 * Pow2[3]
    BY Pow2Facts
  <2>2. QED
    BY <2>1, <1>3
<1>5. Pow2[5] = 32
  <2>1. Pow2[4 + 1] = 2 * Pow2[4]
    BY Pow2Facts
  <2>2. QED
    BY <2>1, <1>4
<1>6. Pow2[6] = 64
  <2>1. Pow2[5 + 1] = 2 * Pow2[5]
    BY Pow2Facts
  <2>2. QED
    BY <2>1, <1>5
<1>7. Pow2[7] = 128
  <2>1. Pow2[6 + 1] = 2 * Pow2[6]
    BY Pow2Facts
  <2>2. QED
    BY <2>1, <1>6
<1>8. Pow2[8] = 256
  <2>1. Pow2[7 + 1] = 2 * Pow2[7]
    BY Pow2Facts
  <2>2. QED
    BY <2>1, <1>7
<1>9. QED
  BY <1>1, <1>2, <1>3, <1>4, <1>5, <1>6, <1>7, <1>8

---------------------------------------------------------------------------
(* Quotients, remainders and bits. *)

LEMMA Products ==
  ASSUME NEW x \in Nat, NEW y \in Nat, NEW z \in Nat, x <= y
  PROVE  z * x \in Nat /\ z * x <= z * y
<1>1. PICK d \in Nat : y = x + d
  <2>1. y - x \in Nat /\ y = x + (y - x)
    OBVIOUS
  <2>2. QED
    BY <2>1
<1>2. z * y = z * x + z * d /\ z * d \in Nat /\ z * x \in Nat
  BY <1>1
<1>3. QED
  BY <1>2

LEMMA Division ==
  ASSUME NEW x \in Nat, NEW d \in Nat, d > 0
  PROVE  /\ x \div d \in Nat /\ x % d \in Nat /\ x % d < d
         /\ x = d * (x \div d) + (x % d)
OBVIOUS

LEMMA Quotient ==
  ASSUME NEW x \in Nat, NEW d \in Nat, NEW q \in Nat, NEW r \in Nat,
         x = d * q + r, r < d
  PROVE  x \div d = q /\ x % d = r
<1>1. PICK p \in Nat, t \in Nat :
        p = x \div d /\ t = x % d /\ t < d /\ x = d * p + t
  BY Division
<1>2. ~(q < p)
  <2>1. SUFFICES ASSUME q + 1 <= p PROVE FALSE
    OBVIOUS
  <2>2. d * (q + 1) <= d * p
    BY <2>1, Products
  <2>3. d * (q + 1) = d * q + d
    OBVIOUS
  <2>4. PICK u \in Nat, v \in Nat : u = d * q /\ v = d * p
    OBVIOUS
  <2>5. QED
    BY <1>1, <2>2, <2>3, <2>4
<1>3. ~(p < q)
  <2>1. SUFFICES ASSUME p + 1 <= q PROVE FALSE
    OBVIOUS
  <2>2. d * (p + 1) <= d * q
    BY <2>1, Products
  <2>3. d * (p + 1) = d * p + d
    OBVIOUS
  <2>4. PICK u \in Nat, v \in Nat : u = d * q /\ v = d * p
    OBVIOUS
  <2>5. QED
    BY <1>1, <2>2, <2>3, <2>4
<1>4. p = q
  BY <1>2, <1>3
<1>5. t = r
  <2>1. PICK u \in Nat : u = d * q
    OBVIOUS
  <2>2. QED
    BY <1>1, <1>4, <2>1
<1>6. QED
  BY <1>1, <1>4, <1>5

LEMMA DoubleRemainder ==
  ASSUME NEW x \in Nat, NEW p \in Nat, p > 0
  PROVE  x % (2 * p) = (x % p) + p * ((x \div p) % 2)
<1>1. PICK q \in Nat, r \in Nat : q = x \div p /\ r = x % p /\ r < p /\ x = p * q + r
  BY Division
<1>2. PICK a \in Nat, b \in {0, 1} : q = 2 * a + b /\ b = q % 2
  <2>1. q \div 2 \in Nat /\ q % 2 \in {0, 1} /\ q = 2 * (q \div 2) + (q % 2)
    OBVIOUS
  <2>2. QED
    BY <2>1
<1>3. p * q = (2 * p) * a + p * b
  BY <1>2
<1>4. p * b \in Nat /\ p * b <= p /\ p * b + r \in Nat /\ p * b + r < 2 * p
  <2>1. b = 0 => p * b = 0
    OBVIOUS
  <2>2. b = 1 => p * b = p
    OBVIOUS
  <2>3. QED
    BY <1>1, <2>1, <2>2
<1>5. x = (2 * p) * a + (p * b + r)
  <2>1. PICK u \in Nat, v \in Nat, w \in Nat :
          u = p * q /\ v = (2 * p) * a /\ w = p * b
    BY <1>4
  <2>2. QED
    BY <1>1, <1>3, <2>1
<1>6. x % (2 * p) = p * b + r
  BY <1>4, <1>5, Quotient
<1>7. QED
  BY <1>1, <1>2, <1>4, <1>6

LEMMA NestedDivision ==
  ASSUME NEW x \in Nat, NEW a \in Nat, NEW b \in Nat, a > 0, b > 0
  PROVE  (x \div a) \div b = x \div (a * b)
<1>1. PICK q \in Nat, r \in Nat : q = x \div a /\ r < a /\ x = a * q + r
  BY Division
<1>2. PICK t \in Nat, u \in Nat : t = q \div b /\ u < b /\ q = b * t + u
  BY Division
<1>3. a * (u + 1) <= a * b
  BY <1>2, Products
<1>4. a * (u + 1) = a * u + a /\ a * u \in Nat /\ a * b \in Nat
  OBVIOUS
<1>5. a * u + r \in Nat /\ a * u + r < a * b
  <2>1. PICK v \in Nat, w \in Nat : v = a * u /\ w = a * b
    OBVIOUS
  <2>2. QED
    BY <1>1, <1>3, <1>4, <2>1
<1>6. x = (a * b) * t + (a * u + r)
  <2>1. a * q = a * (b * t) + a * u
    BY <1>2
  <2>2. a * (b * t) = (a * b) * t
    OBVIOUS
  <2>3. PICK v \in Nat, w \in Nat, z \in Nat :
          v = a * q /\ w = (a * b) * t /\ z = a * u
    OBVIOUS
  <2>4. QED
    BY <1>1, <2>1, <2>2, <2>3
<1>7. x \div (a * b) = t
  BY <1>4, <1>5, <1>6, Quotient
<1>8. QED
  BY <1>1, <1>2, <1>7

Bit(x, i) == (x \div Pow2[i]) % 2

LEMMA BitType ==
  ASSUME NEW x \in Nat, NEW i \in Nat
  PROVE  Bit(x, i) \in {0, 1}
<1>1. x \div Pow2[i] \in Nat
  BY Pow2Type, Division
<1>2. PICK q \in Nat : q = x \div Pow2[i]
  BY <1>1
<1>3. QED
  BY <1>2 DEF Bit

LEMMA ShiftedBit ==
  ASSUME NEW x \in Nat, NEW s \in Nat, NEW i \in Nat
  PROVE  Bit(x \div Pow2[s], i) = Bit(x, s + i)
<1>1. /\ Pow2[s] \in Nat /\ Pow2[s] > 0
      /\ Pow2[i] \in Nat /\ Pow2[i] > 0
  BY Pow2Type
<1>2. (x \div Pow2[s]) \div Pow2[i] = x \div (Pow2[s] * Pow2[i])
  BY <1>1, NestedDivision
<1>3. QED
  BY <1>2, Pow2Sum DEF Bit

\* The bits of a number, each with its weight, make up its remainder.
AddsBits(f, x, n) ==
  f[0] = 0 /\ \A k \in 1..n : f[k] = f[k - 1] + Pow2[k - 1] * Bit(x, k - 1)

LEMMA BitsMakeRemainder ==
  ASSUME NEW x \in Nat, NEW n \in Nat, NEW f, AddsBits(f, x, n)
  PROVE  \A k \in 0..n : f[k] = x % Pow2[k]
<1> DEFINE S == {k \in 0..n : f[k] = x % Pow2[k]}
<1>1. 0 \in S
  BY Pow2Facts DEF AddsBits
<1>2. ASSUME NEW k \in 1..n, k - 1 \in S PROVE k \in S
  <2>1. PICK p \in Nat : p = Pow2[k - 1] /\ p > 0 /\ Pow2[k] = 2 * p
    <3>1. k - 1 \in Nat /\ (k - 1) + 1 = k
      OBVIOUS
    <3>2. Pow2[k] = 2 * Pow2[k - 1] /\ Pow2[k - 1] \in Nat /\ Pow2[k - 1] > 0
      BY <3>1, Pow2Facts, Pow2Type
    <3>3. QED
      BY <3>2
  <2>2. f[k] = (x % p) + p * ((x \div p) % 2)
    BY <1>2, <2>1 DEF Bit, AddsBits
  <2>3. QED
    BY <2>1, <2>2, DoubleRemainder
<1>3. 0..n \subseteq S
  <2> HIDE DEF S
  <2> QED
    BY <1>1, <1>2, BoundedInduction
<1>4. QED
  BY <1>3

---------------------------------------------------------------------------
(* Numbers read from bytes. *)

Gathers(f, bytes) ==
  /\ f[0] = 0
  /\ \A k \in 1..Len(bytes) : f[k] = 256 * f[k - 1] + bytes[k]
  /\ \A k \in 0..Len(bytes) : f[k] \in Nat

LEMMA NumberUnfolds ==
  ASSUME NEW bytes \in Seq(0..255)
  PROVE  \E f : Gathers(f, bytes) /\ Number(bytes) = f[Len(bytes)]
<1> DEFINE n == Len(bytes)
           Equation(f) == f = [k \in 0..n |-> IF k = 0 THEN 0 ELSE 256 * f[k - 1] + bytes[k]]
           step == [p \in Nat \X (1..n) |-> 256 * p[1] + bytes[p[2]]]
           f == CHOOSE number : Equation(number)
<1>1. n \in Nat /\ \A k \in 1..n : bytes[k] \in 0..255
  BY ElementOfSeq, LenProperties
<1>2. \E g : Equation(g)
  <2>1. step \in [Nat \X (1..n) -> Nat]
    <3> HIDE DEF n
    <3>1. ASSUME NEW p \in Nat \X (1..n) PROVE 256 * p[1] + bytes[p[2]] \in Nat
      <4>1. PICK v \in Nat, b \in 0..255 : v = p[1] /\ b = bytes[p[2]]
        BY <1>1
      <4>2. 256 * v + b \in Nat
        OBVIOUS
      <4>3. 256 * p[1] + bytes[p[2]] = 256 * v + b
        BY <4>1
      <4>4. QED
        BY <4>2, <4>3
    <3>2. QED
      BY <3>1
  <2>2. PICK g \in [0..n -> Nat] : Iterates(g, n, 0, step)
    <3> HIDE DEF step, n
    <3> QED
      BY <1>1, <2>1, Iteration
  <2>3. ASSUME NEW k \in 1..n PROVE g[k] = 256 * g[k - 1] + bytes[k]
    <3>1. g[k] = step[<<g[k - 1], k>>]
      BY <2>2 DEF Iterates
    <3>2. k - 1 \in 0..n /\ g[k - 1] \in Nat
      BY <1>1
    <3>3. <<g[k - 1], k>> \in Nat \X (1..n)
      BY <3>2
    <3>4. QED
      BY <3>1, <3>3
  <2>4. g[0] = 0
    BY <2>2 DEF Iterates
  <2>5. Equation(g)
    <3> HIDE DEF n
    <3> QED
      BY <2>3, <2>4
  <2>6. QED
    BY <2>5
<1>3. Equation(f)
  <2> HIDE DEF Equation
  <2> QED
    BY <1>2
<1>4. Number(bytes) = f[n]
  BY DEF Number
<1>5. f[0] = 0 /\ \A k \in 1..n : f[k] = 256 * f[k - 1] + bytes[k]
  <2> HIDE DEF f, n
  <2>1. 0 \in 0..n /\ \A k \in 1..n : k \in 0..n /\ k # 0
    BY <1>1
  <2>2. QED
    BY <1>3, <2>1
<1>6. \A k \in 0..n : f[k] \in Nat
  <2> DEFINE S == {k \in 0..n : f[k] \in Nat}
  <2> HIDE DEF f, n
  <2>1. 0 \in S
    BY <1>1, <1>5
  <2>2. ASSUME NEW k \in 1..n, k - 1 \in S PROVE k \in S
    <3>1. PICK v \in Nat, b \in 0..255 : v = f[k - 1] /\ b = bytes[k]
      BY <1>1, <2>2
    <3>2. f[k] = 256 * v + b
      BY <1>5, <3>1
    <3>3. QED
      BY <3>2
  <2>3. 0..n \subseteq S
    <3> HIDE DEF S
    <3> QED
      BY <1>1, <2>1, <2>2, BoundedInduction
  <2>4. QED
    BY <2>3
<1>7. QED
  <2> HIDE DEF f
  <2> QED
    BY <1>4, <1>5, <1>6 DEF Gathers

LEMMA AppendedByte ==
  ASSUME NEW v \in Nat, NEW b \in 0..255, NEW i \in Nat,
         NEW x \in Nat, x = 256 * v + b
  PROVE  Bit(x, i) = IF i < 8 THEN Bit(b, i) ELSE Bit(v, i - 8)
<1>1. CASE i < 8
  <2>1. i \in 0..7
    BY <1>1
  <2>2. CASE i = 0
    BY <2>2, Pow2Facts DEF Bit
  <2>3. CASE i = 1
    BY <2>3, Pow2Eight DEF Bit
  <2>4. CASE i = 2
    BY <2>4, Pow2Eight DEF Bit
  <2>5. CASE i = 3
    BY <2>5, Pow2Eight DEF Bit
  <2>6. CASE i = 4
    BY <2>6, Pow2Eight DEF Bit
  <2>7. CASE i = 5
    BY <2>7, Pow2Eight DEF Bit
  <2>8. CASE i = 6
    BY <2>8, Pow2Eight DEF Bit
  <2>9. CASE i = 7
    BY <2>9, Pow2Eight DEF Bit
  <2>10. QED
    BY <2>1, <2>2, <2>3, <2>4, <2>5, <2>6, <2>7, <2>8, <2>9
<1>2. CASE ~(i < 8)
  <2>1. PICK j \in Nat : i = 8 + j /\ j = i - 8
    BY <1>2
  <2>3. x \div 256 = v
    BY Quotient
  <2>4. Bit(x \div Pow2[8], j) = Bit(x, 8 + j)
    BY ShiftedBit
  <2>5. QED
    BY <1>2, <2>1, <2>3, <2>4, Pow2Eight
<1>3. QED
  BY <1>1, <1>2

\* Bit i of the number is bit i % 8 of the byte i \div 8 from the end.
LEMMA NumberBits ==
  ASSUME NEW bytes \in Seq(0..255)
  PROVE  /\ Number(bytes) \in Nat
         /\ \A i \in Nat : i < 8 * Len(bytes) =>
              Bit(Number(bytes), i) = Bit(bytes[Len(bytes) - (i \div 8)], i % 8)
<1>1. PICK f : Gathers(f, bytes) /\ Number(bytes) = f[Len(bytes)]
  BY NumberUnfolds
<1>2. PICK n \in Nat : n = Len(bytes) /\ \A k \in 1..n : bytes[k] \in 0..255
  BY ElementOfSeq, LenProperties
<1> DEFINE Right(k) == \A i \in Nat : i < 8 * k =>
                         Bit(f[k], i) = Bit(bytes[k - (i \div 8)], i % 8)
           S == {k \in 0..n : Right(k)}
<1>3. 0 \in S
  OBVIOUS
<1>4. ASSUME NEW k \in 1..n, k - 1 \in S PROVE k \in S
  <2>1. PICK v \in Nat, b \in 0..255 :
          /\ v = f[k - 1] /\ b = bytes[k]
          /\ f[k] = 256 * v + b
    <3>1. k - 1 \in 0..n
      OBVIOUS
    <3>2. f[k - 1] \in Nat /\ bytes[k] \in 0..255
      BY <1>1, <1>2, <3>1 DEF Gathers
    <3>3. f[k] = 256 * f[k - 1] + bytes[k]
      BY <1>1, <1>2 DEF Gathers
    <3>4. QED
      BY <3>2, <3>3
  <2>2. ASSUME NEW i \in Nat, i < 8 * k
        PROVE  Bit(f[k], i) = Bit(bytes[k - (i \div 8)], i % 8)
    <3>1. Bit(f[k], i) = IF i < 8 THEN Bit(b, i) ELSE Bit(v, i - 8)
      <4>1. \A x \in Nat : x = 256 * v + b =>
              Bit(x, i) = IF i < 8 THEN Bit(b, i) ELSE Bit(v, i - 8)
        BY AppendedByte
      <4>2. PICK x \in Nat : x = 256 * v + b
        OBVIOUS
      <4>3. x = f[k]
        BY <2>1, <4>2
      <4>4. QED
        BY <4>1, <4>2, <4>3
    <3>2. CASE i < 8
      <4>1. i \div 8 = 0 /\ i % 8 = i /\ k - 0 = k
        BY <3>2
      <4>2. QED
        BY <2>1, <3>1, <3>2, <4>1
    <3>3. CASE ~(i < 8)
      <4>1. PICK j \in Nat : j = i - 8 /\ j < 8 * (k - 1)
        BY <2>2, <3>3
      <4>2. j \div 8 = (i \div 8) - 1 /\ j % 8 = i % 8 /\ i \div 8 \in Nat
        BY <4>1
      <4>3. (k - 1) - (j \div 8) = k - (i \div 8)
        BY <4>2
      <4>4. Right(k - 1)
        BY <1>4
      <4>5. Bit(v, j) = Bit(bytes[(k - 1) - (j \div 8)], j % 8)
        BY <2>1, <4>1, <4>4
      <4>6. QED
        BY <3>1, <3>3, <4>1, <4>2, <4>3, <4>5
    <3>4. QED
      BY <3>2, <3>3
  <2>3. QED
    BY <2>2
<1>5. 0..n \subseteq S
  <2> HIDE DEF S
  <2> QED
    BY <1>3, <1>4, BoundedInduction
<1>6. Right(n)
  <2> HIDE DEF Right
  <2> QED
    BY <1>5
<1>7. QED
  BY <1>1, <1>2, <1>6 DEF Gathers

---------------------------------------------------------------------------
(* Where the bits of a signal are. *)

\* The placement of a signal the model accepts.
Placement(s) ==
  s.start \in Nat /\ s.length \in Nat \ {0} /\ s.big \in BOOLEAN

\* Bytes are eights of bits.
LEMMA Eights ==
  ASSUME NEW n \in Nat
  PROVE  /\ n \div 8 \in Nat /\ n % 8 \in 0..7
         /\ n = 8 * (n \div 8) + (n % 8)
OBVIOUS

LEMMA NetworkStartIsABit ==
  ASSUME NEW s, Placement(s)
  PROVE  NetworkStart(s) \in Nat
<1>1. s.start \div 8 \in Nat /\ s.start % 8 \in 0..7
  BY Eights DEF Placement
<1>2. QED
  BY <1>1 DEF NetworkStart

\* The window of a signal that fits its payload lies in the payload, and its shift
\* leaves room for the signal: no byte beyond the data is read, and the shift that
\* _compile_signal refuses when it is below zero never is (dbc/decode.py).
THEOREM WindowsFit ==
  ASSUME NEW s, Placement(s), NEW size \in Nat, Fits(s, 8 * size)
  PROVE  /\ Window(s).first \in Nat /\ Window(s).bytes \in Nat
         /\ Window(s).first + Window(s).bytes =< size
         /\ Window(s).shift \in Nat
         /\ Window(s).shift + s.length =< 8 * Window(s).bytes
<1>1. PICK start \in Nat, length \in Nat :
        length >= 1 /\ start = s.start /\ length = s.length
  BY DEF Placement
<1>2. CASE s.big
  <2>1. PICK n \in Nat : n = NetworkStart(s)
    BY NetworkStartIsABit
  <2>2. PICK end \in Nat : end = n + length - 1
    BY <1>1
  <2>3. n + length =< 8 * size /\ end + 1 =< 8 * size
    BY <1>1, <1>2, <2>1, <2>2 DEF Fits
  <2>4. PICK first \in Nat, r \in 0..7 : first = n \div 8 /\ n = 8 * first + r
    BY Eights
  <2>5. PICK last \in Nat, t \in 0..7 : last = end \div 8 /\ end = 8 * last + t
    BY Eights
  <2>6. Window(s) = [first |-> first, bytes |-> last - first + 1,
                     shift |-> (last - first + 1) * 8 - (n - first * 8) - length]
    BY <1>1, <1>2, <2>1, <2>2, <2>4, <2>5 DEF Window, BigWindow
  <2>7. /\ first =< last /\ last + 1 =< size
        /\ last - first + 1 \in Nat
        /\ (last - first + 1) * 8 - (n - first * 8) - length = 7 - t
    <3>1. first =< last /\ last + 1 =< size
      BY <1>1, <2>2, <2>3, <2>4, <2>5
    <3>2. 8 * last + t = 8 * first + r + length - 1
      BY <2>2, <2>4, <2>5
    <3>3. (last - first + 1) * 8 = 8 * last - 8 * first + 8
      OBVIOUS
    <3>4. n - first * 8 = r
      BY <2>4
    <3>5. (last - first + 1) * 8 - (n - first * 8) - length = 7 - t
      BY <3>2, <3>3, <3>4
    <3>6. QED
      BY <3>1, <3>5
  <2>8. r = n - first * 8 /\ 7 - t + length =< 8 * (last - first + 1)
    BY <1>1, <2>2, <2>4, <2>5, <2>7
  <2>9. QED
    BY <1>1, <2>6, <2>7, <2>8
<1>3. CASE ~s.big
  <2>1. PICK first \in Nat, r \in 0..7 :
          first = start \div 8 /\ r = start % 8 /\ start = 8 * first + r
    BY Eights
  <2>2. PICK bytes \in Nat, t \in 0..7 :
          bytes = (r + length + 7) \div 8 /\ r + length + 7 = 8 * bytes + t
    BY Eights
  <2>3. Window(s) = [first |-> first, bytes |-> bytes, shift |-> r]
    BY <1>1, <1>3, <2>1, <2>2 DEF Window, LittleWindow
  <2>4. start + length =< 8 * size
    BY <1>1, <1>3 DEF Fits
  <2>5. first + bytes =< size /\ r + length =< 8 * bytes
    BY <2>1, <2>2, <2>4
  <2>6. /\ Window(s).first = first /\ Window(s).bytes = bytes /\ Window(s).shift = r
        /\ r \in Nat
    BY <2>3
  <2>7. QED
    BY <1>1, <2>5, <2>6
<1>4. QED
  BY <1>2, <1>3

\* The position of bit m in network order.
Mirror(m) == 8 * (m \div 8) + (7 - (m % 8))

LEMMA MirrorFacts ==
  ASSUME NEW m \in Nat
  PROVE  /\ Mirror(m) \in Nat
         /\ Mirror(m) \div 8 = m \div 8
         /\ Mirror(m) % 8 = 7 - (m % 8)
         /\ Mirror(m + 1) = IF Mirror(m) % 8 = 0 THEN Mirror(m) + 15 ELSE Mirror(m) - 1
BY DEF Mirror

LEMMA WalkUnfolds ==
  ASSUME NEW s, Placement(s)
  PROVE  /\ Walk(s)[0] = s.start
         /\ \A k \in 1..s.length - 1 :
              Walk(s)[k] = IF Walk(s)[k - 1] % 8 = 0 THEN Walk(s)[k - 1] + 15
                           ELSE Walk(s)[k - 1] - 1
<1> DEFINE n == s.length - 1
           Equation(f) ==
             f = [k \in 0..n |-> IF k = 0 THEN s.start
                                 ELSE IF f[k - 1] % 8 = 0 THEN f[k - 1] + 15
                                 ELSE f[k - 1] - 1]
           step == [p \in Int \X (1..n) |-> IF p[1] % 8 = 0 THEN p[1] + 15 ELSE p[1] - 1]
           f == CHOOSE walk : Equation(walk)
<1>1. n \in Nat /\ s.start \in Int
  BY DEF Placement
<1>2. \E g : Equation(g)
  <2>1. step \in [Int \X (1..n) -> Int]
    OBVIOUS
  <2>2. PICK g \in [0..n -> Int] : Iterates(g, n, s.start, step)
    <3> HIDE DEF step, n
    <3> QED
      BY <1>1, <2>1, Iteration
  <2>3. ASSUME NEW k \in 1..n
        PROVE  g[k] = IF g[k - 1] % 8 = 0 THEN g[k - 1] + 15 ELSE g[k - 1] - 1
    <3>1. g[k] = step[<<g[k - 1], k>>]
      BY <2>2 DEF Iterates
    <3>2. k - 1 \in 0..n /\ g[k - 1] \in Int
      BY <1>1
    <3>3. <<g[k - 1], k>> \in Int \X (1..n)
      BY <3>2
    <3>4. QED
      BY <3>1, <3>3
  <2>4. g[0] = s.start
    BY <2>2 DEF Iterates
  <2>5. Equation(g)
    <3> HIDE DEF n
    <3> QED
      BY <2>3, <2>4
  <2>6. QED
    BY <2>5
<1>3. Equation(f)
  <2> HIDE DEF Equation
  <2> QED
    BY <1>2
<1>4. Walk(s) = f
  BY DEF Walk
<1>5. QED
  <2> HIDE DEF f
  <2>1. 0 \in 0..n /\ \A k \in 1..n : k \in 0..n /\ k # 0
    BY <1>1
  <2>2. QED
    BY <1>3, <1>4, <2>1

LEMMA WalkIsMirror ==
  ASSUME NEW s, Placement(s)
  PROVE  \A k \in 0..s.length - 1 : Walk(s)[k] = Mirror(NetworkStart(s) + k)
<1>1. PICK start \in Nat, n \in Nat, b \in Nat :
        start = s.start /\ n = s.length - 1 /\ b = NetworkStart(s)
  BY NetworkStartIsABit DEF Placement
<1> DEFINE S == {k \in 0..n : Walk(s)[k] = Mirror(b + k)}
<1>2. 0 \in S
  <2>1. b = 8 * (start \div 8) + (7 - (start % 8))
    BY <1>1 DEF NetworkStart
  <2>2. Mirror(b) = start
    BY <2>1 DEF Mirror
  <2>3. Walk(s)[0] = start
    BY <1>1, WalkUnfolds
  <2>4. QED
    BY <2>2, <2>3
<1>3. ASSUME NEW k \in 1..n, k - 1 \in S PROVE k \in S
  <2>1. PICK m \in Nat : m = b + (k - 1) /\ m + 1 = b + k
    OBVIOUS
  <2>2. PICK w \in Nat : w = Mirror(m) /\ w = Walk(s)[k - 1]
    BY <1>3, <2>1, MirrorFacts
  <2>3. Walk(s)[k] = IF w % 8 = 0 THEN w + 15 ELSE w - 1
    BY <1>1, <2>2, WalkUnfolds
  <2>4. Mirror(m + 1) = IF w % 8 = 0 THEN w + 15 ELSE w - 1
    BY <2>2, MirrorFacts
  <2>5. QED
    BY <2>1, <2>3, <2>4
<1>4. 0..n \subseteq S
  <2> HIDE DEF S
  <2> QED
    BY <1>2, <1>3, BoundedInduction
<1>5. QED
  BY <1>1, <1>4

LEMMA PositionIsABit ==
  ASSUME NEW s, Placement(s), NEW k \in 0..s.length - 1
  PROVE  /\ Position(s, k) \in Nat
         /\ s.big => Position(s, k) = Mirror(NetworkStart(s) + (s.length - 1 - k))
         /\ ~s.big => Position(s, k) = s.start + k
<1>1. PICK start \in Nat, n \in Nat, b \in Nat :
        start = s.start /\ n = s.length - 1 /\ b = NetworkStart(s)
  BY NetworkStartIsABit DEF Placement
<1>2. CASE s.big
  <2>1. PICK j \in 0..n : j = s.length - 1 - k
    BY <1>1
  <2>2. Position(s, k) = Mirror(b + j)
    BY <1>1, <1>2, <2>1, WalkIsMirror DEF Position
  <2>3. PICK m \in Nat : m = b + j
    OBVIOUS
  <2>4. Mirror(m) \in Nat
    BY MirrorFacts
  <2>5. NetworkStart(s) + (s.length - 1 - k) = m
    BY <1>1, <2>1, <2>3
  <2>6. QED
    BY <1>2, <2>2, <2>3, <2>4, <2>5
<1>3. CASE ~s.big
  BY <1>1, <1>3 DEF Position
<1>4. QED
  BY <1>2, <1>3

\* A signal fits where all of its bits are inside (_compile_signal).
LEMMA FitsIsInside ==
  ASSUME NEW s, Placement(s), NEW size \in Nat
  PROVE  Fits(s, 8 * size) <=> BitsInside(s, 8 * size)
<1>1. PICK start \in Nat, n \in Nat, b \in Nat :
        /\ start = s.start /\ n = s.length - 1 /\ b = NetworkStart(s)
        /\ s.length = n + 1
  BY NetworkStartIsABit DEF Placement
<1>2. CASE s.big
  <2>1. Fits(s, 8 * size) <=> b + n < 8 * size
    BY <1>1, <1>2 DEF Fits
  <2>2. \A k \in 0..n : Position(s, k) = Mirror(b + (n - k))
    BY <1>1, <1>2, PositionIsABit
  <2>3. \A m \in Nat : Mirror(m) < 8 * size <=> m < 8 * size
    BY DEF Mirror
  <2>4. ASSUME b + n < 8 * size, NEW k \in 0..n PROVE Position(s, k) < 8 * size
    BY <2>2, <2>3, <2>4
  <2>5. ASSUME \A k \in 0..n : Position(s, k) < 8 * size PROVE b + n < 8 * size
    <3>1. Position(s, 0) = Mirror(b + n)
      BY <2>2
    <3>2. QED
      BY <2>3, <2>5, <3>1
  <2>6. QED
    BY <1>1, <2>1, <2>4, <2>5 DEF BitsInside
<1>3. CASE ~s.big
  <2>1. Fits(s, 8 * size) <=> start + n < 8 * size
    BY <1>1, <1>3 DEF Fits
  <2>2. \A k \in 0..n : Position(s, k) = start + k
    BY <1>1, <1>3, PositionIsABit
  <2>3. (\A k \in 0..n : Position(s, k) < 8 * size) <=> start + n < 8 * size
    <3>1. ASSUME \A k \in 0..n : Position(s, k) < 8 * size PROVE start + n < 8 * size
      BY <2>2, <3>1
    <3>2. ASSUME start + n < 8 * size, NEW k \in 0..n PROVE Position(s, k) < 8 * size
      BY <2>2, <3>2
    <3>3. QED
      BY <3>1, <3>2
  <2>4. QED
    BY <1>1, <2>1, <2>3 DEF BitsInside
<1>4. QED
  BY <1>2, <1>3

LEMMA FunctionIsSeq ==
  ASSUME NEW n \in Nat, NEW S, NEW f \in [1..n -> S]
  PROVE  f \in Seq(S) /\ Len(f) = n
<1>1. f \in Seq(S)
  OBVIOUS
<1>2. DOMAIN f = 1..Len(f) /\ Len(f) \in Nat
  BY <1>1, LenProperties
<1>3. QED
  BY <1>1, <1>2

LEMMA WindowIndex ==
  ASSUME NEW first \in Nat, NEW n \in Nat, NEW length \in Nat, first + n <= length
  PROVE  /\ \A k \in 1..n : first + k \in 1..length /\ first + n - k + 1 \in 1..length
         /\ \A j \in 0..n - 1 :
              n - j \in 1..n /\ first + n - (n - j) + 1 = first + j + 1
OBVIOUS

\* The bytes of a window are n bytes of the payload, from first.
Covers(data, w, first, n, big) ==
  /\ Covered(data, w, big) \in Seq(0..255)
  /\ Len(Covered(data, w, big)) = n
  /\ \A j \in 0..n - 1 :
       Covered(data, w, big)[n - j] =
         data[IF big THEN first + (n - j) ELSE first + j + 1]

LEMMA CoveredBytes ==
  ASSUME NEW data \in Seq(0..255), NEW w, NEW first \in Nat, NEW n \in Nat,
         first = w.first, n = w.bytes, first + n <= Len(data), NEW big \in BOOLEAN
  PROVE  Covers(data, w, first, n, big)
<1>1. PICK length \in Nat : length = Len(data) /\ first + n <= length
  BY LenProperties
<1> DEFINE c == [k \in 1..n |-> data[IF big THEN first + k ELSE first + n - k + 1]]
<1>2. Covered(data, w, big) = c
  BY DEF Covered
<1>3. \A i \in 1..Len(data) : data[i] \in 0..255
  BY ElementOfSeq
<1>4. c \in [1..n -> 0..255]
  <2>1. ASSUME NEW k \in 1..n
        PROVE  (IF big THEN first + k ELSE first + n - k + 1) \in 1..Len(data)
    BY <1>1, WindowIndex
  <2>2. QED
    BY <1>1, <1>3, <2>1
<1>5. c \in Seq(0..255) /\ Len(c) = n
  <2> HIDE DEF c
  <2> QED
    BY <1>4, FunctionIsSeq
<1>6. ASSUME NEW j \in 0..n - 1
      PROVE  c[n - j] = data[IF big THEN first + (n - j) ELSE first + j + 1]
  <2>1. n - j \in 1..n /\ first + n - (n - j) + 1 = first + j + 1
    BY <1>1, WindowIndex
  <2>2. QED
    BY <2>1
<1>7. QED
  <2> HIDE DEF c
  <2> QED
    BY <1>2, <1>5, <1>6 DEF Covers

\* The bit of weight k of a signal is bit shift + k of its window's number.
LEMMA WindowBits ==
  ASSUME NEW s, Placement(s), NEW size \in Nat, Fits(s, 8 * size),
         NEW data \in Seq(0..255), size <= Len(data), NEW k \in 0..s.length - 1
  PROVE  /\ Number(Covered(data, Window(s), s.big)) \in Nat
         /\ Window(s).shift \in Nat
         /\ BitAt(data, Position(s, k)) =
              Bit(Number(Covered(data, Window(s), s.big)), Window(s).shift + k)
<1>1. PICK first \in Nat, n \in Nat, shift \in Nat :
        /\ first = Window(s).first /\ n = Window(s).bytes /\ shift = Window(s).shift
        /\ first + n <= size /\ shift + s.length <= 8 * n
  BY WindowsFit
<1>2. PICK start \in Nat, top \in Nat, b \in Nat :
        /\ start = s.start /\ top = s.length - 1 /\ b = NetworkStart(s)
        /\ s.length = top + 1 /\ k <= top
  BY NetworkStartIsABit DEF Placement
<1> DEFINE bytes == Covered(data, Window(s), s.big)
<1>3. /\ bytes \in Seq(0..255) /\ Len(bytes) = n
      /\ \A j \in 0..n - 1 :
           bytes[n - j] = data[IF s.big THEN first + (n - j) ELSE first + j + 1]
  <2>1. PICK length \in Nat : length = Len(data)
    BY LenProperties
  <2>2. first + n <= Len(data) /\ s.big \in BOOLEAN
    BY <1>1, <2>1 DEF Placement
  <2>3. PICK big \in BOOLEAN : big = s.big
    BY <2>2
  <2> DEFINE w == Window(s)
  <2>4. Covers(data, w, first, n, big)
    <3>1. first = w.first /\ n = w.bytes
      BY <1>1
    <3> HIDE DEF w
    <3>2. QED
      BY <2>2, <3>1, CoveredBytes
  <2>5. QED
    BY <2>3, <2>4 DEF Covers
<1>4. PICK i \in Nat : i = shift + k /\ i < 8 * n
  <2>1. shift + (top + 1) <= 8 * n /\ k \in Nat
    BY <1>1, <1>2
  <2>2. shift + k < 8 * n /\ shift + k \in Nat
    BY <1>2, <2>1
  <2>3. QED
    BY <2>2
<1>5. PICK j \in 0..n - 1, r \in 0..7 : j = i \div 8 /\ r = i % 8 /\ i = 8 * j + r
  <2>1. /\ i \div 8 \in 0..n - 1 /\ i % 8 \in 0..7
        /\ i = 8 * (i \div 8) + (i % 8)
    BY <1>4
  <2>2. QED
    BY <2>1
<1>6. Bit(Number(bytes), i) = Bit(bytes[n - j], r) /\ Number(bytes) \in Nat
  <2> HIDE DEF bytes
  <2> QED
    BY <1>3, <1>4, <1>5, NumberBits
<1>7. PICK p \in Nat : p = Position(s, k)
  BY PositionIsABit
<1>8. p % 8 = r /\ data[p \div 8 + 1] = bytes[n - j]
  <2>1. CASE s.big
    <3>1. PICK m \in Nat : m = b + (top - k) /\ p = Mirror(m)
      <4>1. top - k \in Nat /\ b + (top - k) \in Nat
        BY <1>2
      <4>2. Position(s, k) = Mirror(b + (top - k))
        BY <1>2, <2>1, PositionIsABit
      <4>3. QED
        BY <1>7, <4>1, <4>2
    <3>2. p \div 8 = m \div 8 /\ p % 8 = 7 - (m % 8)
      BY <3>1, MirrorFacts
    <3>3. /\ first = b \div 8
          /\ n = (b + top) \div 8 - first + 1
          /\ shift = n * 8 - (b - first * 8) - (top + 1)
      <4>1. b + (top + 1) - 1 = b + top
        OBVIOUS
      <4>2. QED
        BY <1>1, <1>2, <2>1, <4>1 DEF Window, BigWindow
    <3>4. i = 8 * (first + n) - 1 - m
      BY <1>4, <3>1, <3>3
    <3>5. m \div 8 + 1 = first + (n - j) /\ 7 - (m % 8) = r
      BY <1>5, <3>4
    <3>6. QED
      BY <1>3, <2>1, <3>2, <3>5
  <2>2. CASE ~s.big
    <3>1. p = start + k
      BY <1>2, <1>7, <2>2, PositionIsABit
    <3>2. first = start \div 8 /\ shift = start % 8
      BY <1>1, <1>2, <2>2 DEF Window, LittleWindow
    <3>3. p = 8 * first + i
      BY <1>4, <3>1, <3>2
    <3>4. p \div 8 = first + j /\ p % 8 = r
      BY <1>5, <3>3
    <3>5. QED
      BY <1>3, <2>2, <3>4
  <2>3. QED
    BY <2>1, <2>2
<1>9. BitAt(data, p) = Bit(bytes[n - j], r)
  BY <1>8 DEF BitAt, Bit
<1>10. QED
  BY <1>1, <1>4, <1>6, <1>7, <1>9

---------------------------------------------------------------------------
(* The raw value of a signal is the value its bits have. *)

\* f adds up the first k bits of a signal, each with its weight.
Weighs(f, s, data) ==
  /\ f[0] = 0
  /\ \A k \in 1..s.length :
       f[k] = f[k - 1] + (IF s.signed /\ k - 1 = s.length - 1 THEN -Pow2[k - 1]
                          ELSE Pow2[k - 1]) * BitAt(data, Position(s, k - 1))

LEMMA ReferenceUnfolds ==
  ASSUME NEW s, Placement(s), NEW data,
         \A k \in 0..s.length - 1 : BitAt(data, Position(s, k)) \in {0, 1}
  PROVE  \E f : Weighs(f, s, data) /\ ReferenceValue(s, data) = f[s.length]
<1> DEFINE n == s.length
           weight(k) == IF s.signed /\ k = s.length - 1 THEN -Pow2[k] ELSE Pow2[k]
           bit(k) == BitAt(data, Position(s, k))
           Equation(f) ==
             f = [k \in 0..n |-> IF k = 0 THEN 0
                                 ELSE f[k - 1] + weight(k - 1) * bit(k - 1)]
           step == [p \in Int \X (1..n) |-> p[1] + weight(p[2] - 1) * bit(p[2] - 1)]
           f == CHOOSE value : Equation(value)
<1>1. n \in Nat
  BY DEF Placement
<1>2. \A k \in 1..n : weight(k - 1) * bit(k - 1) \in Int
  <2>1. ASSUME NEW k \in 1..n PROVE weight(k - 1) * bit(k - 1) \in Int
    <3>1. k - 1 \in 0..n - 1
      BY <1>1
    <3>2. Pow2[k - 1] \in Int
      BY <1>1, <3>1, Pow2Type
    <3>3. weight(k - 1) \in Int
      BY <3>2
    <3>4. bit(k - 1) \in Int
      BY <3>1
    <3> HIDE DEF weight, bit
    <3>5. QED
      BY <3>3, <3>4
  <2>2. QED
    BY <2>1
<1>3. \E g : Equation(g)
  <2> HIDE DEF weight, bit
  <2>1. step \in [Int \X (1..n) -> Int]
    <3> HIDE DEF n
    <3>1. ASSUME NEW p \in Int \X (1..n)
          PROVE  p[1] + weight(p[2] - 1) * bit(p[2] - 1) \in Int
      <4>1. PICK v \in Int, k \in 1..n : v = p[1] /\ k = p[2]
        OBVIOUS
      <4>2. PICK x \in Int : x = weight(k - 1) * bit(k - 1)
        BY <1>2
      <4>3. v + x \in Int
        OBVIOUS
      <4>4. p[1] + weight(p[2] - 1) * bit(p[2] - 1) = v + x
        BY <4>1, <4>2
      <4>5. QED
        BY <4>3, <4>4
    <3>2. QED
      BY <3>1
  <2>2. PICK g \in [0..n -> Int] : Iterates(g, n, 0, step)
    <3> HIDE DEF step, n
    <3>1. 0 \in Int
      OBVIOUS
    <3>2. QED
      BY <1>1, <2>1, <3>1, Iteration
  <2>3. ASSUME NEW k \in 1..n PROVE g[k] = g[k - 1] + weight(k - 1) * bit(k - 1)
    <3>1. g[k] = step[<<g[k - 1], k>>]
      BY <2>2 DEF Iterates
    <3>2. k - 1 \in 0..n /\ g[k - 1] \in Int
      BY <1>1
    <3>3. <<g[k - 1], k>> \in Int \X (1..n)
      BY <3>2
    <3>4. QED
      BY <3>1, <3>3
  <2>4. g[0] = 0
    BY <2>2 DEF Iterates
  <2>5. Equation(g)
    <3> HIDE DEF n
    <3> QED
      BY <2>3, <2>4
  <2>6. QED
    BY <2>5
<1>4. Equation(f)
  <2> HIDE DEF Equation
  <2> QED
    BY <1>3
<1>5. ReferenceValue(s, data) = f[n]
  BY DEF ReferenceValue
<1>6. f[0] = 0 /\ \A k \in 1..n : f[k] = f[k - 1] + weight(k - 1) * bit(k - 1)
  <2> HIDE DEF f, n, weight, bit
  <2>1. 0 \in 0..n /\ \A k \in 1..n : k \in 0..n /\ k # 0
    BY <1>1
  <2>2. QED
    BY <1>4, <2>1
<1>7. QED
  <2> HIDE DEF f
  <2> QED
    BY <1>5, <1>6 DEF Weighs

LEMMA RawIsReference ==
  ASSUME NEW s, Placement(s), s.signed \in BOOLEAN, NEW size \in Nat, Fits(s, 8 * size),
         NEW data \in Seq(0..255), size <= Len(data)
  PROVE  RawValue(s, data) = ReferenceValue(s, data)
<1>1. PICK top \in Nat : top = s.length - 1 /\ s.length = top + 1
  BY DEF Placement
<1>2. PICK n \in Nat, shift \in Nat :
        /\ n = Number(Covered(data, Window(s), s.big)) /\ shift = Window(s).shift
        /\ \A k \in 0..top : BitAt(data, Position(s, k)) = Bit(n, shift + k)
  <2>1. 0 \in 0..s.length - 1
    BY <1>1
  <2>2. /\ Number(Covered(data, Window(s), s.big)) \in Nat
        /\ Window(s).shift \in Nat
    BY <2>1, WindowBits
  <2>3. \A k \in 0..top :
          BitAt(data, Position(s, k)) =
            Bit(Number(Covered(data, Window(s), s.big)), Window(s).shift + k)
    BY <1>1, WindowBits
  <2>4. QED
    BY <2>2, <2>3
<1>3. PICK y \in Nat : y = n \div Pow2[shift]
  BY Pow2Type, Division
<1>4. ASSUME NEW k \in 0..top
      PROVE  BitAt(data, Position(s, k)) = Bit(y, k) /\ Bit(y, k) \in {0, 1}
  <2>1. Bit(n \div Pow2[shift], k) = Bit(n, shift + k)
    BY ShiftedBit
  <2>2. Bit(y, k) \in {0, 1}
    BY BitType
  <2>3. QED
    BY <1>2, <1>3, <2>1, <2>2
<1>5. PICK f : Weighs(f, s, data) /\ ReferenceValue(s, data) = f[top + 1]
  BY <1>1, <1>4, ReferenceUnfolds
<1>6. PICK p \in Nat : p = Pow2[top] /\ p > 0 /\ Pow2[top + 1] = 2 * p
  BY Pow2Type, Pow2Facts
<1>7. f[top] = y % p
  <2>1. \A k \in 1..top : f[k] = f[k - 1] + Pow2[k - 1] * Bit(y, k - 1)
    <3>1. ASSUME NEW k \in 1..top PROVE f[k] = f[k - 1] + Pow2[k - 1] * Bit(y, k - 1)
      <4>1. k \in 1..s.length /\ k - 1 \in 0..top /\ k - 1 # s.length - 1
        BY <1>1
      <4>2. QED
        BY <1>4, <1>5, <4>1 DEF Weighs
    <3>2. QED
      BY <3>1
  <2>2. f[0] = 0
    BY <1>5 DEF Weighs
  <2>3. \A k \in 0..top : f[k] = y % Pow2[k]
    <3>1. AddsBits(f, y, top)
      BY <2>1, <2>2 DEF AddsBits
    <3>2. QED
      BY <3>1, BitsMakeRemainder
  <2>4. QED
    BY <1>6, <2>3
<1>8. PICK b \in {0, 1} : b = Bit(y, top)
  BY <1>4
<1>9. PICK u \in Nat : u = y % p /\ u < p
  BY <1>6, Division
<1>10. f[top + 1] = u + (IF s.signed THEN -p ELSE p) * b
  <2>1. top + 1 \in 1..s.length /\ (top + 1) - 1 = top /\ top = s.length - 1
    BY <1>1
  <2>2. f[top + 1] = f[top] + (IF s.signed THEN -Pow2[top] ELSE Pow2[top])
                                 * BitAt(data, Position(s, top))
    BY <1>5, <2>1 DEF Weighs
  <2>3. QED
    BY <1>4, <1>6, <1>7, <1>8, <1>9, <2>2
<1>11. y % Pow2[top + 1] = u + p * b
  <2>1. y % (2 * p) = (y % p) + p * ((y \div p) % 2)
    BY <1>6, DoubleRemainder
  <2>2. b = (y \div p) % 2
    BY <1>6, <1>8 DEF Bit
  <2>3. QED
    BY <1>6, <1>9, <2>1, <2>2
<1>12. RawValue(s, data) =
         IF s.signed /\ u + p * b >= p THEN u + p * b - 2 * p ELSE u + p * b
  <2> DEFINE value == (Number(Covered(data, Window(s), s.big)) \div
                        Pow2[Window(s).shift]) % Pow2[s.length]
  <2>1. value = u + p * b
    <3>1. Number(Covered(data, Window(s), s.big)) \div Pow2[Window(s).shift] = y
      BY <1>2, <1>3
    <3>2. QED
      BY <1>1, <1>11, <3>1
  <2>2. Pow2[s.length] = 2 * p /\ Pow2[s.length - 1] = p
    BY <1>1, <1>6
  <2>3. RawValue(s, data) =
          IF s.signed /\ value >= Pow2[s.length - 1] THEN value - Pow2[s.length] ELSE value
    BY DEF RawValue
  <2> HIDE DEF value
  <2>4. QED
    BY <2>1, <2>2, <2>3
<1>13. /\ b = 0 => p * b = 0 /\ (-p) * b = 0
       /\ b = 1 => p * b = p /\ (-p) * b = -p
  OBVIOUS
<1>14. QED
  <2>1. CASE b = 0
    BY <1>5, <1>9, <1>10, <1>12, <1>13, <2>1
  <2>2. CASE b = 1
    BY <1>5, <1>9, <1>10, <1>12, <1>13, <2>2
  <2>3. QED
    BY <2>1, <2>2

---------------------------------------------------------------------------
(* Choosing the signals of a frame. *)

\* f is the list of the signals at the indices of chosen, step by step.
Chooses(f, signals, chosen) ==
  /\ f[0] = <<>>
  /\ \A i \in 1..Len(signals) :
       f[i] = IF i \in chosen THEN Append(f[i - 1], signals[i]) ELSE f[i - 1]

\* A list without repetition of the elements of T.
Lists(list, S, T) ==
  list \in Seq(S) /\ ToSet(list) = T /\ IsFiniteSet(T) /\ Cardinality(T) = Len(list)

LEMMA AppendLists ==
  ASSUME NEW S, NEW T, NEW list, Lists(list, S, T), NEW x \in S, x \notin T
  PROVE  Lists(Append(list, x), S, T \cup {x})
<1>1. PICK n \in Nat : n = Len(list) /\ DOMAIN list = 1..n
  BY LenProperties DEF Lists
<1> DEFINE a == Append(list, x)
<1>2. /\ a \in Seq(S) /\ Len(a) = n + 1
      /\ \A i \in 1..n : a[i] = list[i]
      /\ a[n + 1] = x
  BY <1>1, AppendProperties DEF Lists
<1>3. DOMAIN a = 1..(n + 1)
  <2> HIDE DEF a
  <2> QED
    BY <1>2, LenProperties
<1>4. ToSet(a) = ToSet(list) \cup {x}
  <2> HIDE DEF a
  <2>1. 1..(n + 1) = 1..n \cup {n + 1}
    OBVIOUS
  <2>2. QED
    BY <1>1, <1>2, <1>3, <2>1 DEF ToSet
<1>5. IsFiniteSet(T \cup {x}) /\ Cardinality(T \cup {x}) = Cardinality(T) + 1
  BY FS_AddElement DEF Lists
<1>6. QED
  BY <1>1, <1>2, <1>4, <1>5 DEF Lists

LEMMA ChoiceLists ==
  ASSUME NEW S, NEW signals \in Seq(S), Unique(signals), NEW chosen,
         NEW f, Chooses(f, signals, chosen)
  PROVE  Lists(f[Len(signals)], S, {signals[i] : i \in {j \in 1..Len(signals) : j \in chosen}})
<1>1. PICK n \in Nat : /\ n = Len(signals) /\ DOMAIN signals = 1..n
                      /\ \A i \in 1..n : signals[i] \in S
  BY LenProperties, ElementOfSeq
<1> DEFINE upto(k) == {signals[i] : i \in {j \in 1..k : j \in chosen}}
           R == {k \in 0..n : Lists(f[k], S, upto(k))}
<1>2. 0 \in R
  <2>1. upto(0) = {}
    OBVIOUS
  <2>2. <<>> \in Seq(S) /\ ToSet(<<>>) = {} /\ Len(<<>>) = 0
    BY EmptySeq DEF ToSet
  <2>3. Lists(<<>>, S, {})
    BY <2>2, FS_EmptySet DEF Lists
  <2> HIDE DEF upto
  <2>4. f[0] = <<>>
    BY DEF Chooses
  <2>5. Lists(f[0], S, upto(0))
    BY <2>1, <2>3, <2>4
  <2>6. QED
    BY <2>5
<1>3. ASSUME NEW k \in 1..n, k - 1 \in R PROVE k \in R
  <2>1. Lists(f[k - 1], S, upto(k - 1))
    BY <1>3
  <2>2. 1..k = 1..(k - 1) \cup {k} /\ k \notin 1..(k - 1) /\ 1..(k - 1) \subseteq 1..n
    OBVIOUS
  <2>3. CASE k \in chosen
    <3>1. f[k] = Append(f[k - 1], signals[k])
      BY <1>1, <2>3 DEF Chooses
    <3>2. upto(k) = upto(k - 1) \cup {signals[k]}
      BY <2>2, <2>3
    <3>3. signals[k] \notin upto(k - 1)
      <4>1. ASSUME NEW i \in 1..(k - 1) PROVE signals[i] # signals[k]
        BY <1>1, <2>2 DEF Unique
      <4>2. QED
        BY <4>1
    <3>4. signals[k] \in S
      BY <1>1
    <3> HIDE DEF upto
    <3>5. Lists(f[k], S, upto(k))
      BY <2>1, <3>1, <3>2, <3>3, <3>4, AppendLists
    <3>6. QED
      BY <3>5
  <2>4. CASE k \notin chosen
    <3>1. f[k] = f[k - 1]
      BY <1>1, <2>4 DEF Chooses
    <3>2. upto(k) = upto(k - 1)
      BY <2>2, <2>4
    <3> HIDE DEF upto
    <3>3. QED
      BY <2>1, <3>1, <3>2
  <2>5. QED
    BY <2>3, <2>4
<1>4. 0..n \subseteq R
  <2> HIDE DEF R
  <2> QED
    BY <1>2, <1>3, BoundedInduction
<1>5. n \in R
  <2> HIDE DEF R
  <2> QED
    BY <1>4
<1>6. QED
  BY <1>1, <1>5

\* What the decode of a message keeps are the signals that are selected, once each.
LEMMA DecodedLists ==
  ASSUME NEW S, NEW plan, plan.signals \in Seq(S), Unique(plan.signals), NEW data
  PROVE  Lists(DecodedSignals(plan, data), S,
               {s \in ToSet(plan.signals) : IsSelected(plan, s, data)})
<1> DEFINE signals == plan.signals
           n == Len(signals)
           picked(i) == IsSelected(plan, signals[i], data)
           chosen == {i \in 1..n : picked(i)}
           Equation(f) ==
             f = [i \in 0..n |-> IF i = 0 THEN <<>>
                                 ELSE IF picked(i) THEN Append(f[i - 1], signals[i])
                                 ELSE f[i - 1]]
           step == [p \in Seq(S) \X (1..n) |->
                      IF picked(p[2]) THEN Append(p[1], signals[p[2]]) ELSE p[1]]
           f == CHOOSE decoded : Equation(decoded)
<1>1. n \in Nat /\ DOMAIN signals = 1..n /\ \A i \in 1..n : signals[i] \in S
  BY LenProperties, ElementOfSeq
<1>2. \E g : Equation(g)
  <2> HIDE DEF picked
  <2>1. step \in [Seq(S) \X (1..n) -> Seq(S)]
    <3> HIDE DEF n
    <3>1. ASSUME NEW p \in Seq(S) \X (1..n)
          PROVE  (IF picked(p[2]) THEN Append(p[1], signals[p[2]]) ELSE p[1]) \in Seq(S)
      <4>1. p[1] \in Seq(S) /\ signals[p[2]] \in S
        BY <1>1
      <4>2. Append(p[1], signals[p[2]]) \in Seq(S)
        BY <4>1, AppendProperties
      <4>3. QED
        BY <4>1, <4>2
    <3>2. QED
      BY <3>1
  <2>2. PICK g \in [0..n -> Seq(S)] : Iterates(g, n, <<>>, step)
    <3> HIDE DEF step, n
    <3>1. <<>> \in Seq(S)
      BY EmptySeq
    <3>2. QED
      BY <1>1, <2>1, <3>1, Iteration
  <2>3. ASSUME NEW i \in 1..n
        PROVE  g[i] = IF picked(i) THEN Append(g[i - 1], signals[i]) ELSE g[i - 1]
    <3>1. g[i] = step[<<g[i - 1], i>>]
      BY <2>2 DEF Iterates
    <3>2. i - 1 \in 0..n /\ g[i - 1] \in Seq(S)
      BY <1>1
    <3>3. <<g[i - 1], i>> \in Seq(S) \X (1..n)
      BY <3>2
    <3>4. QED
      BY <3>1, <3>3
  <2>4. g[0] = <<>>
    BY <2>2 DEF Iterates
  <2>5. Equation(g)
    <3> HIDE DEF n, signals
    <3>1. \A i \in 0..n : i # 0 => i \in 1..n
      BY <1>1
    <3>2. ASSUME NEW i \in 0..n
          PROVE  g[i] = IF i = 0 THEN <<>>
                        ELSE IF picked(i) THEN Append(g[i - 1], signals[i])
                        ELSE g[i - 1]
      BY <2>3, <2>4, <3>1
    <3>3. g = [i \in 0..n |-> g[i]]
      OBVIOUS
    <3>4. QED
      BY <3>2, <3>3
  <2>6. QED
    BY <2>5
<1>3. Equation(f)
  <2> HIDE DEF Equation
  <2> QED
    BY <1>2
<1>4. DecodedSignals(plan, data) = f[n]
  BY DEF DecodedSignals
<1>5. Chooses(f, signals, chosen)
  <2> HIDE DEF f, picked
  <2>1. 0 \in 0..n /\ \A i \in 1..n : i \in 0..n /\ i # 0
    BY <1>1
  <2>2. f[0] = <<>>
    BY <1>3, <2>1
  <2>3. ASSUME NEW i \in 1..n
        PROVE  f[i] = IF i \in chosen THEN Append(f[i - 1], signals[i]) ELSE f[i - 1]
    BY <1>3, <2>1
  <2>4. QED
    BY <2>2, <2>3 DEF Chooses
<1>6. Lists(f[n], S, {signals[i] : i \in {j \in 1..n : j \in chosen}})
  <2>1. signals \in Seq(S) /\ Unique(signals)
    OBVIOUS
  <2> HIDE DEF f, chosen, signals
  <2>2. QED
    BY <1>5, <2>1, ChoiceLists
<1>7. {signals[i] : i \in {j \in 1..n : j \in chosen}}
        = {s \in ToSet(signals) : IsSelected(plan, s, data)}
  <2> HIDE DEF f
  <2> QED
    BY <1>1 DEF ToSet
<1>8. QED
  <2> HIDE DEF f
  <2> QED
    BY <1>4, <1>6, <1>7

---------------------------------------------------------------------------
(* Documents. *)

LEMMA KnownSignal ==
  ASSUME NEW m \in Messages, ValidMessage(m), NEW s \in SignalsOf(m)
  PROVE  s \in Signals /\ Placement(s) /\ ValidSignal(s)
<1>1. m.signals \in Seq(Signals)
  BY DEF Messages
<1>2. PICK i \in DOMAIN m.signals : s = m.signals[i]
  BY DEF SignalsOf
<1>3. s \in Signals
  BY <1>1, <1>2, LenProperties, ElementOfSeq
<1>4. ValidSignal(s)
  BY <1>2 DEF ValidMessage
<1>5. QED
  BY <1>3, <1>4 DEF Signals, ValidSignal, Placement

\* The names of a message's signals differ, so its signals do.
LEMMA SignalsDiffer ==
  ASSUME NEW m \in Messages, ValidMessage(m)
  PROVE  Unique(m.signals) /\ m.signals \in Seq(Signals) /\ SignalsOf(m) = ToSet(m.signals)
<1> DEFINE names == [i \in DOMAIN m.signals |-> m.signals[i].name]
<1>1. Unique(names)
  BY DEF ValidMessage
<1>2. \A i, j \in DOMAIN m.signals : m.signals[i] = m.signals[j] => names[i] = names[j]
  OBVIOUS
<1>3. DOMAIN names = DOMAIN m.signals
  OBVIOUS
<1>4. Unique(m.signals)
  <2> HIDE DEF names
  <2> QED
    BY <1>1, <1>2, <1>3 DEF Unique
<1>5. QED
  BY <1>4 DEF Messages, SignalsOf, ToSet

\* Two switches are what makes more than one.
LEMMA OneSwitch ==
  ASSUME NEW m \in Messages
  PROVE  Cardinality(Switches(m)) > 1 <=> \E v, w \in Switches(m) : v # w
<1>1. PICK n \in Nat : DOMAIN m.signals = 1..n
  BY LenProperties DEF Messages
<1>2. IsFiniteSet(SignalsOf(m))
  <2> DEFINE f == [i \in 1..n |-> m.signals[i]]
  <2>1. f \in Surjection(1..n, SignalsOf(m))
    BY <1>1 DEF Surjection, SignalsOf
  <2>2. ExistsSurjection(1..n, SignalsOf(m))
    <3> HIDE DEF f
    <3> QED
      BY <2>1 DEF ExistsSurjection
  <2>3. QED
    BY <2>2, FS_NatSurjection
<1>3. IsFiniteSet(Switches(m))
  BY <1>2, FS_Subset DEF Switches
<1>4. ASSUME NEW v \in Switches(m), NEW w \in Switches(m), v # w
      PROVE  Cardinality(Switches(m)) > 1
  <2>1. IsFiniteSet({v}) /\ Cardinality({v}) = 1
    BY FS_Singleton
  <2>2. Cardinality({v} \cup {w}) = 2
    <3>1. w \notin {v}
      BY <1>4
    <3>2. Cardinality({v} \cup {w}) = Cardinality({v}) + 1
      BY <2>1, <3>1, FS_AddElement, Zenon
    <3>3. QED
      BY <2>1, <3>2
  <2>3. {v} \cup {w} \in SUBSET Switches(m)
    OBVIOUS
  <2>4. Cardinality({v} \cup {w}) <= Cardinality(Switches(m))
    BY <1>3, <2>3, FS_Subset
  <2>5. Cardinality(Switches(m)) \in Nat
    BY <1>3, FS_CardinalityType
  <2>6. QED
    BY <2>2, <2>4, <2>5
<1>5. ASSUME \A v, w \in Switches(m) : v = w
      PROVE  ~(Cardinality(Switches(m)) > 1)
  <2>1. CASE Switches(m) = {}
    BY <2>1, FS_EmptySet
  <2>2. CASE Switches(m) # {}
    <3>1. PICK v : Switches(m) = {v}
      BY <1>5, <2>2
    <3>2. Cardinality({v}) = 1
      BY FS_Singleton
    <3>3. QED
      BY <3>1, <3>2
  <2>3. QED
    BY <2>1, <2>2
<1>6. QED
  BY <1>4, <1>5

\* The message of an identifier pair is one, and its plan is that message's.
LEMMA PlanOf ==
  ASSUME NEW db \in Seq(Messages), ValidDatabase(db), NEW m \in ToSet(db)
  PROVE  /\ <<m.id, m.extended>> \in DOMAIN Compile(db)
         /\ Compile(db)[<<m.id, m.extended>>] = CompileMessage(m)
         /\ m \in Messages /\ ValidMessage(m)
         /\ \A o \in ToSet(db) : o.id = m.id /\ o.extended = m.extended => o = m
<1> DEFINE pair(o) == <<o.id, o.extended>>
<1>1. PICK i \in DOMAIN db : m = db[i]
  BY DEF ToSet
<1>2. \A j, k \in DOMAIN db : pair(db[j]) = pair(db[k]) => j = k
  <2> DEFINE pairs == [j \in DOMAIN db |-> <<db[j].id, db[j].extended>>]
  <2>1. Unique(pairs)
    BY DEF ValidDatabase
  <2>2. \A j, k \in DOMAIN db : pairs[j] = pairs[k] => j = k
    <3>1. DOMAIN pairs = DOMAIN db
      OBVIOUS
    <3> HIDE DEF pairs
    <3>2. QED
      BY <2>1, <3>1 DEF Unique
  <2>3. QED
    BY <2>2
<1>3. ASSUME NEW o \in ToSet(db), pair(o) = pair(m) PROVE o = m
  <2>1. PICK j \in DOMAIN db : o = db[j]
    BY DEF ToSet
  <2>2. QED
    BY <1>1, <1>2, <1>3, <2>1
<1>4. ToSet(db) = {db[j] : j \in DOMAIN db}
  BY DEF ToSet
<1>5. pair(m) \in {pair(db[j]) : j \in DOMAIN db}
  BY <1>1
<1>6. (CHOOSE o \in {db[j] : j \in DOMAIN db} : pair(o) = pair(m)) = m
  BY <1>3, <1>4
<1>7. m \in Messages /\ ValidMessage(m)
  BY <1>1, LenProperties, ElementOfSeq DEF ValidDatabase
<1>8. pair(m) \in DOMAIN Compile(db) /\ Compile(db)[pair(m)] = CompileMessage(m)
  BY <1>5, <1>6 DEF Compile
<1>9. \A o \in ToSet(db) : o.id = m.id /\ o.extended = m.extended => o = m
  BY <1>3
<1>10. QED
  BY <1>7, <1>8, <1>9

LEMMA NoPlan ==
  ASSUME NEW db \in Seq(Messages), NEW id, NEW extended,
         \A m \in ToSet(db) : ~(m.id = id /\ m.extended = extended)
  PROVE  <<id, extended>> \notin DOMAIN Compile(db)
<1>1. DOMAIN Compile(db) = {<<db[i].id, db[i].extended>> : i \in DOMAIN db}
  BY DEF Compile
<1>2. \A i \in DOMAIN db : db[i] \in ToSet(db)
  BY DEF ToSet
<1>3. QED
  BY <1>1, <1>2

---------------------------------------------------------------------------
(* The outcome of a frame. *)

\* What the decode asks of a plan is what the reference asks of its message.
LEMMA PlannedIsDecodable ==
  ASSUME NEW m \in Messages, ValidMessage(m), NEW f \in Frames
  PROVE  (/\ m.fd = f.fd
          /\ ~CompileMessage(m).unsupported
          /\ ~(Len(f.data) < m.length)) <=> Decodable(m, f)
<1>1. PICK length \in Nat, size \in Nat : length = Len(f.data) /\ size = m.length
  BY LenProperties DEF Frames, ValidMessage
<1>2. AmbiguousMultiplexing(m) <=>
        ~(/\ \A v, w \in Switches(m) : v = w
          /\ \A s \in SignalsOf(m) :
               s.parent = None \/ \E w \in Switches(m) : w.name = s.parent)
  BY OneSwitch DEF AmbiguousMultiplexing
<1>3. \A s \in SignalsOf(m) : Fits(s, 8 * m.length) <=> BitsInside(s, 8 * m.length)
  BY <1>1, KnownSignal, FitsIsInside
<1>4. CompileMessage(m).unsupported <=>
        \/ AmbiguousMultiplexing(m)
        \/ \E s \in SignalsOf(m) : s.float \/ ~Fits(s, 8 * m.length)
  BY DEF CompileMessage
<1>5. ~(Len(f.data) < m.length) <=> m.length =< Len(f.data)
  BY <1>1
<1>6. QED
  BY <1>2, <1>3, <1>4, <1>5 DEF Decodable

\* The value of a signal of a message that can be decoded.
LEMMA ValuesAgree ==
  ASSUME NEW m \in Messages, ValidMessage(m), NEW f \in Frames, Decodable(m, f),
         NEW s \in SignalsOf(m)
  PROVE  RawValue(s, f.data) = ReferenceValue(s, f.data)
<1>1. PICK size \in Nat : size = m.length
  BY DEF ValidMessage
<1>2. s \in Signals /\ Placement(s) /\ s.signed \in BOOLEAN
  BY KnownSignal DEF Signals
<1>3. Fits(s, 8 * size)
  BY <1>1, <1>2, FitsIsInside DEF Decodable
<1>4. f.data \in Seq(0..255) /\ size <= Len(f.data)
  BY <1>1 DEF Frames, Decodable
<1>5. QED
  BY <1>2, <1>3, <1>4, RawIsReference

\* A frame carries the signals that the decode keeps.
LEMMA SelectedIsCarried ==
  ASSUME NEW m \in Messages, ValidMessage(m), NEW f \in Frames, Decodable(m, f),
         NEW s \in SignalsOf(m)
  PROVE  IsSelected(CompileMessage(m), s, f.data) <=> s \in Carried(m, f)
<1>1. CompileMessage(m).switches = Switches(m)
  BY DEF CompileMessage
<1>2. \A w \in Switches(m) : w \in SignalsOf(m)
  BY DEF Switches
<1>3. \A w \in Switches(m) : RawValue(w, f.data) = ReferenceValue(w, f.data)
  BY <1>2, ValuesAgree
<1>4. \A w \in Switches(m) : w.name # None
  BY <1>2, KnownSignal DEF Signals
<1>5. CASE s.parent = None
  BY <1>4, <1>5 DEF IsSelected, Carried
<1>6. CASE s.parent # None
  <2>1. PICK w \in Switches(m) : w.name = s.parent /\ \A v \in Switches(m) : v = w
    BY <1>6 DEF Decodable
  <2>2. IsSelected(CompileMessage(m), s, f.data) <=> RawValue(w, f.data) \in s.ids
    BY <1>1, <1>6, <2>1 DEF IsSelected
  <2>3. s \in Carried(m, f) <=> ReferenceValue(w, f.data) \in s.ids
    BY <2>1 DEF Carried
  <2>4. QED
    BY <1>3, <2>2, <2>3
<1>7. QED
  BY <1>5, <1>6

\* The outcome of a frame whose message is m.
LEMMA OutcomeOfMessage ==
  ASSUME database \in Seq(Messages), ValidDatabase(database), plans = Compile(database),
         NEW m \in ToSet(database), NEW f \in Frames, f.id = m.id, f.extended = m.extended
  PROVE  IsReference(Outcome(f), f)
<1> DEFINE key == <<f.id, f.extended>>
           plan == CompileMessage(m)
           kept == DecodedSignals(plan, f.data)
<1>1. /\ key \in DOMAIN plans /\ plans[key] = plan
      /\ m \in Messages /\ ValidMessage(m)
      /\ \A o \in ToSet(database) : o.id = m.id /\ o.extended = m.extended => o = m
  BY PlanOf
<1>2. MessagesFor(f) = {m}
  BY <1>1 DEF MessagesFor
<1>3. /\ plan.fd = m.fd /\ plan.length = m.length /\ plan.signals = m.signals
  BY DEF CompileMessage
<1>4. Outcome(f) =
        IF plan.fd # f.fd THEN Failure("type_mismatch")
        ELSE IF plan.unsupported THEN Failure("unsupported")
        ELSE IF Len(f.data) < plan.length THEN Failure("too_short")
        ELSE IF \E i \in DOMAIN kept : ~IsFinite(kept[i], RawValue(kept[i], f.data))
             THEN Failure("not_finite")
        ELSE Decoded(kept, f.data)
  <2>1. key \in DOMAIN plans /\ plans[key] = plan
    BY <1>1
  <2> HIDE DEF plan
  <2>2. QED
    BY <2>1 DEF Outcome
<1>5. \A reason : "failure" \in DOMAIN Failure(reason)
  BY DEF Failure
<1>6. CASE ~Decodable(m, f)
  <2>1. plan.fd # f.fd \/ plan.unsupported \/ Len(f.data) < plan.length
    BY <1>1, <1>3, <1>6, PlannedIsDecodable
  <2>2. "failure" \in DOMAIN Outcome(f)
    <3> HIDE DEF plan, kept
    <3> QED
      BY <1>4, <1>5, <2>1
  <2>3. QED
    BY <1>2, <1>6, <2>2 DEF IsReference
<1>7. CASE Decodable(m, f)
  <2>1. ~(plan.fd # f.fd) /\ ~plan.unsupported /\ ~(Len(f.data) < plan.length)
    BY <1>1, <1>3, <1>7, PlannedIsDecodable
  <2>2. \A s \in SignalsOf(m) : RawValue(s, f.data) = ReferenceValue(s, f.data)
    BY <1>1, <1>7, ValuesAgree
  <2>3. /\ Lists(kept, Signals, Carried(m, f))
        /\ Carried(m, f) \subseteq SignalsOf(m)
    <3>1. Unique(m.signals) /\ m.signals \in Seq(Signals) /\ SignalsOf(m) = ToSet(m.signals)
      BY <1>1, SignalsDiffer
    <3>2. {s \in ToSet(m.signals) : IsSelected(plan, s, f.data)} = Carried(m, f)
      <4>1. \A s \in SignalsOf(m) : IsSelected(plan, s, f.data) <=> s \in Carried(m, f)
        BY <1>1, <1>7, SelectedIsCarried
      <4>2. Carried(m, f) \subseteq SignalsOf(m)
        BY DEF Carried
      <4> HIDE DEF plan
      <4>3. QED
        BY <3>1, <4>1, <4>2
    <3>3. Lists(kept, Signals, {s \in ToSet(plan.signals) : IsSelected(plan, s, f.data)})
      <4> HIDE DEF plan
      <4>1. plan.signals \in Seq(Signals) /\ Unique(plan.signals)
        BY <1>3, <3>1
      <4>2. QED
        BY <4>1, DecodedLists
    <3>4. QED
      <4> HIDE DEF plan, kept
      <4> QED
        BY <1>3, <3>2, <3>3 DEF Carried
  <2> HIDE DEF plan, kept
  <2>4. PICK n \in Nat : n = Len(kept) /\ DOMAIN kept = 1..n
    BY <2>3, LenProperties DEF Lists
  <2>5. Carried(m, f) = {kept[i] : i \in 1..n}
    BY <2>3, <2>4 DEF Lists, ToSet
  <2>6. \A i \in 1..n : RawValue(kept[i], f.data) = ReferenceValue(kept[i], f.data)
    BY <2>2, <2>3, <2>5
  <2>7. (\E i \in DOMAIN kept : ~IsFinite(kept[i], RawValue(kept[i], f.data))) <=>
        ~(\A s \in Carried(m, f) : ReferenceValue(s, f.data) \in -s.limit..s.limit)
    BY <2>4, <2>5, <2>6 DEF IsFinite
  <2>8. CASE \E i \in DOMAIN kept : ~IsFinite(kept[i], RawValue(kept[i], f.data))
    <3>1. "failure" \in DOMAIN Outcome(f)
      BY <1>4, <1>5, <2>1, <2>8
    <3>2. QED
      BY <1>2, <2>7, <2>8, <3>1 DEF IsReference
  <2>9. CASE ~\E i \in DOMAIN kept : ~IsFinite(kept[i], RawValue(kept[i], f.data))
    <3>1. Outcome(f) = Decoded(kept, f.data)
      BY <1>4, <2>1, <2>9
    <3> DEFINE list == [i \in 1..n |-> [name |-> kept[i].name,
                                        raw |-> RawValue(kept[i], f.data)]]
    <3>2. DOMAIN Outcome(f) = {"signals"} /\ Outcome(f).signals = list
      BY <2>4, <3>1 DEF Decoded
    <3>3. Len(list) = n
      OBVIOUS
    <3>4. ToSet(list) = {[name |-> s.name, raw |-> ReferenceValue(s, f.data)] :
                           s \in Carried(m, f)}
      <4> DEFINE row(s) == [name |-> s.name, raw |-> ReferenceValue(s, f.data)]
      <4>1. ToSet(list) = {list[i] : i \in 1..n}
        BY DEF ToSet
      <4>2. \A i \in 1..n : list[i] = row(kept[i])
        BY <2>6
      <4>3. ToSet(list) = {row(s) : s \in Carried(m, f)}
        <5> HIDE DEF list, row
        <5> QED
          BY <2>5, <4>1, <4>2
      <4>4. QED
        BY <4>3
    <3>5. Cardinality(Carried(m, f)) = n
      BY <2>3, <2>4 DEF Lists
    <3>6. \A o \in MessagesFor(f) : o = m
      BY <1>2
    <3>7. /\ "signals" \in DOMAIN Outcome(f)
          /\ Len(Outcome(f).signals) = Cardinality(Carried(m, f))
          /\ ToSet(Outcome(f).signals) =
               {[name |-> s.name, raw |-> ReferenceValue(s, f.data)] : s \in Carried(m, f)}
      <4> HIDE DEF list
      <4> QED
        BY <3>2, <3>3, <3>4, <3>5
    <3>8. m \in MessagesFor(f)
      BY <1>2
    <3>9. \A s \in Carried(m, f) : ReferenceValue(s, f.data) \in -s.limit..s.limit
      BY <2>7, <2>9
    <3> HIDE DEF list
    <3>10. QED
      BY <1>7, <3>6, <3>7, <3>8, <3>9 DEF IsReference
  <2>10. QED
    BY <2>8, <2>9
<1>8. QED
  BY <1>6, <1>7

LEMMA OutcomeIsReference ==
  ASSUME database \in Seq(Messages), ValidDatabase(database), plans = Compile(database),
         NEW f \in Frames
  PROVE  IsReference(Outcome(f), f)
<1>1. CASE MessagesFor(f) = {}
  <2>1. <<f.id, f.extended>> \notin DOMAIN plans
    BY <1>1, NoPlan DEF MessagesFor
  <2>2. Outcome(f) = Failure("not_found")
    BY <2>1 DEF Outcome
  <2>3. "failure" \in DOMAIN Outcome(f)
    BY <2>2 DEF Failure
  <2>4. QED
    BY <1>1, <2>3 DEF IsReference
<1>2. CASE MessagesFor(f) # {}
  <2>1. PICK m \in ToSet(database) : f.id = m.id /\ f.extended = m.extended
    BY <1>2 DEF MessagesFor
  <2>2. QED
    BY <2>1, OutcomeOfMessage
<1>3. QED
  BY <1>1, <1>2

---------------------------------------------------------------------------
(* Requests. *)

LEMMA ResponseIsReference ==
  ASSUME database \in Seq(Messages), ValidDatabase(database), plans = Compile(database),
         NEW request \in Requests, "outcomes" \in DOMAIN Response(request)
  PROVE  /\ Len(Response(request).outcomes) = Len(request.frames)
         /\ \A i \in DOMAIN request.frames :
              IsReference(Response(request).outcomes[i], request.frames[i])
<1>1. request.frames \in Seq(Frames)
  BY DecodeAssumption
<1>2. PICK n \in Nat : n = Len(request.frames) /\ DOMAIN request.frames = 1..n
  BY <1>1, LenProperties
<1> DEFINE outcomes == Outcomes(request.frames)
<1>3. Response(request).outcomes = outcomes
  <2>1. Failure("request") = [failure |-> "request"]
    BY DEF Failure
  <2>2. ~("outcomes" \in DOMAIN Failure("request"))
    BY <2>1
  <2>3. Acceptable(request)
    <3> HIDE DEF outcomes
    <3> QED
      BY <2>2 DEF Response
  <2>4. CASE request.kind = "one" /\ "failure" \in DOMAIN outcomes[1]
    <3>1. Response(request) = outcomes[1]
      BY <2>3, <2>4 DEF Response
    <3>2. outcomes[1] = Outcome(request.frames[1])
      <4>1. Len(request.frames) = 1
        BY <2>3, <2>4 DEF Acceptable
      <4>2. QED
        BY <1>2, <4>1 DEF Outcomes
    <3>3. ~("outcomes" \in DOMAIN Outcome(request.frames[1]))
      BY DEF Outcome, Failure, Decoded
    <3>4. QED
      BY <3>1, <3>2, <3>3
  <2>5. CASE ~(request.kind = "one" /\ "failure" \in DOMAIN outcomes[1])
    <3>1. Response(request) = [outcomes |-> outcomes]
      BY <2>3, <2>5 DEF Response
    <3> HIDE DEF outcomes
    <3>2. QED
      BY <3>1
  <2>6. QED
    BY <2>4, <2>5
<1>4. /\ Len(outcomes) = n
      /\ \A i \in 1..n : outcomes[i] = Outcome(request.frames[i])
  BY <1>2 DEF Outcomes
<1>5. ASSUME NEW i \in 1..n PROVE IsReference(outcomes[i], request.frames[i])
  <2>1. request.frames[i] \in Frames
    BY <1>1, <1>2, ElementOfSeq
  <2>2. QED
    BY <1>4, <2>1, OutcomeIsReference
<1>6. QED
  <2> HIDE DEF outcomes
  <2> QED
    BY <1>2, <1>3, <1>4, <1>5


\* The plans are those of the documents imported last.
Documents ==
  /\ database \in Seq(Messages) /\ ValidDatabase(database)
  /\ database # <<>> => plans = Compile(database)

\* The answer is that of the request submitted last.
Exact ==
  /\ submitted \in {Nothing} \cup Imports \cup Requests
  /\ DecodesAreExact

IInv == Documents /\ Exact

LEMMA InitIInv == Init => IInv
<1> SUFFICES ASSUME Init PROVE IInv
  OBVIOUS
<1>1. <<>> \in Seq(Messages) /\ DOMAIN <<>> = {}
  BY EmptySeq
<1>2. ValidDatabase(database)
  BY <1>1 DEF Init, ValidDatabase, Unique
<1>3. ~("outcomes" \in DOMAIN Nothing)
  BY DEF Nothing
<1>4. QED
  BY <1>1, <1>2, <1>3 DEF Init, IInv, Documents, Exact, DecodesAreExact

LEMMA NextDocuments == IInv /\ [Next]_vars => Documents'
<1> SUFFICES ASSUME IInv, [Next]_vars PROVE Documents'
  OBVIOUS
<1>1. CASE Import
  <2>1. PICK import \in Imports :
          IF Importable(import.text) /\ ValidDatabase(import.messages)
          THEN /\ database' = import.messages
               /\ plans' = Compile(import.messages)
          ELSE UNCHANGED <<database, plans>>
    BY <1>1 DEF Import
  <2>2. import.messages \in Seq(Messages)
    BY DecodeAssumption
  <2>3. QED
    BY <2>1, <2>2 DEF IInv, Documents
<1>2. CASE UNCHANGED <<database, plans>>
  BY <1>2 DEF IInv, Documents
<1>3. QED
  BY <1>1, <1>2 DEF Next, Decode, Done, vars

LEMMA NextExact == IInv /\ [Next]_vars => Exact'
<1> SUFFICES ASSUME IInv, [Next]_vars PROVE Exact'
  OBVIOUS
<1>1. CASE Import
  <2>1. submitted' \in Imports
    BY <1>1 DEF Import
  <2>2. answer' \in {[imported |-> TRUE], Failure("import")}
    BY <1>1 DEF Import
  <2>3. ~("outcomes" \in DOMAIN answer')
    BY <2>2 DEF Failure
  <2>4. QED
    BY <2>1, <2>3 DEF Exact, DecodesAreExact
<1>2. CASE Decode
  <2>1. PICK request \in Requests : submitted' = request /\ answer' = Response(request)
    BY <1>2 DEF Decode
  <2>2. database # <<>> /\ UNCHANGED <<database, plans>>
    BY <1>2 DEF Decode
  <2>3. ASSUME "outcomes" \in DOMAIN answer' PROVE DecodesAreExact'
    <3>1. /\ Len(answer'.outcomes) = Len(request.frames)
          /\ \A i \in DOMAIN request.frames :
               IsReference(answer'.outcomes[i], request.frames[i])
      BY <2>1, <2>2, <2>3, ResponseIsReference DEF IInv, Documents
    <3>2. ASSUME NEW i \in DOMAIN submitted'.frames
          PROVE  IsReference(answer.outcomes[i], submitted.frames[i])'
      BY <2>1, <2>2, <3>1 DEF IsReference, MessagesFor
    <3>3. QED
      BY <2>1, <3>1, <3>2 DEF DecodesAreExact
  <2>4. ASSUME ~("outcomes" \in DOMAIN answer') PROVE DecodesAreExact'
    BY <2>4 DEF DecodesAreExact
  <2>5. QED
    BY <2>1, <2>3, <2>4 DEF Exact
<1>3. CASE Done
  <2>1. ~("outcomes" \in DOMAIN answer')
    BY <1>3 DEF Done, Nothing
  <2>2. QED
    BY <1>3, <2>1 DEF Done, Exact, DecodesAreExact
<1>4. CASE UNCHANGED vars
  <2>1. UNCHANGED <<database, submitted, answer>>
    BY <1>4 DEF vars
  <2>2. DecodesAreExact'
    BY <2>1 DEF IInv, Exact, DecodesAreExact, IsReference, MessagesFor
  <2>3. QED
    BY <2>1, <2>2 DEF IInv, Exact
<1>5. QED
  BY <1>1, <1>2, <1>3, <1>4 DEF Next

LEMMA Inductive == Spec => []IInv
<1>1. IInv /\ [Next]_vars => IInv'
  BY NextDocuments, NextExact DEF IInv
<1>2. QED
  BY InitIInv, <1>1, PTL DEF Spec

\* The plans are those of the database whatever is imported, and refused.
THEOREM PlansOfDatabase == Spec => []TypeOK
<1>1. IInv => TypeOK
  BY DEF IInv, Documents, TypeOK
<1>2. QED
  BY <1>1, Inductive, PTL

\* Every frame of a request is answered with what its own bits say, wherever a
\* signal lies, whatever its length and however it is multiplexed, or with a
\* failure (dbc/decode.py).
THEOREM ExactDecodes == Spec => []DecodesAreExact
<1>1. IInv => DecodesAreExact
  BY DEF IInv, Exact
<1>2. QED
  BY <1>1, Inductive, PTL

---------------------------------------------------------------------------
(* Base64 in steps. *)

Characters == {Letter, Pad, Other}

\* A text that is m letters, and padding behind them.
Shape(text, m) == \A i \in DOMAIN text : text[i] = IF i =< m THEN Letter ELSE Pad

LEMMA CountLetters ==
  ASSUME NEW text \in Seq(Characters), NEW m \in 0..Len(text), Shape(text, m)
  PROVE  Letters(text) = m
<1>1. PICK n \in Nat : n = Len(text) /\ DOMAIN text = 1..n
  BY LenProperties
<1>2. {i \in DOMAIN text : text[i] = Letter} = 1..m
  <2>1. Letter # Pad /\ m <= n /\ m \in Nat
    BY <1>1 DEF Letter, Pad
  <2>2. \A i \in 1..n : text[i] = Letter <=> i <= m
    BY <1>1, <2>1 DEF Shape
  <2>3. QED
    BY <1>1, <2>1, <2>2
<1>3. Cardinality(1..m) = m
  <2>1. m \in Nat /\ 1 \in Int
    BY <1>1
  <2>2. Cardinality(1..m) = IF 1 > m THEN 0 ELSE m - 1 + 1
    BY <2>1, FS_Interval
  <2>3. QED
    BY <2>1, <2>2
<1>4. QED
  BY <1>2, <1>3 DEF Letters

LEMMA LettersBound ==
  ASSUME NEW text \in Seq(Characters)
  PROVE  Letters(text) \in 0..Len(text)
<1>1. PICK n \in Nat : n = Len(text) /\ DOMAIN text = 1..n
  BY LenProperties
<1>2. IsFiniteSet(1..n) /\ Cardinality(1..n) = n
  <2>1. n \in Int /\ 1 \in Int
    OBVIOUS
  <2>2. IsFiniteSet(1..n) /\ Cardinality(1..n) = IF 1 > n THEN 0 ELSE n - 1 + 1
    BY <2>1, FS_Interval
  <2>3. QED
    BY <2>2
<1> DEFINE letters == {i \in DOMAIN text : text[i] = Letter}
<1>3. letters \in SUBSET (1..n)
  BY <1>1
<1>4. IsFiniteSet(letters) /\ Cardinality(letters) <= n
  <2> HIDE DEF letters
  <2> QED
    BY <1>2, <1>3, FS_Subset
<1>5. Cardinality(letters) \in Nat
  <2> HIDE DEF letters
  <2> QED
    BY <1>4, FS_CardinalityType
<1>6. QED
  BY <1>1, <1>4, <1>5 DEF Letters

\* What the quanta of m letters and p characters of padding have to be.
Quanta(m, p) ==
  /\ m % 4 # 1
  /\ m % 4 = 0 => p = 0 \/ (m # 0 /\ ExtraPads)
  /\ m % 4 \in {2, 3} => p = 4 - (m % 4)

LEMMA StrictShape ==
  ASSUME NEW text \in Seq(Characters)
  PROVE  Strict(text) <=>
           \E m \in 0..Len(text) : Shape(text, m) /\ Quanta(m, Len(text) - m)
<1>1. ASSUME Strict(text)
      PROVE  \E m \in 0..Len(text) : Shape(text, m) /\ Quanta(m, Len(text) - m)
  <2>1. Letters(text) \in 0..Len(text)
    BY LettersBound
  <2>2. Shape(text, Letters(text)) /\ Quanta(Letters(text), Len(text) - Letters(text))
    BY <1>1 DEF Strict, Shape, Quanta
  <2>3. QED
    BY <2>1, <2>2
<1>2. ASSUME NEW m \in 0..Len(text), Shape(text, m), Quanta(m, Len(text) - m)
      PROVE  Strict(text)
  <2>1. Letters(text) = m
    BY <1>2, CountLetters
  <2>2. QED
    BY <1>2, <2>1 DEF Strict, Shape, Quanta
<1>3. QED
  BY <1>1, <1>2

\* Where the steps of n characters are.
Starts(i) == (i - 1) * ChunkChars

LEMMA StepBounds ==
  ASSUME NEW n \in Nat, n > 0, NEW S, S = (n + ChunkChars - 1) \div ChunkChars
  PROVE  /\ S \in Nat /\ S > 0
         /\ \A i \in 1..S : /\ Starts(i) \in Nat /\ Starts(i) % 4 = 0 /\ Starts(i) < n
                            /\ i < S => Starts(i) + ChunkChars < n
                            /\ i = S => Starts(i) + ChunkChars >= n
<1>1. PICK c \in Nat, q \in Nat : c = ChunkChars /\ c > 0 /\ c = 4 * q
  <2>1. ChunkChars \in Nat /\ ChunkChars > 0 /\ ChunkChars % 4 = 0
    BY DecodeAssumption
  <2>2. ChunkChars \div 4 \in Nat /\ ChunkChars = 4 * (ChunkChars \div 4)
    BY <2>1
  <2>3. QED
    BY <2>1, <2>2
<1>2. PICK x \in Nat : x = n + c - 1
  BY <1>1
<1>3. PICK s \in Nat, r \in Nat : s = x \div c /\ r < c /\ x = c * s + r
  BY <1>1, Division
<1>4. S = s
  BY <1>1, <1>2, <1>3
<1>5. s > 0
  <2>1. s = 0 => c * s = 0
    OBVIOUS
  <2>2. QED
    BY <1>2, <1>3, <2>1
<1>6. ASSUME NEW i \in 1..s
      PROVE  /\ Starts(i) \in Nat /\ Starts(i) % 4 = 0 /\ Starts(i) < n
             /\ i < s => Starts(i) + ChunkChars < n
             /\ i = s => Starts(i) + ChunkChars >= n
  <2>1. PICK k \in Nat : k = i - 1 /\ i = k + 1 /\ k + 1 <= s
    <3>1. i - 1 \in Nat /\ i = (i - 1) + 1 /\ (i - 1) + 1 <= s
      BY <1>5
    <3>2. QED
      BY <3>1
  <2>2. PICK o \in Nat : o = c * k
    OBVIOUS
  <2>3. Starts(i) = o
    <3>1. k * c = c * k
      OBVIOUS
    <3>2. QED
      BY <1>1, <2>1, <2>2, <3>1 DEF Starts
  <2>4. o % 4 = 0
    <3>1. c * k = 4 * (q * k) /\ q * k \in Nat
      BY <1>1
    <3>2. PICK t \in Nat : t = q * k /\ o = 4 * t
      BY <2>2, <3>1
    <3>3. QED
      BY <3>2
  <2>6. o + c <= c * s
    <3>1. c * (k + 1) <= c * s
      BY <2>1, Products
    <3>2. c * (k + 1) = c * k + c
      OBVIOUS
    <3>3. QED
      BY <2>2, <3>1, <3>2
  <2>7. PICK z \in Nat : z = c * s
    OBVIOUS
  <2>8. o < n
    BY <1>2, <1>3, <2>6, <2>7
  <2>9. i < s => o + c < n
    <3>1. SUFFICES ASSUME k + 2 <= s PROVE o + c < n
      BY <2>1
    <3>2. c * (k + 2) <= c * s
      BY <3>1, Products
    <3>3. c * (k + 2) = c * k + 2 * c
      OBVIOUS
    <3>4. QED
      BY <1>1, <1>2, <1>3, <2>2, <2>7, <3>2, <3>3
  <2>10. i = s => o + c >= n
    <3>1. SUFFICES ASSUME k + 1 = s PROVE o + c >= n
      BY <2>1
    <3>2. c * (k + 1) = c * k + c
      OBVIOUS
    <3>3. z = o + c
      BY <2>2, <2>7, <3>1, <3>2
    <3>4. QED
      BY <1>2, <1>3, <2>7, <3>3
  <2>11. QED
    BY <1>1, <2>3, <2>4, <2>8, <2>9, <2>10
<1>7. QED
  BY <1>4, <1>5, <1>6

LEMMA WholeQuanta ==
  ASSUME NEW o \in Nat, o % 4 = 0, NEW l \in Nat
  PROVE  (o + l) % 4 = l % 4
<1>1. PICK q \in Nat : o = 4 * q
  <2>1. o \div 4 \in Nat /\ o = 4 * (o \div 4)
    OBVIOUS
  <2>2. QED
    BY <2>1
<1>2. PICK p \in Nat, r \in Nat : l = 4 * p + r /\ r < 4 /\ r = l % 4
  BY Division
<1>3. o + l = 4 * (q + p) + r
  BY <1>1, <1>2
<1>4. (4 * (q + p) + r) % 4 = r
  BY <1>2, Quotient
<1>5. QED
  BY <1>2, <1>3, <1>4

LEMMA Excerpt ==
  ASSUME NEW text \in Seq(Characters), NEW o \in Nat, NEW len \in Nat, len > 0,
         o + len <= Len(text)
  PROVE  /\ SubSeq(text, o + 1, o + len) \in Seq(Characters)
         /\ Len(SubSeq(text, o + 1, o + len)) = len
         /\ \A j \in 1..len : SubSeq(text, o + 1, o + len)[j] = text[o + j]
<1>1. PICK a \in Int, b \in Int : a = o + 1 /\ b = o + len
  OBVIOUS
<1>2. \A j \in a..b : text[j] \in Characters
  <2>1. \A j \in a..b : j \in 1..Len(text)
    BY <1>1
  <2>2. QED
    BY <2>1, ElementOfSeq
<1>3. /\ SubSeq(text, a, b) \in Seq(Characters)
      /\ Len(SubSeq(text, a, b)) = IF a <= b THEN b - a + 1 ELSE 0
      /\ \A j \in 1 .. b - a + 1 : SubSeq(text, a, b)[j] = text[a + j - 1]
  BY <1>2, SubSeqProperties
<1>4. a <= b /\ b - a + 1 = len
  BY <1>1
<1>5. \A j \in 1..len : a + j - 1 = o + j
  BY <1>1
<1>6. QED
  BY <1>1, <1>3, <1>4, <1>5

\* Step i of a text starts behind o characters and has len.
StepAt(text, i, o, len) ==
  /\ o = Starts(i)
  /\ len = IF i < Steps(text) THEN ChunkChars ELSE Len(text) - o

Excerpted(text, i, o, len) ==
  /\ Step(text, i) \in Seq(Characters)
  /\ Len(Step(text, i)) = len /\ len > 0 /\ o + len <= Len(text)
  /\ DOMAIN Step(text, i) = 1..len
  /\ \A j \in 1..len : Step(text, i)[j] = text[o + j]

\* A step is the characters of the text from where it starts.
LEMMA StepProperties ==
  ASSUME NEW text \in Seq(Characters), Len(text) > 0, NEW i \in 1..Steps(text),
         NEW o \in Nat, NEW len \in Nat, StepAt(text, i, o, len)
  PROVE  Excerpted(text, i, o, len)
<1> PICK n \in Nat : n = Len(text) /\ n > 0
  BY LenProperties
<1>0. o = Starts(i) /\ len = IF i < Steps(text) THEN ChunkChars ELSE n - o
  BY DEF StepAt
<1>1. PICK c \in Nat : c = ChunkChars /\ c > 0
  BY DecodeAssumption
<1>2. Steps(text) = (n + ChunkChars - 1) \div ChunkChars
  BY DEF Steps
<1>3. PICK S \in Nat : S = Steps(text) /\ S > 0
  BY <1>2, StepBounds
<1>4. /\ o < n /\ i * ChunkChars = o + c
      /\ i < S => o + c < n
      /\ i = S => o + c >= n
  <2>1. i \in 1..S /\ n > 0 /\ S = (n + ChunkChars - 1) \div ChunkChars
    BY <1>2, <1>3
  <2>2. /\ Starts(i) < n
        /\ i < S => Starts(i) + ChunkChars < n
        /\ i = S => Starts(i) + ChunkChars >= n
    BY <2>1, StepBounds
  <2>3. i * ChunkChars = Starts(i) + ChunkChars
    <3>1. PICK k \in Nat : i = k
      BY <2>1
    <3>2. k * c = (k - 1) * c + c
      OBVIOUS
    <3>3. QED
      BY <1>1, <3>1, <3>2 DEF Starts
  <2>4. QED
    BY <1>0, <1>1, <2>2, <2>3
<1>5. i < S \/ i = S
  BY <1>3
<1>6. len > 0 /\ o + len <= n
  BY <1>0, <1>1, <1>3, <1>4, <1>5
<1>7. Least(i * ChunkChars, Len(text)) = o + len
  BY <1>0, <1>1, <1>3, <1>4, <1>5 DEF Least
<1>8. Step(text, i) = SubSeq(text, o + 1, o + len)
  BY <1>0, <1>7 DEF Step, Starts
<1>9. /\ SubSeq(text, o + 1, o + len) \in Seq(Characters)
      /\ Len(SubSeq(text, o + 1, o + len)) = len
      /\ \A j \in 1..len : SubSeq(text, o + 1, o + len)[j] = text[o + j]
  BY <1>6, Excerpt
<1>10. DOMAIN Step(text, i) = 1..len
  BY <1>8, <1>9, LenProperties
<1>11. QED
  BY <1>6, <1>8, <1>9, <1>10 DEF Excerpted

\* Every character lies in a step.
LEMMA StepOf ==
  ASSUME NEW n \in Nat, n > 0
  PROVE  \A k \in 1..n : \E i \in 1..((n + ChunkChars - 1) \div ChunkChars), j \in Nat :
            j > 0 /\ k = Starts(i) + j /\ j <= ChunkChars
<1> DEFINE S == (n + ChunkChars - 1) \div ChunkChars
<1> SUFFICES ASSUME NEW k \in 1..n
             PROVE  \E i \in 1..S, j \in Nat :
                       j > 0 /\ k = Starts(i) + j /\ j <= ChunkChars
  OBVIOUS
<1>1. PICK c \in Nat : c = ChunkChars /\ c > 0
  BY DecodeAssumption
<1>2. /\ S \in Nat /\ S > 0
      /\ \A i \in 1..S :
           /\ Starts(i) \in Nat
           /\ i = S => Starts(i) + ChunkChars >= n
  BY StepBounds
<1> HIDE DEF S
<1>3. PICK h \in Nat : h = k - 1 /\ k = h + 1
  <2>1. k - 1 \in Nat /\ k = (k - 1) + 1
    OBVIOUS
  <2>2. QED
    BY <2>1
<1>4. PICK q \in Nat, r \in Nat : q = h \div c /\ r < c /\ h = c * q + r
  BY <1>1, Division
<1>5. Starts(q + 1) = c * q
  <2>1. (q + 1) - 1 = q /\ q * c = c * q
    OBVIOUS
  <2>2. QED
    BY <1>1, <2>1 DEF Starts
<1>6. q + 1 <= S
  <2>1. SUFFICES ASSUME S <= q PROVE FALSE
    BY <1>2
  <2>2. /\ S \in 1..S /\ Starts(S) \in Nat
        /\ Starts(S) + c >= n
    <3>1. S \in 1..S
      BY <1>2
    <3>2. Starts(S) \in Nat /\ (S = S => Starts(S) + ChunkChars >= n)
      BY <1>2, <3>1
    <3>3. QED
      BY <1>1, <3>1, <3>2
  <2>3. Starts(S) + c = c * S
    <3>1. (S - 1) * c + c = c * S
      BY <1>2
    <3>2. QED
      BY <1>1, <3>1 DEF Starts
  <2>4. c * S <= c * q
    BY <1>2, <2>1, Products
  <2>5. QED
    <3>1. PICK y \in Nat, z \in Nat : y = c * S /\ z = c * q
      BY <1>2
    <3>2. QED
      BY <1>3, <1>4, <2>2, <2>3, <2>4, <3>1
<1>7. q + 1 \in 1..S /\ r + 1 \in Nat /\ r + 1 > 0 /\ r + 1 <= c
  BY <1>2, <1>4, <1>6
<1>8. k = Starts(q + 1) + (r + 1)
  <2>1. PICK z \in Nat : z = c * q
    OBVIOUS
  <2>2. QED
    BY <1>3, <1>4, <1>5, <2>1
<1>9. QED
  BY <1>1, <1>7, <1>8

LEMMA EmptyText ==
  ASSUME NEW text \in Seq(Characters), Len(text) = 0
  PROVE  Strict(text) /\ Stepwise(text)
<1>1. DOMAIN text = {} /\ Letters(text) = 0
  <2>1. DOMAIN text = {}
    BY LenProperties
  <2>2. QED
    <3>1. Letters(text) \in 0..0
      BY LettersBound
    <3>2. QED
      BY <2>1, <3>1
<1>2. Strict(text)
  BY <1>1 DEF Strict
<1>3. Steps(text) = 0
  <2>1. PICK c \in Nat : c = ChunkChars /\ c > 0
    BY DecodeAssumption
  <2>2. PICK x \in Nat : x = c - 1 /\ x = c * 0 + x /\ x < c
    <3>1. c - 1 \in Nat /\ c - 1 = c * 0 + (c - 1) /\ c - 1 < c
      BY <2>1
    <3>2. QED
      BY <3>1
  <2>3. x \div c = 0
    BY <2>1, <2>2, Quotient
  <2>4. Len(text) + c - 1 = x
    BY <2>1, <2>2
  <2>5. QED
    BY <2>1, <2>3, <2>4 DEF Steps
<1>4. QED
  BY <1>2, <1>3 DEF Stepwise

\* What the steps take, the whole decode takes: the steps before the last are
\* letters only, and whole quanta.
LEMMA StepwiseIsStrict ==
  ASSUME NEW text \in Seq(Characters), Stepwise(text)
  PROVE  Strict(text)
<1>1. PICK n \in Nat : n = Len(text)
  BY LenProperties
<1>2. CASE n = 0
  BY <1>1, <1>2, EmptyText
<1>3. CASE n > 0
  <2>1. Steps(text) = (n + ChunkChars - 1) \div ChunkChars
    BY <1>1 DEF Steps
  <2>2. PICK S \in Nat : S = Steps(text) /\ S > 0 /\ S \in 1..S
    BY <1>3, <2>1, StepBounds
  <2>3. PICK c \in Nat : c = ChunkChars /\ c > 0
    BY DecodeAssumption
  <2>4. PICK o \in Nat : o = Starts(S) /\ o % 4 = 0 /\ o < n
    BY <1>3, <2>1, <2>2, StepBounds
  <2>5. PICK len \in Nat : len = n - o /\ len > 0 /\ n = o + len
    <3>1. n - o \in Nat /\ n - o > 0 /\ n = o + (n - o)
      BY <2>4
    <3>2. QED
      BY <3>1
  <2>6. /\ Step(text, S) \in Seq(Characters) /\ Len(Step(text, S)) = len
        /\ DOMAIN Step(text, S) = 1..len
        /\ \A j \in 1..len : Step(text, S)[j] = text[o + j]
    <3>1. StepAt(text, S, o, len)
      BY <1>1, <2>2, <2>4, <2>5 DEF StepAt
    <3>2. Excerpted(text, S, o, len)
      BY <1>1, <1>3, <2>2, <3>1, StepProperties
    <3>3. QED
      BY <3>2 DEF Excerpted
  <2>7. Strict(Step(text, S))
    BY <2>2 DEF Stepwise
  <2>8. PICK m \in 0..len : Shape(Step(text, S), m) /\ Quanta(m, len - m)
    BY <2>6, <2>7, StrictShape
  <2>9. ASSUME NEW k \in 1..n
        PROVE  text[k] = IF k =< o + m THEN Letter ELSE Pad
    <3>0. PICK i \in 1..S, j \in Nat : j > 0 /\ k = Starts(i) + j /\ j <= ChunkChars
      <4>1. \E i \in 1..((n + ChunkChars - 1) \div ChunkChars), j \in Nat :
               j > 0 /\ k = Starts(i) + j /\ j <= ChunkChars
        BY <1>3, StepOf
      <4>2. S = (n + ChunkChars - 1) \div ChunkChars
        BY <2>1, <2>2
      <4>3. QED
        BY <4>1, <4>2
    <3>1. j > 0 /\ k = Starts(i) + j /\ j <= c
      BY <2>3, <3>0
    <3>2. CASE i = S
      <4>1. j \in 1..len /\ k = o + j
        <5>1. k = o + j
          BY <2>4, <3>1, <3>2
        <5>2. k \in Nat /\ k <= o + len
          BY <2>5
        <5>3. QED
          BY <3>1, <5>1, <5>2
      <4>2. text[k] = IF j =< m THEN Letter ELSE Pad
        BY <2>6, <2>8, <4>1 DEF Shape
      <4>3. j =< m <=> k =< o + m
        BY <4>1
      <4>4. QED
        BY <4>2, <4>3
    <3>3. CASE i < S
      <4>1. PICK b \in Nat : b = Starts(i) /\ k = b + j
        BY <1>3, <2>1, <2>2, <3>1, StepBounds
      <4>2. /\ Step(text, i) \in Seq(Characters) /\ Len(Step(text, i)) = c
            /\ DOMAIN Step(text, i) = 1..c
            /\ \A x \in 1..c : Step(text, i)[x] = text[b + x]
        <5>1. StepAt(text, i, b, c)
          BY <2>2, <2>3, <3>3, <4>1 DEF StepAt
        <5>2. Excerpted(text, i, b, c)
          BY <1>1, <1>3, <2>2, <5>1, StepProperties
        <5>3. QED
          BY <5>2 DEF Excerpted
      <4>3. ~(Pad \in ToSet(Step(text, i))) /\ Strict(Step(text, i))
        <5>1. i # S
          BY <3>3
        <5>2. QED
          BY <2>2, <5>1 DEF Stepwise
      <4>4. j \in 1..c
        BY <3>1
      <4>5. Step(text, i)[j] \in {Letter, Pad}
        <5>1. PICK l \in 0..c : Shape(Step(text, i), l)
          BY <4>2, <4>3, StrictShape
        <5>2. QED
          BY <4>2, <4>4, <5>1 DEF Shape
      <4>6. Step(text, i)[j] \in ToSet(Step(text, i))
        BY <4>2, <4>4 DEF ToSet
      <4>7. text[k] = Letter
        BY <4>1, <4>2, <4>3, <4>4, <4>5, <4>6
      <4>8. k <= o
        <5>1. i \in 1..S /\ S \in 1..S /\ i <= S - 1
          BY <2>2, <3>3
        <5>2. PICK p \in Nat, t \in Nat : i = p + 1 /\ S = t + 1 /\ p + 1 <= t
          <6>1. /\ i - 1 \in Nat /\ S - 1 \in Nat /\ i = (i - 1) + 1
                /\ S = (S - 1) + 1 /\ (i - 1) + 1 <= S - 1
            BY <5>1
          <6>2. QED
            BY <6>1
        <5>3. Starts(i) = c * p /\ Starts(S) = c * t
          <6>1. i - 1 = p /\ S - 1 = t /\ p * c = c * p /\ t * c = c * t
            BY <5>2
          <6>2. QED
            BY <2>3, <6>1 DEF Starts
        <5>4. c * (p + 1) <= c * t /\ c * (p + 1) = c * p + c
          BY <5>2, Products
        <5>5. PICK z \in Nat : z = c * p
          OBVIOUS
        <5>6. QED
          BY <2>4, <3>1, <5>3, <5>4, <5>5
      <4>9. k =< o + m
        BY <4>8
      <4>10. QED
        BY <4>7, <4>9
    <3>4. QED
      BY <2>2, <3>2, <3>3
  <2>10. PICK w \in Nat : w = o + m /\ w <= n /\ n - w = len - m
    <3>1. o + m \in Nat /\ o + m <= n /\ n - (o + m) = len - m
      BY <2>5
    <3>2. QED
      BY <3>1
  <2>11. Shape(text, w)
    <3>1. DOMAIN text = 1..n
      BY <1>1, LenProperties
    <3>2. QED
      BY <2>9, <2>10, <3>1 DEF Shape
  <2>12. Quanta(w, n - w)
    <3>1. w % 4 = m % 4
      <4>1. m \in Nat
        OBVIOUS
      <4>2. (o + m) % 4 = m % 4
        BY <2>4, <4>1, WholeQuanta
      <4>3. o + m = w
        BY <2>10
      <4>4. QED
        BY <4>2, <4>3
    <3>2. m # 0 => w # 0
      BY <2>10
    <3>3. QED
      BY <2>8, <2>10, <3>1, <3>2 DEF Quanta
  <2>13. QED
    BY <1>1, <2>10, <2>11, <2>12, StrictShape
<1>4. QED
  BY <1>2, <1>3

\* A text of whole quanta has its padding in the last of them.
LEMMA CanonicalIsStepwise ==
  ASSUME NEW text \in Seq(Characters), Canonical(text)
  PROVE  Stepwise(text)
<1>1. PICK n \in Nat : n = Len(text) /\ DOMAIN text = 1..n /\ n % 4 = 0
  BY LenProperties DEF Canonical
<1>2. CASE n = 0
  BY <1>1, <1>2, EmptyText
<1>3. CASE n > 0
  <2>1. Steps(text) = (n + ChunkChars - 1) \div ChunkChars
    BY <1>1 DEF Steps
  <2>2. PICK c \in Nat : c = ChunkChars /\ c > 0 /\ c % 4 = 0
    BY DecodeAssumption
  <2>3. PICK m \in 0..n : Shape(text, m) /\ Quanta(m, n - m)
    BY <1>1, StrictShape DEF Canonical
  <2>4. n - m <= 2
    <3>1. {i \in DOMAIN text : text[i] = Pad} = m + 1 .. n
      <4>1. \A i \in 1..n : text[i] = Pad <=> i > m
        BY <1>1, <2>3 DEF Shape, Letter, Pad
      <4>2. QED
        BY <1>1, <4>1
    <3>2. PICK a \in Int : a = m + 1
      OBVIOUS
    <3>3. Cardinality(a..n) = IF a > n THEN 0 ELSE n - a + 1
      BY FS_Interval
    <3>4. Cardinality(a..n) <= 2
      BY <3>1, <3>2 DEF Canonical
    <3>5. QED
      BY <3>2, <3>3, <3>4
  <2>5. PICK S \in Nat : S = Steps(text) /\ S > 0
    BY <1>3, <2>1, StepBounds
  <2>6. ASSUME NEW i \in 1..S
        PROVE  Strict(Step(text, i)) /\ (Pad \in ToSet(Step(text, i)) => i = S)
    <3>1. PICK o \in Nat : /\ o = Starts(i) /\ o % 4 = 0 /\ o < n
                           /\ i < S => o + c < n
      BY <1>3, <2>1, <2>2, <2>5, StepBounds
    <3>2. CASE i < S
      <4>1. o + c <= m
        <5>1. (o + c) % 4 = 0
          BY <2>2, <3>1
        <5>2. PICK e \in Nat : e = o + c /\ e % 4 = 0 /\ e < n
          BY <3>1, <3>2, <5>1
        <5>3. e + 4 <= n
          BY <1>1, <5>2
        <5>4. QED
          BY <2>4, <5>2, <5>3
      <4>2. /\ Step(text, i) \in Seq(Characters) /\ Len(Step(text, i)) = c
            /\ DOMAIN Step(text, i) = 1..c
            /\ \A j \in 1..c : Step(text, i)[j] = text[o + j]
        <5>1. StepAt(text, i, o, c)
          BY <2>2, <2>5, <3>1, <3>2 DEF StepAt
        <5>2. Excerpted(text, i, o, c)
          BY <1>1, <1>3, <2>5, <5>1, StepProperties
        <5>3. QED
          BY <5>2 DEF Excerpted
      <4>3. ASSUME NEW j \in 1..c PROVE Step(text, i)[j] = Letter
        <5>1. o + j \in 1..n /\ o + j =< m
          BY <4>1
        <5>2. text[o + j] = Letter
          BY <1>1, <2>3, <5>1 DEF Shape
        <5>3. QED
          BY <4>2, <5>2
      <4>4. c \in 0..c /\ Shape(Step(text, i), c)
        BY <4>2, <4>3 DEF Shape
      <4>5. Quanta(c, c - c)
        BY <2>2 DEF Quanta
      <4>6. Strict(Step(text, i))
        BY <4>2, <4>4, <4>5, StrictShape
      <4>7. ~(Pad \in ToSet(Step(text, i)))
        BY <4>2, <4>3 DEF ToSet, Letter, Pad
      <4>8. QED
        BY <4>6, <4>7
    <3>3. CASE i = S
      <4>1. PICK len \in Nat : len = n - o /\ n = o + len
        <5>1. n - o \in Nat /\ n = o + (n - o)
          BY <3>1
        <5>2. QED
          BY <5>1
      <4>2. PICK l \in Nat : m = o + l /\ l > 0 /\ l <= len
        <5>1. o + 4 <= n
          BY <1>1, <3>1
        <5>2. m - o \in Nat /\ m = o + (m - o) /\ m - o > 0 /\ m - o <= len
          BY <2>4, <4>1, <5>1
        <5>3. QED
          BY <5>2
      <4>3. /\ Step(text, i) \in Seq(Characters) /\ Len(Step(text, i)) = len
            /\ DOMAIN Step(text, i) = 1..len
            /\ \A j \in 1..len : Step(text, i)[j] = text[o + j]
        <5>1. StepAt(text, i, o, len)
          BY <1>1, <2>5, <3>1, <3>3, <4>1 DEF StepAt
        <5>2. Excerpted(text, i, o, len)
          BY <1>1, <1>3, <2>5, <5>1, StepProperties
        <5>3. QED
          BY <5>2 DEF Excerpted
      <4>4. ASSUME NEW j \in 1..len
            PROVE  Step(text, i)[j] = IF j =< l THEN Letter ELSE Pad
        <5>1. o + j \in 1..n /\ (o + j =< m <=> j =< l)
          BY <4>1, <4>2
        <5>2. text[o + j] = IF o + j =< m THEN Letter ELSE Pad
          BY <1>1, <2>3, <5>1 DEF Shape
        <5>3. QED
          BY <4>3, <5>1, <5>2
      <4>5. Shape(Step(text, i), l)
        BY <4>3, <4>4 DEF Shape
      <4>6. Quanta(l, len - l)
        <5>1. l % 4 = m % 4 /\ len - l = n - m
          <6>1. (o + l) % 4 = l % 4
            BY <3>1, WholeQuanta
          <6>2. o + l = m
            BY <4>2
          <6>3. len - l = n - m
            BY <4>1, <4>2
          <6>4. QED
            BY <6>1, <6>2, <6>3
        <5>2. QED
          BY <2>3, <4>2, <5>1 DEF Quanta
      <4>7. l \in 0..len
        BY <4>2
      <4>8. QED
        BY <3>3, <4>3, <4>5, <4>6, <4>7, StrictShape
    <3>4. QED
      BY <2>5, <3>2, <3>3
  <2>7. QED
    BY <2>5, <2>6 DEF Stepwise
<1>4. QED
  BY <1>1, <1>2, <1>3

\* Decoding a document step by step takes no text that the decode of the whole
\* refuses, and every canonical one (_decode_strict_base64), whatever the size
\* of a step that whole quanta fill.
THEOREM StepwiseDecode == Spec => []StepsDecodeTheWhole
<1>1. ASSUME IInv PROVE StepsDecodeTheWhole
  <2>1. SUFFICES ASSUME "text" \in DOMAIN submitted
                 PROVE  /\ Stepwise(submitted.text) => Strict(submitted.text)
                        /\ Canonical(submitted.text) => Stepwise(submitted.text)
    BY DEF StepsDecodeTheWhole
  <2>2. submitted.text \in Seq(Characters)
    <3>1. submitted \in {Nothing} \cup Imports \cup Requests
      BY <1>1 DEF IInv, Exact
    <3>2. submitted # Nothing /\ submitted \notin Requests
      BY <2>1, DecodeAssumption DEF Nothing
    <3>3. QED
      BY <3>1, <3>2, DecodeAssumption DEF Characters
  <2>3. QED
    BY <2>2, StepwiseIsStrict, CanonicalIsStepwise
<1>2. QED
  BY <1>1, Inductive, PTL
=============================================================================
