------------------------------ MODULE Modular -------------------------------
(* What the two halves of tensor_converter need of arithmetic: division    *)
(* with remainder, for integers of a machine's width, which the provers do *)
(* not find for a modulus that is not a number, and products over a shape. *)
EXTENDS Shapes, TLAPS

(* Division with remainder.                                                *)
LEMMA DivMod ==
    ASSUME NEW m \in Nat, m > 0, NEW x \in Int
    PROVE  /\ x \div m \in Int /\ x % m \in 0..(m - 1)
           /\ x = m * (x \div m) + (x % m)
BY SMT

(* A multiple of m less than the one after m * b is at most m * b.         *)
LEMMA MultipleLess ==
    ASSUME NEW m \in Nat, m > 0, NEW a \in Int, NEW b \in Int, m * a < m * b + m
    PROVE  a < b + 1
<1>1. CASE a >= b + 1
  <2>1. PICK k \in Nat : a = b + 1 + k
    <3>1. a - b - 1 \in Nat
      BY <1>1
    <3> QED BY <3>1
  <2>2. m * a = m * b + m + m * k
    BY <2>1
  <2>3. m * k \in Nat
    BY SMT
  <2> QED BY <2>2, <2>3
<1> QED BY <1>1

(* The remainder is unique.                                                *)
LEMMA ModUnique ==
    ASSUME NEW m \in Nat, m > 0, NEW q \in Int, NEW r \in 0..(m - 1)
    PROVE  (m * q + r) % m = r
<1> DEFINE d == (m * q + r) \div m
           s == (m * q + r) % m
<1>1. d \in Int /\ s \in 0..(m - 1) /\ m * d + s = m * q + r
  <2>1. m * q + r \in Int
    OBVIOUS
  <2> QED BY <2>1, DivMod
<1> HIDE DEF d, s
<1>2. m * d < m * q + m /\ m * q < m * d + m
  BY <1>1
<1>3. d < q + 1 /\ q < d + 1
  BY <1>1, <1>2, MultipleLess
<1>4. d = q
  BY <1>1, <1>3
<1> QED BY <1>1, <1>4 DEF s

-----------------------------------------------------------------------------
(* The elements of a shape.  Product is a recursive function, and what it  *)
(* returns would take induction over the shape; but std::accumulate goes   *)
(* through the shape one dimension at a time, and so the steps of the two  *)
(* models build the function that Product chooses, place by place.         *)

Factors(p, s, d) == p = [k \in 0..d |-> IF k = 0 THEN 1 ELSE p[k - 1] * s[k]]

(* After d dimensions of s the product is n: there is a function that goes *)
(* through them, and every one that goes through all of s agrees.          *)
Multiplied(s, d, n) ==
    /\ \E p : Factors(p, s, d) /\ p[d] = n
    /\ \A p : Factors(p, s, Len(s)) => p[d] = n

(* Before the first dimension it is 1.                                     *)
LEMMA MultipliedNothing ==
    ASSUME NEW S, NEW s \in Seq(S)
    PROVE  Multiplied(s, 0, 1)
<1>1. Factors([k \in 0..0 |-> 1], s, 0)
  BY DEF Factors
<1>2. ASSUME NEW p, Factors(p, s, Len(s)) PROVE p[0] = 1
  <2>1. 0 \in 0..Len(s)
    OBVIOUS
  <2> QED BY <1>2, <2>1 DEF Factors
<1>3. [k \in 0..0 |-> 1][0] = 1
  OBVIOUS
<1> QED BY <1>1, <1>2, <1>3 DEF Multiplied

(* One more dimension is one more factor.                                  *)
LEMMA MultipliedNext ==
    ASSUME NEW S, NEW s \in Seq(S), NEW d \in Nat, d < Len(s), NEW n, Multiplied(s, d, n)
    PROVE  Multiplied(s, d + 1, n * s[d + 1])
<1>1. PICK p : Factors(p, s, d) /\ p[d] = n
  BY DEF Multiplied
<1> DEFINE q == [k \in 0..(d + 1) |-> IF k <= d THEN p[k] ELSE n * s[d + 1]]
<1>2. q[d + 1] = n * s[d + 1] /\ q[d] = n
  BY <1>1
<1>3. ASSUME NEW k \in 0..(d + 1)
      PROVE  q[k] = IF k = 0 THEN 1 ELSE q[k - 1] * s[k]
  <2>1. CASE k = d + 1
    <3>1. k # 0 /\ k - 1 = d
      BY <2>1
    <3> QED BY <1>2, <2>1, <3>1
  <2>2. CASE k <= d
    <3>1. k \in 0..d /\ q[k] = p[k]
      BY <2>2
    <3>2. p[k] = IF k = 0 THEN 1 ELSE p[k - 1] * s[k]
      BY <1>1, <3>1 DEF Factors
    <3>3. k # 0 => q[k - 1] = p[k - 1]
      BY <2>2
    <3> QED BY <3>1, <3>2, <3>3
  <2> QED BY <2>1, <2>2
<1>4. Factors(q, s, d + 1)
  <2>1. q = [k \in 0..(d + 1) |-> q[k]]
    OBVIOUS
  <2> HIDE DEF q
  <2> QED BY <1>3, <2>1, Zenon DEF Factors
<1>5. ASSUME NEW f, Factors(f, s, Len(s)) PROVE f[d + 1] = n * s[d + 1]
  <2>1. d + 1 \in 0..Len(s) /\ d + 1 # 0 /\ (d + 1) - 1 = d
    OBVIOUS
  <2>2. f[d + 1] = f[d] * s[d + 1]
    BY <1>5, <2>1 DEF Factors
  <2>3. f[d] = n
    BY <1>5 DEF Multiplied
  <2> QED BY <2>2, <2>3
<1> HIDE DEF q
<1> QED BY <1>2, <1>4, <1>5 DEF Multiplied

(* After the last dimension it is the product of the shape.                *)
LEMMA MultipliedAll ==
    ASSUME NEW s, NEW n, Multiplied(s, Len(s), n)
    PROVE  Product(s) = n
<1> DEFINE f == CHOOSE p : Factors(p, s, Len(s))
<1>1. Factors(f, s, Len(s))
  BY Zenon DEF Multiplied
<1>2. Product(s) = f[Len(s)]
  BY DEF Product, Factors
<1> QED BY <1>1, <1>2 DEF Multiplied
=============================================================================
