----------------------------- MODULE Arithmetic -----------------------------
(***************************************************************************)
(* Products, quotients and remainders of natural numbers, for the proofs   *)
(* about addresses cut into directory, table and byte indices or into the  *)
(* fields of a descriptor.                                                 *)
(***************************************************************************)
EXTENDS Integers, WellFoundedInduction, TLAPS

(* A set of natural numbers that is not empty has a least element: the     *)
(* form in which the proofs use induction.                                 *)
LEMMA LeastNat ==
  ASSUME NEW S \in SUBSET Nat, S # {}
  PROVE  \E x \in S : \A y \in S : x <= y
<1> DEFINE R == OpToRel(<, Nat)
<1>1. IsWellFoundedOn(R, Nat)
  BY NatLessThanWellFounded
<1>2. PICK x \in S : \A y \in S : ~(<<y, x>> \in R)
  <2> HIDE DEF R
  <2> QED BY <1>1, WFMin, S \subseteq Nat
<1>3. \A y \in S : ~(y < x)
  BY <1>2 DEF OpToRel
<1> QED BY <1>3

(* A number is its quotient and its remainder, and only those.             *)
LEMMA DivMod ==
  ASSUME NEW e \in Nat, e >= 1, NEW v \in Nat
  PROVE  /\ v \div e \in Nat /\ v % e \in 0..(e - 1)
         /\ v = (v \div e) * e + (v % e)
OBVIOUS

LEMMA DivModOf ==
  ASSUME NEW e \in Nat, e >= 1, NEW d \in Nat, NEW i \in 0..(e - 1)
  PROVE  /\ d * e + i \in Nat
         /\ (d * e + i) \div e = d /\ (d * e + i) % e = i
OBVIOUS

LEMMA MulMono ==
  ASSUME NEW a \in Nat, NEW b \in Nat, NEW e \in Nat, e >= 1
  PROVE  /\ a * e \in Nat
         /\ a < b => a * e + e <= b * e
         /\ a <= b <=> a * e <= b * e
<1>1. a * e \in Nat /\ b * e \in Nat
  OBVIOUS
<1>2. ASSUME NEW x \in Nat, NEW y \in Nat, x < y PROVE x * e + e <= y * e
  <2>1. (x + 1) * e = x * e + e
    OBVIOUS
  <2>2. x + 1 <= y => (x + 1) * e <= y * e
    OBVIOUS
  <2> QED BY <1>2, <2>1, <2>2
<1>3. a < b => a * e + e <= b * e
  BY <1>2
<1>4. b < a => b * e + e <= a * e
  BY <1>2
<1> QED BY ONLY <1>1, <1>3, <1>4, a \in Nat, b \in Nat, e \in Nat, e >= 1

LEMMA DivLow ==
  ASSUME NEW a \in Nat, NEW b \in Nat, NEW e \in Nat, e >= 1, a >= b * e
  PROVE  a \div e >= b
<1> DEFINE q == a \div e
<1>1. q \in Nat /\ a % e \in 0..(e - 1) /\ a = q * e + (a % e)
  BY DivMod
<1> HIDE DEF q
<1>2. q * e \in Nat /\ b * e \in Nat /\ (q < b => q * e + e <= b * e)
  BY <1>1, MulMono
<1>3. ~(q < b)
  BY <1>1, <1>2
<1> QED BY <1>1, <1>3 DEF q

(* The digits of x above a and n are those of its quotient by a above n.   *)
LEMMA TwoDigits ==
  ASSUME NEW a \in Nat, a >= 1, NEW n \in Nat, n >= 1, NEW x \in Nat
  PROVE  /\ x \div (a * n) = (x \div a) \div n
         /\ x % (a * n) = (x % a) + a * ((x \div a) % n)
         /\ x \div (a * n) \in Nat /\ x \div a \in Nat
<1> DEFINE q == x \div a
           r == x % a
           h == q \div n
           l == q % n
           m == a * n
<1>1. q \in Nat /\ r \in 0..(a - 1) /\ x = q * a + r
  BY DivMod
<1> HIDE DEF q, r
<1>2. h \in Nat /\ l \in 0..(n - 1) /\ q = h * n + l
  BY <1>1, DivMod
<1> HIDE DEF h, l
<1>3. x = h * m + (l * a + r)
  BY <1>1, <1>2
<1>4. /\ l * a \in Nat /\ l * a + a <= n * a
  BY <1>2, MulMono
<1>5. m = n * a /\ m \in Nat /\ m >= 1
  <2>1. m = n * a /\ m \in Nat
    OBVIOUS
  <2> HIDE DEF m
  <2>2. n * a >= 1
    BY <1>1, <1>2, <1>4
  <2> QED BY <2>1, <2>2
<1>6. l * a + r \in 0..(m - 1)
  <2> HIDE DEF m
  <2> QED BY <1>1, <1>4, <1>5
<1> HIDE DEF m
<1> DEFINE i == l * a + r
<1>7. x = h * m + i /\ i \in 0..(m - 1)
  BY <1>3, <1>6
<1> HIDE DEF i
<1>8. x \div m = h /\ x % m = i
  BY <1>2, <1>5, <1>7, DivModOf
<1>9. i = r + a * l
  BY <1>1, <1>2 DEF i
<1> QED BY <1>1, <1>2, <1>8, <1>9 DEF q, r, h, l, m
=============================================================================
