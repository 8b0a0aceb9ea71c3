-------------------------- MODULE ArithmeticLemmas --------------------------
(***************************************************************************)
(* Facts about numbers that the proofs share.  The library's induction     *)
(* principles take a predicate, which the installed provers cannot         *)
(* instantiate; here they are stated for sets, from the fact that every    *)
(* set of naturals has a least element.                                    *)
(***************************************************************************)
EXTENDS Integers, WellFoundedInduction, TLAPS

\* A set of naturals that is not empty has a least element: what the code's
\* searches for the first wrong entry of a table rest on.
LEMMA LeastNatural ==
    ASSUME NEW S \in SUBSET Nat, S # {}
    PROVE  \E m \in S : \A k \in S : m <= k
  <1> DEFINE R == {ss \in Nat \X Nat : ss[1] < ss[2]}
  <1>1. IsWellFoundedOn(R, Nat)
    BY NatLessThanWellFounded, Zenon DEF OpToRel
  <1> HIDE DEF R
  <1>2. PICK m \in S : \A k \in S : ~(<<k, m>> \in R)
    BY <1>1, WFMin, Zenon
  <1>3. ASSUME NEW k \in S
        PROVE  m <= k
    <2>1. <<k, m>> \in Nat \X Nat /\ ~(<<k, m>> \in R)
      BY <1>2, Zenon
    <2>2. ~(k < m)
      BY <2>1, Zenon DEF R
    <2> QED
      BY <2>2
  <1> QED
    BY <1>3, Zenon

\* Induction: a set that holds 0 and the successor of each natural it holds
\* holds them all.
LEMMA InductionOnSets ==
    ASSUME NEW S, 0 \in S, \A n \in Nat : n \in S => n + 1 \in S
    PROVE  Nat \subseteq S
  <1> SUFFICES ASSUME Nat \ S # {}
               PROVE  FALSE
    BY Zenon
  <1>1. PICK m \in Nat \ S : \A k \in Nat \ S : m <= k
    BY LeastNatural, Zenon
  <1>2. m - 1 \in Nat
    BY <1>1
  <1>3. m - 1 \in S
    BY <1>1, <1>2
  <1>4. (m - 1) + 1 \in S
    BY <1>2, <1>3, Zenon
  <1> QED
    BY <1>1, <1>4

(***************************************************************************)
(* Quotients and remainders.                                               *)
(***************************************************************************)

\* A number is its quotient times the divisor plus its remainder.
LEMMA Division ==
    ASSUME NEW x \in Int, NEW m \in Nat \ {0}
    PROVE  /\ x \div m \in Int
           /\ x = (x \div m) * m + (x % m)
           /\ x % m \in 0 .. m - 1
           /\ x \in Nat => x \div m \in Nat
  OBVIOUS

\* Two multiples of m that differ by less than m are the same.
LEMMA CloseMultiples ==
    ASSUME NEW m \in Nat \ {0}, NEW p \in Int, NEW q \in Int,
           p * m - q * m < m, q * m - p * m < m
    PROVE  p = q
  <1>1. ~(p >= q + 1)
    <2> SUFFICES ASSUME p - q - 1 \in Nat
                 PROVE  FALSE
      OBVIOUS
    <2>1. (p - q - 1) * m >= 0
      OBVIOUS
    <2> QED
      BY <2>1
  <1>2. ~(q >= p + 1)
    <2> SUFFICES ASSUME q - p - 1 \in Nat
                 PROVE  FALSE
      OBVIOUS
    <2>1. (q - p - 1) * m >= 0
      OBVIOUS
    <2> QED
      BY <2>1
  <1> QED
    BY <1>1, <1>2

\* The remainder is the only number below the divisor that differs from x by a
\* multiple of it.
LEMMA Remainder ==
    ASSUME NEW m \in Nat \ {0}, NEW q \in Int, NEW r \in 0 .. m - 1
    PROVE  (q * m + r) % m = r
  <1> DEFINE x == q * m + r
             p == x \div m
  <1>1. x \in Int
    OBVIOUS
  <1> HIDE DEF x
  <1>2. p \in Int /\ x = p * m + (x % m) /\ x % m \in 0 .. m - 1
    BY <1>1, Division, Zenon
  <1> HIDE DEF p
  <1>3. p * m - q * m < m /\ q * m - p * m < m
    BY <1>2 DEF x
  <1>4. p = q
    BY <1>2, <1>3, CloseMultiples, Zenon
  <1> QED
    BY <1>2, <1>4 DEF x

\* Numbers that differ by a multiple of m have the same remainder.
LEMMA SameRemainder ==
    ASSUME NEW m \in Nat \ {0}, NEW x \in Int, NEW y \in Int, NEW q \in Int,
           x = y + q * m
    PROVE  x % m = y % m
  <1> DEFINE p == y \div m
             r == y % m
  <1>1. p \in Int /\ y = p * m + r /\ r \in 0 .. m - 1
    BY Division, Zenon
  <1> HIDE DEF p, r
  <1>2. q + p \in Int /\ x = (q + p) * m + r
    BY <1>1
  <1>3. ((q + p) * m + r) % m = r
    BY <1>1, <1>2, Remainder, Zenon
  <1> QED
    BY <1>2, <1>3, Zenon DEF r

\* A number below m is its own remainder.
LEMMA SmallRemainder ==
    ASSUME NEW m \in Nat \ {0}, NEW r \in 0 .. m - 1
    PROVE  r % m = r
  <1>1. (0 * m + r) % m = r
    BY Remainder
  <1> QED
    BY <1>1

\* Taking a wrapped sum's remainder again changes nothing: (x % m) + y and x + y
\* are congruent.
LEMMA WrappedSum ==
    ASSUME NEW m \in Nat \ {0}, NEW x \in Int, NEW y \in Int
    PROVE  ((x % m) + y) % m = (x + y) % m
  <1> DEFINE p == x \div m
             r == x % m
  <1>1. p \in Int /\ x = p * m + r /\ r \in 0 .. m - 1
    BY Division, Zenon
  <1> HIDE DEF p, r
  <1>2. x + y \in Int /\ r + y \in Int /\ x + y = (r + y) + p * m
    BY <1>1
  <1>3. (x + y) % m = (r + y) % m
    BY <1>1, <1>2, SameRemainder, Zenon
  <1> QED
    BY <1>3, Zenon DEF r

\* Multiples of m: they are the numbers without remainder, their sums and
\* differences are multiples, and a divisor of m divides them.
LEMMA Multiple ==
    ASSUME NEW m \in Nat \ {0}, NEW q \in Int
    PROVE  (q * m) % m = 0
  <1>1. (q * m + 0) % m = 0
    BY Remainder
  <1> QED
    BY <1>1

LEMMA SumOfMultiples ==
    ASSUME NEW m \in Nat \ {0}, NEW x \in Int, NEW y \in Int, x % m = 0, y % m = 0
    PROVE  (x + y) % m = 0 /\ (x - y) % m = 0
  <1> DEFINE p == x \div m
             q == y \div m
  <1>1. p \in Int /\ q \in Int /\ x = p * m /\ y = q * m
    BY Division
  <1> HIDE DEF p, q
  <1>2. p + q \in Int /\ p - q \in Int /\ x + y = (p + q) * m /\ x - y = (p - q) * m
    BY <1>1
  <1> QED
    BY <1>2, Multiple, Zenon

LEMMA DivisorOfMultiple ==
    ASSUME NEW m \in Nat \ {0}, NEW d \in Nat \ {0}, NEW x \in Int, x % m = 0, m % d = 0
    PROVE  x % d = 0
  <1> DEFINE p == x \div m
             q == m \div d
  <1>1. p \in Int /\ q \in Int /\ x = p * m /\ m = q * d
    BY Division
  <1> HIDE DEF p, q
  <1>2. p * q \in Int /\ x = (p * q) * d
    BY <1>1
  <1> QED
    BY <1>2, Multiple, Zenon

LEMMA CongruentDifference ==
    ASSUME NEW m \in Nat \ {0}, NEW x \in Int, NEW y \in Int, x % m = y % m
    PROVE  (x - y) % m = 0
  <1> DEFINE p == x \div m
             q == y \div m
             r == y % m
  <1>1. p \in Int /\ q \in Int /\ x = p * m + r /\ y = q * m + r /\ r \in Int
    BY Division
  <1> HIDE DEF p, q, r
  <1>2. p - q \in Int /\ x - y = (p - q) * m
    BY <1>1
  <1> QED
    BY <1>2, Multiple, Zenon

=============================================================================
