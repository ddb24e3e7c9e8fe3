------------------------------ MODULE ModArith ------------------------------
(***************************************************************************)
(* Facts about % with a modulus that is not a literal: the slot arithmetic *)
(* of the circular buffers (LFQueue's store_, the level arrays of the      *)
(* OrderBook) rests on them.  And the least number of a set, for           *)
(* inductions over distances and sizes.                                    *)
(***************************************************************************)
EXTENDS Integers, WellFoundedInduction, TLAPS

\* Division with remainder.
LEMMA DivMod ==
  ASSUME NEW a \in Int, NEW N \in Nat \ {0}
  PROVE  /\ a % N \in 0 .. N - 1
         /\ a \div N \in Int
         /\ a = N * (a \div N) + (a % N)
  OBVIOUS

\* A number below the modulus is its own remainder.
LEMMA ModSmall ==
  ASSUME NEW N \in Nat \ {0}, NEW r \in 0 .. N - 1
  PROVE  r % N = r
  OBVIOUS

\* The remainder is unique.
LEMMA ModUnique ==
  ASSUME NEW N \in Nat \ {0}, NEW q \in Int, NEW r \in 0 .. N - 1,
         NEW a \in Int, a = N * q + r
  PROVE  a % N = r
  OBVIOUS

\* Reducing before an addition changes nothing.
LEMMA ModShift ==
  ASSUME NEW N \in Nat \ {0}, NEW a \in Int, NEW c \in Int
  PROVE  ((a % N) + c) % N = (a + c) % N
  <1>1. PICK q \in Int, r \in 0 .. N - 1 : a = N * q + r /\ a % N = r
    BY DivMod
  <1>2. r + c \in Int
    OBVIOUS
  <1>3. PICK s \in Int, t \in 0 .. N - 1 : r + c = N * s + t /\ (r + c) % N = t
    BY <1>2, DivMod
  <1>4. PICK b \in Int, u \in Int : b = a + c /\ u = q + s
    OBVIOUS
  <1>5. b = N * u + t
    BY <1>1, <1>3, <1>4
  <1>6. b % N = t
    BY <1>5, ModUnique
  <1> QED
    BY <1>1, <1>3, <1>4, <1>6

\* Numbers less than N apart with the same remainder are equal.
LEMMA ModInjective ==
  ASSUME NEW N \in Nat \ {0}, NEW a \in Int, NEW b \in Int,
         a % N = b % N, a - b < N, b - a < N
  PROVE  a = b
  <1>1. PICK q \in Int, r \in 0 .. N - 1 : a = N * q + r /\ a % N = r
    BY DivMod
  <1>2. PICK s \in Int, t \in 0 .. N - 1 : b = N * s + t /\ b % N = t
    BY DivMod
  <1>3. a - b = N * (q - s)
    BY <1>1, <1>2
  <1>4. q - s = 0
    <2>1. CASE q - s >= 1
      BY <2>1, <1>3
    <2>2. CASE q - s <= -1
      BY <2>2, <1>3
    <2> QED
      BY <2>1, <2>2
  <1> QED
    BY <1>3, <1>4

\* A set of numbers that is not empty has a least one: induction without a
\* predicate as its parameter.
LEMMA LeastNumber ==
  ASSUME NEW S \in SUBSET Nat, NEW x \in S
  PROVE  \E n \in S : \A m \in S : n <= m
  <1> DEFINE R == {ss \in Nat \X Nat : ss[1] < ss[2]}
  <1>1. IsWellFoundedOn(R, Nat)
    BY NatLessThanWellFounded DEF OpToRel
  <1> HIDE DEF R
  <1>2. PICK n \in S : \A m \in S : ~ (<<m, n>> \in R)
    BY <1>1, WFMin
  <1>3. \A m \in S : ~ (m < n)
    BY <1>2 DEF R
  <1> QED
    BY <1>3
=============================================================================
