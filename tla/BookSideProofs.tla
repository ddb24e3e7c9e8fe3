--------------------------- MODULE BookSideProofs ---------------------------
(***************************************************************************)
(* Proofs about BookSide, for both sides, every LOB_DEPTH and every set of *)
(* prices and quantities, under the assumption the array is sized for: the *)
(* feed stays within LOB_DEPTH ticks of what a side quotes.                *)
(***************************************************************************)
EXTENDS BookSide, ModArith, FiniteSetTheorems

\* The price order of a side, as arithmetic.
LEMMA BetterIs ==
  /\ Worse \in {-1, 1}
  /\ \A p, r \in Nat : Better(p, r) <=> Worse * (r - p) > 0
  <1>1. CASE is_bid
    BY <1>1 DEF Better, Worse
  <1>2. CASE ~ is_bid
    BY <1>2 DEF Better, Worse
  <1> QED
    BY <1>1, <1>2

-----------------------------------------------------------------------------
(***************************************************************************)
(* The scan for the next best or the next worst level.                     *)
(***************************************************************************)
\* Prices on one side of P in direction dir, less than LOB_DEPTH away: the
\* level at distance d from P is d slots from P's slot.
LEMMA SlotAtDistance ==
  ASSUME NEW P \in Nat, NEW r \in Nat, NEW dir \in {-1, 1},
         NEW d \in 1 .. LOB_DEPTH - 1, dir * (r - P) = d
  PROVE  r % LOB_DEPTH = ((P % LOB_DEPTH) + dir * d) % LOB_DEPTH
  <1>1. r = P + dir * d /\ dir * d \in Int
    BY DepthAssumption
  <1>2. PICK e \in Int : e = dir * d
    BY <1>1
  <1>3. ((P % LOB_DEPTH) + e) % LOB_DEPTH = (P + e) % LOB_DEPTH
    <2>1. P \in Int
      OBVIOUS
    <2> QED
      BY <2>1, ModShift, DepthAssumption
  <1> QED
    BY <1>1, <1>2, <1>3

\* The scan from the slot of P ends at the level whose price is next to P.
LEMMA ScanFindsNext ==
  ASSUME NEW lv \in [Slots -> PriceLevel],
         NEW P \in Nat, NEW b \in Slots, P % LOB_DEPTH = b,
         NEW dir \in {-1, 1},
         NEW a \in Active(lv),
         \A i \in Active(lv) : /\ lv[i]._price % LOB_DEPTH = i
                               /\ dir * (lv[i]._price - P) \in 1 .. LOB_DEPTH - 1,
         NEW c \in ScanFrom(lv, b, dir)
  PROVE  /\ c \in Active(lv)
         /\ \A i \in Active(lv) : dir * (lv[i]._price - lv[c]._price) >= 0
  <1> DEFINE At(n) == (b + dir * n) % LOB_DEPTH
             dist(i) == dir * (lv[i]._price - P)
             S == {n \in 1 .. LOB_DEPTH - 1 : lv[At(n)]._isActive}
  <1>1. \A i \in Active(lv) : /\ i = At(dist(i))
                              /\ dist(i) \in 1 .. LOB_DEPTH - 1
                              /\ i \in Slots /\ lv[i]._isActive
                              /\ lv[i]._price \in Nat
    <2> SUFFICES ASSUME NEW i \in Active(lv)
                 PROVE  /\ i = At(dist(i))
                        /\ dist(i) \in 1 .. LOB_DEPTH - 1
                        /\ i \in Slots /\ lv[i]._isActive
                        /\ lv[i]._price \in Nat
      OBVIOUS
    <2>1. i \in Slots /\ lv[i]._isActive /\ lv[i]._price \in Nat
      BY DEF Active, PriceLevel
    <2>2. dist(i) \in 1 .. LOB_DEPTH - 1
      OBVIOUS
    <2>3. lv[i]._price % LOB_DEPTH = ((P % LOB_DEPTH) + dir * dist(i)) % LOB_DEPTH
      BY <2>1, <2>2, SlotAtDistance
    <2> QED
      BY <2>1, <2>2, <2>3
  <1>2. dist(a) \in S /\ S \in SUBSET Nat
    BY <1>1
  <1>3. PICK k \in S : \A m \in S : k <= m
    BY <1>2, LeastNumber
  <1>4. At(k) \in Slots
    <2>1. \A n \in 1 .. LOB_DEPTH - 1 : b + dir * n \in Int
      BY DepthAssumption DEF Slots
    <2> QED
      BY <2>1, DivMod, DepthAssumption DEF Slots
  <1>5. IsFirstActive(lv, b, dir, At(k))
    <2>1. k \in 1 .. LOB_DEPTH - 1 /\ lv[At(k)]._isActive
      OBVIOUS
    <2>2. ASSUME NEW m \in 1 .. k - 1
          PROVE  ~ lv[At(m)]._isActive
      <3>1. m \in 1 .. LOB_DEPTH - 1 /\ ~ (k <= m)
        BY <2>1, DepthAssumption
      <3>2. m \notin S
        BY <1>3, <3>1
      <3> QED
        BY <3>1, <3>2
    <2> QED
      BY <2>1, <2>2 DEF IsFirstActive
  <1>6. c \in Slots /\ IsFirstActive(lv, b, dir, c)
    BY <1>4, <1>5 DEF ScanFrom
  <1>7. PICK n \in 1 .. LOB_DEPTH - 1 :
          /\ c = At(n)
          /\ lv[c]._isActive
          /\ \A m \in 1 .. n - 1 : ~ lv[At(m)]._isActive
    BY <1>6 DEF IsFirstActive
  <1>8. c \in Active(lv)
    BY <1>6, <1>7 DEF Active
  <1>9. dist(c) = n
    <2>1. At(dist(c)) = At(n) /\ dist(c) \in 1 .. LOB_DEPTH - 1
      BY <1>1, <1>7, <1>8
    <2>2. PICK d \in 1 .. LOB_DEPTH - 1 : d = dist(c)
      BY <2>1
    <2>3. PICK x \in Int, y \in Int : x = b + dir * d /\ y = b + dir * n
      BY DepthAssumption DEF Slots
    <2>4. x - y < LOB_DEPTH /\ y - x < LOB_DEPTH
      <3>1. CASE dir = 1
        BY <3>1, <2>3, DepthAssumption DEF Slots
      <3>2. CASE dir = -1
        BY <3>2, <2>3, DepthAssumption DEF Slots
      <3> QED
        BY <3>1, <3>2
    <2>5. x % LOB_DEPTH = y % LOB_DEPTH
      BY <2>1, <2>2, <2>3
    <2>6. x = y
      BY <2>4, <2>5, ModInjective, DepthAssumption
    <2>7. d = n
      BY <2>3, <2>6, DepthAssumption DEF Slots
    <2> QED
      BY <2>2, <2>7
  <1>10. \A i \in Active(lv) : dist(i) >= n
    <2> SUFFICES ASSUME NEW i \in Active(lv) PROVE dist(i) >= n
      OBVIOUS
    <2>1. PICK d \in 1 .. LOB_DEPTH - 1 : d = dist(i)
      BY <1>1
    <2>2. lv[At(d)]._isActive
      BY <1>1, <2>1
    <2>3. d \notin 1 .. n - 1
      BY <1>7, <2>2
    <2> QED
      BY <2>1, <2>3, DepthAssumption
  <1>11. ASSUME NEW i \in Active(lv)
         PROVE  dir * (lv[i]._price - lv[c]._price) >= 0
    <2>1. lv[i]._price \in Nat /\ lv[c]._price \in Nat
      BY <1>1, <1>8
    <2>2. dir * (lv[i]._price - P) >= dir * (lv[c]._price - P)
      BY <1>9, <1>10
    <2> QED
      BY <2>1, <2>2
  <1> QED
    BY <1>8, <1>11

-----------------------------------------------------------------------------
(***************************************************************************)
(* Slots of prices.                                                        *)
(***************************************************************************)
LEMMA ActiveFinite ==
  ASSUME NEW lv
  PROVE  /\ Active(lv) \subseteq Slots
         /\ IsFiniteSet(Active(lv))
         /\ Cardinality(Active(lv)) \in Nat
  <1>1. Active(lv) \subseteq Slots
    BY DEF Active
  <1>2. IsFiniteSet(Slots)
    <2>1. 0 \in Int /\ LOB_DEPTH - 1 \in Int
      BY DepthAssumption
    <2> QED
      BY <2>1, FS_Interval DEF Slots
  <1>3. IsFiniteSet(Active(lv))
    BY <1>1, <1>2, FS_Subset
  <1> QED
    BY <1>1, <1>3, FS_CardinalityType

\* priceToIndex, which the code computes from the best slot, is the remainder
\* of the price.
LEMMA IndexIsRemainder ==
  ASSUME IInv, numOf # 0, NEW p \in Nat
  PROVE  priceToIndex(p) = p % LOB_DEPTH
  <1>1. bestIndex \in Active(levels) /\ bestIndex \in Slots
    BY DEF IInv, BestWorstExact, TypeOK
  <1>2. BestPrice \in Nat /\ BestPrice % LOB_DEPTH = bestIndex
    BY <1>1 DEF IInv, SlotCongruent, BestPrice, TypeOK, PriceLevel
  <1>3. PICK a \in Int, c \in Int : a = BestPrice /\ c = p - BestPrice
    BY <1>2
  <1>4. ((a % LOB_DEPTH) + c) % LOB_DEPTH = (a + c) % LOB_DEPTH
    BY ModShift, DepthAssumption
  <1>5. a + c = p
    BY <1>2, <1>3
  <1> QED
    BY <1>2, <1>3, <1>4, <1>5 DEF priceToIndex

LEMMA RemainderIsSlot ==
  ASSUME NEW p \in Nat
  PROVE  p % LOB_DEPTH \in Slots
  <1>1. p \in Int
    OBVIOUS
  <1> QED
    BY <1>1, DivMod, DepthAssumption DEF Slots

\* An active slot of a price within the spread holds that very price.
LEMMA SlotHoldsPrice ==
  ASSUME IInv, Spread < LOB_DEPTH, NEW p \in Nat, InSpread(p),
         p % LOB_DEPTH \in Active(levels)
  PROVE  levels[p % LOB_DEPTH]._price = p
  <1>1. p % LOB_DEPTH \in Slots
    BY RemainderIsSlot
  <1>2. PICK i \in Active(levels) : i = p % LOB_DEPTH
    OBVIOUS
  <1>3. PICK r \in Nat : r = levels[i]._price
    BY <1>1, <1>2 DEF IInv, TypeOK, PriceLevel
  <1>4. r % LOB_DEPTH = p % LOB_DEPTH
    BY <1>2, <1>3 DEF IInv, SlotCongruent
  <1>5. p - r < LOB_DEPTH /\ r - p < LOB_DEPTH
    BY <1>2, <1>3, SpreadAssumption, DepthAssumption DEF InSpread, Distance
  <1>6. p \in Int /\ r \in Int
    OBVIOUS
  <1>7. p = r
    BY <1>4, <1>5, <1>6, ModInjective, DepthAssumption
  <1> QED
    BY <1>2, <1>3, <1>7

\* What every branch that quotes p has in common.
LEMMA PutPreserves ==
  ASSUME IInv, Spread < LOB_DEPTH, NEW p \in Prices, NEW q \in Quantities, InSpread(p),
         NEW index, index = p % LOB_DEPTH, levels' = Put(index, p, q)
  PROVE  /\ levels' \in [Slots -> PriceLevel]
         /\ index \in Slots /\ p \in Nat
         /\ Active(levels') = Active(levels) \cup {index}
         /\ levels'[index]._price = p
         /\ \A i \in Active(levels) : i # index => levels'[i] = levels[i]
         /\ SlotCongruent' /\ WithinDepth' /\ QuantitiesQuoted'
         /\ index \in Active(levels) =>
               /\ levels[index]._price = p
               /\ Cardinality(Active(levels')) = Cardinality(Active(levels))
         /\ index \notin Active(levels) =>
               Cardinality(Active(levels')) = Cardinality(Active(levels)) + 1
  <1>1. p \in Nat /\ q \in Nat
    BY PricesAssumption, QuantitiesAssumption
  <1>2. index \in Slots
    BY <1>1, RemainderIsSlot
  <1>3. levels \in [Slots -> PriceLevel]
    BY DEF IInv, TypeOK
  <1>4. /\ levels' \in [Slots -> PriceLevel]
        /\ levels'[index] = [_price |-> p, _quantity |-> q, _isActive |-> TRUE]
        /\ \A i \in Slots : i # index => levels'[i] = levels[i]
    BY <1>1, <1>2, <1>3 DEF Put, PriceLevel
  <1>5. Active(levels') = Active(levels) \cup {index}
    BY <1>2, <1>4 DEF Active
  <1>6. \A i \in Active(levels) : i \in Slots /\ levels[i]._price \in Nat
    BY <1>3 DEF Active, PriceLevel
  <1>7. SlotCongruent'
    BY <1>4, <1>5, <1>6 DEF IInv, SlotCongruent
  <1>8. QuantitiesQuoted'
    BY <1>4, <1>5, <1>6 DEF IInv, QuantitiesQuoted
  <1>9. WithinDepth'
    <2> SUFFICES ASSUME NEW i \in Active(levels'), NEW j \in Active(levels')
                 PROVE  Distance(levels'[i]._price, levels'[j]._price) < LOB_DEPTH
      BY DEF WithinDepth
    <2>1. CASE i # index /\ j # index
      BY <2>1, <1>4, <1>5, <1>6 DEF IInv, WithinDepth
    <2>2. CASE i = index /\ j # index
      BY <2>2, <1>1, <1>4, <1>5, <1>6, SpreadAssumption, DepthAssumption DEF InSpread, Distance
    <2>3. CASE i # index /\ j = index
      BY <2>3, <1>1, <1>4, <1>5, <1>6, SpreadAssumption, DepthAssumption DEF InSpread, Distance
    <2>4. CASE i = index /\ j = index
      BY <2>4, <1>1, <1>4, DepthAssumption DEF Distance
    <2> QED
      BY <2>1, <2>2, <2>3, <2>4
  <1>10. index \in Active(levels) =>
           /\ levels[index]._price = p
           /\ Cardinality(Active(levels')) = Cardinality(Active(levels))
    <2>1. index \in Active(levels) => Active(levels') = Active(levels)
      BY <1>5
    <2> QED
      BY <2>1, <1>1, SlotHoldsPrice
  <1>11. index \notin Active(levels) =>
           Cardinality(Active(levels')) = Cardinality(Active(levels)) + 1
    BY <1>5, ActiveFinite, FS_AddElement
  <1> QED
    BY <1>1, <1>2, <1>4, <1>5, <1>6, <1>7, <1>8, <1>9, <1>10, <1>11

-----------------------------------------------------------------------------
(***************************************************************************)
(* The inductive invariant, one lemma per action.                          *)
(***************************************************************************)
LEMMA EmptyIffNoActive ==
  ASSUME IInv
  PROVE  numOf = 0 <=> Active(levels) = {}
  BY ActiveFinite, FS_EmptySet DEF IInv, CountExact

\* The prices of the active levels lie between worst and best.
LEMMA QuotedBetween ==
  ASSUME IInv, NEW i \in Active(levels)
  PROVE  /\ levels[i]._price \in Nat /\ BestPrice \in Nat /\ WorstPrice \in Nat
         /\ bestIndex \in Active(levels) /\ worstIndex \in Active(levels)
         /\ ~ Better(levels[i]._price, BestPrice)
         /\ ~ Better(WorstPrice, levels[i]._price)
  <1>1. numOf # 0
    BY EmptyIffNoActive
  <1> QED
    BY <1>1 DEF IInv, BestWorstExact, TypeOK, PriceLevel, Active, BestPrice, WorstPrice

LEMMA InitIInv == Init => IInv
  <1> SUFFICES ASSUME Init PROVE IInv
    OBVIOUS
  <1>1. levels \in [Slots -> PriceLevel] /\ Active(levels) = {}
    BY DEF Init, PriceLevel, Active
  <1>2. TypeOK
    <2>1. 0 \in Slots
      BY DepthAssumption DEF Slots
    <2> QED
      BY <1>1, <2>1 DEF Init, TypeOK
  <1>3. CountExact
    BY <1>1, FS_EmptySet DEF Init, CountExact
  <1> QED
    BY <1>1, <1>2, <1>3 DEF Init, IInv, BestWorstExact, SlotCongruent, WithinDepth,
                            QuantitiesQuoted, EmptyAtZero

LEMMA AddFirstIInv ==
  ASSUME IInv, Spread < LOB_DEPTH, NEW p \in Prices, NEW q \in Quantities,
         InSpread(p), AddFirst(p, q)
  PROVE  IInv'
  <1> DEFINE index == p % LOB_DEPTH
  <1>1. /\ numOf = 0 /\ levels' = Put(index, p, q)
        /\ bestIndex' = index /\ worstIndex' = index /\ numOf' = 1
    BY DEF AddFirst
  <1>2. Active(levels) = {}
    BY <1>1, EmptyIffNoActive
  <1> HIDE DEF index
  <1>3. /\ levels' \in [Slots -> PriceLevel] /\ index \in Slots /\ p \in Nat
        /\ Active(levels') = {index} /\ levels'[index]._price = p
        /\ SlotCongruent' /\ WithinDepth' /\ QuantitiesQuoted'
        /\ Cardinality(Active(levels')) = Cardinality(Active(levels)) + 1
    BY <1>1, <1>2, PutPreserves DEF index
  <1>4. CountExact'
    BY <1>1, <1>3 DEF IInv, CountExact
  <1>5. BestWorstExact'
    BY <1>1, <1>3 DEF BestWorstExact, BestPrice, WorstPrice, Better
  <1>6. TypeOK' /\ EmptyAtZero'
    BY <1>1, <1>3 DEF TypeOK, EmptyAtZero
  <1> QED
    BY <1>3, <1>4, <1>5, <1>6 DEF IInv

LEMMA AddToSingleIInv ==
  ASSUME IInv, Spread < LOB_DEPTH, NEW p \in Prices, NEW q \in Quantities,
         InSpread(p), AddToSingle(p, q)
  PROVE  IInv'
  <1> DEFINE index == p % LOB_DEPTH
  <1>1. numOf # 0 /\ bestIndex = worstIndex /\ p \in Nat
    BY PricesAssumption DEF AddToSingle, Single
  <1>2. priceToIndex(p) = index
    BY <1>1, IndexIsRemainder
  <1>3. bestIndex \in Active(levels) /\ BestPrice \in Nat
    BY <1>1 DEF IInv, BestWorstExact, TypeOK, PriceLevel, Active, BestPrice
  <1>4. \A i \in Active(levels) : levels[i]._price = BestPrice
    BY <1>1, QuotedBetween DEF Better, BestPrice, WorstPrice
  <1>5. \A i \in Active(levels) : i = bestIndex
    BY <1>3, <1>4 DEF IInv, SlotCongruent
  <1> HIDE DEF index
  <1>6. /\ levels' = Put(index, p, q)
        /\ bestIndex' = IF Better(p, BestPrice) THEN index ELSE bestIndex
        /\ worstIndex' = IF Better(BestPrice, p) THEN index ELSE worstIndex
        /\ numOf' = IF p # levels'[IF bestIndex' = index THEN worstIndex' ELSE bestIndex']._price
                    THEN numOf + 1 ELSE numOf
    BY <1>2 DEF AddToSingle
  <1>7. /\ levels' \in [Slots -> PriceLevel] /\ index \in Slots
        /\ Active(levels') = Active(levels) \cup {index} /\ levels'[index]._price = p
        /\ \A i \in Active(levels) : i # index => levels'[i] = levels[i]
        /\ SlotCongruent' /\ WithinDepth' /\ QuantitiesQuoted'
        /\ index \in Active(levels) =>
               /\ levels[index]._price = p
               /\ Cardinality(Active(levels')) = Cardinality(Active(levels))
        /\ index \notin Active(levels) =>
               Cardinality(Active(levels')) = Cardinality(Active(levels)) + 1
    BY <1>6, PutPreserves DEF index
  <1>8. numOf \in Nat /\ numOf = Cardinality(Active(levels))
    BY DEF IInv, TypeOK, CountExact
  <1>9. CASE p = BestPrice
    <2>1. index = bestIndex
      BY <1>3, <1>9 DEF IInv, SlotCongruent, BestPrice, index
    <2>2. bestIndex' = bestIndex /\ worstIndex' = bestIndex
      BY <1>1, <1>3, <1>6, <1>9 DEF Better
    <2>3. numOf' = numOf
      BY <2>1, <2>2, <1>6, <1>7
    <2>4. TypeOK' /\ CountExact' /\ EmptyAtZero'
      BY <2>1, <2>2, <2>3, <1>1, <1>3, <1>7, <1>8 DEF TypeOK, CountExact, EmptyAtZero
    <2>5. BestWorstExact'
      BY <2>1, <2>2, <1>1, <1>5, <1>7 DEF BestWorstExact, BestPrice, WorstPrice, Better
    <2> QED
      BY <2>4, <2>5, <1>7 DEF IInv
  <1>10. CASE p # BestPrice
    <2>1. index \notin Active(levels) /\ index # bestIndex
      BY <1>3, <1>4, <1>7, <1>10
    <2>2. levels'[bestIndex] = levels[bestIndex]
      BY <2>1, <1>3, <1>7
    <2>3. \/ Better(p, BestPrice) /\ ~ Better(BestPrice, p)
          \/ Better(BestPrice, p) /\ ~ Better(p, BestPrice)
      BY <1>1, <1>3, <1>10 DEF Better
    <2>4. numOf' = numOf + 1 /\ bestIndex' \in Slots /\ worstIndex' \in Slots
      BY <2>1, <2>2, <2>3, <1>1, <1>6, <1>7, <1>10 DEF BestPrice, IInv, TypeOK
    <2>5. TypeOK' /\ CountExact' /\ EmptyAtZero'
      BY <2>1, <2>4, <1>7, <1>8 DEF TypeOK, CountExact, EmptyAtZero
    <2>6. BestWorstExact'
      <3>1. \A i \in Active(levels') : i = index \/ i = bestIndex
        BY <1>5, <1>7
      <3>2. CASE Better(p, BestPrice) /\ ~ Better(BestPrice, p)
        BY <3>1, <3>2, <2>2, <1>1, <1>3, <1>6, <1>7
           DEF BestWorstExact, BestPrice, WorstPrice, Better
      <3>3. CASE Better(BestPrice, p) /\ ~ Better(p, BestPrice)
        BY <3>1, <3>3, <2>2, <1>1, <1>3, <1>6, <1>7
           DEF BestWorstExact, BestPrice, WorstPrice, Better
      <3> QED
        BY <2>3, <3>2, <3>3
    <2> QED
      BY <2>5, <2>6, <1>7 DEF IInv
  <1> QED
    BY <1>9, <1>10

LEMMA AddInsideIInv ==
  ASSUME IInv, Spread < LOB_DEPTH, NEW p \in Prices, NEW q \in Quantities,
         InSpread(p), AddInside(p, q)
  PROVE  IInv'
  <1> DEFINE index == p % LOB_DEPTH
  <1>1. numOf # 0 /\ Inside(p) /\ p \in Nat
    BY PricesAssumption DEF AddInside, Several
  <1>2. priceToIndex(p) = index
    BY <1>1, IndexIsRemainder
  <1>3. /\ bestIndex \in Active(levels) /\ BestPrice \in Nat
        /\ worstIndex \in Active(levels) /\ WorstPrice \in Nat
    BY <1>1 DEF IInv, BestWorstExact, TypeOK, PriceLevel, Active, BestPrice, WorstPrice
  <1> HIDE DEF index
  <1>4. /\ levels' = Put(index, p, q)
        /\ bestIndex' = bestIndex /\ worstIndex' = worstIndex
        /\ numOf' = IF levels[index]._isActive THEN numOf ELSE numOf + 1
    BY <1>2 DEF AddInside
  <1>5. /\ levels' \in [Slots -> PriceLevel] /\ index \in Slots
        /\ Active(levels') = Active(levels) \cup {index} /\ levels'[index]._price = p
        /\ \A i \in Active(levels) : i # index => levels'[i] = levels[i]
        /\ SlotCongruent' /\ WithinDepth' /\ QuantitiesQuoted'
        /\ index \in Active(levels) =>
               /\ levels[index]._price = p
               /\ Cardinality(Active(levels')) = Cardinality(Active(levels))
        /\ index \notin Active(levels) =>
               Cardinality(Active(levels')) = Cardinality(Active(levels)) + 1
    BY <1>4, PutPreserves DEF index
  <1>6. numOf \in Nat /\ numOf = Cardinality(Active(levels)) /\ bestIndex \in Slots /\ worstIndex \in Slots
    BY DEF IInv, TypeOK, CountExact
  <1>7. CountExact'
    BY <1>4, <1>5, <1>6 DEF CountExact, Active
  <1>8. TypeOK' /\ EmptyAtZero'
    BY <1>1, <1>4, <1>5, <1>6 DEF TypeOK, EmptyAtZero
  <1>9. BestWorstExact'
    <2>1. BestPrice' = BestPrice /\ WorstPrice' = WorstPrice
      BY <1>3, <1>4, <1>5 DEF BestPrice, WorstPrice
    <2>2. ASSUME NEW i \in Active(levels')
          PROVE  ~ Better(levels'[i]._price, BestPrice) /\ ~ Better(WorstPrice, levels'[i]._price)
      <3>1. CASE i = index
        BY <3>1, <1>1, <1>5 DEF Inside
      <3>2. CASE i # index
        BY <3>2, <1>5, QuotedBetween
      <3> QED
        BY <3>1, <3>2
    <2> QED
      BY <2>1, <2>2, <1>3, <1>4, <1>5 DEF BestWorstExact, Better
  <1> QED
    BY <1>5, <1>7, <1>8, <1>9 DEF IInv

LEMMA ExtendBestIInv ==
  ASSUME IInv, Spread < LOB_DEPTH, NEW p \in Prices, NEW q \in Quantities,
         InSpread(p), ExtendBest(p, q)
  PROVE  IInv'
  <1> DEFINE index == p % LOB_DEPTH
  <1>1. numOf # 0 /\ Better(p, BestPrice) /\ p \in Nat
    BY PricesAssumption DEF ExtendBest, Several
  <1>2. priceToIndex(p) = index
    BY <1>1, IndexIsRemainder
  <1>3. /\ bestIndex \in Active(levels) /\ BestPrice \in Nat
        /\ worstIndex \in Active(levels) /\ WorstPrice \in Nat
    BY <1>1 DEF IInv, BestWorstExact, TypeOK, PriceLevel, Active, BestPrice, WorstPrice
  <1> HIDE DEF index
  <1>4. /\ levels' = Put(index, p, q)
        /\ bestIndex' = index /\ worstIndex' = worstIndex /\ numOf' = numOf + 1
    BY <1>2 DEF ExtendBest
  <1>5. /\ levels' \in [Slots -> PriceLevel] /\ index \in Slots
        /\ Active(levels') = Active(levels) \cup {index} /\ levels'[index]._price = p
        /\ \A i \in Active(levels) : i # index => levels'[i] = levels[i]
        /\ SlotCongruent' /\ WithinDepth' /\ QuantitiesQuoted'
        /\ index \in Active(levels) => levels[index]._price = p
        /\ index \notin Active(levels) =>
               Cardinality(Active(levels')) = Cardinality(Active(levels)) + 1
    BY <1>4, PutPreserves DEF index
  <1>6. numOf \in Nat /\ numOf = Cardinality(Active(levels)) /\ worstIndex \in Slots
    BY DEF IInv, TypeOK, CountExact
  <1>7. index \notin Active(levels)
    BY <1>1, <1>5, QuotedBetween
  <1>8. CountExact' /\ TypeOK' /\ EmptyAtZero'
    BY <1>4, <1>5, <1>6, <1>7 DEF CountExact, TypeOK, EmptyAtZero
  <1>9. BestWorstExact'
    <2>1. BestPrice' = p /\ WorstPrice' = WorstPrice
      BY <1>3, <1>4, <1>5, <1>7 DEF BestPrice, WorstPrice
    <2>2. ASSUME NEW i \in Active(levels')
          PROVE  ~ Better(levels'[i]._price, p) /\ ~ Better(WorstPrice, levels'[i]._price)
      <3>1. CASE i = index
        <4>1. ~ Better(WorstPrice, BestPrice)
          BY <1>3, QuotedBetween DEF BestPrice
        <4> QED
          BY <3>1, <4>1, <1>1, <1>3, <1>5 DEF Better
      <3>2. CASE i # index
        <4>1. /\ levels'[i]._price = levels[i]._price /\ levels[i]._price \in Nat
              /\ ~ Better(levels[i]._price, BestPrice) /\ ~ Better(WorstPrice, levels[i]._price)
          BY <3>2, <1>5, QuotedBetween
        <4> QED
          BY <4>1, <1>1, <1>3 DEF Better
      <3> QED
        BY <3>1, <3>2
    <2> QED
      BY <2>1, <2>2, <1>3, <1>4, <1>5 DEF BestWorstExact, Better
  <1> QED
    BY <1>5, <1>8, <1>9 DEF IInv

LEMMA ExtendWorstIInv ==
  ASSUME IInv, Spread < LOB_DEPTH, NEW p \in Prices, NEW q \in Quantities,
         InSpread(p), ExtendWorst(p, q)
  PROVE  IInv'
  <1> DEFINE index == p % LOB_DEPTH
  <1>1. numOf # 0 /\ Better(WorstPrice, p) /\ p \in Nat
    BY PricesAssumption DEF ExtendWorst, Several, Inside
  <1>2. priceToIndex(p) = index
    BY <1>1, IndexIsRemainder
  <1>3. /\ bestIndex \in Active(levels) /\ BestPrice \in Nat
        /\ worstIndex \in Active(levels) /\ WorstPrice \in Nat
    BY <1>1 DEF IInv, BestWorstExact, TypeOK, PriceLevel, Active, BestPrice, WorstPrice
  <1> HIDE DEF index
  <1>4. /\ levels' = Put(index, p, q)
        /\ worstIndex' = index /\ bestIndex' = bestIndex /\ numOf' = numOf + 1
    BY <1>2 DEF ExtendWorst
  <1>5. /\ levels' \in [Slots -> PriceLevel] /\ index \in Slots
        /\ Active(levels') = Active(levels) \cup {index} /\ levels'[index]._price = p
        /\ \A i \in Active(levels) : i # index => levels'[i] = levels[i]
        /\ SlotCongruent' /\ WithinDepth' /\ QuantitiesQuoted'
        /\ index \in Active(levels) => levels[index]._price = p
        /\ index \notin Active(levels) =>
               Cardinality(Active(levels')) = Cardinality(Active(levels)) + 1
    BY <1>4, PutPreserves DEF index
  <1>6. numOf \in Nat /\ numOf = Cardinality(Active(levels)) /\ bestIndex \in Slots
    BY DEF IInv, TypeOK, CountExact
  <1>7. index \notin Active(levels)
    BY <1>1, <1>5, QuotedBetween
  <1>8. CountExact' /\ TypeOK' /\ EmptyAtZero'
    BY <1>4, <1>5, <1>6, <1>7 DEF CountExact, TypeOK, EmptyAtZero
  <1>9. BestWorstExact'
    <2>1. WorstPrice' = p /\ BestPrice' = BestPrice
      BY <1>3, <1>4, <1>5, <1>7 DEF BestPrice, WorstPrice
    <2>2. ASSUME NEW i \in Active(levels')
          PROVE  ~ Better(levels'[i]._price, BestPrice) /\ ~ Better(p, levels'[i]._price)
      <3>1. CASE i = index
        <4>1. ~ Better(WorstPrice, BestPrice)
          BY <1>3, QuotedBetween DEF BestPrice
        <4> QED
          BY <3>1, <4>1, <1>1, <1>3, <1>5 DEF Better
      <3>2. CASE i # index
        <4>1. /\ levels'[i]._price = levels[i]._price /\ levels[i]._price \in Nat
              /\ ~ Better(levels[i]._price, BestPrice) /\ ~ Better(WorstPrice, levels[i]._price)
          BY <3>2, <1>5, QuotedBetween
        <4> QED
          BY <4>1, <1>1, <1>3 DEF Better
      <3> QED
        BY <3>1, <3>2
    <2> QED
      BY <2>1, <2>2, <1>3, <1>4, <1>5 DEF BestWorstExact, Better
  <1> QED
    BY <1>5, <1>8, <1>9 DEF IInv

\* What withdrawing the level at an active slot leaves.
LEMMA ClearPreserves ==
  ASSUME IInv, NEW index \in Active(levels), levels' = Cleared(index)
  PROVE  /\ levels' \in [Slots -> PriceLevel]
         /\ Active(levels') = Active(levels) \ {index}
         /\ \A i \in Active(levels') : levels'[i] = levels[i]
         /\ SlotCongruent' /\ WithinDepth' /\ QuantitiesQuoted'
         /\ Cardinality(Active(levels')) = Cardinality(Active(levels)) - 1
  <1>1. levels \in [Slots -> PriceLevel] /\ index \in Slots
    BY DEF IInv, TypeOK, Active
  <1>2. /\ levels' \in [Slots -> PriceLevel]
        /\ ~ levels'[index]._isActive
        /\ \A i \in Slots : i # index => levels'[i] = levels[i]
    BY <1>1 DEF Cleared, PriceLevel
  <1>3. Active(levels') = Active(levels) \ {index}
    BY <1>1, <1>2 DEF Active
  <1>4. \A i \in Active(levels') : levels'[i] = levels[i] /\ i \in Active(levels)
    BY <1>2, <1>3 DEF Active
  <1>5. SlotCongruent' /\ WithinDepth' /\ QuantitiesQuoted'
    BY <1>4 DEF IInv, SlotCongruent, WithinDepth, QuantitiesQuoted
  <1>6. Cardinality(Active(levels')) = Cardinality(Active(levels)) - 1
    BY <1>3, ActiveFinite, FS_RemoveElement
  <1> QED
    BY <1>2, <1>3, <1>4, <1>5, <1>6

\* Two quoted prices are the same level or differ, by less than LOB_DEPTH.
LEMMA DistinctPrices ==
  ASSUME IInv, NEW i \in Active(levels), NEW j \in Active(levels), i # j
  PROVE  /\ levels[i]._price # levels[j]._price
         /\ levels[i]._price - levels[j]._price < LOB_DEPTH
         /\ levels[j]._price - levels[i]._price < LOB_DEPTH
  <1>1. levels[i]._price \in Nat /\ levels[j]._price \in Nat
    BY DEF IInv, TypeOK, PriceLevel, Active
  <1>2. levels[i]._price # levels[j]._price
    BY DEF IInv, SlotCongruent
  <1> QED
    BY <1>1, <1>2, DepthAssumption DEF IInv, WithinDepth, Distance

LEMMA RemoveIInv ==
  ASSUME IInv, Spread < LOB_DEPTH, NEW p \in Prices, InSpread(p), Remove(p)
  PROVE  IInv'
  <1> DEFINE index == p % LOB_DEPTH
  <1>1. numOf # 0 /\ p \in Nat
    BY PricesAssumption DEF Remove
  <1>2. priceToIndex(p) = index /\ index \in Slots
    BY <1>1, IndexIsRemainder, RemainderIsSlot
  <1> HIDE DEF index
  <1>3. index \in Active(levels) /\ levels' = Cleared(index) /\ numOf' = numOf - 1
    BY <1>2 DEF Remove, Active
  <1>4. /\ levels' \in [Slots -> PriceLevel]
        /\ Active(levels') = Active(levels) \ {index}
        /\ \A i \in Active(levels') : levels'[i] = levels[i]
        /\ SlotCongruent' /\ WithinDepth' /\ QuantitiesQuoted'
        /\ Cardinality(Active(levels')) = Cardinality(Active(levels)) - 1
    BY <1>3, ClearPreserves
  <1>5. numOf \in Nat /\ numOf = Cardinality(Active(levels)) /\ bestIndex \in Slots /\ worstIndex \in Slots
    BY DEF IInv, TypeOK, CountExact
  <1>6. CountExact'
    BY <1>3, <1>4, <1>5 DEF CountExact
  <1>7. /\ BestPrice \in Nat /\ WorstPrice \in Nat
        /\ bestIndex \in Active(levels) /\ worstIndex \in Active(levels)
    BY <1>3, QuotedBetween
  <1>8. CASE numOf = 1
    <2>1. bestIndex' = 0 /\ worstIndex' = 0 /\ numOf' = 0
      BY <1>8, <1>3 DEF Remove
    <2>2. TypeOK'
      BY <2>1, <1>4, DepthAssumption DEF TypeOK, Slots
    <2> QED
      BY <2>1, <2>2, <1>4, <1>6 DEF IInv, BestWorstExact, EmptyAtZero
  <1>9. CASE numOf # 1 /\ index = bestIndex
    <2>1. bestIndex' \in ScanFrom(levels', index, Worse) /\ worstIndex' = worstIndex
      BY <1>2, <1>3, <1>9 DEF Remove
    <2>2. ASSUME NEW i \in Active(levels')
          PROVE  /\ levels'[i]._price % LOB_DEPTH = i
                 /\ levels'[i]._price \in Nat
                 /\ ~ Better(WorstPrice, levels'[i]._price)
                 /\ Worse * (levels'[i]._price - BestPrice) \in 1 .. LOB_DEPTH - 1
      <3>1. /\ i \in Active(levels) /\ i # bestIndex /\ levels'[i] = levels[i]
            /\ levels[i]._price % LOB_DEPTH = i
        BY <1>4, <1>9 DEF IInv, SlotCongruent
      <3>2. /\ levels[i]._price \in Nat
            /\ ~ Better(levels[i]._price, BestPrice)
            /\ ~ Better(WorstPrice, levels[i]._price)
        BY <3>1, QuotedBetween
      <3>3. /\ levels[i]._price # BestPrice
            /\ levels[i]._price - BestPrice < LOB_DEPTH
            /\ BestPrice - levels[i]._price < LOB_DEPTH
        BY <3>1, <1>7, DistinctPrices DEF BestPrice
      <3>4. Worse * (levels[i]._price - BestPrice) \in 1 .. LOB_DEPTH - 1
        BY <3>2, <3>3, <1>7, DepthAssumption DEF Better, Worse
      <3> QED
        BY <3>1, <3>2, <3>4
    <2>3. PICK a \in Active(levels') : TRUE
      <3>1. Cardinality(Active(levels')) # 0
        BY <1>4, <1>5, <1>9
      <3> QED
        BY <3>1, FS_EmptySet
    <2>4. BestPrice % LOB_DEPTH = index
      BY <1>7, <1>9 DEF IInv, SlotCongruent, BestPrice
    <2>5. /\ bestIndex' \in Active(levels')
          /\ \A i \in Active(levels') : Worse * (levels'[i]._price - levels'[bestIndex']._price) >= 0
      BY <2>1, <2>2, <2>3, <2>4, <1>2, <1>4, <1>7, BetterIs, ScanFindsNext
    <2>6. worstIndex \in Active(levels')
      <3>1. worstIndex # bestIndex
        <4> SUFFICES ASSUME worstIndex = bestIndex PROVE FALSE
          OBVIOUS
        <4>1. a \in Active(levels) /\ a # bestIndex
          BY <1>4, <1>9
        <4>2. levels[a]._price # BestPrice
          BY <4>1, <1>7, DistinctPrices DEF BestPrice
        <4> QED
          BY <4>1, <4>2, QuotedBetween DEF Better, BestPrice, WorstPrice
      <3> QED
        BY <3>1, <1>4, <1>7, <1>9
    <2>7. BestWorstExact'
      <3>1. WorstPrice' = WorstPrice
        BY <2>1, <2>6, <1>4 DEF WorstPrice
      <3>2. \A i \in Active(levels') : ~ Better(levels'[i]._price, BestPrice')
        BY <2>2, <2>5, BetterIs DEF BestPrice, Better, Worse
      <3> QED
        BY <3>1, <3>2, <2>1, <2>2, <2>5, <2>6 DEF BestWorstExact, Better
    <2>8. TypeOK' /\ EmptyAtZero'
      BY <2>1, <2>5, <1>1, <1>3, <1>4, <1>5, <1>9 DEF TypeOK, EmptyAtZero, Active
    <2> QED
      BY <2>7, <2>8, <1>4, <1>6 DEF IInv
  <1>10. CASE numOf # 1 /\ index # bestIndex /\ index = worstIndex
    <2>1. worstIndex' \in ScanFrom(levels', index, -Worse) /\ bestIndex' = bestIndex
      BY <1>2, <1>3, <1>10 DEF Remove
    <2>2. ASSUME NEW i \in Active(levels')
          PROVE  /\ levels'[i]._price % LOB_DEPTH = i
                 /\ levels'[i]._price \in Nat
                 /\ ~ Better(levels'[i]._price, BestPrice)
                 /\ (-Worse) * (levels'[i]._price - WorstPrice) \in 1 .. LOB_DEPTH - 1
      <3>1. /\ i \in Active(levels) /\ i # worstIndex /\ levels'[i] = levels[i]
            /\ levels[i]._price % LOB_DEPTH = i
        BY <1>4, <1>10 DEF IInv, SlotCongruent
      <3>2. /\ levels[i]._price \in Nat
            /\ ~ Better(levels[i]._price, BestPrice)
            /\ ~ Better(WorstPrice, levels[i]._price)
        BY <3>1, QuotedBetween
      <3>3. /\ levels[i]._price # WorstPrice
            /\ levels[i]._price - WorstPrice < LOB_DEPTH
            /\ WorstPrice - levels[i]._price < LOB_DEPTH
        BY <3>1, <1>7, DistinctPrices DEF WorstPrice
      <3>4. (-Worse) * (levels[i]._price - WorstPrice) \in 1 .. LOB_DEPTH - 1
        BY <3>2, <3>3, <1>7, DepthAssumption DEF Better, Worse
      <3> QED
        BY <3>1, <3>2, <3>4
    <2>3. bestIndex \in Active(levels')
      BY <1>4, <1>7, <1>10
    <2>4. WorstPrice % LOB_DEPTH = index
      BY <1>7, <1>10 DEF IInv, SlotCongruent, WorstPrice
    <2>5. PICK dir \in {-1, 1} : dir = -Worse
      BY BetterIs
    <2>6. /\ worstIndex' \in Active(levels')
          /\ \A i \in Active(levels') : dir * (levels'[i]._price - levels'[worstIndex']._price) >= 0
      BY <2>1, <2>2, <2>3, <2>4, <2>5, <1>2, <1>4, <1>7, ScanFindsNext
    <2>7. BestWorstExact'
      <3>1. BestPrice' = BestPrice
        BY <2>1, <2>3, <1>4 DEF BestPrice
      <3>2. \A i \in Active(levels') : ~ Better(WorstPrice', levels'[i]._price)
        BY <2>2, <2>5, <2>6 DEF WorstPrice, Better, Worse
      <3> QED
        BY <3>1, <3>2, <2>1, <2>2, <2>3, <2>6 DEF BestWorstExact, Better
    <2>8. TypeOK' /\ EmptyAtZero'
      BY <2>1, <2>6, <1>1, <1>3, <1>4, <1>5, <1>10 DEF TypeOK, EmptyAtZero, Active
    <2> QED
      BY <2>7, <2>8, <1>4, <1>6 DEF IInv
  <1>11. CASE numOf # 1 /\ index # bestIndex /\ index # worstIndex
    <2>1. bestIndex' = bestIndex /\ worstIndex' = worstIndex
      BY <1>2, <1>11 DEF Remove
    <2>2. bestIndex \in Active(levels') /\ worstIndex \in Active(levels')
      BY <1>4, <1>7, <1>11
    <2>3. BestPrice' = BestPrice /\ WorstPrice' = WorstPrice
      BY <2>1, <2>2, <1>4 DEF BestPrice, WorstPrice
    <2>4. \A i \in Active(levels') : /\ ~ Better(levels'[i]._price, BestPrice)
                                     /\ ~ Better(WorstPrice, levels'[i]._price)
      BY <1>4, QuotedBetween
    <2>5. BestWorstExact'
      BY <2>1, <2>2, <2>3, <2>4 DEF BestWorstExact, Better
    <2>6. TypeOK' /\ EmptyAtZero'
      BY <2>1, <1>1, <1>3, <1>4, <1>5, <1>11 DEF TypeOK, EmptyAtZero
    <2> QED
      BY <2>5, <2>6, <1>4, <1>6 DEF IInv
  <1> QED
    BY <1>8, <1>9, <1>10, <1>11

LEMMA StepIInv ==
  ASSUME Spread < LOB_DEPTH
  PROVE  IInv /\ [Next]_vars => IInv'
  <1> SUFFICES ASSUME IInv, [Next]_vars PROVE IInv'
    OBVIOUS
  <1>1. CASE UNCHANGED vars
    BY <1>1 DEF vars, IInv, TypeOK, CountExact, BestWorstExact, SlotCongruent, WithinDepth,
                QuantitiesQuoted, EmptyAtZero, BestPrice, WorstPrice, Better
  <1>2. ASSUME NEW p \in Prices, RemoveLevel(p)
        PROVE  IInv'
    BY <1>1, <1>2, RemoveIInv DEF RemoveLevel, RemoveIgnored
  <1>3. ASSUME NEW p \in Prices, NEW q \in Quantities, SetLevel(p, q)
        PROVE  IInv'
    <2>1. InSpread(p)
      BY <1>3 DEF SetLevel
    <2>2. CASE AddFirst(p, q)
      BY <2>1, <2>2, AddFirstIInv
    <2>3. CASE AddToSingle(p, q)
      BY <2>1, <2>3, AddToSingleIInv
    <2>4. CASE AddInside(p, q)
      BY <2>1, <2>4, AddInsideIInv
    <2>5. CASE ExtendBest(p, q)
      BY <2>1, <2>5, ExtendBestIInv
    <2>6. CASE ExtendWorst(p, q)
      BY <2>1, <2>6, ExtendWorstIInv
    <2>7. CASE SetIgnored(p)
      BY <1>1, <2>7 DEF SetIgnored
    <2> QED
      BY <1>3, <2>2, <2>3, <2>4, <2>5, <2>6, <2>7 DEF SetLevel
  <1> QED
    BY <1>1, <1>2, <1>3 DEF Next

-----------------------------------------------------------------------------
\* The level array, the two ends and the counter of a side agree after any
\* sequence of addUpdate calls.
THEOREM SideInvariant ==
  ASSUME Spread < LOB_DEPTH
  PROVE  Spec => []IInv
  BY InitIInv, StepIInv, PTL DEF Spec

\* What getBestBidRaw() and getBestAskRaw() read is the best quoted price.
THEOREM SideBestWorstExact ==
  ASSUME Spread < LOB_DEPTH
  PROVE  Spec => []BestWorstExact
  <1>1. IInv => BestWorstExact
    BY DEF IInv
  <1> QED
    BY <1>1, SideInvariant, PTL

\* numOfBids and numOfAsks count the active levels.
THEOREM SideCountExact ==
  ASSUME Spread < LOB_DEPTH
  PROVE  Spec => []CountExact
  <1>1. IInv => CountExact
    BY DEF IInv
  <1> QED
    BY <1>1, SideInvariant, PTL

\* The early returns of addUpdate lose no withdrawal of a quoted price and no
\* update of a price between best and worst.
THEOREM SideOnlyOutsideDropped ==
  ASSUME Spread < LOB_DEPTH
  PROVE  Spec => []OnlyOutsideDropped
  <1>1. IInv => OnlyOutsideDropped
    <2> SUFFICES ASSUME IInv, NEW p \in Prices, InSpread(p)
                 PROVE  /\ p \in QuotedPrices => ~ DropsRemove(p)
                        /\ numOf = 0 \/ Inside(p) => ~ DropsSet(p)
      BY DEF OnlyOutsideDropped
    <2>1. p \in Nat
      BY PricesAssumption
    <2>2. ASSUME p \in QuotedPrices PROVE ~ DropsRemove(p)
      <3>1. PICK i \in Active(levels) : levels[i]._price = p
        BY <2>2 DEF QuotedPrices
      <3>2. numOf # 0
        BY <3>1, EmptyIffNoActive
      <3>3. priceToIndex(p) = i
        BY <3>1, <3>2, <2>1, IndexIsRemainder DEF IInv, SlotCongruent
      <3> QED
        BY <3>2, <3>3 DEF DropsRemove, Active
    <2>3. ASSUME numOf = 0 PROVE ~ DropsSet(p)
      BY <2>3 DEF DropsSet, Single, Several
    <2>4. ASSUME numOf # 0, Inside(p) PROVE ~ DropsSet(p)
      <3>1. ~ Better(p, BestPrice)
        BY <2>4 DEF Inside
      <3>2. CASE bestIndex = worstIndex
        <4>1. BestPrice \in Nat /\ p = BestPrice
          BY <3>2, <2>1, <2>4 DEF Inside, Better, BestPrice, WorstPrice, IInv, TypeOK, PriceLevel
        <4>2. SingleStep(p) = 0
          <5>1. Distance(p, BestPrice) = 0
            BY <4>1 DEF Distance
          <5>2. INT_HALF \in 0 .. (2 * INT_HALF) - 1 /\ 2 * INT_HALF \in Nat \ {0}
            BY IntAssumption, DepthAssumption
          <5>3. INT_HALF % (2 * INT_HALF) = INT_HALF
            BY <5>2, ModSmall
          <5> QED
            BY <5>1, <5>3, IntAssumption DEF SingleStep, ToInt
        <4>3. MAX_SHIFT_STEP \in Nat
          BY DepthAssumption DEF MAX_SHIFT_STEP
        <4>4. ~ (SingleStep(p) > MAX_SHIFT_STEP)
          BY <4>2, <4>3
        <4> QED
          BY <3>2, <4>4 DEF DropsSet, Several
      <3>3. CASE bestIndex # worstIndex
        BY <3>1, <3>3, <2>4 DEF DropsSet, Single
      <3> QED
        BY <3>2, <3>3
    <2> QED
      BY <2>2, <2>3, <2>4
  <1> QED
    BY <1>1, SideInvariant, PTL

-----------------------------------------------------------------------------
(***************************************************************************)
(* The side implements PriceBook: lemmas about Quotes.                     *)
(***************************************************************************)
\* Where prices are at their remainders, a quoted price names one slot.
LEMMA PriceNamesSlot ==
  ASSUME NEW lv, NEW i \in Active(lv),
         \A j \in Active(lv) : lv[j]._price % LOB_DEPTH = j
  PROVE  (CHOOSE j \in Active(lv) : lv[j]._price = lv[i]._price) = i
  <1> DEFINE c == CHOOSE j \in Active(lv) : lv[j]._price = lv[i]._price
  <1>1. c \in Active(lv) /\ lv[c]._price = lv[i]._price
    OBVIOUS
  <1> QED
    BY <1>1

\* Quotes is the quantity of each active level at the level's price.
LEMMA QuotesOfLevels ==
  ASSUME SlotCongruent
  PROVE  /\ DOMAIN Quotes = QuotedPrices
         /\ Quotes = [x \in QuotedPrices |-> Quotes[x]]
         /\ \A i \in Active(levels) : Quotes[levels[i]._price] = levels[i]._quantity
  <1>1. DOMAIN Quotes = QuotedPrices /\ Quotes = [x \in QuotedPrices |-> Quotes[x]]
    BY DEF Quotes
  <1>2. ASSUME NEW i \in Active(levels)
        PROVE  Quotes[levels[i]._price] = levels[i]._quantity
    <2>1. levels[i]._price \in QuotedPrices
      BY DEF QuotedPrices
    <2>2. (CHOOSE j \in Active(levels) : levels[j]._price = levels[i]._price) = i
      BY PriceNamesSlot DEF SlotCongruent
    <2> QED
      BY <2>1, <2>2 DEF Quotes
  <1> QED
    BY <1>1, <1>2

\* The same of the next state.
LEMMA QuotesOfNextLevels ==
  ASSUME SlotCongruent'
  PROVE  /\ DOMAIN Quotes' = QuotedPrices'
         /\ Quotes' = [x \in QuotedPrices' |-> Quotes'[x]]
         /\ \A i \in Active(levels') : Quotes'[levels'[i]._price] = levels'[i]._quantity
  <1>1. DOMAIN Quotes' = QuotedPrices' /\ Quotes' = [x \in QuotedPrices' |-> Quotes'[x]]
    BY DEF Quotes
  <1>2. ASSUME NEW i \in Active(levels')
        PROVE  Quotes'[levels'[i]._price] = levels'[i]._quantity
    <2>1. levels'[i]._price \in QuotedPrices'
      BY DEF QuotedPrices
    <2>2. (CHOOSE j \in Active(levels') : levels'[j]._price = levels'[i]._price) = i
      BY PriceNamesSlot DEF SlotCongruent
    <2> QED
      BY <2>1, <2>2 DEF Quotes
  <1> QED
    BY <1>1, <1>2

\* Quoting p at the slot of p sets the quote of p and leaves the others.
LEMMA PutQuotes ==
  ASSUME IInv, Spread < LOB_DEPTH, NEW p \in Prices, NEW q \in Quantities, InSpread(p),
         levels' = Put(p % LOB_DEPTH, p, q)
  PROVE  Quotes' = Abstract!WithQuote(p, q)
  <1> DEFINE index == p % LOB_DEPTH
  <1>1. /\ index \in Slots /\ p \in Nat
        /\ Active(levels') = Active(levels) \cup {index} /\ levels'[index]._price = p
        /\ \A i \in Active(levels) : i # index => levels'[i] = levels[i]
        /\ SlotCongruent'
        /\ index \in Active(levels) => levels[index]._price = p
    BY PutPreserves
  <1>2. levels'[index]._quantity = q
    BY <1>1 DEF Put, IInv, TypeOK
  <1>3. SlotCongruent
    BY DEF IInv
  <1> HIDE DEF index
  <1>4. QuotedPrices' = QuotedPrices \cup {p}
    BY <1>1 DEF QuotedPrices
  <1>5. ASSUME NEW x \in QuotedPrices'
        PROVE  Quotes'[x] = IF x = p THEN q ELSE Quotes[x]
    <2>1. CASE x = p
      BY <2>1, <1>1, <1>2, QuotesOfNextLevels
    <2>2. CASE x # p
      <3>1. PICK i \in Active(levels) : levels[i]._price = x
        BY <2>2, <1>4 DEF QuotedPrices
      <3>2. i # index /\ i \in Active(levels') /\ levels'[i] = levels[i]
        BY <3>1, <2>2, <1>1
      <3>3. Quotes[x] = levels[i]._quantity
        BY <3>1, <1>3, QuotesOfLevels
      <3>4. Quotes'[x] = levels'[i]._quantity
        BY <3>1, <3>2, <1>1, QuotesOfNextLevels
      <3> QED
        BY <2>2, <3>2, <3>3, <3>4
    <2> QED
      BY <2>1, <2>2
  <1>6. Abstract!WithQuote(p, q) = [x \in QuotedPrices' |-> IF x = p THEN q ELSE Quotes[x]]
    BY <1>3, <1>4, QuotesOfLevels DEF Abstract!WithQuote
  <1>7. Quotes' = [x \in QuotedPrices' |-> Quotes'[x]]
    BY <1>1, QuotesOfNextLevels
  <1> QED
    BY <1>5, <1>6, <1>7

\* Withdrawing an active slot withdraws the quote of its price and no other.
LEMMA ClearQuotes ==
  ASSUME IInv, NEW index \in Active(levels), levels' = Cleared(index)
  PROVE  /\ levels[index]._price \in DOMAIN Quotes
         /\ Quotes' = Abstract!WithoutQuote(levels[index]._price)
  <1> DEFINE p == levels[index]._price
  <1>1. /\ Active(levels') = Active(levels) \ {index}
        /\ \A i \in Active(levels') : levels'[i] = levels[i]
        /\ SlotCongruent'
    BY ClearPreserves
  <1>2. SlotCongruent
    BY DEF IInv
  <1>3. p \in QuotedPrices
    BY DEF QuotedPrices
  <1>4. \A i \in Active(levels') : levels[i]._price # p
    BY <1>1, DistinctPrices
  <1> HIDE DEF p
  <1>5. QuotedPrices' = QuotedPrices \ {p}
    BY <1>1, <1>4 DEF QuotedPrices, p
  <1>6. ASSUME NEW x \in QuotedPrices'
        PROVE  Quotes'[x] = Quotes[x]
    <2>1. PICK i \in Active(levels') : levels'[i]._price = x
      BY DEF QuotedPrices
    <2>2. i \in Active(levels) /\ levels'[i] = levels[i]
      BY <1>1
    <2>3. Quotes[x] = levels[i]._quantity
      BY <2>1, <2>2, <1>2, QuotesOfLevels
    <2>4. Quotes'[x] = levels'[i]._quantity
      BY <2>1, <1>1, QuotesOfNextLevels
    <2> QED
      BY <2>2, <2>3, <2>4
  <1>7. Abstract!WithoutQuote(p) = [x \in QuotedPrices' |-> Quotes[x]]
    BY <1>2, <1>5, QuotesOfLevels DEF Abstract!WithoutQuote
  <1>8. Quotes' = [x \in QuotedPrices' |-> Quotes'[x]]
    BY <1>1, QuotesOfNextLevels
  <1> QED
    BY <1>2, <1>3, <1>6, <1>7, <1>8, QuotesOfLevels DEF p

\* A withdrawal that changes the side withdraws the quote of its price.
LEMMA RemoveQuotes ==
  ASSUME IInv, Spread < LOB_DEPTH, NEW p \in Prices, InSpread(p), Remove(p)
  PROVE  p \in DOMAIN Quotes /\ Quotes' = Abstract!WithoutQuote(p)
  <1> DEFINE index == p % LOB_DEPTH
  <1>1. numOf # 0 /\ p \in Nat
    BY PricesAssumption DEF Remove
  <1>2. priceToIndex(p) = index /\ index \in Slots
    BY <1>1, IndexIsRemainder, RemainderIsSlot
  <1>3. index \in Active(levels) /\ levels' = Cleared(index)
    BY <1>2 DEF Remove, Active
  <1>4. levels[index]._price = p
    BY <1>1, <1>3, SlotHoldsPrice
  <1> QED
    BY <1>3, <1>4, ClearQuotes

\* An update with a quantity puts its price at the slot of its remainder,
\* whichever branch it takes, or is dropped.
LEMMA SetPuts ==
  ASSUME IInv, NEW p \in Prices, NEW q \in Quantities, SetLevel(p, q)
  PROVE  levels' = Put(p % LOB_DEPTH, p, q) \/ UNCHANGED vars
  <1>1. CASE AddFirst(p, q)
    BY <1>1 DEF AddFirst
  <1>2. p \in Nat
    BY PricesAssumption
  <1>3. numOf # 0 => priceToIndex(p) = p % LOB_DEPTH
    BY <1>2, IndexIsRemainder
  <1>4. CASE AddToSingle(p, q) \/ AddInside(p, q) \/ ExtendBest(p, q) \/ ExtendWorst(p, q)
    BY <1>3, <1>4 DEF AddToSingle, AddInside, ExtendBest, ExtendWorst, Single, Several
  <1> QED
    BY <1>1, <1>4 DEF SetLevel, SetIgnored

LEMMA SetQuotes ==
  ASSUME IInv, Spread < LOB_DEPTH, NEW p \in Prices, NEW q \in Quantities, SetLevel(p, q)
  PROVE  Quotes' = Abstract!WithQuote(p, q) \/ UNCHANGED vars
  BY SetPuts, PutQuotes DEF SetLevel

-----------------------------------------------------------------------------
\* Every addUpdate that changes a side changes the quote of its own price, to
\* what the update says, and no other quote.
THEOREM SideUpdateTakesEffect ==
  ASSUME Spread < LOB_DEPTH
  PROVE  Spec => UpdateTakesEffect
  <1> DEFINE Effect ==
        \A p \in Prices :
          /\ RemoveLevel(p) => Quotes' = Abstract!WithoutQuote(p)
          /\ \A q \in Quantities : SetLevel(p, q) => Quotes' = Abstract!WithQuote(p, q)
  <1>1. IInv /\ [Next]_vars => [Effect]_vars
    <2> SUFFICES ASSUME IInv, ~ UNCHANGED vars, NEW p \in Prices
                 PROVE  /\ RemoveLevel(p) => Quotes' = Abstract!WithoutQuote(p)
                        /\ \A q \in Quantities :
                             SetLevel(p, q) => Quotes' = Abstract!WithQuote(p, q)
      OBVIOUS
    <2>1. RemoveLevel(p) => Quotes' = Abstract!WithoutQuote(p)
      BY RemoveQuotes DEF RemoveLevel, RemoveIgnored
    <2>2. \A q \in Quantities : SetLevel(p, q) => Quotes' = Abstract!WithQuote(p, q)
      BY SetQuotes
    <2> QED
      BY <2>1, <2>2
  <1>2. Spec => [][Effect]_vars
    BY <1>1, SideInvariant, PTL DEF Spec
  <1> QED
    BY <1>2 DEF UpdateTakesEffect

\* The circular array of levels, with its indexes, shifts and scans, implements
\* a map from prices to quantities: OrderBook's addUpdate is Quote or Withdraw
\* of PriceBook, or changes no quote.
THEOREM SideImplementsPriceBook ==
  ASSUME Spread < LOB_DEPTH
  PROVE  Spec => PriceBookSpec
  <1>1. Init => Abstract!Init
    <2> SUFFICES ASSUME Init PROVE Quotes = [p \in {} |-> 0]
      BY DEF Abstract!Init, Abstract!NoQuotes
    <2>1. QuotedPrices = {}
      BY DEF Init, QuotedPrices, Active
    <2> QED
      BY <2>1 DEF Quotes
  <1>2. IInv /\ [Next]_vars => [Abstract!Next]_Quotes
    <2> SUFFICES ASSUME IInv, [Next]_vars PROVE [Abstract!Next]_Quotes
      OBVIOUS
    <2>1. CASE UNCHANGED vars
      BY <2>1 DEF vars, Quotes, QuotedPrices, Active
    <2>2. ASSUME NEW p \in Prices, RemoveLevel(p)
          PROVE  [Abstract!Next]_Quotes
      BY <2>1, <2>2, RemoveQuotes
         DEF RemoveLevel, RemoveIgnored, Abstract!Next, Abstract!Withdraw
    <2>3. ASSUME NEW p \in Prices, NEW q \in Quantities, SetLevel(p, q)
          PROVE  [Abstract!Next]_Quotes
      BY <2>1, <2>3, SetQuotes DEF Abstract!Next, Abstract!Quote
    <2> QED
      BY <2>1, <2>2, <2>3 DEF Next
  <1> QED
    BY <1>1, <1>2, SideInvariant, PTL DEF Spec, PriceBookSpec, Abstract!Spec

-----------------------------------------------------------------------------
\* A level that is not active reads as quantity 0.
Vacant == \A i \in Slots : ~ levels[i]._isActive => levels[i]._quantity = 0

\* A side that quotes nothing weighs nothing: removing a level clears its
\* quantity, so that what getBestBidQtyRaw() and getBestAskQtyRaw() read of an
\* empty side is 0.
THEOREM SideVacant ==
  ASSUME Spread < LOB_DEPTH
  PROVE  Spec => []Vacant
  <1>1. Init => Vacant
    BY DEF Init, Vacant
  <1>2. IInv /\ Vacant /\ [Next]_vars => Vacant'
    <2> SUFFICES ASSUME IInv, Vacant, [Next]_vars PROVE Vacant'
      OBVIOUS
    <2>1. levels \in [Slots -> PriceLevel]
      BY DEF IInv, TypeOK
    <2>2. CASE UNCHANGED vars
      BY <2>2 DEF vars, Vacant
    <2>3. ASSUME NEW i, levels' = Cleared(i) PROVE Vacant'
      BY <2>1, <2>3 DEF Cleared, PriceLevel, Vacant
    <2>4. ASSUME NEW i, NEW p, NEW q, levels' = Put(i, p, q) PROVE Vacant'
      BY <2>1, <2>4 DEF Put, Vacant
    <2>5. ASSUME NEW p \in Prices, RemoveLevel(p) PROVE Vacant'
      BY <2>2, <2>3, <2>5 DEF RemoveLevel, Remove, RemoveIgnored
    <2>6. ASSUME NEW p \in Prices, NEW q \in Quantities, SetLevel(p, q) PROVE Vacant'
      BY <2>2, <2>4, <2>6, SetPuts
    <2> QED
      BY <2>2, <2>5, <2>6 DEF Next
  <1> QED
    BY <1>1, <1>2, SideInvariant, PTL DEF Spec
=============================================================================
