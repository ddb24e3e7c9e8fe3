------------------------------ MODULE BookSide ------------------------------
(***************************************************************************)
(* One side of an OrderBook (include/market_data/order_book/order_book.h): *)
(* a circular array of LOB_DEPTH price levels in which a price sits at a   *)
(* slot relative to the slot of the best price, higher slots (cyclically)  *)
(* for higher prices on both sides.  The code spells the bid and the ask   *)
(* side out; they differ in which price is the better one and in which     *)
(* direction slots get worse, and is_bid chooses between them here.        *)
(*                                                                         *)
(* The code does not compare the price of an update with the price its     *)
(* slot holds.  Spread is the feed's part of the bargain: an update's      *)
(* price is at most Spread ticks from every price its side quotes.  A      *)
(* Spread below LOB_DEPTH is what the array was sized for; a larger one    *)
(* lets prices share slots.                                                *)
(***************************************************************************)
EXTENDS Integers, FiniteSets

CONSTANTS is_bid,       \* TRUE for bids, FALSE for asks
          LOB_DEPTH,    \* levels of the array
          INT_HALF,     \* 2^31: what static_cast<int> of a step wraps around
          Prices,       \* raw prices the feed uses
          Quantities,   \* raw quantities the feed uses, without 0
          Spread        \* how far an update is from the quotes of its side

ASSUME SideAssumption == is_bid \in BOOLEAN
ASSUME DepthAssumption == LOB_DEPTH \in Nat \ {0}
ASSUME IntAssumption == INT_HALF \in Nat /\ LOB_DEPTH <= INT_HALF
ASSUME PricesAssumption == Prices \subseteq Nat
ASSUME QuantitiesAssumption == Quantities \subseteq Nat \ {0}
ASSUME SpreadAssumption == Spread \in Nat

VARIABLES levels, bestIndex, worstIndex, numOf

vars == <<levels, bestIndex, worstIndex, numOf>>

MAX_SHIFT_STEP == LOB_DEPTH \div 4

Slots == 0 .. LOB_DEPTH - 1

PriceLevel == [_price : Nat, _quantity : Nat, _isActive : BOOLEAN]

Init ==
  /\ levels = [i \in Slots |-> [_price |-> 0, _quantity |-> 0, _isActive |-> FALSE]]
  /\ bestIndex = 0
  /\ worstIndex = 0
  /\ numOf = 0

-----------------------------------------------------------------------------
\* Mutant of Better: bids ordered as asks.
BetterAsOnAsks(p, r) == p < r

\* p is a better price than r on this side.
Better(p, r) == IF is_bid THEN p > r ELSE p < r

\* The direction in which slots get worse.
Worse == IF is_bid THEN -1 ELSE 1

Distance(p, r) == IF p < r THEN r - p ELSE p - r

\* static_cast<int> of a 64-bit difference.
ToInt(d) == ((d + INT_HALF) % (2 * INT_HALF)) - INT_HALF

BestPrice == levels[bestIndex]._price
WorstPrice == levels[worstIndex]._price

Active(lv) == {i \in Slots : lv[i]._isActive}

priceToIndex(p) == (bestIndex + (p - BestPrice)) % LOB_DEPTH

\* The assumption on the feed.
InSpread(p) == \A i \in Active(levels) : Distance(p, levels[i]._price) <= Spread

\* Mutants of Put and Cleared: a member of the level is not assigned.
PutKeepsPrice(i, p, q) == [levels EXCEPT ![i]._quantity = q, ![i]._isActive = TRUE]
PutKeepsQuantity(i, p, q) == [levels EXCEPT ![i]._price = p, ![i]._isActive = TRUE]
ClearedKeepsQuantity(i) == [levels EXCEPT ![i]._isActive = FALSE]
ClearedStillActive(i) == [levels EXCEPT ![i]._quantity = 0]

\* levels with p quoted at slot i, and with slot i withdrawn.
Put(i, p, q) == [levels EXCEPT ![i] = [_price |-> p, _quantity |-> q, _isActive |-> TRUE]]
Cleared(i) == [levels EXCEPT ![i]._isActive = FALSE, ![i]._quantity = 0]

\* Slot c is the first active one met from slot i in direction dir.
IsFirstActive(lv, i, dir, c) ==
  \E n \in 1 .. LOB_DEPTH - 1 :
    /\ c = (i + dir * n) % LOB_DEPTH
    /\ lv[c]._isActive
    /\ \A m \in 1 .. n - 1 : ~ lv[(i + dir * m) % LOB_DEPTH]._isActive

\* Mutant of ScanFrom: the end of the side is not searched for.
ScanFromStays(lv, i, dir) == {i}

\* Where the scan from slot i in direction dir ends: it stays at i when it
\* meets no active slot.
ScanFrom(lv, i, dir) ==
  LET met == {c \in Slots : IsFirstActive(lv, i, dir, c)}
  IN  IF met = {} THEN {i} ELSE met

-----------------------------------------------------------------------------
(***************************************************************************)
(* addUpdate with quantity 0.                                              *)
(***************************************************************************)
\* Mutant of DropsRemove: off by one, the last level cannot be removed.
DropsLastRemove(p) == numOf <= 1 \/ ~ levels[priceToIndex(p)]._isActive

\* The early returns: nothing is quoted, or the slot of p is not active.
DropsRemove(p) == numOf = 0 \/ ~ levels[priceToIndex(p)]._isActive

RemoveIgnored(p) == DropsRemove(p) /\ UNCHANGED vars

Remove(p) ==
  LET index == priceToIndex(p)
      lv == Cleared(index)
  IN  /\ numOf # 0
      /\ levels[index]._isActive
      /\ levels' = lv
      /\ numOf' = numOf - 1
      /\ IF numOf = 1
           THEN bestIndex' = 0 /\ worstIndex' = 0
           ELSE IF index = bestIndex
             THEN bestIndex' \in ScanFrom(lv, index, Worse) /\ UNCHANGED worstIndex
             ELSE IF index = worstIndex
               THEN worstIndex' \in ScanFrom(lv, index, -Worse) /\ UNCHANGED bestIndex
               ELSE UNCHANGED <<bestIndex, worstIndex>>

(***************************************************************************)
(* addUpdate with another quantity: the five branches, in the code's order *)
(* (each one's guard excludes the branches before it).                     *)
(***************************************************************************)
\* The side is empty.
AddFirst(p, q) ==
  LET index == p % LOB_DEPTH
  IN  /\ numOf = 0
      /\ levels' = Put(index, p, q)
      /\ bestIndex' = index
      /\ worstIndex' = index
      /\ numOf' = numOf + 1

Single == numOf # 0 /\ bestIndex = worstIndex

SingleStep(p) == ToInt(Distance(p, BestPrice))

\* Best and worst are one slot: p becomes the best, the worst or replaces it.
AddToSingle(p, q) ==
  LET index == priceToIndex(p)
  IN  /\ Single
      /\ SingleStep(p) <= MAX_SHIFT_STEP
      /\ levels' = Put(index, p, q)
      /\ bestIndex' = IF Better(p, BestPrice) THEN index ELSE bestIndex
      /\ worstIndex' = IF Better(BestPrice, p) THEN index ELSE worstIndex
      /\ LET other == IF bestIndex' = index THEN worstIndex' ELSE bestIndex'
         IN  numOf' = IF p # levels'[other]._price THEN numOf + 1 ELSE numOf

Several == numOf # 0 /\ bestIndex # worstIndex

Inside(p) == ~ Better(p, BestPrice) /\ ~ Better(WorstPrice, p)

\* Mutant of AddInside: counts a level that is already there.
AddInsideAlwaysCounts(p, q) ==
  LET index == priceToIndex(p)
  IN  /\ Several
      /\ Inside(p)
      /\ levels' = Put(index, p, q)
      /\ numOf' = numOf + 1
      /\ UNCHANGED <<bestIndex, worstIndex>>

\* p lies between best and worst.
AddInside(p, q) ==
  LET index == priceToIndex(p)
  IN  /\ Several
      /\ Inside(p)
      /\ levels' = Put(index, p, q)
      /\ numOf' = IF levels[index]._isActive THEN numOf ELSE numOf + 1
      /\ UNCHANGED <<bestIndex, worstIndex>>

BestStep(p) == ToInt(Distance(p, BestPrice))

\* The shift of the best slot is too long or leaves the array, which it does
\* not go around.
BestOutOfReach(p) ==
  \/ BestStep(p) > MAX_SHIFT_STEP
  \/ IF is_bid THEN bestIndex + BestStep(p) >= LOB_DEPTH ELSE bestIndex - BestStep(p) < 0

\* p is a new best price.
ExtendBest(p, q) ==
  LET index == priceToIndex(p)
  IN  /\ Several
      /\ Better(p, BestPrice)
      /\ ~ BestOutOfReach(p)
      /\ levels' = Put(index, p, q)
      /\ bestIndex' = index
      /\ numOf' = numOf + 1
      /\ UNCHANGED worstIndex

WorstStep(p) == ToInt(Distance(p, WorstPrice))

WorstOutOfReach(p) ==
  \/ WorstStep(p) > MAX_SHIFT_STEP
  \/ IF is_bid THEN worstIndex - WorstStep(p) < 0 ELSE worstIndex + WorstStep(p) >= LOB_DEPTH

\* p is a new worst price.
ExtendWorst(p, q) ==
  LET index == priceToIndex(p)
  IN  /\ Several
      /\ ~ Better(p, BestPrice) /\ ~ Inside(p)
      /\ ~ WorstOutOfReach(p)
      /\ levels' = Put(index, p, q)
      /\ worstIndex' = index
      /\ numOf' = numOf + 1
      /\ UNCHANGED bestIndex

\* The early returns of the three branches that shift.
DropsSet(p) ==
  \/ Single /\ SingleStep(p) > MAX_SHIFT_STEP
  \/ Several /\ Better(p, BestPrice) /\ BestOutOfReach(p)
  \/ Several /\ ~ Better(p, BestPrice) /\ ~ Inside(p) /\ WorstOutOfReach(p)

SetIgnored(p) == DropsSet(p) /\ UNCHANGED vars

-----------------------------------------------------------------------------
RemoveLevel(p) == InSpread(p) /\ (Remove(p) \/ RemoveIgnored(p))

SetLevel(p, q) ==
  /\ InSpread(p)
  /\ \/ AddFirst(p, q)
     \/ AddToSingle(p, q)
     \/ AddInside(p, q)
     \/ ExtendBest(p, q)
     \/ ExtendWorst(p, q)
     \/ SetIgnored(p)

Next == \E p \in Prices : RemoveLevel(p) \/ \E q \in Quantities : SetLevel(p, q)

Spec == Init /\ [][Next]_vars

-----------------------------------------------------------------------------
(***************************************************************************)
(* Properties.  Those of the state and of the steps below hold for a       *)
(* Spread below LOB_DEPTH.                                                 *)
(***************************************************************************)
\* The indexes stay within the array and levels hold raw prices.
TypeOK ==
  /\ levels \in [Slots -> PriceLevel]
  /\ bestIndex \in Slots
  /\ worstIndex \in Slots
  /\ numOf \in Nat

\* numOfBids and numOfAsks, which every branch of addUpdate starts from, count
\* the active levels.
CountExact == numOf = Cardinality(Active(levels))

\* getBestBidRaw() and getBestAskRaw() return a price that is quoted and that
\* no quoted price beats; the worst index likewise marks the other end.
BestWorstExact ==
  numOf # 0 =>
    /\ bestIndex \in Active(levels) /\ worstIndex \in Active(levels)
    /\ \A i \in Active(levels) :
         /\ ~ Better(levels[i]._price, BestPrice)
         /\ ~ Better(WorstPrice, levels[i]._price)

\* A quoted price is at the slot of its remainder.
SlotCongruent == \A i \in Active(levels) : levels[i]._price % LOB_DEPTH = i

\* Quoted prices are less than LOB_DEPTH apart.
WithinDepth ==
  \A i, j \in Active(levels) : Distance(levels[i]._price, levels[j]._price) < LOB_DEPTH

\* Quoted quantities are what the feed sent, never 0.
QuantitiesQuoted == \A i \in Active(levels) : levels[i]._quantity \in Quantities

EmptyAtZero == numOf = 0 => bestIndex = 0 /\ worstIndex = 0

\* The inductive invariant of a side.
IInv ==
  /\ TypeOK
  /\ CountExact
  /\ BestWorstExact
  /\ SlotCongruent
  /\ WithinDepth
  /\ QuantitiesQuoted
  /\ EmptyAtZero

\* The quotes that the active levels stand for.
QuotedPrices == {levels[i]._price : i \in Active(levels)}

Quotes ==
  [p \in QuotedPrices |->
     levels[CHOOSE i \in Active(levels) : levels[i]._price = p]._quantity]

Abstract == INSTANCE PriceBook WITH quotes <- Quotes

\* Every addUpdate changes the quote of its own price at most.
PriceBookSpec == Abstract!Spec

\* When addUpdate changes the side, the quote of the update's price is what the
\* update says and every other quote is what it was.
UpdateTakesEffect ==
  [][\A p \in Prices :
       /\ RemoveLevel(p) => Quotes' = Abstract!WithoutQuote(p)
       /\ \A q \in Quantities : SetLevel(p, q) => Quotes' = Abstract!WithQuote(p, q)]_vars

\* addUpdate drops only prices beyond the best or the worst one: withdrawing a
\* quote, a new quantity for it, a price in between and the first price of an
\* empty side are never lost.
OnlyOutsideDropped ==
  \A p \in Prices :
    InSpread(p) =>
      /\ p \in QuotedPrices => ~ DropsRemove(p)
      /\ numOf = 0 \/ Inside(p) => ~ DropsSet(p)

(***************************************************************************)
(* What the repository's tests and documents say and the code does not do. *)
(***************************************************************************)
\* RemoveNonExistentLevelIsNoop: withdrawing a price that is not in the book
\* changes nothing.  Holds for a Spread below LOB_DEPTH, not for a larger one.
RemoveAbsentIsNoop ==
  [][\A p \in Prices : RemoveLevel(p) /\ p \notin QuotedPrices => UNCHANGED vars]_vars

\* docs/architecture.md: updates more than MAX_SHIFT_STEP raw ticks outside the
\* current window are dropped.  Fails where the step does not fit an int.
BeyondRangeIsDropped ==
  \A p \in Prices :
    /\ numOf # 0 /\ InSpread(p)
    /\ \/ Better(p, BestPrice) /\ Distance(p, BestPrice) > MAX_SHIFT_STEP
       \/ Better(WorstPrice, p) /\ Distance(p, WorstPrice) > MAX_SHIFT_STEP
    => DropsSet(p)
=============================================================================
