----------------------------- MODULE OrderBook -----------------------------
(***************************************************************************)
(* OrderBook (include/market_data/order_book/order_book.h): two sides,     *)
(* each an instance of BookSide, the exponents latched from the first      *)
(* update, and the volume-weighted mid price the strategies read.          *)
(***************************************************************************)
EXTENDS Integers, FiniteSets, FiniteSetsExt

CONSTANTS LOB_DEPTH, INT_HALF, Prices, Quantities, Spread,
          MID_PRICE_N,   \* levels per side that enter the mid price
          Exponents      \* pairs of price and quantity exponent of the feed

ASSUME BookAssumption ==
  /\ LOB_DEPTH \in Nat \ {0}
  /\ INT_HALF \in Nat /\ LOB_DEPTH <= INT_HALF
  /\ Prices \subseteq Nat
  /\ Quantities \subseteq Nat \ {0}
  /\ Spread \in Nat
  /\ MID_PRICE_N \in Nat \ {0}

VARIABLES bids, bestBidIndex, worstBidIndex, numOfBids,
          asks, bestAskIndex, worstAskIndex, numOfAsks,
          price_exp_, qty_exp_, exp_set_

bidVars == <<bids, bestBidIndex, worstBidIndex, numOfBids>>
askVars == <<asks, bestAskIndex, worstAskIndex, numOfAsks>>
expVars == <<price_exp_, qty_exp_, exp_set_>>
bookVars == <<bidVars, askVars, expVars>>

Bids == INSTANCE BookSide WITH
          is_bid <- TRUE, levels <- bids, bestIndex <- bestBidIndex,
          worstIndex <- worstBidIndex, numOf <- numOfBids

Asks == INSTANCE BookSide WITH
          is_bid <- FALSE, levels <- asks, bestIndex <- bestAskIndex,
          worstIndex <- worstAskIndex, numOf <- numOfAsks

BookInit ==
  /\ Bids!Init
  /\ Asks!Init
  /\ price_exp_ = 0 /\ qty_exp_ = 0 /\ exp_set_ = FALSE

\* A depth update of the feed; quantity 0 withdraws the level.
MarketUpdate ==
  [_side : {"BUY", "SELL"}, _price : Prices, _quantity : Quantities \cup {0},
   _exps : Exponents]

\* Latch exponents from the first update.
LatchExponents(u) ==
  IF exp_set_
    THEN UNCHANGED expVars
    ELSE /\ price_exp_' = u._exps[1]
         /\ qty_exp_' = u._exps[2]
         /\ exp_set_' = TRUE

addUpdate(u) ==
  /\ LatchExponents(u)
  /\ \/ /\ u._side = "SELL"
        /\ IF u._quantity = 0 THEN Asks!RemoveLevel(u._price)
                              ELSE Asks!SetLevel(u._price, u._quantity)
        /\ UNCHANGED bidVars
     \/ /\ u._side = "BUY"
        /\ IF u._quantity = 0 THEN Bids!RemoveLevel(u._price)
                              ELSE Bids!SetLevel(u._price, u._quantity)
        /\ UNCHANGED askVars

-----------------------------------------------------------------------------
(***************************************************************************)
(* What the strategies read.                                               *)
(***************************************************************************)
getBestAskRaw == asks[bestAskIndex]._price
getBestAskQtyRaw == asks[bestAskIndex]._quantity
getBestBidRaw == bids[bestBidIndex]._price
getBestBidQtyRaw == bids[bestBidIndex]._quantity

\* The first MID_PRICE_N active levels met from slot i in direction dir.
TopLevels(lv, i, dir) ==
  LET active == Bids!Active(lv)
      steps(j) == (dir * (j - i)) % LOB_DEPTH
  IN  {j \in active : Cardinality({k \in active : steps(k) < steps(j)}) < MID_PRICE_N}

TopBids == TopLevels(bids, bestBidIndex, -1)
TopAsks == TopLevels(asks, bestAskIndex, 1)

Volume(lv, S) == MapThenSumSet(LAMBDA i : lv[i]._quantity, S)

\* Mutant of Value: prices not weighted with their quantities.
ValueUnweighted(lv, S) == MapThenSumSet(LAMBDA i : lv[i]._price, S)

Value(lv, S) == MapThenSumSet(LAMBDA i : lv[i]._price * lv[i]._quantity, S)

getMidRaw ==
  LET totalVol == Volume(bids, TopBids) + Volume(asks, TopAsks)
  IN  IF totalVol = 0
        THEN 0
        ELSE (Value(bids, TopBids) + Value(asks, TopAsks)) \div totalVol
=============================================================================
