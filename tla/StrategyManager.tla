-------------------------- MODULE StrategyManager --------------------------
(***************************************************************************)
(* One instrument as the OBM thread drives it                              *)
(* (OrderBookManager::passUpdateToOrderbook): its OrderBook, then the      *)
(* three strategies main.cpp registers for it, in that order, each of      *)
(* which reads the updated book and puts one signal on the signals queue   *)
(* (StrategyManager::onMarketData).                                        *)
(***************************************************************************)
EXTENDS OrderBook, Sequences

CONSTANT kMomentumWindow   \* updates per window of MicroMomentum

ASSUME WindowAssumption == kMomentumWindow \in Nat \ {0}

VARIABLES agg_bids_, agg_asks_, window_count_,   \* MicroMomentum
          signals   \* what the last update put on the signals queue

momentumVars == <<agg_bids_, agg_asks_, window_count_>>
vars == <<bookVars, momentumVars, signals>>

Init ==
  /\ BookInit
  /\ agg_bids_ = 0 /\ agg_asks_ = 0 /\ window_count_ = 0
  /\ signals = << >>

\* Integer division of C++, which truncates towards 0 (b > 0).
Quotient(a, b) == IF a >= 0 THEN a \div b ELSE -((-a) \div b)

Clamp(x) == IF x < -1000 THEN -1000 ELSE IF x > 1000 THEN 1000 ELSE x

\* How far x is from the mid price, in thousandths of three spreads; no signal
\* on a locked or crossed book.
Deviation(x, mid) ==
  LET spread == getBestAskRaw - getBestBidRaw
  IN  IF spread <= 0 THEN 0 ELSE Clamp(Quotient((x - mid) * 1000, 3 * spread))

MidPriceReversion(u) == Deviation(u._price, getMidRaw)

microPrice ==
  (getBestAskRaw * getBestBidQtyRaw + getBestBidRaw * getBestAskQtyRaw)
    \div (getBestBidQtyRaw + getBestAskQtyRaw)

OrderBookImbalance ==
  IF getBestBidQtyRaw + getBestAskQtyRaw = 0 THEN 0 ELSE Deviation(microPrice, getMidRaw)

\* Counts of MicroMomentum with u in them.
CountBids(u) == IF u._side = "BUY" THEN agg_bids_ + 1 ELSE agg_bids_
CountAsks(u) == IF u._side = "BUY" THEN agg_asks_ ELSE agg_asks_ + 1

MicroMomentum(u) ==
  Clamp(Quotient((CountBids(u) - CountAsks(u)) * 1000, kMomentumWindow))

\* Mutants of CountUpdate: the window never ends, or ends without the counts
\* being reset.
CountUpdateNoReset(u) ==
  /\ agg_bids_' = CountBids(u)
  /\ agg_asks_' = CountAsks(u)
  /\ window_count_' = window_count_ + 1

CountUpdateKeepsCounts(u) ==
  /\ agg_bids_' = CountBids(u)
  /\ agg_asks_' = CountAsks(u)
  /\ window_count_' = (window_count_ + 1) % kMomentumWindow

\* The counters start again at the end of a window.
CountUpdate(u) ==
  IF window_count_ + 1 >= kMomentumWindow
    THEN agg_bids_' = 0 /\ agg_asks_' = 0 /\ window_count_' = 0
    ELSE /\ agg_bids_' = CountBids(u)
         /\ agg_asks_' = CountAsks(u)
         /\ window_count_' = window_count_ + 1

\* The book first, then the strategies on the updated book.
passUpdateToOrderbook(u) ==
  /\ addUpdate(u)
  /\ CountUpdate(u)
  /\ signals' = <<MidPriceReversion(u)', OrderBookImbalance', MicroMomentum(u)>>

Next == \E u \in MarketUpdate : passUpdateToOrderbook(u)

Spec == Init /\ [][Next]_vars

-----------------------------------------------------------------------------
(***************************************************************************)
(* Properties, for a Spread below LOB_DEPTH.                               *)
(***************************************************************************)
\* Both sides and the strategies' counters have their types, and the signals
\* are what docs/strategies.md promises: thousandths from -1000 to 1000.
TypeOK ==
  /\ Bids!TypeOK /\ Asks!TypeOK
  /\ exp_set_ \in BOOLEAN
  /\ agg_bids_ \in Nat /\ agg_asks_ \in Nat /\ window_count_ \in 0 .. kMomentumWindow - 1
  /\ signals \in Seq(-1000 .. 1000)

\* addUpdate keeps both sides exact, whatever the order of bids and asks.
BothSidesExact == Bids!IInv /\ Asks!IInv

QuotedLevels == {bids[i] : i \in Bids!Active(bids)} \cup {asks[i] : i \in Asks!Active(asks)}

\* getMidRaw() is 0 for an empty book and else lies between quoted prices.
MidBetweenQuotes ==
  IF QuotedLevels = {}
    THEN getMidRaw = 0
    ELSE /\ \E l \in QuotedLevels : l._price <= getMidRaw
         /\ \E l \in QuotedLevels : l._price >= getMidRaw

\* The side that quotes nothing reads as quantity 0, so that it weighs nothing
\* in the micro price; with quotes on both sides of an uncrossed book the micro
\* price of OrderBookImbalance lies within the spread.
MicroPriceSound ==
  /\ numOfAsks = 0 <=> getBestAskQtyRaw = 0
  /\ numOfBids = 0 <=> getBestBidQtyRaw = 0
  /\ numOfAsks # 0 /\ numOfBids # 0 /\ getBestBidRaw <= getBestAskRaw =>
       getBestBidRaw <= microPrice /\ microPrice <= getBestAskRaw

\* The counters of MicroMomentum are those of one window, so that its signal is
\* the exact imbalance of the window and is never cut off.
MomentumOfWindow ==
  /\ agg_bids_ + agg_asks_ = window_count_
  /\ \A u \in MarketUpdate :
       MicroMomentum(u) = Quotient((CountBids(u) - CountAsks(u)) * 1000, kMomentumWindow)

\* Each side of the book implements the abstract book of its quotes.
SidesImplementPriceBook == Bids!PriceBookSpec /\ Asks!PriceBookSpec
=============================================================================
