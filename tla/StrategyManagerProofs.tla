----------------------- MODULE StrategyManagerProofs -----------------------
(***************************************************************************)
(* Proofs about StrategyManager: each side of the book behaves as BookSide *)
(* whatever the order of bids and asks, so that what BookSideProofs shows  *)
(* of a side holds of both; on that rest the prices the strategies read.   *)
(***************************************************************************)
EXTENDS StrategyManager, ModArith, FiniteSetTheorems

\* What BookSideProofs shows of a side, of the bids.
BidProofs == INSTANCE BookSideProofs WITH
  is_bid <- TRUE, levels <- bids, bestIndex <- bestBidIndex, worstIndex <- worstBidIndex, numOf <- numOfBids

\* The two instances of BookSide say the same.
LEMMA BidsSameRemove ==
  ASSUME NEW p, Bids!RemoveLevel(p)
  PROVE  BidProofs!RemoveLevel(p)
  BY DEF Bids!RemoveLevel, BidProofs!RemoveLevel, Bids!InSpread, BidProofs!InSpread,
         Bids!Distance, BidProofs!Distance, Bids!Remove, BidProofs!Remove,
         Bids!RemoveIgnored, BidProofs!RemoveIgnored,
         Bids!DropsRemove, BidProofs!DropsRemove, Bids!Active, BidProofs!Active,
         Bids!Slots, BidProofs!Slots, Bids!BestPrice, BidProofs!BestPrice,
         Bids!Cleared, BidProofs!Cleared, Bids!IsFirstActive, BidProofs!IsFirstActive,
         Bids!ScanFrom, BidProofs!ScanFrom, Bids!priceToIndex, BidProofs!priceToIndex,
         Bids!Worse, BidProofs!Worse, Bids!vars, BidProofs!vars

LEMMA BidsSameSet ==
  ASSUME NEW p, NEW q, Bids!SetLevel(p, q)
  PROVE  BidProofs!SetLevel(p, q)
  BY DEF Bids!SetLevel, BidProofs!SetLevel, Bids!InSpread, BidProofs!InSpread,
         Bids!Distance, BidProofs!Distance, Bids!AddFirst, BidProofs!AddFirst,
         Bids!AddToSingle, BidProofs!AddToSingle, Bids!AddInside, BidProofs!AddInside,
         Bids!ExtendBest, BidProofs!ExtendBest, Bids!ExtendWorst, BidProofs!ExtendWorst,
         Bids!SetIgnored, BidProofs!SetIgnored, Bids!DropsSet, BidProofs!DropsSet,
         Bids!Single, BidProofs!Single, Bids!Several, BidProofs!Several,
         Bids!Inside, BidProofs!Inside, Bids!SingleStep, BidProofs!SingleStep,
         Bids!BestStep, BidProofs!BestStep, Bids!WorstStep, BidProofs!WorstStep,
         Bids!BestOutOfReach, BidProofs!BestOutOfReach,
         Bids!WorstOutOfReach, BidProofs!WorstOutOfReach, Bids!ToInt, BidProofs!ToInt,
         Bids!Put, BidProofs!Put, Bids!priceToIndex, BidProofs!priceToIndex,
         Bids!MAX_SHIFT_STEP, BidProofs!MAX_SHIFT_STEP, Bids!BestPrice, BidProofs!BestPrice,
         Bids!WorstPrice, BidProofs!WorstPrice, Bids!Better, BidProofs!Better,
         Bids!Active, BidProofs!Active, Bids!Slots, BidProofs!Slots,
         Bids!vars, BidProofs!vars

LEMMA BidsSameInvariant == BidProofs!IInv <=> Bids!IInv
  <1>1. BidProofs!CountExact <=> Bids!CountExact
    <2>1. ASSUME NEW S PROVE Bids!Cardinality(S) = BidProofs!Cardinality(S)
      BY DEF Bids!Cardinality, BidProofs!Cardinality
    <2> QED
      BY <2>1 DEF Bids!CountExact, BidProofs!CountExact, Bids!Active, BidProofs!Active,
                 Bids!Slots, BidProofs!Slots
  <1> QED
    BY <1>1 DEF Bids!IInv, BidProofs!IInv, Bids!TypeOK, BidProofs!TypeOK,
                Bids!BestWorstExact, BidProofs!BestWorstExact,
                Bids!SlotCongruent, BidProofs!SlotCongruent,
                Bids!WithinDepth, BidProofs!WithinDepth,
                Bids!QuantitiesQuoted, BidProofs!QuantitiesQuoted,
                Bids!EmptyAtZero, BidProofs!EmptyAtZero, Bids!Active, BidProofs!Active,
                Bids!Slots, BidProofs!Slots, Bids!PriceLevel, BidProofs!PriceLevel,
                Bids!BestPrice, BidProofs!BestPrice, Bids!WorstPrice, BidProofs!WorstPrice,
                Bids!Better, BidProofs!Better, Bids!Distance, BidProofs!Distance

LEMMA BidsSamePriceBook == BidProofs!PriceBookSpec => Bids!PriceBookSpec
  <1>1. Bids!Quotes = BidProofs!Quotes /\ Bids!Quotes' = BidProofs!Quotes'
    BY DEF Bids!Quotes, BidProofs!Quotes, Bids!QuotedPrices, BidProofs!QuotedPrices,
           Bids!Active, BidProofs!Active, Bids!Slots, BidProofs!Slots
  <1>2. BidProofs!Abstract!Init => Bids!Abstract!Init
    BY <1>1 DEF Bids!Abstract!Init, BidProofs!Abstract!Init,
                Bids!Abstract!NoQuotes, BidProofs!Abstract!NoQuotes
  <1>3. [BidProofs!Abstract!Next]_(BidProofs!Quotes) => [Bids!Abstract!Next]_(Bids!Quotes)
    <2>1. ASSUME NEW p
          PROVE  BidProofs!Abstract!Withdraw(p) => Bids!Abstract!Withdraw(p)
      BY <1>1 DEF BidProofs!Abstract!Withdraw, BidProofs!Abstract!WithoutQuote,
                  Bids!Abstract!Withdraw, Bids!Abstract!WithoutQuote
    <2>2. ASSUME NEW p, NEW q
          PROVE  BidProofs!Abstract!Quote(p, q) => Bids!Abstract!Quote(p, q)
      BY <1>1 DEF BidProofs!Abstract!Quote, BidProofs!Abstract!WithQuote,
                  Bids!Abstract!Quote, Bids!Abstract!WithQuote
    <2> QED
      BY <1>1, <2>1, <2>2 DEF BidProofs!Abstract!Next, Bids!Abstract!Next
  <1> QED
    BY <1>2, <1>3, PTL
       DEF Bids!PriceBookSpec, BidProofs!PriceBookSpec, Bids!Abstract!Spec, BidProofs!Abstract!Spec

\* What BookSideProofs shows of a side, of the asks.
AskProofs == INSTANCE BookSideProofs WITH
  is_bid <- FALSE, levels <- asks, bestIndex <- bestAskIndex, worstIndex <- worstAskIndex, numOf <- numOfAsks

\* The two instances of BookSide say the same.
LEMMA AsksSameRemove ==
  ASSUME NEW p, Asks!RemoveLevel(p)
  PROVE  AskProofs!RemoveLevel(p)
  BY DEF Asks!RemoveLevel, AskProofs!RemoveLevel, Asks!InSpread, AskProofs!InSpread,
         Asks!Distance, AskProofs!Distance, Asks!Remove, AskProofs!Remove,
         Asks!RemoveIgnored, AskProofs!RemoveIgnored,
         Asks!DropsRemove, AskProofs!DropsRemove, Asks!Active, AskProofs!Active,
         Asks!Slots, AskProofs!Slots, Asks!BestPrice, AskProofs!BestPrice,
         Asks!Cleared, AskProofs!Cleared, Asks!IsFirstActive, AskProofs!IsFirstActive,
         Asks!ScanFrom, AskProofs!ScanFrom, Asks!priceToIndex, AskProofs!priceToIndex,
         Asks!Worse, AskProofs!Worse, Asks!vars, AskProofs!vars

LEMMA AsksSameSet ==
  ASSUME NEW p, NEW q, Asks!SetLevel(p, q)
  PROVE  AskProofs!SetLevel(p, q)
  BY DEF Asks!SetLevel, AskProofs!SetLevel, Asks!InSpread, AskProofs!InSpread,
         Asks!Distance, AskProofs!Distance, Asks!AddFirst, AskProofs!AddFirst,
         Asks!AddToSingle, AskProofs!AddToSingle, Asks!AddInside, AskProofs!AddInside,
         Asks!ExtendBest, AskProofs!ExtendBest, Asks!ExtendWorst, AskProofs!ExtendWorst,
         Asks!SetIgnored, AskProofs!SetIgnored, Asks!DropsSet, AskProofs!DropsSet,
         Asks!Single, AskProofs!Single, Asks!Several, AskProofs!Several,
         Asks!Inside, AskProofs!Inside, Asks!SingleStep, AskProofs!SingleStep,
         Asks!BestStep, AskProofs!BestStep, Asks!WorstStep, AskProofs!WorstStep,
         Asks!BestOutOfReach, AskProofs!BestOutOfReach,
         Asks!WorstOutOfReach, AskProofs!WorstOutOfReach, Asks!ToInt, AskProofs!ToInt,
         Asks!Put, AskProofs!Put, Asks!priceToIndex, AskProofs!priceToIndex,
         Asks!MAX_SHIFT_STEP, AskProofs!MAX_SHIFT_STEP, Asks!BestPrice, AskProofs!BestPrice,
         Asks!WorstPrice, AskProofs!WorstPrice, Asks!Better, AskProofs!Better,
         Asks!Active, AskProofs!Active, Asks!Slots, AskProofs!Slots,
         Asks!vars, AskProofs!vars

LEMMA AsksSameInvariant == AskProofs!IInv <=> Asks!IInv
  <1>1. AskProofs!CountExact <=> Asks!CountExact
    <2>1. ASSUME NEW S PROVE Asks!Cardinality(S) = AskProofs!Cardinality(S)
      BY DEF Asks!Cardinality, AskProofs!Cardinality
    <2> QED
      BY <2>1 DEF Asks!CountExact, AskProofs!CountExact, Asks!Active, AskProofs!Active,
                 Asks!Slots, AskProofs!Slots
  <1> QED
    BY <1>1 DEF Asks!IInv, AskProofs!IInv, Asks!TypeOK, AskProofs!TypeOK,
                Asks!BestWorstExact, AskProofs!BestWorstExact,
                Asks!SlotCongruent, AskProofs!SlotCongruent,
                Asks!WithinDepth, AskProofs!WithinDepth,
                Asks!QuantitiesQuoted, AskProofs!QuantitiesQuoted,
                Asks!EmptyAtZero, AskProofs!EmptyAtZero, Asks!Active, AskProofs!Active,
                Asks!Slots, AskProofs!Slots, Asks!PriceLevel, AskProofs!PriceLevel,
                Asks!BestPrice, AskProofs!BestPrice, Asks!WorstPrice, AskProofs!WorstPrice,
                Asks!Better, AskProofs!Better, Asks!Distance, AskProofs!Distance

LEMMA AsksSamePriceBook == AskProofs!PriceBookSpec => Asks!PriceBookSpec
  <1>1. Asks!Quotes = AskProofs!Quotes /\ Asks!Quotes' = AskProofs!Quotes'
    BY DEF Asks!Quotes, AskProofs!Quotes, Asks!QuotedPrices, AskProofs!QuotedPrices,
           Asks!Active, AskProofs!Active, Asks!Slots, AskProofs!Slots
  <1>2. AskProofs!Abstract!Init => Asks!Abstract!Init
    BY <1>1 DEF Asks!Abstract!Init, AskProofs!Abstract!Init,
                Asks!Abstract!NoQuotes, AskProofs!Abstract!NoQuotes
  <1>3. [AskProofs!Abstract!Next]_(AskProofs!Quotes) => [Asks!Abstract!Next]_(Asks!Quotes)
    <2>1. ASSUME NEW p
          PROVE  AskProofs!Abstract!Withdraw(p) => Asks!Abstract!Withdraw(p)
      BY <1>1 DEF AskProofs!Abstract!Withdraw, AskProofs!Abstract!WithoutQuote,
                  Asks!Abstract!Withdraw, Asks!Abstract!WithoutQuote
    <2>2. ASSUME NEW p, NEW q
          PROVE  AskProofs!Abstract!Quote(p, q) => Asks!Abstract!Quote(p, q)
      BY <1>1 DEF AskProofs!Abstract!Quote, AskProofs!Abstract!WithQuote,
                  Asks!Abstract!Quote, Asks!Abstract!WithQuote
    <2> QED
      BY <1>1, <2>1, <2>2 DEF AskProofs!Abstract!Next, Asks!Abstract!Next
  <1> QED
    BY <1>2, <1>3, PTL
       DEF Asks!PriceBookSpec, AskProofs!PriceBookSpec, Asks!Abstract!Spec, AskProofs!Abstract!Spec

-----------------------------------------------------------------------------
(***************************************************************************)
(* An update moves the side it names and no other.                         *)
(***************************************************************************)
LEMMA BidsBehave == Spec => BidProofs!Spec
  <1>1. Init => BidProofs!Init
    BY DEF Init, BookInit, Bids!Init, Bids!Slots, BidProofs!Init, BidProofs!Slots
  <1>2. [Next]_vars => [BidProofs!Next]_(BidProofs!vars)
    <2>1. ASSUME NEW u \in MarketUpdate, passUpdateToOrderbook(u)
          PROVE  [BidProofs!Next]_(BidProofs!vars)
      <3>1. CASE u._side # "BUY"
        BY <2>1, <3>1 DEF passUpdateToOrderbook, addUpdate, bidVars, BidProofs!vars
      <3>2. CASE u._side = "BUY" /\ u._quantity = 0
        <4>1. Bids!RemoveLevel(u._price) /\ u._price \in Prices
          BY <2>1, <3>2 DEF passUpdateToOrderbook, addUpdate, MarketUpdate
        <4> QED
          BY <4>1, BidsSameRemove DEF BidProofs!Next
      <3>3. CASE u._side = "BUY" /\ u._quantity # 0
        <4>1. /\ Bids!SetLevel(u._price, u._quantity)
              /\ u._price \in Prices /\ u._quantity \in Quantities
          BY <2>1, <3>3 DEF passUpdateToOrderbook, addUpdate, MarketUpdate
        <4> QED
          BY <4>1, BidsSameSet DEF BidProofs!Next
      <3> QED
        BY <3>1, <3>2, <3>3
    <2>2. CASE UNCHANGED vars
      BY <2>2 DEF vars, bookVars, bidVars, BidProofs!vars
    <2> QED
      BY <2>1, <2>2 DEF Next
  <1> QED
    BY <1>1, <1>2, PTL DEF Spec, BidProofs!Spec

LEMMA AsksBehave == Spec => AskProofs!Spec
  <1>1. Init => AskProofs!Init
    BY DEF Init, BookInit, Asks!Init, Asks!Slots, AskProofs!Init, AskProofs!Slots
  <1>2. [Next]_vars => [AskProofs!Next]_(AskProofs!vars)
    <2>1. ASSUME NEW u \in MarketUpdate, passUpdateToOrderbook(u)
          PROVE  [AskProofs!Next]_(AskProofs!vars)
      <3>1. CASE u._side # "SELL"
        BY <2>1, <3>1 DEF passUpdateToOrderbook, addUpdate, askVars, AskProofs!vars
      <3>2. CASE u._side = "SELL" /\ u._quantity = 0
        <4>1. Asks!RemoveLevel(u._price) /\ u._price \in Prices
          BY <2>1, <3>2 DEF passUpdateToOrderbook, addUpdate, MarketUpdate
        <4> QED
          BY <4>1, AsksSameRemove DEF AskProofs!Next
      <3>3. CASE u._side = "SELL" /\ u._quantity # 0
        <4>1. /\ Asks!SetLevel(u._price, u._quantity)
              /\ u._price \in Prices /\ u._quantity \in Quantities
          BY <2>1, <3>3 DEF passUpdateToOrderbook, addUpdate, MarketUpdate
        <4> QED
          BY <4>1, AsksSameSet DEF AskProofs!Next
      <3> QED
        BY <3>1, <3>2, <3>3
    <2>2. CASE UNCHANGED vars
      BY <2>2 DEF vars, bookVars, askVars, AskProofs!vars
    <2> QED
      BY <2>1, <2>2 DEF Next
  <1> QED
    BY <1>1, <1>2, PTL DEF Spec, AskProofs!Spec

\* addUpdate keeps both sides exact, whatever the order of bids and asks.
THEOREM SidesExact ==
  ASSUME Spread < LOB_DEPTH
  PROVE  Spec => []BothSidesExact
  <1>1. BidProofs!Spec => []BidProofs!IInv
    BY BookAssumption, BidProofs!SideInvariant
  <1>2. AskProofs!Spec => []AskProofs!IInv
    BY BookAssumption, AskProofs!SideInvariant
  <1>3. BidProofs!IInv /\ AskProofs!IInv => BothSidesExact
    BY BidsSameInvariant, AsksSameInvariant DEF BothSidesExact
  <1> QED
    BY <1>1, <1>2, <1>3, BidsBehave, AsksBehave, PTL

\* Each side of the book is a map from prices to quantities of which an update
\* changes one entry of one side.
THEOREM SidesArePriceBooks ==
  ASSUME Spread < LOB_DEPTH
  PROVE  Spec => SidesImplementPriceBook
  <1>1. BidProofs!Spec => BidProofs!PriceBookSpec
    BY BookAssumption, BidProofs!SideImplementsPriceBook
  <1>2. AskProofs!Spec => AskProofs!PriceBookSpec
    BY BookAssumption, AskProofs!SideImplementsPriceBook
  <1> QED
    BY <1>1, <1>2, BidsBehave, AsksBehave, BidsSamePriceBook, AsksSamePriceBook, PTL
       DEF SidesImplementPriceBook

-----------------------------------------------------------------------------
(***************************************************************************)
(* Integer division, as microPrice and the signals use it.                 *)
(***************************************************************************)
\* A quotient lies between the bounds of its dividend.
LEMMA QuotientBetween ==
  ASSUME NEW n \in Int, NEW d \in Nat \ {0}, NEW lo \in Int, NEW hi \in Int,
         lo * d <= n, n <= hi * d
  PROVE  n \div d \in Int /\ lo <= n \div d /\ n \div d <= hi
  <1> DEFINE q == n \div d
             r == n % d
  <1>1. q \in Int /\ r \in 0 .. d - 1 /\ n = d * q + r
    BY DivMod
  <1> HIDE DEF q, r
  <1>2. lo <= q
    <2> SUFFICES ASSUME q + 1 <= lo PROVE FALSE
      BY <1>1
    <2>1. d * (q + 1) <= d * lo
      BY <1>1
    <2> QED
      BY <1>1, <2>1
  <1>3. q <= hi
    <2> SUFFICES ASSUME hi + 1 <= q PROVE FALSE
      BY <1>1
    <2>1. d * (hi + 1) <= d * q
      BY <1>1
    <2> QED
      BY <1>1, <2>1
  <1> QED
    BY <1>1, <1>2, <1>3 DEF q

\* A fraction of at most one is at most 1000 thousandths: nothing to clamp.
LEMMA FractionInRange ==
  ASSUME NEW n \in Int, NEW d \in Nat \ {0}, -d <= n, n <= d
  PROVE  Clamp(Quotient(n * 1000, d)) = Quotient(n * 1000, d)
  <1>1. CASE n >= 0
    <2>1. (n * 1000) \div d \in Int /\ 0 <= (n * 1000) \div d /\ (n * 1000) \div d <= 1000
      <3>1. n * 1000 \in Int /\ 0 * d <= n * 1000 /\ n * 1000 <= 1000 * d
        BY <1>1
      <3> QED
        BY <3>1, QuotientBetween
    <2>2. n * 1000 >= 0
      BY <1>1
    <2> QED
      BY <2>1, <2>2 DEF Clamp, Quotient
  <1>2. CASE n < 0
    <2>1. /\ (-(n * 1000)) \div d \in Int
          /\ 0 <= (-(n * 1000)) \div d /\ (-(n * 1000)) \div d <= 1000
      <3>1. -(n * 1000) \in Int /\ 0 * d <= -(n * 1000) /\ -(n * 1000) <= 1000 * d
        BY <1>2
      <3> QED
        BY <3>1, QuotientBetween
    <2>2. ~ (n * 1000 >= 0)
      BY <1>2
    <2> QED
      BY <2>1, <2>2 DEF Clamp, Quotient
  <1> QED
    BY <1>1, <1>2

\* A weighted mean lies between what it is the mean of.
LEMMA MeanBetween ==
  ASSUME NEW b \in Nat, NEW a \in Nat, b <= a, NEW x \in Nat \ {0}, NEW y \in Nat \ {0}
  PROVE  b <= (a * x + b * y) \div (x + y) /\ (a * x + b * y) \div (x + y) <= a
  <1>1. a * x \in Nat /\ b * y \in Nat /\ b * x \in Nat /\ a * y \in Nat
    OBVIOUS
  <1>2. b * x <= a * x /\ b * y <= a * y
    OBVIOUS
  <1>3. b * (x + y) = b * x + b * y /\ a * (x + y) = a * x + a * y
    OBVIOUS
  <1>4. /\ b * (x + y) <= a * x + b * y
        /\ a * x + b * y <= a * (x + y)
    BY <1>1, <1>2, <1>3
  <1>5. a * x + b * y \in Int /\ x + y \in Nat \ {0}
    BY <1>1
  <1> QED
    BY <1>4, <1>5, QuotientBetween

-----------------------------------------------------------------------------
\* The counters of MicroMomentum within a window.
WindowInv ==
  /\ agg_bids_ \in Nat /\ agg_asks_ \in Nat /\ window_count_ \in 0 .. kMomentumWindow - 1
  /\ agg_bids_ + agg_asks_ = window_count_

LEMMA WindowInvariant == Spec => []WindowInv
  <1>1. Init => WindowInv
    BY WindowAssumption DEF Init, WindowInv
  <1>2. WindowInv /\ [Next]_vars => WindowInv'
    <2> SUFFICES ASSUME WindowInv, [Next]_vars PROVE WindowInv'
      OBVIOUS
    <2>1. ASSUME NEW u \in MarketUpdate, passUpdateToOrderbook(u)
          PROVE  WindowInv'
      <3>1. CountUpdate(u)
        BY <2>1 DEF passUpdateToOrderbook
      <3> QED
        BY <3>1, WindowAssumption DEF CountUpdate, CountBids, CountAsks, WindowInv
    <2>2. CASE UNCHANGED vars
      BY <2>2 DEF vars, momentumVars, WindowInv
    <2> QED
      BY <2>1, <2>2 DEF Next
  <1> QED
    BY <1>1, <1>2, PTL DEF Spec

\* The signal of MicroMomentum is the exact imbalance of the window that its
\* counters are about: the counters start again together and never outgrow it.
THEOREM MomentumIsOfWindow == Spec => []MomentumOfWindow
  <1>1. WindowInv => MomentumOfWindow
    <2> SUFFICES ASSUME WindowInv, NEW u \in MarketUpdate
                 PROVE  MicroMomentum(u) =
                          Quotient((CountBids(u) - CountAsks(u)) * 1000, kMomentumWindow)
      BY DEF MomentumOfWindow, WindowInv
    <2> DEFINE n == CountBids(u) - CountAsks(u)
    <2>1. n \in Int /\ -kMomentumWindow <= n /\ n <= kMomentumWindow
      BY WindowAssumption DEF CountBids, CountAsks, WindowInv
    <2> HIDE DEF n
    <2>2. Clamp(Quotient(n * 1000, kMomentumWindow)) = Quotient(n * 1000, kMomentumWindow)
      BY <2>1, WindowAssumption, FractionInRange
    <2> QED
      BY <2>2 DEF MicroMomentum, n
  <1> QED
    BY <1>1, WindowInvariant, PTL

\* What the strategies read of the best bid: quantity 0 means that there is none.
LEMMA BestBidRead ==
  ASSUME Bids!IInv, BidProofs!Vacant
  PROVE  /\ getBestBidRaw \in Nat /\ getBestBidQtyRaw \in Nat
         /\ numOfBids = 0 <=> getBestBidQtyRaw = 0
  <1>1. bids \in [Bids!Slots -> Bids!PriceLevel] /\ bestBidIndex \in Bids!Slots
    BY DEF Bids!IInv, Bids!TypeOK
  <1>2. CASE numOfBids = 0
    <2>1. BidProofs!Active(bids) = {}
      BY <1>2, BidsSameInvariant, BookAssumption, BidProofs!EmptyIffNoActive
    <2>2. ~ bids[bestBidIndex]._isActive
      BY <1>1, <2>1 DEF BidProofs!Active, BidProofs!Slots, Bids!Slots
    <2> QED
      BY <1>1, <1>2, <2>2 DEF BidProofs!Vacant, BidProofs!Slots, Bids!Slots, Bids!PriceLevel,
                              getBestBidRaw, getBestBidQtyRaw
  <1>3. CASE numOfBids # 0
    <2>1. bids[bestBidIndex]._quantity \in Quantities
      BY <1>3 DEF Bids!IInv, Bids!BestWorstExact, Bids!QuantitiesQuoted
    <2> QED
      BY <1>1, <1>3, <2>1, BookAssumption
         DEF Bids!PriceLevel, getBestBidRaw, getBestBidQtyRaw
  <1> QED
    BY <1>2, <1>3

\* What the strategies read of the best ask: quantity 0 means that there is none.
LEMMA BestAskRead ==
  ASSUME Asks!IInv, AskProofs!Vacant
  PROVE  /\ getBestAskRaw \in Nat /\ getBestAskQtyRaw \in Nat
         /\ numOfAsks = 0 <=> getBestAskQtyRaw = 0
  <1>1. asks \in [Asks!Slots -> Asks!PriceLevel] /\ bestAskIndex \in Asks!Slots
    BY DEF Asks!IInv, Asks!TypeOK
  <1>2. CASE numOfAsks = 0
    <2>1. AskProofs!Active(asks) = {}
      BY <1>2, AsksSameInvariant, BookAssumption, AskProofs!EmptyIffNoActive
    <2>2. ~ asks[bestAskIndex]._isActive
      BY <1>1, <2>1 DEF AskProofs!Active, AskProofs!Slots, Asks!Slots
    <2> QED
      BY <1>1, <1>2, <2>2 DEF AskProofs!Vacant, AskProofs!Slots, Asks!Slots, Asks!PriceLevel,
                              getBestAskRaw, getBestAskQtyRaw
  <1>3. CASE numOfAsks # 0
    <2>1. asks[bestAskIndex]._quantity \in Quantities
      BY <1>3 DEF Asks!IInv, Asks!BestWorstExact, Asks!QuantitiesQuoted
    <2> QED
      BY <1>1, <1>3, <2>1, BookAssumption
         DEF Asks!PriceLevel, getBestAskRaw, getBestAskQtyRaw
  <1> QED
    BY <1>2, <1>3

\* Levels that quote nothing read as quantity 0, on both sides.
BothVacant == BidProofs!Vacant /\ AskProofs!Vacant

\* The side that quotes nothing weighs nothing in the micro price, and on an
\* uncrossed book with quotes on both sides the micro price is within the
\* spread: what OrderBookImbalance divides by is never 0 when it divides.
THEOREM MicroPriceIsSound ==
  ASSUME Spread < LOB_DEPTH
  PROVE  Spec => []MicroPriceSound
  <1>1. BidProofs!Spec => []BidProofs!Vacant
    BY BookAssumption, BidProofs!SideVacant
  <1>2. AskProofs!Spec => []AskProofs!Vacant
    BY BookAssumption, AskProofs!SideVacant
  <1>3. BothSidesExact /\ BothVacant => MicroPriceSound
    <2> SUFFICES ASSUME BothSidesExact, BothVacant PROVE MicroPriceSound
      OBVIOUS
    <2>1. /\ getBestBidRaw \in Nat /\ getBestBidQtyRaw \in Nat
          /\ numOfBids = 0 <=> getBestBidQtyRaw = 0
      BY BestBidRead DEF BothSidesExact, BothVacant
    <2>2. /\ getBestAskRaw \in Nat /\ getBestAskQtyRaw \in Nat
          /\ numOfAsks = 0 <=> getBestAskQtyRaw = 0
      BY BestAskRead DEF BothSidesExact, BothVacant
    <2>3. ASSUME numOfAsks # 0, numOfBids # 0, getBestBidRaw <= getBestAskRaw
          PROVE  getBestBidRaw <= microPrice /\ microPrice <= getBestAskRaw
      <3>1. getBestBidQtyRaw \in Nat \ {0} /\ getBestAskQtyRaw \in Nat \ {0}
        BY <2>1, <2>2, <2>3
      <3> QED
        BY <2>1, <2>2, <2>3, <3>1, MeanBetween DEF microPrice
    <2> QED
      BY <2>1, <2>2, <2>3 DEF MicroPriceSound
  <1> QED
    BY <1>1, <1>2, <1>3, SidesExact, BidsBehave, AsksBehave, PTL DEF BothVacant

-----------------------------------------------------------------------------
(***************************************************************************)
(* Sums over sets of slots, as MapThenSumSet computes them.                *)
(***************************************************************************)
\* The element that the sum takes next.
Pick(s) == CHOOSE x \in s : TRUE

\* f maps every subset of S to the sum of g over it.
IsSum(f, g, S) ==
  f = [s \in SUBSET S |-> IF s = {} THEN 0 ELSE g[Pick(s)] + f[s \ {Pick(s)}]]

\* Taking an element out of a set leaves a smaller one.
LEMMA PickSmaller ==
  ASSUME NEW S, IsFiniteSet(S), NEW s \in SUBSET S
  PROVE  /\ Cardinality(s) \in Nat
         /\ Cardinality(s) <= Cardinality(S)
         /\ s = {} <=> Cardinality(s) = 0
         /\ s # {} => /\ Pick(s) \in s /\ s \ {Pick(s)} \in SUBSET S
                      /\ Cardinality(s \ {Pick(s)}) = Cardinality(s) - 1
  <1>1. IsFiniteSet(s) /\ Cardinality(s) <= Cardinality(S) 
    BY FS_Subset
  <1>2. Cardinality(s) \in Nat /\ (s = {} <=> Cardinality(s) = 0)
    BY <1>1, FS_EmptySet, FS_CardinalityType
  <1>3. s # {} => Pick(s) \in s
    BY DEF Pick
  <1>4. Pick(s) \in s => Cardinality(s \ {Pick(s)}) = Cardinality(s) - 1
    BY <1>1, FS_RemoveElement
  <1> QED
    BY <1>1, <1>2, <1>3, <1>4

\* The recursion over the subsets of a finite set has a solution: one for the
\* subsets of up to n elements extends to those of n + 1.
LEMMA SumExists ==
  ASSUME NEW S, IsFiniteSet(S), NEW g
  PROVE  \E f : IsSum(f, g, S)
  <1> DEFINE D(n) == {s \in SUBSET S : Cardinality(s) <= n}
             Sum(f, s) == IF s = {} THEN 0 ELSE g[Pick(s)] + f[s \ {Pick(s)}]
             Up(n) == \E f : f = [s \in D(n) |-> Sum(f, s)]
             T == {n \in Nat : ~ Up(n)}
  <1>1. T = {}
    <2> SUFFICES ASSUME T # {} PROVE FALSE
      OBVIOUS
    <2>1. PICK n \in T : \A m \in T : n <= m
      BY LeastNumber
    <2>2. n # 0
      <3> SUFFICES ASSUME n = 0 PROVE Up(n)
        BY <2>1
      <3>1. ASSUME NEW s \in D(n) PROVE s = {}
        <4>1. s \in SUBSET S /\ Cardinality(s) <= 0
          OBVIOUS
        <4>2. Cardinality(s) \in Nat /\ (s = {} <=> Cardinality(s) = 0)
          BY <4>1, PickSmaller
        <4> QED
          BY <4>1, <4>2
      <3> DEFINE f == [s \in D(n) |-> 0]
      <3>2. f = [s \in D(n) |-> Sum(f, s)]
        BY <3>1
      <3> QED
        BY <3>2
    <2>3. n - 1 \in Nat /\ Up(n - 1)
      <3>1. n \in Nat /\ n - 1 \in Nat
        BY <2>1, <2>2
      <3> HIDE DEF Up
      <3>2. n - 1 \in T => n <= n - 1
        BY <2>1
      <3> QED
        BY <3>1, <3>2
    <2>4. PICK f : f = [s \in D(n - 1) |-> Sum(f, s)]
      BY <2>3
    <2> DEFINE h == [s \in D(n) |-> IF Cardinality(s) <= n - 1 THEN f[s] ELSE Sum(f, s)]
    <2>5. ASSUME NEW s \in D(n) PROVE h[s] = Sum(h, s)
      <3>1. s \in SUBSET S /\ Cardinality(s) \in Nat /\ Cardinality(s) <= n /\ n \in Nat
        BY <2>1, PickSmaller
      <3>2. h[s] = Sum(f, s)
        BY <2>4, <3>1
      <3>3. CASE s = {}
        BY <3>2, <3>3
      <3>4. CASE s # {}
        <4> DEFINE t == s \ {Pick(s)}
        <4>1. t \in SUBSET S /\ Cardinality(t) = Cardinality(s) - 1
          BY <3>1, <3>4, PickSmaller
        <4>2. t \in D(n) /\ Cardinality(t) <= n - 1
          BY <4>1, <3>1
        <4>3. h[t] = f[t]
          BY <4>2
        <4> QED
          BY <3>2, <3>4, <4>3
      <3> QED
        BY <3>3, <3>4
    <2>6. h = [s \in D(n) |-> Sum(h, s)]
      <3> DEFINE k == [s \in D(n) |-> Sum(h, s)]
      <3>1. \A s \in D(n) : h[s] = k[s]
        BY <2>5
      <3> QED
        BY <3>1
    <2> QED
      BY <2>1, <2>6
  <1>2. Cardinality(S) \in Nat
    BY FS_CardinalityType
  <1>3. Up(Cardinality(S))
    BY <1>1, <1>2
  <1>4. D(Cardinality(S)) = SUBSET S
    BY PickSmaller
  <1> QED
    BY <1>3, <1>4 DEF IsSum


\* Sums of quantities and of values, by induction over the size of the subset: a
\* sum of positive numbers is 0 for the empty set only, and bounds on the price
\* of every element are bounds on the price of the whole.
LEMMA WeightedSums ==
  ASSUME NEW S, IsFiniteSet(S), NEW q, NEW v, NEW Q, NEW V, IsSum(Q, q, S), IsSum(V, v, S),
         NEW lo \in Nat, NEW hi \in Nat,
         \A x \in S : /\ q[x] \in Nat \ {0} /\ v[x] \in Nat
                      /\ lo * q[x] <= v[x] /\ v[x] <= hi * q[x]
  PROVE  /\ Q[S] \in Nat /\ V[S] \in Nat
         /\ lo * Q[S] <= V[S] /\ V[S] <= hi * Q[S]
         /\ Q[S] = 0 <=> S = {}
  <1> DEFINE P(s) == /\ Q[s] \in Nat /\ V[s] \in Nat
                     /\ lo * Q[s] <= V[s] /\ V[s] <= hi * Q[s]
                     /\ Q[s] = 0 <=> s = {}
             T == {n \in Nat : \E s \in SUBSET S : Cardinality(s) = n /\ ~ P(s)}
  <1>1. ASSUME NEW s \in SUBSET S
        PROVE  /\ s = {} => Q[s] = 0 /\ V[s] = 0
               /\ s # {} => /\ Q[s] = q[Pick(s)] + Q[s \ {Pick(s)}]
                            /\ V[s] = v[Pick(s)] + V[s \ {Pick(s)}]
    BY DEF IsSum
  <1>2. T = {}
    <2> SUFFICES ASSUME T # {} PROVE FALSE
      OBVIOUS
    <2>1. PICK n \in T : \A m \in T : n <= m
      BY LeastNumber
    <2>2. PICK s \in SUBSET S : Cardinality(s) = n /\ ~ P(s)
      BY <2>1
    <2>3. s # {}
      <3> SUFFICES ASSUME s = {} PROVE P(s)
        BY <2>2
      <3>1. Q[s] = 0 /\ V[s] = 0
        BY <1>1
      <3> QED
        BY <3>1
    <2> DEFINE x == Pick(s)
               t == s \ {x}
    <2>4. x \in S /\ t \in SUBSET S /\ Cardinality(t) = n - 1 /\ Cardinality(t) \in Nat /\ n \in Nat
      BY <2>1, <2>2, <2>3, PickSmaller
    <2>5. P(t)
      <3> HIDE DEF P
      <3>1. ~ P(t) => Cardinality(t) \in T
        BY <2>4
      <3>2. Cardinality(t) \notin T
        <4> HIDE DEF T, t
        <4>1. Cardinality(t) \in T => n <= Cardinality(t)
          BY <2>1
        <4> QED
          BY <2>4, <4>1
      <3> QED
        BY <3>1, <3>2
    <2>6. Q[s] = q[x] + Q[t] /\ V[s] = v[x] + V[t]
      BY <1>1, <2>3
    <2>7. /\ q[x] \in Nat \ {0} /\ v[x] \in Nat
          /\ lo * q[x] <= v[x] /\ v[x] <= hi * q[x]
      BY <2>4
    <2>8. PICK a \in Nat \ {0}, b \in Nat, c \in Nat, d \in Nat :
            a = q[x] /\ b = Q[t] /\ c = v[x] /\ d = V[t]
      BY <2>5, <2>7
    <2>9. lo * a <= c /\ c <= hi * a /\ lo * b <= d /\ d <= hi * b
      BY <2>5, <2>7, <2>8
    <2>10. lo * (a + b) <= c + d /\ c + d <= hi * (a + b)
      BY <2>9
    <2>11. P(s)
      <3>1. Q[s] = a + b /\ V[s] = c + d
        BY <2>6, <2>8
      <3> QED
        BY <2>10, <3>1, <2>3
    <2> QED
      BY <2>2, <2>11
  <1>3. P(S)
    <2>1. Cardinality(S) \in Nat
      BY FS_CardinalityType
    <2> HIDE DEF P
    <2> QED
      BY <1>2, <2>1
  <1> QED
    BY <1>3

\* Volume and Value of OrderBook are such sums.
LEMMA VolumeIsSum ==
  ASSUME NEW lv, NEW S, IsFiniteSet(S)
  PROVE  \E Q : IsSum(Q, [i \in S |-> lv[i]._quantity], S) /\ Volume(lv, S) = Q[S]
  <1> DEFINE g == [i \in S |-> lv[i]._quantity]
             Eq(f) == f = [s \in SUBSET S |->
                             IF s = {} THEN 0
                             ELSE lv[CHOOSE x \in s : TRUE]._quantity + f[s \ {CHOOSE x \in s : TRUE}]]
             iter == CHOOSE f : Eq(f)
  <1>1. Volume(lv, S) = iter[S]
    BY DEF Volume, MapThenSumSet, MapThenFoldSet
  <1>2. ASSUME NEW f PROVE IsSum(f, g, S) <=> Eq(f)
    <2>1. ASSUME NEW s \in SUBSET S, s # {}
          PROVE  g[Pick(s)] + f[s \ {Pick(s)}] =
                   lv[CHOOSE x \in s : TRUE]._quantity + f[s \ {CHOOSE x \in s : TRUE}]
      BY <2>1 DEF Pick
    <2> HIDE DEF g
    <2> QED
      BY <2>1 DEF IsSum
  <1>3. \E f : Eq(f)
    <2> HIDE DEF Eq, g
    <2> QED
      BY <1>2, SumExists
  <1>4. Eq(iter)
    <2> HIDE DEF Eq
    <2> QED
      BY <1>3 DEF iter
  <1> QED
    <2> HIDE DEF Eq, g
    <2>1. IsSum(iter, g, S)
      BY <1>2, <1>4
    <2> HIDE DEF iter
    <2> QED
      BY <1>1, <2>1 DEF g

LEMMA ValueIsSum ==
  ASSUME NEW lv, NEW S, IsFiniteSet(S)
  PROVE  \E V : IsSum(V, [i \in S |-> lv[i]._price * lv[i]._quantity], S) /\ Value(lv, S) = V[S]
  <1> DEFINE g == [i \in S |-> lv[i]._price * lv[i]._quantity]
             Eq(f) == f = [s \in SUBSET S |->
                             IF s = {} THEN 0
                             ELSE lv[CHOOSE x \in s : TRUE]._price * lv[CHOOSE x \in s : TRUE]._quantity
                                    + f[s \ {CHOOSE x \in s : TRUE}]]
             iter == CHOOSE f : Eq(f)
  <1>1. Value(lv, S) = iter[S]
    BY DEF Value, MapThenSumSet, MapThenFoldSet
  <1>2. ASSUME NEW f PROVE IsSum(f, g, S) <=> Eq(f)
    <2>1. ASSUME NEW s \in SUBSET S, s # {}
          PROVE  g[Pick(s)] + f[s \ {Pick(s)}] =
                   lv[CHOOSE x \in s : TRUE]._price * lv[CHOOSE x \in s : TRUE]._quantity
                     + f[s \ {CHOOSE x \in s : TRUE}]
      BY <2>1 DEF Pick
    <2> HIDE DEF g
    <2> QED
      BY <2>1 DEF IsSum
  <1>3. \E f : Eq(f)
    <2> HIDE DEF Eq, g
    <2> QED
      BY <1>2, SumExists
  <1>4. Eq(iter)
    <2> HIDE DEF Eq
    <2> QED
      BY <1>3 DEF iter
  <1> QED
    <2> HIDE DEF Eq, g
    <2>1. IsSum(iter, g, S)
      BY <1>2, <1>4
    <2> HIDE DEF iter
    <2> QED
      BY <1>1, <2>1 DEF g

-----------------------------------------------------------------------------
(***************************************************************************)
(* The mid price.                                                          *)
(***************************************************************************)
\* Every slot is some number of steps from slot i, and the first active one met
\* is among the levels of the mid price.
LEMMA TopOfSide ==
  ASSUME NEW lv, NEW i \in Int, NEW dir \in {-1, 1}
  PROVE  /\ TopLevels(lv, i, dir) \subseteq Bids!Active(lv)
         /\ IsFiniteSet(TopLevels(lv, i, dir))
         /\ Bids!Active(lv) # {} => TopLevels(lv, i, dir) # {}
  <1> DEFINE active == Bids!Active(lv)
             steps(j) == (dir * (j - i)) % LOB_DEPTH
             before(j) == {k \in active : steps(k) < steps(j)}
             top == {j \in active : Cardinality(before(j)) < MID_PRICE_N}
  <1>1. TopLevels(lv, i, dir) = top
    BY DEF TopLevels
  <1>2. active \subseteq 0 .. LOB_DEPTH - 1
    BY DEF Bids!Active, Bids!Slots
  <1>3. IsFiniteSet(top)
    <2>1. IsFiniteSet(0 .. LOB_DEPTH - 1)
      BY BookAssumption, FS_Interval
    <2>2. top \in SUBSET (0 .. LOB_DEPTH - 1)
      BY <1>2
    <2> QED
      BY <2>1, <2>2, FS_Subset
  <1>4. ASSUME NEW a \in active PROVE top # {}
    <2>1. ASSUME NEW j \in active PROVE steps(j) \in Nat
      <3>1. j \in Int /\ dir * (j - i) \in Int
        BY <1>2, BookAssumption
      <3> QED
        BY <3>1, DivMod, BookAssumption
    <2> DEFINE T == {steps(j) : j \in active}
    <2> HIDE DEF steps
    <2>2. T \in SUBSET Nat /\ steps(a) \in T
      BY <2>1
    <2>3. PICK n \in T : \A m \in T : n <= m
      BY <2>2, LeastNumber
    <2>4. PICK j \in active : n = steps(j)
      BY <2>3
    <2>5. before(j) = {}
      <3>1. \A k \in active : steps(j) <= steps(k) /\ steps(k) \in Nat /\ steps(j) \in Nat
        BY <2>1, <2>3, <2>4
      <3> QED
        BY <3>1
    <2>6. Cardinality(before(j)) < MID_PRICE_N
      BY <2>5, FS_EmptySet, BookAssumption
    <2> QED
      BY <2>4, <2>6
  <1> QED
    BY <1>1, <1>3, <1>4

\* What the levels S of a side add to the mid price.
LEMMA LevelSums ==
  ASSUME NEW lv, NEW S, IsFiniteSet(S), NEW lo \in Nat, NEW hi \in Nat,
         \A i \in S : /\ lv[i]._quantity \in Nat \ {0} /\ lv[i]._price \in Nat
                      /\ lo <= lv[i]._price /\ lv[i]._price <= hi
  PROVE  /\ Volume(lv, S) \in Nat /\ Value(lv, S) \in Nat
         /\ lo * Volume(lv, S) <= Value(lv, S) /\ Value(lv, S) <= hi * Volume(lv, S)
         /\ Volume(lv, S) = 0 <=> S = {}
  <1> DEFINE q == [i \in S |-> lv[i]._quantity]
             v == [i \in S |-> lv[i]._price * lv[i]._quantity]
  <1>1. PICK Q : IsSum(Q, q, S) /\ Volume(lv, S) = Q[S]
    BY VolumeIsSum
  <1>2. PICK V : IsSum(V, v, S) /\ Value(lv, S) = V[S]
    BY ValueIsSum
  <1>3. ASSUME NEW x \in S
        PROVE  /\ q[x] \in Nat \ {0} /\ v[x] \in Nat
               /\ lo * q[x] <= v[x] /\ v[x] <= hi * q[x]
    <2>1. PICK a \in Nat \ {0}, b \in Nat : a = lv[x]._quantity /\ b = lv[x]._price
      OBVIOUS
    <2>2. lo <= b /\ b <= hi
      BY <2>1
    <2>3. b * a \in Nat /\ lo * a <= b * a /\ b * a <= hi * a
      BY <2>2
    <2> QED
      BY <2>1, <2>3
  <1> HIDE DEF q, v
  <1> QED
    BY <1>1, <1>2, <1>3, WeightedSums

\* A level that is quoted on one of the sides.
LEMMA QuotedLevel ==
  ASSUME BothSidesExact
  PROVE  /\ \A i \in Bids!Active(bids) :
              /\ bids[i]._price \in Nat /\ bids[i]._quantity \in Nat \ {0}
              /\ bids[i] \in QuotedLevels
         /\ \A i \in Asks!Active(asks) :
              /\ asks[i]._price \in Nat /\ asks[i]._quantity \in Nat \ {0}
              /\ asks[i] \in QuotedLevels
         /\ bestBidIndex \in Int /\ bestAskIndex \in Int
         /\ Bids!Active(asks) = Asks!Active(asks)
         /\ QuotedLevels = {} <=> Bids!Active(bids) = {} /\ Asks!Active(asks) = {}
  <1>1. ASSUME NEW i \in Bids!Active(bids)
        PROVE  bids[i]._price \in Nat /\ bids[i]._quantity \in Nat \ {0}
    BY BookAssumption DEF BothSidesExact, Bids!IInv, Bids!TypeOK, Bids!PriceLevel, Bids!Active,
                          Bids!QuantitiesQuoted
  <1>2. ASSUME NEW i \in Asks!Active(asks)
        PROVE  asks[i]._price \in Nat /\ asks[i]._quantity \in Nat \ {0}
    BY BookAssumption DEF BothSidesExact, Asks!IInv, Asks!TypeOK, Asks!PriceLevel, Asks!Active,
                          Asks!QuantitiesQuoted
  <1>3. bestBidIndex \in Int /\ bestAskIndex \in Int
    BY BookAssumption DEF BothSidesExact, Bids!IInv, Bids!TypeOK, Bids!Slots,
                          Asks!IInv, Asks!TypeOK, Asks!Slots
  <1>4. Bids!Active(asks) = Asks!Active(asks)
    BY DEF Bids!Active, Asks!Active, Bids!Slots, Asks!Slots
  <1> QED
    BY <1>1, <1>2, <1>3, <1>4 DEF QuotedLevels

\* The quoted prices of a book have a least and a greatest one.
LEMMA QuotedRange ==
  ASSUME BothSidesExact, QuotedLevels # {}
  PROVE  \E l, h \in QuotedLevels :
           /\ l._price \in Nat /\ h._price \in Nat
           /\ \A x \in QuotedLevels : l._price <= x._price /\ x._price <= h._price
  <1>1. ASSUME NEW a \in Bids!Active(bids)
        PROVE  \E l, h \in QuotedLevels :
                 /\ l._price \in Nat /\ h._price \in Nat
                 /\ \A i \in Bids!Active(bids) :
                      l._price <= bids[i]._price /\ bids[i]._price <= h._price
    <2>1. ASSUME NEW i \in Bids!Active(bids)
          PROVE  /\ bestBidIndex \in Bids!Active(bids) /\ worstBidIndex \in Bids!Active(bids)
                 /\ ~ (bids[i]._price > bids[bestBidIndex]._price)
                 /\ ~ (bids[worstBidIndex]._price > bids[i]._price)
      <3>1. i \in BidProofs!Active(bids) /\ BidProofs!IInv
        BY BidsSameInvariant
           DEF BothSidesExact, Bids!Active, Bids!Slots, BidProofs!Active, BidProofs!Slots
      <3>2. /\ bestBidIndex \in BidProofs!Active(bids) /\ worstBidIndex \in BidProofs!Active(bids)
            /\ ~ BidProofs!Better(bids[i]._price, BidProofs!BestPrice)
            /\ ~ BidProofs!Better(BidProofs!WorstPrice, bids[i]._price)
        BY <3>1, BookAssumption, BidProofs!QuotedBetween
      <3> QED
        BY <3>2 DEF Bids!Active, Bids!Slots, BidProofs!Active, BidProofs!Slots,
                    BidProofs!Better, BidProofs!BestPrice, BidProofs!WorstPrice
    <2>2. ASSUME NEW i \in Bids!Active(bids)
          PROVE  /\ bids[worstBidIndex]._price <= bids[i]._price
                 /\ bids[i]._price <= bids[bestBidIndex]._price
      BY <2>1, QuotedLevel
    <2>3. /\ bids[worstBidIndex] \in QuotedLevels /\ bids[bestBidIndex] \in QuotedLevels
          /\ bids[worstBidIndex]._price \in Nat /\ bids[bestBidIndex]._price \in Nat
      BY <2>1, QuotedLevel
    <2> QED
      BY <2>2, <2>3
  <1>2. ASSUME NEW a \in Asks!Active(asks)
        PROVE  \E l, h \in QuotedLevels :
                 /\ l._price \in Nat /\ h._price \in Nat
                 /\ \A i \in Asks!Active(asks) :
                      l._price <= asks[i]._price /\ asks[i]._price <= h._price
    <2>1. ASSUME NEW i \in Asks!Active(asks)
          PROVE  /\ bestAskIndex \in Asks!Active(asks) /\ worstAskIndex \in Asks!Active(asks)
                 /\ ~ (asks[i]._price < asks[bestAskIndex]._price)
                 /\ ~ (asks[worstAskIndex]._price < asks[i]._price)
      <3>1. i \in AskProofs!Active(asks) /\ AskProofs!IInv
        BY AsksSameInvariant
           DEF BothSidesExact, Asks!Active, Asks!Slots, AskProofs!Active, AskProofs!Slots
      <3>2. /\ bestAskIndex \in AskProofs!Active(asks) /\ worstAskIndex \in AskProofs!Active(asks)
            /\ ~ AskProofs!Better(asks[i]._price, AskProofs!BestPrice)
            /\ ~ AskProofs!Better(AskProofs!WorstPrice, asks[i]._price)
        BY <3>1, BookAssumption, AskProofs!QuotedBetween
      <3> QED
        BY <3>2 DEF Asks!Active, Asks!Slots, AskProofs!Active, AskProofs!Slots,
                    AskProofs!Better, AskProofs!BestPrice, AskProofs!WorstPrice
    <2>2. ASSUME NEW i \in Asks!Active(asks)
          PROVE  /\ asks[bestAskIndex]._price <= asks[i]._price
                 /\ asks[i]._price <= asks[worstAskIndex]._price
      BY <2>1, QuotedLevel
    <2>3. /\ asks[bestAskIndex] \in QuotedLevels /\ asks[worstAskIndex] \in QuotedLevels
          /\ asks[bestAskIndex]._price \in Nat /\ asks[worstAskIndex]._price \in Nat
      BY <2>1, QuotedLevel
    <2> QED
      BY <2>2, <2>3
  <1>3. CASE Bids!Active(bids) = {}
    <2>1. Asks!Active(asks) # {}
      BY <1>3, QuotedLevel
    <2>2. PICK l, h \in QuotedLevels :
            /\ l._price \in Nat /\ h._price \in Nat
            /\ \A i \in Asks!Active(asks) :
                 l._price <= asks[i]._price /\ asks[i]._price <= h._price
      BY <1>2, <2>1
    <2>3. \A x \in QuotedLevels : \E i \in Asks!Active(asks) : x = asks[i]
      BY <1>3 DEF QuotedLevels
    <2>4. \A x \in QuotedLevels : l._price <= x._price /\ x._price <= h._price
      BY <2>2, <2>3
    <2> QED
      BY <2>2, <2>4
  <1>4. CASE Asks!Active(asks) = {}
    <2>1. Bids!Active(bids) # {}
      BY <1>4, QuotedLevel
    <2>2. PICK l, h \in QuotedLevels :
            /\ l._price \in Nat /\ h._price \in Nat
            /\ \A i \in Bids!Active(bids) :
                 l._price <= bids[i]._price /\ bids[i]._price <= h._price
      BY <1>1, <2>1
    <2>3. \A x \in QuotedLevels : \E i \in Bids!Active(bids) : x = bids[i]
      BY <1>4 DEF QuotedLevels
    <2>4. \A x \in QuotedLevels : l._price <= x._price /\ x._price <= h._price
      BY <2>2, <2>3
    <2> QED
      BY <2>2, <2>4
  <1>5. CASE Bids!Active(bids) # {} /\ Asks!Active(asks) # {}
    <2>1. PICK l1, h1 \in QuotedLevels :
            /\ l1._price \in Nat /\ h1._price \in Nat
            /\ \A i \in Bids!Active(bids) :
                 l1._price <= bids[i]._price /\ bids[i]._price <= h1._price
      BY <1>1, <1>5
    <2>2. PICK l2, h2 \in QuotedLevels :
            /\ l2._price \in Nat /\ h2._price \in Nat
            /\ \A i \in Asks!Active(asks) :
                 l2._price <= asks[i]._price /\ asks[i]._price <= h2._price
      BY <1>2, <1>5
    <2>3. PICK l \in {l1, l2} : l._price <= l1._price /\ l._price <= l2._price
      BY <2>1, <2>2
    <2>4. PICK h \in {h1, h2} : h1._price <= h._price /\ h2._price <= h._price
      BY <2>1, <2>2
    <2>5. l \in QuotedLevels /\ h \in QuotedLevels /\ l._price \in Nat /\ h._price \in Nat
      BY <2>1, <2>2, <2>3, <2>4
    <2>6. ASSUME NEW i \in Bids!Active(bids)
          PROVE  l._price <= bids[i]._price /\ bids[i]._price <= h._price
      BY <2>1, <2>3, <2>4, <2>5, QuotedLevel
    <2>7. ASSUME NEW i \in Asks!Active(asks)
          PROVE  l._price <= asks[i]._price /\ asks[i]._price <= h._price
      BY <2>2, <2>3, <2>4, <2>5, QuotedLevel
    <2> QED
      BY <2>5, <2>6, <2>7 DEF QuotedLevels
  <1> QED
    BY <1>3, <1>4, <1>5

\* getMidRaw() lies between any bounds of the quoted prices.
LEMMA MidInRange ==
  ASSUME BothSidesExact, NEW lo \in Nat, NEW hi \in Nat,
         \A x \in QuotedLevels : lo <= x._price /\ x._price <= hi
  PROVE  /\ getMidRaw \in Int
         /\ QuotedLevels = {} => getMidRaw = 0
         /\ QuotedLevels # {} => lo <= getMidRaw /\ getMidRaw <= hi
  <1>1. /\ TopBids \subseteq Bids!Active(bids) /\ IsFiniteSet(TopBids)
        /\ Bids!Active(bids) # {} => TopBids # {}
    BY QuotedLevel, TopOfSide DEF TopBids
  <1>2. /\ TopAsks \subseteq Asks!Active(asks) /\ IsFiniteSet(TopAsks)
        /\ Asks!Active(asks) # {} => TopAsks # {}
    BY QuotedLevel, TopOfSide DEF TopAsks
  <1>3. PICK B \in Nat, VB \in Nat :
          /\ B = Volume(bids, TopBids) /\ VB = Value(bids, TopBids)
          /\ lo * B <= VB /\ VB <= hi * B
          /\ B = 0 <=> TopBids = {}
    <2>1. \A i \in TopBids : /\ bids[i]._quantity \in Nat \ {0} /\ bids[i]._price \in Nat
                             /\ lo <= bids[i]._price /\ bids[i]._price <= hi
      BY <1>1, QuotedLevel
    <2> QED
      BY <1>1, <2>1, LevelSums
  <1>4. PICK A \in Nat, VA \in Nat :
          /\ A = Volume(asks, TopAsks) /\ VA = Value(asks, TopAsks)
          /\ lo * A <= VA /\ VA <= hi * A
          /\ A = 0 <=> TopAsks = {}
    <2>1. \A i \in TopAsks : /\ asks[i]._quantity \in Nat \ {0} /\ asks[i]._price \in Nat
                             /\ lo <= asks[i]._price /\ asks[i]._price <= hi
      BY <1>2, QuotedLevel
    <2> QED
      BY <1>2, <2>1, LevelSums
  <1>5. getMidRaw = IF B + A = 0 THEN 0 ELSE (VB + VA) \div (B + A)
    BY <1>3, <1>4 DEF getMidRaw
  <1>6. B + A = 0 <=> QuotedLevels = {}
    <2>1. B = 0 <=> Bids!Active(bids) = {}
      BY <1>1, <1>3
    <2>2. A = 0 <=> Asks!Active(asks) = {}
      BY <1>2, <1>4
    <2>3. B + A = 0 <=> B = 0 /\ A = 0
      OBVIOUS
    <2> QED
      BY <2>1, <2>2, <2>3, QuotedLevel
  <1>7. CASE B + A = 0
    BY <1>5, <1>6, <1>7
  <1>8. CASE B + A # 0
    <2>1. lo * (B + A) <= VB + VA /\ VB + VA <= hi * (B + A)
      <3>1. lo * (B + A) = lo * B + lo * A /\ hi * (B + A) = hi * B + hi * A
        OBVIOUS
      <3>2. PICK b \in Nat, a \in Nat, d \in Nat, c \in Nat :
              b = lo * B /\ a = lo * A /\ d = hi * B /\ c = hi * A
        OBVIOUS
      <3>3. b <= VB /\ a <= VA /\ VB <= d /\ VA <= c
        BY <3>2, <1>3, <1>4
      <3>4. b + a <= VB + VA /\ VB + VA <= d + c
        BY <3>3
      <3> QED
        BY <3>1, <3>2, <3>4
    <2>2. VB + VA \in Int /\ B + A \in Nat \ {0}
      BY <1>8
    <2>3. /\ (VB + VA) \div (B + A) \in Int
          /\ lo <= (VB + VA) \div (B + A) /\ (VB + VA) \div (B + A) <= hi
      BY <2>1, <2>2, QuotientBetween
    <2> QED
      BY <1>5, <1>6, <1>8, <2>3
  <1> QED
    BY <1>7, <1>8

\* getMidRaw() is 0 for an empty book and otherwise lies between two quoted
\* prices, for any number of levels and any quantities: a volume-weighted mean
\* of levels that are all quoted.
THEOREM MidIsBetweenQuotes ==
  ASSUME Spread < LOB_DEPTH
  PROVE  Spec => []MidBetweenQuotes
  <1>1. BothSidesExact => MidBetweenQuotes
    <2> SUFFICES ASSUME BothSidesExact PROVE MidBetweenQuotes
      OBVIOUS
    <2>1. CASE QuotedLevels = {}
      <3>1. getMidRaw = 0
        BY <2>1, MidInRange
      <3> QED
        BY <2>1, <3>1 DEF MidBetweenQuotes
    <2>2. CASE QuotedLevels # {}
      <3>1. PICK l, h \in QuotedLevels :
              /\ l._price \in Nat /\ h._price \in Nat
              /\ \A x \in QuotedLevels : l._price <= x._price /\ x._price <= h._price
        BY <2>2, QuotedRange
      <3>2. l._price <= getMidRaw /\ getMidRaw <= h._price /\ getMidRaw \in Int
        BY <2>2, <3>1, MidInRange
      <3> QED
        BY <2>2, <3>1, <3>2 DEF MidBetweenQuotes
    <2> QED
      BY <2>1, <2>2
  <1> QED
    BY <1>1, SidesExact, PTL

-----------------------------------------------------------------------------
(***************************************************************************)
(* The range of the signals.                                               *)
(***************************************************************************)
\* A signal: thousandths of the unit its strategy measures in.
Signal == -1000 .. 1000

LEMMA QuotientType ==
  ASSUME NEW a \in Int, NEW b \in Nat \ {0}
  PROVE  Quotient(a, b) \in Int
  <1>1. a \div b \in Int /\ -a \in Int
    BY DivMod
  <1>2. (-a) \div b \in Int
    BY <1>1, DivMod
  <1> QED
    BY <1>1, <1>2 DEF Quotient

LEMMA ClampRange ==
  ASSUME NEW x \in Int
  PROVE  Clamp(x) \in Signal
  BY DEF Clamp, Signal

\* A clamped quotient is a signal, whatever it is a quotient of.
LEMMA ClampedQuotient ==
  ASSUME NEW a \in Int, NEW b \in Nat \ {0}
  PROVE  Clamp(Quotient(a, b)) \in Signal
  <1>1. PICK q \in Int : q = Quotient(a, b)
    BY QuotientType
  <1>2. Clamp(q) \in Signal
    BY ClampRange
  <1> QED
    BY <1>1, <1>2

LEMMA BestRawTypes ==
  ASSUME BothSidesExact
  PROVE  /\ getBestBidRaw \in Nat /\ getBestBidQtyRaw \in Nat
         /\ getBestAskRaw \in Nat /\ getBestAskQtyRaw \in Nat
  <1>1. bids \in [Bids!Slots -> Bids!PriceLevel] /\ bestBidIndex \in Bids!Slots
    BY DEF BothSidesExact, Bids!IInv, Bids!TypeOK
  <1>2. asks \in [Asks!Slots -> Asks!PriceLevel] /\ bestAskIndex \in Asks!Slots
    BY DEF BothSidesExact, Asks!IInv, Asks!TypeOK
  <1>3. getBestBidRaw \in Nat /\ getBestBidQtyRaw \in Nat
    BY <1>1 DEF getBestBidRaw, getBestBidQtyRaw, Bids!PriceLevel
  <1>4. getBestAskRaw \in Nat /\ getBestAskQtyRaw \in Nat
    BY <1>2 DEF getBestAskRaw, getBestAskQtyRaw, Asks!PriceLevel
  <1> QED
    BY <1>3, <1>4

\* A deviation is a signal, whatever the book.
LEMMA DeviationRange ==
  ASSUME BothSidesExact, NEW x \in Int, NEW mid \in Int
  PROVE  Deviation(x, mid) \in Signal
  <1> DEFINE spread == getBestAskRaw - getBestBidRaw
  <1>1. spread \in Int
    BY BestRawTypes
  <1>2. Deviation(x, mid) =
          IF spread <= 0 THEN 0 ELSE Clamp(Quotient((x - mid) * 1000, 3 * spread))
    BY DEF Deviation
  <1> HIDE DEF spread
  <1>3. ASSUME ~ (spread <= 0)
        PROVE  Clamp(Quotient((x - mid) * 1000, 3 * spread)) \in Signal
    <2>1. PICK a \in Int, b \in Nat \ {0} : a = (x - mid) * 1000 /\ b = 3 * spread
      BY <1>1, <1>3
    <2>2. Clamp(Quotient(a, b)) \in Signal
      BY ClampedQuotient
    <2> QED
      BY <2>1, <2>2
  <1>4. 0 \in Signal
    BY DEF Signal
  <1> QED
    BY <1>2, <1>3, <1>4

\* The two strategies that read the book give signals.
BookSignals ==
  /\ \A u \in MarketUpdate : MidPriceReversion(u) \in Signal
  /\ OrderBookImbalance \in Signal

LEMMA BookSignalsRange == BothSidesExact => BookSignals
  <1> SUFFICES ASSUME BothSidesExact PROVE BookSignals
    OBVIOUS
  <1>1. getMidRaw \in Int
    <2>1. CASE QuotedLevels = {}
      BY <2>1, MidInRange
    <2>2. CASE QuotedLevels # {}
      BY <2>2, QuotedRange, MidInRange
    <2> QED
      BY <2>1, <2>2
  <1>2. ASSUME NEW u \in MarketUpdate PROVE MidPriceReversion(u) \in Signal
    <2>1. u._price \in Prices
      BY DEF MarketUpdate
    <2>2. \A p \in Prices : p \in Int
      BY BookAssumption
    <2>3. \A p \in Prices : Deviation(p, getMidRaw) \in Signal
      BY <1>1, <2>2, DeviationRange
    <2> QED
      BY <2>1, <2>3 DEF MidPriceReversion
  <1>3. OrderBookImbalance \in Signal
    <2>1. PICK a \in Nat, b \in Nat, x \in Nat, y \in Nat :
            /\ a = getBestAskRaw /\ b = getBestBidRaw
            /\ x = getBestBidQtyRaw /\ y = getBestAskQtyRaw
      BY BestRawTypes
    <2>2. CASE x + y = 0
      BY <2>1, <2>2 DEF OrderBookImbalance, Signal
    <2>3. CASE x + y # 0
      <3>1. a * x + b * y \in Int /\ x + y \in Nat \ {0}
        BY <2>3
      <3>2. (a * x + b * y) \div (x + y) \in Int
        BY <3>1, DivMod
      <3>3. microPrice \in Int
        BY <2>1, <3>2 DEF microPrice
      <3>4. Deviation(microPrice, getMidRaw) \in Signal
        BY <1>1, <3>3, DeviationRange
      <3>5. OrderBookImbalance = Deviation(microPrice, getMidRaw)
        BY <2>1, <2>3 DEF OrderBookImbalance
      <3> QED
        BY <3>4, <3>5
    <2> QED
      BY <2>2, <2>3
  <1> QED
    BY <1>2, <1>3 DEF BookSignals

LEMMA MomentumRange ==
  ASSUME WindowInv, NEW u \in MarketUpdate
  PROVE  MicroMomentum(u) \in Signal
  <1>1. PICK a \in Int : a = (CountBids(u) - CountAsks(u)) * 1000
    BY DEF WindowInv, CountBids, CountAsks
  <1>2. Clamp(Quotient(a, kMomentumWindow)) \in Signal
    BY WindowAssumption, ClampedQuotient
  <1> QED
    BY <1>1, <1>2 DEF MicroMomentum

\* What the strategies put on the signals queue is between -1000 and 1000 after
\* every update of every book, and no counter leaves its range.
THEOREM SignalsInRange ==
  ASSUME Spread < LOB_DEPTH
  PROVE  Spec => []TypeOK
  <1> DEFINE SignalInv == exp_set_ \in BOOLEAN /\ signals \in Seq(Signal)
  <1>1. Init => SignalInv
    <2> SUFFICES ASSUME Init PROVE SignalInv
      OBVIOUS
    <2>1. exp_set_ \in BOOLEAN
      BY DEF Init, BookInit
    <2>2. signals = << >>
      BY DEF Init
    <2>3. << >> \in Seq(Signal)
      OBVIOUS
    <2> QED
      BY <2>1, <2>2, <2>3
  <1>2. BothSidesExact' => BookSignals'
    BY BookSignalsRange, PTL
  <1>3. SignalInv /\ WindowInv /\ BothSidesExact' /\ [Next]_vars => SignalInv'
    <2> SUFFICES ASSUME SignalInv, WindowInv, BothSidesExact', [Next]_vars PROVE SignalInv'
      OBVIOUS
    <2>1. ASSUME NEW u \in MarketUpdate, passUpdateToOrderbook(u)
          PROVE  SignalInv'
      <3>1. exp_set_' \in BOOLEAN
        BY <2>1 DEF passUpdateToOrderbook, addUpdate, LatchExponents, expVars
      <3>2. signals' = <<MidPriceReversion(u)', OrderBookImbalance', MicroMomentum(u)>>
        BY <2>1 DEF passUpdateToOrderbook
      <3>3. MicroMomentum(u) \in Signal
        BY MomentumRange
      <3>4. MidPriceReversion(u)' \in Signal /\ OrderBookImbalance' \in Signal
        BY <1>2 DEF BookSignals
      <3>5. signals' \in Seq(Signal)
        BY <3>2, <3>3, <3>4
      <3> QED
        BY <3>1, <3>5
    <2>2. CASE UNCHANGED vars
      BY <2>2 DEF vars, bookVars, expVars
    <2> QED
      BY <2>1, <2>2 DEF Next
  <1>4. SignalInv /\ WindowInv /\ BothSidesExact => TypeOK
    BY DEF TypeOK, WindowInv, BothSidesExact, Bids!IInv, Asks!IInv, Signal
  <1> QED
    BY <1>1, <1>3, <1>4, WindowInvariant, SidesExact, PTL DEF Spec
=============================================================================
