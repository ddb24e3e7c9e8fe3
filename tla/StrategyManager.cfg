SPECIFICATION Spec
CONSTANTS
  LOB_DEPTH = 4
  INT_HALF = 8
  Prices = {3, 4, 5}
  Quantities = {1, 2}
  Spread = 3
  MID_PRICE_N = 2
  Exponents <- MCExponents
  kMomentumWindow = 2
INVARIANTS
  TypeOK
  BothSidesExact
  MidBetweenQuotes
  MicroPriceSound
  MomentumOfWindow
PROPERTY
  SidesImplementPriceBook
