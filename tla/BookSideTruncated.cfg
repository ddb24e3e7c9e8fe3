SPECIFICATION Spec
CONSTANTS
  is_bid = FALSE
  LOB_DEPTH = 4
  INT_HALF = 4
  Prices = {1, 2, 3, 9, 10, 11}
  Quantities = {1}
  Spread = 10
INVARIANT
  BeyondRangeIsDropped
