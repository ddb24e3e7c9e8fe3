SPECIFICATION Spec
CONSTANTS
  is_bid = FALSE
  LOB_DEPTH = 8
  INT_HALF = 16
  Prices = {5, 6, 7, 8, 9, 10, 11, 12, 13, 14}
  Quantities = {1}
  Spread = 9
PROPERTY
  RemoveAbsentIsNoop
