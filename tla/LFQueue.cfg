SPECIFICATION Spec
CONSTANTS
  Capacity = 3
  Values = {v1, v2}
  Blank = Blank
  Torn = Torn
  Window = 3
  MaxSent = 7
INVARIANTS
  DeliveredInOrder
  SlotExclusive
  IInv
PROPERTY
  FifoSpec
