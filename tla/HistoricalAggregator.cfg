SPECIFICATION Spec
CONSTANTS
  TICK_DATA_SIZE = 3
  QueueCapacity = 2
  MaxTicks = 8
  MaxStarts = 2
INVARIANTS
  StoredInOrder
  PlainOnlyAfterFailure
  VolatilityOfRecent
PROPERTY
  QueueDrains
