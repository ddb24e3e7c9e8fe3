SPECIFICATION Spec
CONSTANTS
  NumVenues = 2
  btc = btc
  eth = eth
  Symbols = {btc, eth}
  Frames <- MCFrames
  QueueCapacity = 2
  MaxUpdates = 3
INVARIANTS
  TypeOK
  AppliedInFeedOrder
  NothingAbandoned
PROPERTY
  EveryUpdateApplied
