SPECIFICATION Spec
CONSTANTS
  NumVenues = 1
  btc = btc
  eth = eth
  Symbols = {btc, eth}
  Frames <- MCFrames
  QueueCapacity = 2
  MaxUpdates = 3
PROPERTY
  StopEndsRun
