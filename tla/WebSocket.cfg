SPECIFICATION Spec
CONSTANTS
  LEN_7BIT = 2
  LEN_16BIT = 10
  MAX_FRAME_SIZE = 8
  RESPONSE_LEN = 5
  UPGRADE_END = 3
  ResponsePieces = {2, 5}
  Frames <- MCFrames
  MaxFrames = 3
INVARIANTS
  ResourcesReleased
  HeadAtBoundary
  HandedInOrder
  PingsAnswered
PROPERTY
  ArrivedIsHanded
CHECK_DEADLOCK FALSE
