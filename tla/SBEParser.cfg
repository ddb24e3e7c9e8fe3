SPECIFICATION ParseSpec
CONSTANTS
  Messages <- MCMessages
  MaxMessages = 3
  KnownSymbols = {"btc", "eth"}
INVARIANTS
  TypeOK
  CursorAtBoundary
  WholeMessagesOnly
PROPERTY
  ParseEnds
CHECK_DEADLOCK FALSE
