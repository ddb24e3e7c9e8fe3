SPECIFICATION CSVSpec
CONSTANTS
  block_len = 3
  BOM <- MCBOM
  Files <- MCFiles
  MayThrow = TRUE
  MaxLen = 10
  MaxMixed = 5
INVARIANTS
  LinesExact
  BlockExclusive
PROPERTY
  ReaderEnds
