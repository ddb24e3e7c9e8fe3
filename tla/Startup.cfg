SPECIFICATION Spec
CONSTANTS
  Headers <- MCHeaders
  DataLines <- MCDataLines
  Lower <- MCLower
  SymbolOf <- MCSymbolOf
  Traded <- MCTraded
  IDX = 4
  Latencies = {0, 1, 2, 3, 5}
  NumBuckets = 4
  kReportInterval = 2
  MaxRows = 4
  MaxUpdates = 6
INVARIANTS
  InstrumentsOfFile
  BooksApart
  StrategiesSeeTheirBook
  PercentilesBracketed
