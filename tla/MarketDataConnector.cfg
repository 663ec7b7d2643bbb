SPECIFICATION Spec
CONSTANTS
  Bonds <- MCBonds
  Cusips <- MCCusips
  BookDepth = 2
  MarketDataLines <- MCMarketDataLines
  MaxLines = 8
  Null = Null
INVARIANTS
  TypeOK
  BooksAreRunsOfLines
CHECK_DEADLOCK FALSE
