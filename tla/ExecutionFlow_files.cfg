SPECIFICATION Spec
CONSTANTS
  Bonds <- MCBonds
  Cusips <- MCCusips
  Books <- MCBooks
  OrderIds <- MCOrderIds
  TradeIds <- MCTradeIds
  FileTrades <- MCFileTrades
  OrderBooks <- MCOrderBooks
  UnsetOrders <- MCUnsetOrders
  StaleBidOffers <- MCStaleBidOffers
  MaxTrades = 2
  MaxBooks = 3
  Null = Null
INVARIANTS
  TypeOK
  ArgumentsCurrent
  PositionsReconcile
  PositionsWithinInput
  RiskMatchesPosition
  PositionsFileReflectsMemory
  RiskFileExplainsPositionsFile
  FilesInStep
  ExecutionsFileExplainsPositionsFile
  CountersInStep
  LastOrdersAgree
  AggressesTopOfBook
PROPERTIES
  StoredTradesMovePositions
  EndsWithCompleteFiles
  ImplementsLedger
CHECK_DEADLOCK FALSE
