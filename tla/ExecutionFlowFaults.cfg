SPECIFICATION FaultsSpec
CONSTANTS
  Bonds <- MCBonds
  Cusips <- MCCusips
  Books <- MCBooks
  OrderIds <- MCOrderIds
  TradeIds <- MCTradeIds
  FileTrades <- MCFileTrades
  OrderBooks <- MCOrderBooks
  UnsetOrders <- NoOrders
  StaleBidOffers <- NoOrders
  MaxTrades = 1
  MaxBooks = 1
  MaxRestarts = 2
  MaxLost = 1
  Null = Null
INVARIANTS
  FaultsTypeOK
  FilesAccountForTrades
  RiskFileFollowsPositionsFile
  ExecutionsAreInPositions
PROPERTIES
  EndsDespiteFaults
CHECK_DEADLOCK FALSE
