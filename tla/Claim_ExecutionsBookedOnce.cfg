SPECIFICATION Spec
CONSTANTS
  Bonds <- MCBonds
  Cusips <- MCCusips
  Books <- MCBooks
  OrderIds <- MCOrderIds
  TradeIds <- MCTradeIds
  FileTrades <- MCFileTrades
  OrderBooks <- MCOrderBooks
  UnsetOrders <- MCUnsetOrders
  StaleBidOffers <- MCStaleBidOffers
  MaxTrades = 2
  MaxBooks = 3
  Null = Null
INVARIANTS
  ExecutionsBookedOnce
CHECK_DEADLOCK FALSE
