SPECIFICATION Spec
CONSTANTS
  Bonds <- MCBonds
  Cusips <- MCCusips
  Books <- MCBooks
  OrderIds <- MCOrderIds
  TradeIds <- MCTradeIds
  FileTrades <- MCFileTrades
  OrderBooks <- MCOrderBooks
  UnsetOrders <- MCUnsetOrders
  StaleBidOffers <- MCStaleBidOffers
  MaxTrades = 0
  MaxBooks = 3
  Null = Null
INVARIANTS
  AggressesTightSpreadOnly
CHECK_DEADLOCK FALSE
