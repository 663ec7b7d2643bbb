------------------------ MODULE TradeBookingService -------------------------
(***************************************************************************)
(* TradeBookingService: trades keyed on their identifier. They come from   *)
(* lines of trades.txt and, through TradeBookingToExecutionListener, from  *)
(* executions, which cycle through three books.                            *)
(***************************************************************************)
EXTENDS ExecutionService, FiniteSets

CONSTANTS
  Books,              \* names of the books a trade may be booked in
  TradeIds,           \* trade identifiers: those of the file and order ids
  FileTrades          \* the lines trades.txt may hold

VARIABLES
  trades,             \* map<string, Trade>: trade identifier -> trade
  bookingCount        \* the listener's count: executions booked so far

\* class Trade. Its price plays no part after the trade is stored.
Trades ==
  [product : ProductIds, tradeId : TradeIds, book : Books,
   quantity : Int, side : {"BUY", "SELL"}]

TradeLines ==
  [cusip : Cusips, tradeId : TradeIds, book : Books,
   quantity : Int, side : {"BUY", "SELL"}]

ASSUME TradeBookingAssumption ==
  /\ {"TRSY1", "TRSY2", "TRSY3"} \subseteq Books /\ IsFiniteSet(Books)
  /\ OrderIds \subseteq TradeIds
  /\ FileTrades \subseteq TradeLines

\* A line of trades.txt as TradeBookingConnector::Subscribe decodes it.
TradeOfLine(line) ==
  [product |-> GetBond(line.cusip), tradeId |-> line.tradeId,
   book |-> line.book, quantity |-> line.quantity, side |-> line.side]

\* The book the listener picks once its count is the given one.
BookOf(count) ==
  CASE count % 3 = 0 -> "TRSY1"
    [] count % 3 = 1 -> "TRSY2"
    [] count % 3 = 2 -> "TRSY3"

\* The trade of an execution: the order crosses the spread, so a BID order
\* sells. The count has been incremented when the book is picked.
TradeOfExecution(algoOrder) ==
  [product |-> algoOrder.product, tradeId |-> algoOrder.orderId,
   book |-> BookOf(bookingCount + 1),
   quantity |-> algoOrder.visibleQuantity + algoOrder.hiddenQuantity,
   side |-> IF algoOrder.side = "BID" THEN "SELL" ELSE "BUY"]

-----------------------------------------------------------------------------
TradeBookingTypeOK ==
  /\ IsMap(trades, TradeIds, Trades)
  /\ bookingCount \in Nat

TradeBookingInit == trades = EmptyMap /\ bookingCount = 0

\* Mutant of StoreTrade: map::insert, which keeps a value already there.
StoreTradeOnce(booked) ==
  trades' = Put(trades, booked.tradeId, At(trades, booked.tradeId, booked))

\* TradeBookingService::OnMessage, up to the notification of the listeners.
StoreTrade(booked) == trades' = Put(trades, booked.tradeId, booked)

\* Mutant of CountExecution: the count is kept within the cycle of books.
CountExecutionWraps == bookingCount' = (bookingCount + 1) % 3

\* TradeBookingToExecutionListener::ProcessAdd, up to its call of OnMessage.
CountExecution == bookingCount' = bookingCount + 1
=============================================================================
