--------------------------- MODULE ExecutionFlow ----------------------------
(***************************************************************************)
(* The flow that main.cpp wires from trades and market data to the output  *)
(* files:                                                                  *)
(*                                                                         *)
(*   trades.txt ----> TradeBooking --> Position --> Risk --> risk.txt      *)
(*                       ^                 `-------------> positions.txt   *)
(*   marketdata.txt      |                                                 *)
(*    `-> MarketData -> AlgoExecution -> Execution -> executions.txt       *)
(*                                                                         *)
(* One thread runs everything: a notification is a nested call, listeners  *)
(* are called in the order main.cpp added them, and a step of this module  *)
(* is one call up to the next one it makes. A crash may stop the program   *)
(* between any two steps; what it leaves is the three files.               *)
(***************************************************************************)
EXTENDS RiskService

CONSTANTS
  MaxTrades,        \* the most lines trades.txt holds
  MaxBooks,         \* the most order books marketdata.txt holds
  Null              \* what a local variable holds outside its scope

ASSUME BoundsAssumption == MaxTrades \in Nat /\ MaxBooks \in Nat

VARIABLES
  positionsFile,    \* lines of positions.txt, risk.txt and executions.txt,
  riskFile,         \*   as the records they are printed from
  executionsFile,
  stage,            \* which input file main is reading
  pc,               \* the call about to be made; "Main" between inputs
  returnTo,         \* where TradeBooking's notification of its listener
                    \*   returns: three callers make it
  orderBook,        \* arguments of the calls in progress: the order book,
  order,            \*   the order generated from it,
  trade,            \*   the trade being booked,
  position,         \*   the position the trade was merged into,
  pv01,             \*   and its risk
  tradesRead,       \* input consumed so far
  booksRead,
  filed,            \* history: the quantity that trades.txt ordered, and
  executed          \*   that the executions ordered, per product and book

serviceVars == <<trades, bookingCount, positions, pv01s, orderBooks,
                 algoExecutions, algoCount, executionOrders>>
fileVars    == <<positionsFile, riskFile, executionsFile>>
callVars    == <<pc, returnTo, orderBook, order, trade, position, pv01>>
inputVars   == <<stage, tradesRead, booksRead>>
historyVars == <<filed, executed>>
vars == <<serviceVars, fileVars, callVars, inputVars, historyVars>>

\* What a line of each file prints.
IsPositionLine(line) ==
  /\ line = [product |-> line.product, held |-> line.held]
  /\ line.product \in ProductIds /\ IsPosition(line.held)
IsRiskLine(line) == line \in [product : ProductIds, quantity : Int]
IsExecutionLine(line) == line \in ExecutionOrders

PositionHistory  == INSTANCE HistoricalDataService WITH file <- positionsFile
RiskHistory      == INSTANCE HistoricalDataService WITH file <- riskFile
ExecutionHistory == INSTANCE HistoricalDataService WITH file <- executionsFile

-----------------------------------------------------------------------------
Calls ==
  {"Main", "AlgoExecuteOrder", "ExecuteOrder", "ProcessExecution",
   "OnMessage", "BookTrade", "AddTrade", "AddPosition", "PersistRisk",
   "PersistPosition", "PersistExecution"}

\* In these calls an order is on its way to executions.txt.
OrderCalls == {"ExecuteOrder", "ProcessExecution", "BookTrade",
               "PersistExecution"}

\* In these calls a trade is on its way into the positions and the files.
NotifyCalls == {"OnMessage", "AddTrade", "AddPosition", "PersistRisk",
                "PersistPosition"}

Totals == [ProductIds -> [Books -> Int]]

TypeOK ==
  /\ MarketDataTypeOK /\ AlgoExecutionTypeOK /\ ExecutionTypeOK
  /\ TradeBookingTypeOK /\ PositionTypeOK /\ RiskTypeOK
  /\ PositionHistory!TypeOK(IsPositionLine)
  /\ RiskHistory!TypeOK(IsRiskLine)
  /\ ExecutionHistory!TypeOK(IsExecutionLine)
  /\ stage \in {"Trades", "Market", "Ended"}
  /\ pc \in Calls
  /\ returnTo \in {"Main", "BookTrade", "PersistExecution"}
  /\ pc = "AlgoExecuteOrder" => orderBook \in OrderBooks
  /\ (pc \in OrderCalls \/ returnTo # "Main") => order \in ExecutionOrders
  /\ (pc \in NotifyCalls \cup {"BookTrade"} \/ returnTo # "Main")
       => trade \in Trades
  /\ pc \in {"AddPosition", "PersistRisk", "PersistPosition"}
       => IsPositionLine(position)
  /\ pc = "PersistRisk" => IsRiskLine(pv01)
  /\ tradesRead \in 0..MaxTrades /\ booksRead \in 0..MaxBooks
  /\ filed \in Totals /\ executed \in Totals

Nothing == [product \in ProductIds |-> [book \in Books |-> 0]]

Init ==
  /\ MarketDataInit /\ AlgoExecutionInit /\ ExecutionInit
  /\ TradeBookingInit /\ PositionInit /\ RiskInit
  /\ PositionHistory!Init /\ RiskHistory!Init /\ ExecutionHistory!Init
  /\ stage = "Trades" /\ pc = "Main" /\ returnTo = "Main"
  /\ orderBook = Null /\ order = Null /\ trade = Null
  /\ position = Null /\ pv01 = Null
  /\ tradesRead = 0 /\ booksRead = 0
  /\ filed = Nothing /\ executed = Nothing

\* A total with the quantity of a trade added.
Ordered(totals, booked) ==
  [totals EXCEPT ![booked.product][booked.book] = @ + SignedQuantity(booked)]

-----------------------------------------------------------------------------
\* One line of trades.txt: TradeBookingConnector::Subscribe.
ReadTrade ==
  /\ pc = "Main" /\ stage = "Trades" /\ tradesRead < MaxTrades
  /\ tradesRead' = tradesRead + 1
  /\ \E line \in FileTrades :
       /\ trade' = TradeOfLine(line)
       /\ filed' = Ordered(filed, trade')
  /\ pc' = "OnMessage"
  /\ UNCHANGED <<serviceVars, fileVars, returnTo, orderBook, order, position,
                 pv01, stage, booksRead, executed>>

\* The end of trades.txt: main goes on with marketdata.txt.
EndOfTrades ==
  /\ pc = "Main" /\ stage = "Trades"
  /\ stage' = "Market"
  /\ UNCHANGED <<serviceVars, fileVars, callVars, tradesRead, booksRead,
                 historyVars>>

\* A complete book of marketdata.txt: MarketDataService::OnMessage.
ReadOrderBook ==
  /\ pc = "Main" /\ stage = "Market" /\ booksRead < MaxBooks
  /\ booksRead' = booksRead + 1
  /\ \E book \in OrderBooks :
       /\ orderBook' = book
       /\ StoreOrderBook(book)
  /\ pc' = "AlgoExecuteOrder"
  /\ UNCHANGED <<trades, bookingCount, positions, pv01s, algoExecutions,
                 algoCount, executionOrders, fileVars, returnTo, order, trade,
                 position, pv01, stage, tradesRead, historyVars>>

\* Mutant of EndOfMarket: the end of the file is not noticed.
EndOfMarketMissed ==
  /\ pc = "Main" /\ stage = "Market"
  /\ UNCHANGED vars

\* The end of marketdata.txt.
EndOfMarket ==
  /\ pc = "Main" /\ stage = "Market"
  /\ stage' = "Ended"
  /\ UNCHANGED <<serviceVars, fileVars, callVars, tradesRead, booksRead,
                 historyVars>>

\* AlgoExecuteOrder on a book whose spread it finds too wide: no order.
PassOnWideBook ==
  /\ pc = "AlgoExecuteOrder"
  /\ \E bidOffer \in ReadableBidOffers(orderBook) : ~IsTight(bidOffer)
  /\ orderBook' = Null /\ pc' = "Main"
  /\ UNCHANGED <<serviceVars, fileVars, returnTo, order, trade, position,
                 pv01, inputVars, historyVars>>

\* AlgoExecuteOrder on a book whose spread it finds tight.
AlgoExecuteOrder ==
  /\ pc = "AlgoExecuteOrder"
  /\ \E bidOffer \in ReadableBidOffers(orderBook), id \in OrderIds :
       /\ IsTight(bidOffer)
       /\ order' = NextOrder(orderBook.product, id, bidOffer)
       /\ StoreAlgoExecution(order')
  /\ orderBook' = Null /\ pc' = "ExecuteOrder"
  /\ UNCHANGED <<trades, bookingCount, positions, pv01s, orderBooks,
                 executionOrders, fileVars, returnTo, trade, position, pv01,
                 inputVars, historyVars>>

\* ExecutionService stores the order, then notifies TradeBooking first and
\* HistoricalData second, the order main.cpp added them in.
ExecuteOrder ==
  /\ pc = "ExecuteOrder"
  /\ StoreExecutionOrder(order)
  /\ pc' = "ProcessExecution"
  /\ UNCHANGED <<trades, bookingCount, positions, pv01s, orderBooks,
                 algoExecutions, algoCount, fileVars, returnTo, orderBook,
                 order, trade, position, pv01, inputVars, historyVars>>

\* TradeBookingToExecutionListener::ProcessAdd: the trade of the execution
\* goes to OnMessage first and to BookTrade when that returns.
ProcessExecution ==
  /\ pc = "ProcessExecution"
  /\ CountExecution
  /\ trade' = TradeOfExecution(order)
  /\ executed' = Ordered(executed, trade')
  /\ returnTo' = "BookTrade" /\ pc' = "OnMessage"
  /\ UNCHANGED <<trades, positions, pv01s, orderBooks, algoExecutions,
                 algoCount, executionOrders, fileVars, orderBook, order,
                 position, pv01, inputVars, filed>>

\* TradeBookingService::OnMessage stores the trade and notifies.
OnMessage ==
  /\ pc = "OnMessage"
  /\ StoreTrade(trade)
  /\ pc' = "AddTrade"
  /\ UNCHANGED <<bookingCount, positions, pv01s, orderBooks, algoExecutions,
                 algoCount, executionOrders, fileVars, returnTo, orderBook,
                 order, trade, position, pv01, inputVars, historyVars>>

\* Mutant of BookTrade: it does not notify.
BookTradeSilent ==
  /\ pc = "BookTrade"
  /\ returnTo' = "PersistExecution" /\ pc' = "PersistExecution"
  /\ UNCHANGED <<serviceVars, fileVars, orderBook, order, trade, position,
                 pv01, inputVars, historyVars>>

\* TradeBookingService::BookTrade stores nothing and notifies the same way.
BookTrade ==
  /\ pc = "BookTrade"
  /\ returnTo' = "PersistExecution" /\ pc' = "AddTrade"
  /\ UNCHANGED <<serviceVars, fileVars, orderBook, order, trade, position,
                 pv01, inputVars, historyVars>>

\* PositionService::AddTrade stores the merged position, then notifies Risk
\* first and HistoricalData second.
AddTrade ==
  /\ pc = "AddTrade"
  /\ StorePosition(trade)
  /\ position' = [product |-> trade.product, held |-> MergedPosition(trade)]
  /\ pc' = "AddPosition"
  /\ UNCHANGED <<trades, bookingCount, pv01s, orderBooks, algoExecutions,
                 algoCount, executionOrders, fileVars, returnTo, orderBook,
                 order, trade, pv01, inputVars, historyVars>>

\* RiskService::AddPosition stores the risk of the position and notifies.
AddPosition ==
  /\ pc = "AddPosition"
  /\ StorePV01(position.product, position.held)
  /\ pv01' = RiskOf(position.product, position.held)
  /\ pc' = "PersistRisk"
  /\ UNCHANGED <<trades, bookingCount, positions, orderBooks, algoExecutions,
                 algoCount, executionOrders, fileVars, returnTo, orderBook,
                 order, trade, position, inputVars, historyVars>>

\* Mutant of PersistRisk: a flat position leaves no line.
PersistRiskUnlessFlat ==
  /\ pc = "PersistRisk"
  /\ IF pv01.quantity = 0 THEN UNCHANGED riskFile
                          ELSE RiskHistory!PersistData(pv01)
  /\ pv01' = Null /\ pc' = "PersistPosition"
  /\ UNCHANGED <<serviceVars, positionsFile, executionsFile, returnTo,
                 orderBook, order, trade, position, inputVars, historyVars>>

\* HistoricalDataService<PV01> appends the line.
PersistRisk ==
  /\ pc = "PersistRisk"
  /\ RiskHistory!PersistData(pv01)
  /\ pv01' = Null /\ pc' = "PersistPosition"
  /\ UNCHANGED <<serviceVars, positionsFile, executionsFile, returnTo,
                 orderBook, order, trade, position, inputVars, historyVars>>

\* The notification started by OnMessage or BookTrade is over when the
\* position is persisted; a trade of trades.txt is finished with.
PersistPosition ==
  /\ pc = "PersistPosition"
  /\ PositionHistory!PersistData(position)
  /\ position' = Null /\ pc' = returnTo
  /\ trade' = IF returnTo = "Main" THEN Null ELSE trade
  /\ UNCHANGED <<serviceVars, riskFile, executionsFile, returnTo, orderBook,
                 order, pv01, inputVars, historyVars>>

PersistExecution ==
  /\ pc = "PersistExecution"
  /\ ExecutionHistory!PersistData(order)
  /\ order' = Null /\ trade' = Null
  /\ returnTo' = "Main" /\ pc' = "Main"
  /\ UNCHANGED <<serviceVars, positionsFile, riskFile, orderBook, position,
                 pv01, inputVars, historyVars>>

Next ==
  \/ ReadTrade \/ EndOfTrades \/ ReadOrderBook \/ EndOfMarket
  \/ PassOnWideBook \/ AlgoExecuteOrder \/ ExecuteOrder \/ ProcessExecution
  \/ OnMessage \/ BookTrade \/ AddTrade
  \/ AddPosition \/ PersistRisk \/ PersistPosition \/ PersistExecution

\* main runs to its end: the only thread is never blocked, and the input
\* files are finite.
Fairness == WF_vars(Next)

Spec == Init /\ [][Next]_vars /\ Fairness

-----------------------------------------------------------------------------
\* A trade of an execution is being booked.
BookingExecution == returnTo # "Main"

\* The position on its way to the listeners is the one stored, and the risk
\* on its way to risk.txt, or last written there, is that position's.
ArgumentsCurrent ==
  pc \in {"AddPosition", "PersistRisk", "PersistPosition"} =>
    LET risk == RiskOf(position.product, position.held)
    IN /\ position.product = trade.product
       /\ position.product \in DOMAIN positions
       /\ position.held = positions[position.product]
       /\ pc = "PersistRisk" => pv01 = risk
       /\ pc = "PersistPosition" => /\ riskFile # << >>
                                    /\ riskFile[Len(riskFile)] = risk

\* How many times AddTrade has yet to be called with the trade in flight:
\* once for the notification not yet merged, and once more for BookTrade.
AddTradesDue ==
  (IF pc \in {"OnMessage", "AddTrade"} THEN 1 ELSE 0)
    + (IF returnTo = "BookTrade" THEN 1 ELSE 0)

\* The quantity of a product and book still to be added for that trade.
QuantityDue(product, book) ==
  IF AddTradesDue > 0 /\ trade.product = product /\ trade.book = book
  THEN AddTradesDue * SignedQuantity(trade) ELSE 0

\* The position of a product in a book is what trades.txt ordered plus twice
\* what the executions ordered (TradeBooking's listener notifies through both
\* OnMessage and BookTrade), less what the call in progress has yet to add:
\* merging never loses, misplaces or repeats a quantity.
PositionsReconcile ==
  \A product \in ProductIds, book \in Books :
    Held(product, book) + QuantityDue(product, book)
      = filed[product][book] + 2 * executed[product][book]

\* The quantities that may enter: of the lines of trades.txt, and of the orders
\* of a book, never written to or read from another bid/offer.
OrdersOf(book) == Range(book.bidStack) \cup Range(book.offerStack)
InputOrders ==
  (UNION {OrdersOf(book) : book \in OrderBooks}) \cup UnsetOrders
    \cup {bidOffer.bid : bidOffer \in StaleBidOffers}
    \cup {bidOffer.offer : bidOffer \in StaleBidOffers}
Magnitude(n) == IF n < 0 THEN -n ELSE n
Magnitudes ==
  {Magnitude(line.quantity) : line \in FileTrades}
    \cup {Magnitude(placed.quantity) : placed \in InputOrders}
LargestQuantity ==
  CHOOSE largest \in Magnitudes : \A n \in Magnitudes : n <= largest

\* What the books of a position hold, whether bought or sold. No book, no sum
\* of some books and no aggregate is further from 0.
Gross(held) == SumFunction([book \in DOMAIN held |-> Magnitude(held[book])])

\* How many times AddTrade has been called: once per line of trades.txt and
\* twice per execution, but for the calls due.
Postings == tradesRead + 2 * bookingCount - AddTradesDue

\* Quantities are added in 32 bits and nothing checks them. A product's books
\* hold at most the largest quantity of the input for each call of AddTrade:
\* nothing else feeds them, so it takes that much input to leave 32 bits.
PositionsWithinInput ==
  \A product \in DOMAIN positions :
    Gross(positions[product]) <= LargestQuantity * Postings

\* RiskService's quantity of every product is the sum of PositionService's
\* books, except for the product of a position it is about to be told of.
RiskMatchesPosition ==
  \A product \in ProductIds :
    \/ pc = "AddPosition" /\ position.product = product
    \/ /\ product \in DOMAIN pv01s <=> product \in DOMAIN positions
       /\ product \in DOMAIN positions =>
            pv01s[product] = GetAggregatePosition(positions[product])

\* i is the last line of a product in a file.
IsLastLine(file, i, product) ==
  /\ i \in DOMAIN file /\ file[i].product = product
  /\ \A j \in DOMAIN file : j > i => file[j].product # product

\* The last line of a product in positions.txt is the position in memory, and
\* each product with a position has one, except while a notification of that
\* product is on its way to the file.
PositionsFileReflectsMemory ==
  \A product \in ProductIds :
    \/ /\ pc \in {"AddPosition", "PersistRisk", "PersistPosition"}
       /\ position.product = product
    \/ /\ product \in DOMAIN positions =>
            \E i \in DOMAIN positionsFile : positionsFile[i].product = product
       /\ \A i \in DOMAIN positionsFile :
            IsLastLine(positionsFile, i, product) =>
              /\ product \in DOMAIN positions
              /\ positionsFile[i].held = positions[product]

\* Line by line, risk.txt is the risk of the position in positions.txt. Risk
\* is notified first, so a crash can leave risk.txt one line ahead, no more.
RiskFileExplainsPositionsFile ==
  /\ Len(riskFile)
       = Len(positionsFile) + (IF pc = "PersistPosition" THEN 1 ELSE 0)
  /\ \A i \in DOMAIN positionsFile :
       riskFile[i] = RiskOf(positionsFile[i].product, positionsFile[i].held)

\* executions.txt gets its line after both notifications of positions.txt, so
\* a crash never leaves an execution whose position lines are missing. The
\* lines of trades.txt come first, then two per execution.
FilesInStep ==
  LET notifying == (IF pc \in NotifyCalls THEN 1 ELSE 0)
                     + (IF returnTo = "BookTrade" THEN 1 ELSE 0)
  IN /\ Len(positionsFile) + notifying = tradesRead + 2 * bookingCount
     /\ Len(executionsFile) + (IF BookingExecution THEN 1 ELSE 0)
          = bookingCount

\* The two position lines of each line of executions.txt: same product, and
\* from the first to the second exactly the quantity executed moves, in the
\* book that was the execution's turn.
ExecutionsFileExplainsPositionsFile ==
  \A i \in DOMAIN executionsFile :
    LET line   == executionsFile[i]
        first  == positionsFile[tradesRead + 2 * i - 1]
        second == positionsFile[tradesRead + 2 * i]
        moved  == IF line.side = "BID" THEN -line.visibleQuantity
                                       ELSE line.visibleQuantity
    IN /\ first.product = line.product /\ second.product = line.product
       /\ second.held = AddToBook(first.held, BookOf(i), moved)

\* AlgoExecution and TradeBooking count separately: the former to alternate
\* sides, the latter to cycle through the books. Their counts stay in step,
\* so the lines of executions.txt alternate and sides stay tied to books.
CountersInStep ==
  /\ algoCount = bookingCount
       + (IF pc \in {"ExecuteOrder", "ProcessExecution"} THEN 1 ELSE 0)
  /\ \A i \in DOMAIN executionsFile : executionsFile[i].side = SideOf(i - 1)
  /\ pc \in {"ExecuteOrder", "ProcessExecution"} =>
       order.side = SideOf(bookingCount)
  /\ BookingExecution =>
       /\ order.side = SideOf(bookingCount - 1)
       /\ trade.side = (IF order.side = "BID" THEN "SELL" ELSE "BUY")
       /\ trade.book = BookOf(bookingCount)

\* The order AlgoExecution keeps for a product is the one ExecutionService
\* keeps and the last line of executions.txt, except for the order in flight.
LastOrdersAgree ==
  LET InFlight(product) ==
        /\ pc \in {"ExecuteOrder", "ProcessExecution"} \/ BookingExecution
        /\ order.product = product
  IN \A product \in ProductIds :
       \/ InFlight(product)
       \/ /\ product \in DOMAIN algoExecutions
               <=> product \in DOMAIN executionOrders
          /\ \A i \in DOMAIN executionsFile :
               IsLastLine(executionsFile, i, product) =>
                 /\ product \in DOMAIN executionOrders
                 /\ executionOrders[product] = executionsFile[i]
                 /\ algoExecutions[product] = executionsFile[i]

\* An order is a best bid or a best offer of a stack; only an empty stack
\* leaves it unset.
IsBestBid(bid, stack) ==
  IF stack = << >> THEN bid \in UnsetOrders
  ELSE bid \in Range(stack) /\ \A o \in Range(stack) : o.price <= bid.price
IsBestOffer(offer, stack) ==
  IF stack = << >> THEN offer \in UnsetOrders
  ELSE offer \in Range(stack) /\ \A o \in Range(stack) : o.price >= offer.price

\* An order in flight takes the whole of its side of a tight bid/offer: of the
\* best bid and offer of the stored book of its product, unless the dangling
\* reference made it a stale one. No other price or quantity gets out.
AggressesTopOfBook ==
  pc \in {"ExecuteOrder", "ProcessExecution"} \/ BookingExecution =>
    LET book == orderBooks[order.product]
        read == [bid   : Range(book.bidStack) \cup UnsetOrders,
                 offer : Range(book.offerStack) \cup UnsetOrders]
    IN \E bidOffer \in read \cup StaleBidOffers :
         /\ IsTight(bidOffer)
         /\ [price |-> order.price, quantity |-> order.visibleQuantity]
              = (IF order.side = "BID" THEN bidOffer.bid ELSE bidOffer.offer)
         /\ \/ bidOffer \in StaleBidOffers
            \/ /\ IsBestBid(bidOffer.bid, book.bidStack)
               /\ IsBestOffer(bidOffer.offer, book.offerStack)

\* What a step may do to positions, given the trades stored before it.
MovesByStoredTrade ==
  \A product \in ProductIds, book \in Books :
    Held(product, book)' # Held(product, book) =>
      \E id \in DOMAIN trades :
        /\ trades[id].product = product /\ trades[id].book = book
        /\ Held(product, book)'
             = Held(product, book) + SignedQuantity(trades[id])

\* A position moves only by a trade that TradeBooking has stored, in the book
\* and by the quantity that trade says: the stored trade accounts for it even
\* when its identifier was used before.
StoredTradesMovePositions == [][MovesByStoredTrade]_vars

\* The files seen as records: what the last line of a product says.
LastLine(file, product) ==
  CHOOSE i \in DOMAIN file : IsLastLine(file, i, product)
LastRisk(product) ==
  IF \E i \in DOMAIN riskFile : riskFile[i].product = product
  THEN riskFile[LastLine(riskFile, product)].quantity ELSE 0
LastPosition(product) ==
  IF \E i \in DOMAIN positionsFile : positionsFile[i].product = product
  THEN positionsFile[LastLine(positionsFile, product)].held ELSE EmptyMap

\* The files that lack the last position merged.
Unrecorded ==
  CASE pc \in {"AddPosition", "PersistRisk"} -> {"risk", "positions"}
    [] pc = "PersistPosition" -> {"positions"}
    [] OTHER -> {}

AsLedger ==
  INSTANCE Ledger WITH
    Accounts <- ProductIds, NoEntry <- Null,
    balances <- [product \in ProductIds |-> PositionOf(product)],
    entry <- IF AddTradesDue > 0 \/ Unrecorded # {}
             THEN [account |-> trade.product, book |-> trade.book,
                   quantity |-> SignedQuantity(trade)]
             ELSE Null,
    due <- AddTradesDue, unrecorded <- Unrecorded,
    riskRecord <- [product \in ProductIds |-> LastRisk(product)],
    positionRecord <- [product \in ProductIds |-> LastPosition(product)]

\* From trades received to lines on file the flow is a ledger: each trade is
\* posted once or twice, with nothing between a posting and its two lines, and
\* whatever was received is on file in the end.
ImplementsLedger == AsLedger!Spec

\* main reaches its end, and stays there with every file complete: nothing an
\* input asked for was left on the way.
EndsWithCompleteFiles ==
  <>[](/\ stage = "Ended" /\ pc = "Main"
       /\ Len(positionsFile) = tradesRead + 2 * algoCount
       /\ Len(riskFile) = Len(positionsFile)
       /\ Len(executionsFile) = algoCount)

-----------------------------------------------------------------------------
(***************************************************************************)
(* What the documentation says and the code does not do.                   *)
(***************************************************************************)
\* README.md:78: each execution results in a trade. Two reach the positions.
ExecutionsBookedOnce ==
  pc = "Main" =>
    \A product \in ProductIds, book \in Books :
      Held(product, book) = filed[product][book] + executed[product][book]

\* README.md:78: executions cycle through TRSY1, TRSY2, TRSY3 in that order.
\* The count is incremented before it picks the book: TRSY2 comes first.
CyclesFromTRSY1 ==
  BookingExecution =>
    trade.book = <<"TRSY1", "TRSY2", "TRSY3">>[((bookingCount - 1) % 3) + 1]

\* README.md:58: only aggress when the spread is at its tightest, 1/128. The
\* bid/offer is read through a reference to an object already destroyed.
AggressesTightSpreadOnly ==
  pc = "ExecuteOrder" =>
    \E bidOffer \in GetBidOffer(orderBooks[order.product]) : IsTight(bidOffer)

\* tradebookingservice.hpp:119: keyed on trade identifier. The identifier of
\* an execution's trade is GenerateId's, which repeats, and a later trade
\* overwrites an earlier one.
TradesKeptApart ==
  pc = "Main" => Cardinality(DOMAIN trades) = tradesRead + bookingCount

\* README.md:36: a line of positions.txt has a quantity for three books. It
\* has the books traded so far.
PositionLinesHaveEveryBook ==
  \A i \in DOMAIN positionsFile :
    {"TRSY1", "TRSY2", "TRSY3"} \subseteq DOMAIN positionsFile[i].held
=============================================================================
