----------------------- MODULE ExecutionLedgerProofs -------------------------
(***************************************************************************)
(* More about ExecutionFlow, for every value of its constants: the orders  *)
(* on their way to executions.txt, the lines they leave, and the flow as   *)
(* an implementation of Ledger.                                            *)
(***************************************************************************)
EXTENDS ExecutionFlowProofs

-----------------------------------------------------------------------------
(***************************************************************************)
(* What is known of an order and of its trade while they are in flight.    *)
(***************************************************************************)

OrderInFlight == pc \in {"ExecuteOrder", "ProcessExecution"} \/ BookingExecution

\* The order is the one the two services keep of its product, from the moment
\* each has stored it.
OrderKept ==
  OrderInFlight =>
    /\ order.product \in DOMAIN algoExecutions
    /\ algoExecutions[order.product] = order
    /\ pc # "ExecuteOrder" =>
         /\ order.product \in DOMAIN executionOrders
         /\ executionOrders[order.product] = order

\* The book being looked at is the one stored of its product.
BookStored ==
  pc = "AlgoExecuteOrder" =>
    /\ orderBook.product \in DOMAIN orderBooks
    /\ orderBooks[orderBook.product] = orderBook

\* The trade is stored under its identifier before it reaches a position.
TradeStored ==
  pc = "AddTrade" \/ (BookingExecution /\ pc # "OnMessage") =>
    trade.tradeId \in DOMAIN trades /\ trades[trade.tradeId] = trade

\* What an execution moves of its product's position.
Moved(algoOrder) ==
  IF algoOrder.side = "BID" THEN -algoOrder.visibleQuantity
                            ELSE algoOrder.visibleQuantity

\* The trade being booked is the order's.
TradeOfOrder ==
  BookingExecution => /\ trade.product = order.product
                      /\ SignedQuantity(trade) = Moved(order)

OrdersInv ==
  /\ OrderKept /\ BookStored /\ TradeStored /\ TradeOfOrder
  /\ LastOrdersAgree /\ AggressesTopOfBook

\* An order, once made, stays where the two services put it until its line is
\* on file: no other order of its product is made meanwhile.
LEMMA OrderKeptStep ==
  ASSUME IInv, OrderKept, Next
  PROVE  OrderKept'
<1> USE DEF OrderKept, OrderInFlight, BookingExecution
<1>0. CallsReturn /\ CallsTypeOK
  BY TypeOKParts DEF IInv
<1>1. CASE AlgoExecuteOrder
  <2>1. /\ algoExecutions' = Put(algoExecutions, order'.product, order')
        /\ pc' = "ExecuteOrder"
    BY <1>1 DEF AlgoExecuteOrder, StoreAlgoExecution
  <2>2. /\ order'.product \in DOMAIN algoExecutions'
        /\ algoExecutions'[order'.product] = order'
    BY <2>1 DEF Put
  <2> QED
    BY <2>1, <2>2
<1>2. CASE ExecuteOrder
  <2>1. /\ executionOrders' = Put(executionOrders, order.product, order)
        /\ pc = "ExecuteOrder" /\ UNCHANGED <<algoExecutions, order>>
    BY <1>2 DEF ExecuteOrder, StoreExecutionOrder
  <2>2. /\ order.product \in DOMAIN executionOrders'
        /\ executionOrders'[order.product] = order
    BY <2>1 DEF Put
  <2> QED
    BY <2>1, <2>2
<1>3. CASE /\ UNCHANGED <<algoExecutions, executionOrders, order>>
           /\ OrderInFlight' => OrderInFlight /\ pc # "ExecuteOrder"
  BY <1>3
<1>4. CASE \/ ReadTrade \/ EndOfTrades \/ ReadOrderBook \/ EndOfMarket
           \/ PassOnWideBook
  BY <1>0, <1>4, <1>3
     DEF ReadTrade, EndOfTrades, ReadOrderBook, EndOfMarket, PassOnWideBook,
         CallsReturn, serviceVars, callVars
<1>5. CASE \/ ProcessExecution \/ OnMessage \/ BookTrade \/ AddTrade
           \/ AddPosition \/ PersistRisk
  BY <1>0, <1>5, <1>3
     DEF ProcessExecution, OnMessage, BookTrade, AddTrade, AddPosition,
         PersistRisk, CallsReturn, serviceVars
<1>6. CASE PersistPosition
  BY <1>0, <1>6, <1>3 DEF PersistPosition, CallsTypeOK, serviceVars
<1>7. CASE PersistExecution
  BY <1>7 DEF PersistExecution
<1> QED
  BY <1>1, <1>2, <1>4, <1>5, <1>6, <1>7, Zenon DEF Next

\* A book is stored before the algo is told of it, and the next one is read
\* after.
LEMMA BookStoredStep ==
  ASSUME IInv, Next
  PROVE  BookStored'
<1> USE DEF BookStored
<1>0. CallsTypeOK
  BY TypeOKParts DEF IInv
<1>1. CASE ReadOrderBook
  <2>1. PICK book \in OrderBooks :
          orderBook' = book /\ orderBooks' = Put(orderBooks, book.product, book)
    BY <1>1 DEF ReadOrderBook, StoreOrderBook
  <2> QED
    BY <2>1 DEF Put
<1>2. CASE ~ ReadOrderBook
  <2>1. pc' # "AlgoExecuteOrder"
    BY <1>0, <1>2
       DEF Next, ReadTrade, EndOfTrades, EndOfMarket, PassOnWideBook,
           AlgoExecuteOrder, ExecuteOrder, ProcessExecution, OnMessage,
           BookTrade, AddTrade, AddPosition, PersistRisk, PersistPosition,
           PersistExecution, CallsTypeOK, callVars
  <2> QED
    BY <2>1
<1> QED
  BY <1>1, <1>2

\* OnMessage stores the trade, and no other is stored until it is booked.
LEMMA TradeStoredStep ==
  ASSUME IInv, TradeStored, Next
  PROVE  TradeStored'
<1> USE DEF TradeStored, BookingExecution
<1>0. CallsReturn /\ CallsTypeOK
  BY TypeOKParts DEF IInv
<1>1. CASE OnMessage
  <2>1. trades' = Put(trades, trade.tradeId, trade) /\ UNCHANGED trade
    BY <1>1 DEF OnMessage, StoreTrade
  <2> QED
    BY <2>1 DEF Put
<1>2. CASE /\ UNCHANGED <<trades, trade>>
           /\ pc # "OnMessage"
           /\ pc' = "AddTrade" \/ (BookingExecution' /\ pc' # "OnMessage")
                => pc = "AddTrade" \/ BookingExecution
  BY <1>2
<1>3. CASE \/ EndOfTrades \/ ReadOrderBook \/ EndOfMarket \/ PassOnWideBook
           \/ AlgoExecuteOrder \/ ExecuteOrder
  BY <1>0, <1>3, <1>2
     DEF EndOfTrades, ReadOrderBook, EndOfMarket, PassOnWideBook,
         AlgoExecuteOrder, ExecuteOrder, CallsReturn, serviceVars, callVars
<1>4. CASE BookTrade \/ AddTrade \/ AddPosition \/ PersistRisk
  BY <1>0, <1>4, <1>2
     DEF BookTrade, AddTrade, AddPosition, PersistRisk, CallsReturn,
         serviceVars
<1>5. CASE PersistPosition /\ returnTo # "Main"
  BY <1>5, <1>2 DEF PersistPosition, serviceVars
<1>6. CASE \/ ReadTrade \/ ProcessExecution \/ PersistExecution
           \/ (PersistPosition /\ returnTo = "Main")
  BY <1>0, <1>6
     DEF ReadTrade, ProcessExecution, PersistPosition, PersistExecution,
         CallsReturn
<1> QED
  BY <1>1, <1>3, <1>4, <1>5, <1>6, Zenon DEF Next

\* The trade of an execution moves its product by the quantity of the order,
\* against its side, and neither changes while it is booked.
LEMMA TradeOfOrderStep ==
  ASSUME IInv, TradeOfOrder, Next
  PROVE  TradeOfOrder'
<1> USE DEF TradeOfOrder, BookingExecution
<1>0. CallsReturn /\ CallsTypeOK
  BY TypeOKParts DEF IInv
<1>1. CASE ProcessExecution
  <2>1. trade' = TradeOfExecution(order) /\ UNCHANGED order
    BY <1>1 DEF ProcessExecution
  <2>2. order \in ExecutionOrders
    BY <1>0, <1>1 DEF ProcessExecution, CallsTypeOK, OrderCalls
  <2>3. /\ TradeOfExecution(order).product = order.product
        /\ SignedQuantity(TradeOfExecution(order)) = Moved(order)
    BY <2>2 DEF TradeOfExecution, SignedQuantity, Moved, ExecutionOrders
  <2> QED
    BY <2>1, <2>3 DEF SignedQuantity, Moved
<1>2. CASE UNCHANGED <<trade, order>> /\ (BookingExecution' => BookingExecution)
  BY <1>2 DEF SignedQuantity, Moved
<1>3. CASE \/ EndOfTrades \/ ReadOrderBook \/ EndOfMarket \/ PassOnWideBook
           \/ ExecuteOrder \/ OnMessage \/ AddTrade \/ AddPosition
           \/ PersistRisk
  BY <1>3, <1>2
     DEF EndOfTrades, ReadOrderBook, EndOfMarket, PassOnWideBook,
         ExecuteOrder, OnMessage, AddTrade, AddPosition, PersistRisk, callVars
<1>4. CASE BookTrade
  BY <1>0, <1>4, <1>2 DEF BookTrade, CallsReturn
<1>5. CASE PersistPosition /\ returnTo # "Main"
  BY <1>5, <1>2 DEF PersistPosition
<1>6. CASE \/ ReadTrade \/ AlgoExecuteOrder \/ PersistExecution
           \/ (PersistPosition /\ returnTo = "Main")
  BY <1>0, <1>6
     DEF ReadTrade, AlgoExecuteOrder, PersistPosition, PersistExecution,
         CallsReturn
<1> QED
  BY <1>1, <1>3, <1>4, <1>5, <1>6, Zenon DEF Next

\* Between two orders of a product the algo, the execution service and the
\* file agree: only an order in flight is in some of the three.
LEMMA LastOrdersAgreeStep ==
  ASSUME IInv, OrderKept, LastOrdersAgree, Next
  PROVE  LastOrdersAgree'
<1> USE DEF LastOrdersAgree, IsLastLine, BookingExecution
<1>0. CallsReturn /\ CallsTypeOK /\ TypeOK
  BY TypeOKParts DEF IInv
<1>1. CASE AlgoExecuteOrder
  <2>1. /\ algoExecutions' = Put(algoExecutions, order'.product, order')
        /\ pc = "AlgoExecuteOrder" /\ returnTo = "Main"
        /\ pc' = "ExecuteOrder"
        /\ UNCHANGED <<executionOrders, executionsFile>>
    BY <1>0, <1>1
       DEF AlgoExecuteOrder, StoreAlgoExecution, CallsReturn, fileVars
  <2>2. /\ DOMAIN algoExecutions' = DOMAIN algoExecutions \cup {order'.product}
        /\ \A p \in DOMAIN algoExecutions :
             p # order'.product => algoExecutions'[p] = algoExecutions[p]
    BY <2>1 DEF Put
  <2> QED
    BY <2>1, <2>2
<1>2. CASE ExecuteOrder
  <2>1. /\ executionOrders' = Put(executionOrders, order.product, order)
        /\ pc = "ExecuteOrder" /\ pc' = "ProcessExecution"
        /\ UNCHANGED <<algoExecutions, executionsFile, order>>
    BY <1>2 DEF ExecuteOrder, StoreExecutionOrder, fileVars
  <2>2. /\ DOMAIN executionOrders'
             = DOMAIN executionOrders \cup {order.product}
        /\ \A p \in DOMAIN executionOrders :
             p # order.product => executionOrders'[p] = executionOrders[p]
    BY <2>1 DEF Put
  <2> QED
    BY <2>1, <2>2
<1>3. CASE PersistExecution
  <2> DEFINE n == Len(executionsFile)
  <2>1. /\ pc = "PersistExecution" /\ returnTo = "PersistExecution"
        /\ UNCHANGED <<algoExecutions, executionOrders>>
        /\ order.product \in DOMAIN algoExecutions
        /\ algoExecutions[order.product] = order
        /\ order.product \in DOMAIN executionOrders
        /\ executionOrders[order.product] = order
    BY <1>0, <1>3
       DEF PersistExecution, CallsReturn, OrderKept, OrderInFlight, serviceVars
  <2>2. /\ n \in Nat /\ DOMAIN executionsFile = 1..n
        /\ DOMAIN executionsFile' = 1..(n + 1)
        /\ executionsFile'[n + 1] = order
        /\ \A i \in 1..n : executionsFile'[i] = executionsFile[i]
    BY <1>0, <1>3, Appends, Lengths
  <2> HIDE DEF n
  <2>3. SUFFICES ASSUME NEW p \in ProductIds
        PROVE  /\ p \in DOMAIN algoExecutions <=> p \in DOMAIN executionOrders
               /\ \A i \in 1..(n + 1) :
                    /\ executionsFile'[i].product = p
                    /\ \A j \in 1..(n + 1) :
                         j > i => executionsFile'[j].product # p
                    => /\ p \in DOMAIN executionOrders
                       /\ executionOrders[p] = executionsFile'[i]
                       /\ algoExecutions[p] = executionsFile'[i]
    BY <2>1, <2>2
  <2>4. CASE p = order.product
    BY <2>1, <2>2, <2>4
  <2>5. CASE p # order.product
    <3>1. /\ p \in DOMAIN algoExecutions <=> p \in DOMAIN executionOrders
          /\ \A i \in 1..n :
               /\ executionsFile[i].product = p
               /\ \A j \in 1..n : j > i => executionsFile[j].product # p
               => /\ p \in DOMAIN executionOrders
                  /\ executionOrders[p] = executionsFile[i]
                  /\ algoExecutions[p] = executionsFile[i]
      BY <2>2, <2>5
    <3> QED
      BY <2>2, <2>5, <3>1
  <2> QED
    BY <2>4, <2>5
<1>4. CASE /\ UNCHANGED <<algoExecutions, executionOrders, executionsFile>>
           /\ OrderInFlight => OrderInFlight' /\ UNCHANGED order
  BY <1>4 DEF OrderInFlight
<1>5. CASE \/ ReadTrade \/ EndOfTrades \/ ReadOrderBook \/ EndOfMarket
           \/ PassOnWideBook \/ ProcessExecution \/ OnMessage \/ BookTrade
           \/ AddTrade \/ AddPosition \/ PersistRisk \/ PersistPosition
  BY <1>0, <1>4, <1>5
     DEF ReadTrade, EndOfTrades, ReadOrderBook, EndOfMarket, PassOnWideBook,
         ProcessExecution, OnMessage, BookTrade, AddTrade, AddPosition,
         PersistRisk, PersistPosition, OrderInFlight, CallsReturn,
         serviceVars, fileVars, callVars
<1> QED
  BY <1>1, <1>2, <1>3, <1>5, Zenon DEF Next

\* The algo takes the best bid and offer of a book, or what the dangling
\* reference yields instead; only the former are of the book.
LEMMA ReadBidOffer ==
  ASSUME NEW book \in OrderBooks, NEW bidOffer \in ReadableBidOffers(book)
  PROVE  \/ bidOffer \in StaleBidOffers
         \/ /\ bidOffer \in [bid   : Range(book.bidStack) \cup UnsetOrders,
                              offer : Range(book.offerStack) \cup UnsetOrders]
            /\ IsBestBid(bidOffer.bid, book.bidStack)
            /\ IsBestOffer(bidOffer.offer, book.offerStack)
<1>1. book.bidStack \in Stacks /\ book.offerStack \in Stacks
  BY OrderBooksAssumption
<1>2. ASSUME NEW stack \in Stacks
      PROVE  /\ \A bid \in BestBids(stack) : IsBestBid(bid, stack)
             /\ \A offer \in BestOffers(stack) : IsBestOffer(offer, stack)
  <2>1. CASE stack = << >>
    BY <2>1 DEF BestBids, BestOffers, IsBestBid, IsBestOffer
  <2>2. CASE stack # << >>
    BY <2>2, BestOrders DEF BestBids, BestOffers
  <2> QED
    BY <2>1, <2>2
<1>3. ASSUME NEW stack, NEW o
      PROVE  IsBestBid(o, stack) \/ IsBestOffer(o, stack)
               => o \in Range(stack) \cup UnsetOrders
  BY DEF IsBestBid, IsBestOffer
<1>4. CASE bidOffer \in GetBidOffer(book)
  <2>1. /\ bidOffer = [bid |-> bidOffer.bid, offer |-> bidOffer.offer]
        /\ bidOffer.bid \in BestBids(book.bidStack)
        /\ bidOffer.offer \in BestOffers(book.offerStack)
    BY <1>4 DEF GetBidOffer
  <2>2. /\ IsBestBid(bidOffer.bid, book.bidStack)
        /\ IsBestOffer(bidOffer.offer, book.offerStack)
    BY <1>1, <1>2, <2>1
  <2> QED
    BY <1>3, <2>1, <2>2
<1> QED
  BY <1>4 DEF ReadableBidOffers

\* The order is made of the best of the stored book, and no other book of its
\* product is stored until its line is on file.
LEMMA AggressesTopOfBookStep ==
  ASSUME IInv, BookStored, AggressesTopOfBook, Next
  PROVE  AggressesTopOfBook'
<1>0. CallsReturn /\ CallsTypeOK
  BY TypeOKParts DEF IInv
<1>1. CASE AlgoExecuteOrder
  <2>1. PICK bidOffer \in ReadableBidOffers(orderBook), id \in OrderIds :
          /\ IsTight(bidOffer)
          /\ order' = NextOrder(orderBook.product, id, bidOffer)
    BY <1>1 DEF AlgoExecuteOrder
  <2>2. /\ orderBook \in OrderBooks
        /\ orderBooks[orderBook.product] = orderBook
        /\ UNCHANGED orderBooks
    BY <1>0, <1>1 DEF AlgoExecuteOrder, CallsTypeOK, BookStored
  <2>3. bidOffer \in BidOffers
    BY <2>1, <2>2, BidOfferType, StaleBidOffersAssumption DEF ReadableBidOffers
  <2>4. /\ order'.product = orderBook.product
        /\ [price |-> order'.price, quantity |-> order'.visibleQuantity]
             = (IF order'.side = "BID" THEN bidOffer.bid ELSE bidOffer.offer)
    BY <2>1, <2>3 DEF NextOrder, BidOffers, Orders
  <2> QED
    BY <2>1, <2>2, <2>4, ReadBidOffer DEF AggressesTopOfBook
<1>2. CASE /\ OrderInFlight' => OrderInFlight /\ UNCHANGED <<orderBooks, order>>
  BY <1>2 DEF AggressesTopOfBook, OrderInFlight
<1>3. CASE \/ ReadTrade \/ EndOfTrades \/ ReadOrderBook \/ EndOfMarket
           \/ PassOnWideBook
  BY <1>0, <1>2, <1>3
     DEF ReadTrade, EndOfTrades, ReadOrderBook, EndOfMarket, PassOnWideBook,
         OrderInFlight, BookingExecution, CallsReturn, serviceVars, callVars
<1>4. CASE \/ ExecuteOrder \/ ProcessExecution \/ OnMessage \/ BookTrade
           \/ AddTrade \/ AddPosition \/ PersistRisk
  BY <1>0, <1>2, <1>4
     DEF ExecuteOrder, ProcessExecution, OnMessage, BookTrade, AddTrade,
         AddPosition, PersistRisk, OrderInFlight, BookingExecution,
         CallsReturn, serviceVars
<1>5. CASE PersistPosition \/ PersistExecution
  BY <1>0, <1>2, <1>5
     DEF PersistPosition, PersistExecution, OrderInFlight, BookingExecution,
         CallsTypeOK, serviceVars
<1> QED
  BY <1>1, <1>3, <1>4, <1>5, Zenon DEF Next

-----------------------------------------------------------------------------
(***************************************************************************)
(* The lines of positions.txt that an execution leaves.                    *)
(***************************************************************************)

\* From one line of positions.txt to another of the same product, the trade in
\* flight is what moved.
MovedBetween(first, second) ==
  /\ first.product = trade.product /\ second.product = trade.product
  /\ second.held = AddToBook(first.held, trade.book, SignedQuantity(trade))

\* After the first notification of an execution the last line is the position
\* in memory; while the second is on its way, that position has moved once
\* from the last line; after it, the last two lines are that far apart.
LinesOnFile ==
  LET n == Len(positionsFile)
  IN /\ (pc = "BookTrade" \/ (pc = "AddTrade" /\ returnTo = "PersistExecution"))
          => /\ trade.product \in DOMAIN positions
             /\ positionsFile[n] = [product |-> trade.product,
                                    held |-> positions[trade.product]]
     /\ (/\ pc \in {"AddPosition", "PersistRisk", "PersistPosition"}
         /\ returnTo = "PersistExecution")
          => MovedBetween(positionsFile[n], position)
     /\ pc = "PersistExecution"
          => MovedBetween(positionsFile[n - 1], positionsFile[n])

\* An execution in flight has had a line on file before its second one.
LEMMA LinesOnFileStep ==
  ASSUME IInv, LinesOnFile, Next
  PROVE  LinesOnFile'
<1> DEFINE n == Len(positionsFile)
<1> USE DEF LinesOnFile
<1>0. /\ CallsReturn /\ CallsTypeOK /\ TypeOK /\ FilesInStep
      /\ ArgumentsCurrent
      /\ n \in Nat /\ tradesRead \in Nat /\ bookingCount \in Nat
      /\ Len(executionsFile) \in Nat
  BY TypeOKParts, Lengths DEF IInv
<1>1. CASE PersistPosition
  <2>1. /\ pc = "PersistPosition" /\ pc' = returnTo
        /\ UNCHANGED <<positions, returnTo>>
        /\ returnTo # "Main" => UNCHANGED trade
        /\ returnTo \in {"Main", "BookTrade", "PersistExecution"}
        /\ IsPositionLine(position)
    BY <1>0, <1>1 DEF PersistPosition, CallsTypeOK, serviceVars
  <2>2. /\ Len(positionsFile') = n + 1
        /\ positionsFile'[n + 1] = position
        /\ \A i \in 1..n : positionsFile'[i] = positionsFile[i]
    BY <1>0, <1>1, Appends
  <2>3. CASE returnTo = "Main"
    BY <2>1, <2>3
  <2>4. CASE returnTo = "BookTrade"
    <3>1. /\ trade.product \in DOMAIN positions
          /\ position = [product |-> trade.product,
                         held |-> positions[trade.product]]
      BY <1>0, <2>1 DEF ArgumentsCurrent, IsPositionLine
    <3> QED
      BY <1>0, <2>1, <2>2, <2>4, <3>1
  <2>5. CASE returnTo = "PersistExecution"
    <3>1. n \in 1..n
      BY <1>0, <2>1, <2>5 DEF FilesInStep, NotifyCalls, BookingExecution
    <3>2. MovedBetween(positionsFile[n], position)
      BY <2>1, <2>5
    <3>3. (n + 1) - 1 = n
      BY <1>0
    <3>4. /\ positionsFile'[Len(positionsFile') - 1] = positionsFile[n]
          /\ positionsFile'[Len(positionsFile')] = position
      BY <2>2, <3>1, <3>3
    <3>5. SignedQuantity(trade)' = SignedQuantity(trade)
      BY <2>1, <2>5 DEF SignedQuantity
    <3> QED
      BY <2>1, <2>5, <3>2, <3>4, <3>5 DEF MovedBetween
  <2> QED
    BY <2>1, <2>3, <2>4, <2>5
<1>2. CASE AddTrade /\ returnTo = "PersistExecution"
  <2>1. /\ pc = "AddTrade" /\ pc' = "AddPosition"
        /\ position' = [product |-> trade.product,
                        held |-> MergedPosition(trade)]
        /\ UNCHANGED <<trade, returnTo, positionsFile>>
    BY <1>2 DEF AddTrade, fileVars
  <2>2. /\ trade.product \in DOMAIN positions
        /\ positionsFile[n] = [product |-> trade.product,
                               held |-> positions[trade.product]]
    BY <1>2, <2>1
  <2>3. MergedPosition(trade)
          = AddToBook(positionsFile[n].held, trade.book, SignedQuantity(trade))
    BY <2>2 DEF MergedPosition, PositionOf, At
  <2>4. SignedQuantity(trade)' = SignedQuantity(trade)
    BY <2>1 DEF SignedQuantity
  <2> QED
    BY <2>1, <2>2, <2>3, <2>4 DEF MovedBetween
<1>3. CASE BookTrade
  BY <1>0, <1>3 DEF BookTrade, serviceVars, fileVars
<1>4. CASE AddPosition \/ PersistRisk
  <2>1. /\ pc \in {"AddPosition", "PersistRisk"}
        /\ pc' \in {"PersistRisk", "PersistPosition"}
        /\ UNCHANGED <<trade, position, returnTo, positionsFile>>
    BY <1>4 DEF AddPosition, PersistRisk, fileVars
  <2> QED
    BY <2>1 DEF MovedBetween, SignedQuantity
<1>5. CASE \/ ReadTrade \/ EndOfTrades \/ ReadOrderBook \/ EndOfMarket
           \/ PassOnWideBook \/ AlgoExecuteOrder \/ ExecuteOrder
           \/ ProcessExecution \/ PersistExecution
           \/ OnMessage \/ (AddTrade /\ returnTo # "PersistExecution")
  BY <1>0, <1>5
     DEF ReadTrade, EndOfTrades, ReadOrderBook, EndOfMarket, PassOnWideBook,
         AlgoExecuteOrder, ExecuteOrder, ProcessExecution, PersistExecution,
         OnMessage, AddTrade, CallsReturn, callVars
<1> QED
  BY <1>1, <1>2, <1>3, <1>4, <1>5, Zenon DEF Next

\* Lines once written stay, and trades.txt is over before the first execution:
\* every step preserves that each line of executions.txt has its two lines of
\* positions.txt, a quantity executed apart.
LEMMA ExecutionsFileStep ==
  ASSUME IInv, TradeOfOrder, LinesOnFile, ExecutionsFileExplainsPositionsFile,
         Next
  PROVE  ExecutionsFileExplainsPositionsFile'
<1> DEFINE n == Len(positionsFile)
           m == Len(executionsFile)
           Explains(line, first, second, i) ==
             /\ first.product = line.product /\ second.product = line.product
             /\ second.held = AddToBook(first.held, BookOf(i), Moved(line))
<1>0. /\ CallsReturn /\ CallsTypeOK /\ TypeOK /\ FilesInStep
      /\ CountersInStep
      /\ n \in Nat /\ tradesRead \in Nat /\ bookingCount \in Nat
      /\ m \in Nat /\ DOMAIN executionsFile = 1..m
  BY TypeOKParts, Lengths DEF IInv
<1>1. \A i \in 1..m :
        Explains(executionsFile[i], positionsFile[tradesRead + 2 * i - 1],
                 positionsFile[tradesRead + 2 * i], i)
  BY <1>0 DEF ExecutionsFileExplainsPositionsFile, Moved
<1>2. SUFFICES
        \A i \in DOMAIN executionsFile' :
          Explains(executionsFile'[i], positionsFile'[tradesRead' + 2 * i - 1],
                   positionsFile'[tradesRead' + 2 * i], i)
  BY DEF ExecutionsFileExplainsPositionsFile, Moved
<1>3. CASE PersistPosition
  <2>1. /\ \A i \in 1..n : positionsFile'[i] = positionsFile[i]
        /\ UNCHANGED <<tradesRead, executionsFile>>
        /\ pc = "PersistPosition"
    BY <1>0, <1>3, Appends DEF PersistPosition, inputVars
  <2>2. /\ n + (1 + (IF returnTo = "BookTrade" THEN 1 ELSE 0))
             = tradesRead + 2 * bookingCount
        /\ m + (IF BookingExecution THEN 1 ELSE 0) = bookingCount
    <3>1. pc \in NotifyCalls
      BY <2>1 DEF NotifyCalls
    <3> QED
      BY <1>0, <3>1, Zenon DEF FilesInStep
  <2>3. returnTo = "Main" => bookingCount = 0
    BY <1>0, <2>1 DEF CallsReturn, NotifyCalls, BookingExecution
  <2>4. tradesRead + 2 * m <= n \/ m = 0
    <3> HIDE DEF n, m
    <3> QED
      BY <1>0, <2>2, <2>3 DEF BookingExecution
  <2>5. \A i \in 1..m : /\ tradesRead + 2 * i - 1 \in 1..n
                        /\ tradesRead + 2 * i \in 1..n
    <3> HIDE DEF n, m
    <3> QED
      BY <1>0, <2>4
  <2> HIDE DEF n, m, Explains
  <2> SUFFICES ASSUME NEW i \in 1..m
               PROVE  Explains(executionsFile[i],
                               positionsFile'[tradesRead + 2 * i - 1],
                               positionsFile'[tradesRead + 2 * i], i)
    BY <1>0, <2>1
  <2>6. /\ positionsFile'[tradesRead + 2 * i - 1]
             = positionsFile[tradesRead + 2 * i - 1]
        /\ positionsFile'[tradesRead + 2 * i] = positionsFile[tradesRead + 2 * i]
    BY <2>1, <2>5
  <2> QED
    BY <1>1, <2>6
<1>4. CASE PersistExecution
  <2>1. /\ DOMAIN executionsFile' = 1..(m + 1)
        /\ executionsFile'[m + 1] = order
        /\ \A i \in 1..m : executionsFile'[i] = executionsFile[i]
        /\ UNCHANGED <<tradesRead, positionsFile>>
        /\ pc = "PersistExecution" /\ returnTo = "PersistExecution"
    BY <1>0, <1>4, Appends DEF PersistExecution, inputVars, CallsReturn
  <2>2. bookingCount = m + 1 /\ n = tradesRead + 2 * (m + 1)
    BY <1>0, <2>1 DEF FilesInStep, NotifyCalls, BookingExecution
  <2>3. MovedBetween(positionsFile[n - 1], positionsFile[n])
    BY <2>1 DEF LinesOnFile
  <2>4. /\ trade.product = order.product /\ SignedQuantity(trade) = Moved(order)
        /\ trade.book = BookOf(m + 1)
    BY <1>0, <2>1, <2>2 DEF TradeOfOrder, CountersInStep, BookingExecution
  <2>5. Explains(order, positionsFile[n - 1], positionsFile[n], m + 1)
    BY <2>3, <2>4 DEF MovedBetween
  <2> HIDE DEF n, m, Explains
  <2> SUFFICES ASSUME NEW i \in 1..(m + 1)
               PROVE  Explains(executionsFile'[i],
                               positionsFile[tradesRead + 2 * i - 1],
                               positionsFile[tradesRead + 2 * i], i)
    BY <2>1
  <2>6. CASE i \in 1..m
    BY <1>1, <2>1, <2>6
  <2>7. CASE i = m + 1
    <3>1. tradesRead + 2 * i = n /\ tradesRead + 2 * i - 1 = n - 1
      BY <1>0, <2>2, <2>7
    <3> QED
      BY <2>1, <2>5, <2>7, <3>1
  <2> QED
    BY <1>0, <2>6, <2>7
<1>5. CASE ReadTrade
  <2>1. stage = "Trades" /\ returnTo = "Main" /\ UNCHANGED executionsFile
    BY <1>0, <1>5 DEF ReadTrade, CallsReturn, fileVars
  <2>2. m = 0
    BY <1>0, <2>1 DEF CallsReturn, FilesInStep, BookingExecution
  <2> QED
    BY <1>0, <2>1, <2>2
<1>6. CASE UNCHANGED <<executionsFile, positionsFile, tradesRead>>
  <2> HIDE DEF n, m, Explains
  <2> QED
    BY <1>0, <1>1, <1>6
<1>7. CASE \/ EndOfTrades \/ ReadOrderBook \/ EndOfMarket \/ PassOnWideBook
           \/ AlgoExecuteOrder \/ ExecuteOrder \/ ProcessExecution
           \/ OnMessage \/ BookTrade \/ AddTrade \/ AddPosition
           \/ PersistRisk
  BY <1>6, <1>7
     DEF EndOfTrades, ReadOrderBook, EndOfMarket, PassOnWideBook,
         AlgoExecuteOrder, ExecuteOrder, ProcessExecution, OnMessage,
         BookTrade, AddTrade, AddPosition, PersistRisk, fileVars, inputVars
<1> QED
  BY <1>3, <1>4, <1>5, <1>7, Zenon DEF Next

-----------------------------------------------------------------------------
(***************************************************************************)
(* The inductive invariant of orders and lines, and its theorems.          *)
(***************************************************************************)

\* What the theorems below rest on, besides IInv: where the order, its trade
\* and their lines are at every call.
FlowInv ==
  /\ IInv /\ OrdersInv
  /\ LinesOnFile /\ ExecutionsFileExplainsPositionsFile

\* Nothing is in flight or on file when main starts.
LEMMA FlowInit == Init => FlowInv
<1> SUFFICES ASSUME Init PROVE FlowInv
  OBVIOUS
<1>1. /\ pc = "Main" /\ returnTo = "Main" /\ executionsFile = << >>
      /\ DOMAIN algoExecutions = {} /\ DOMAIN executionOrders = {}
  BY DEF Init, AlgoExecutionInit, ExecutionInit, EmptyMap,
         ExecutionHistory!Init
<1>2. OrdersInv
  BY <1>1
     DEF OrdersInv, OrderKept, OrderInFlight, BookStored, TradeStored,
         TradeOfOrder, LastOrdersAgree, AggressesTopOfBook, BookingExecution
<1>3. LinesOnFile /\ ExecutionsFileExplainsPositionsFile
  BY <1>1 DEF LinesOnFile, ExecutionsFileExplainsPositionsFile
<1> QED
  BY <1>2, <1>3, InvariantInit DEF FlowInv

\* Every step keeps track of the order in flight and of its lines.
LEMMA FlowStep == FlowInv /\ [Next]_vars => FlowInv'
<1> SUFFICES ASSUME FlowInv, [Next]_vars PROVE FlowInv'
  OBVIOUS
<1>1. /\ IInv /\ OrderKept /\ BookStored /\ TradeStored /\ TradeOfOrder
      /\ LastOrdersAgree /\ AggressesTopOfBook /\ LinesOnFile
      /\ ExecutionsFileExplainsPositionsFile
  BY Zenon DEF FlowInv, OrdersInv
<1>2. IInv'
  BY <1>1, InvariantStep
<1>3. CASE Next
  <2>1. OrderKept' /\ BookStored' /\ TradeStored' /\ TradeOfOrder'
    BY <1>1, <1>3, OrderKeptStep, BookStoredStep, TradeStoredStep,
       TradeOfOrderStep
  <2>2. LastOrdersAgree' /\ AggressesTopOfBook'
    BY <1>1, <1>3, LastOrdersAgreeStep, AggressesTopOfBookStep
  <2>3. LinesOnFile' /\ ExecutionsFileExplainsPositionsFile'
    BY <1>1, <1>3, LinesOnFileStep, ExecutionsFileStep
  <2> QED
    BY <1>2, <2>1, <2>2, <2>3, Zenon DEF FlowInv, OrdersInv
<1>4. CASE UNCHANGED vars
  <2> USE <1>4 DEF vars, serviceVars, fileVars, callVars, inputVars, historyVars
  <2>1. OrderKept' /\ BookStored' /\ TradeStored' /\ TradeOfOrder'
    BY <1>1
       DEF OrderKept, OrderInFlight, BookingExecution, BookStored,
           TradeStored, TradeOfOrder, SignedQuantity, Moved
  <2>2. LastOrdersAgree' /\ AggressesTopOfBook'
    BY <1>1, Zenon
       DEF LastOrdersAgree, IsLastLine, BookingExecution, AggressesTopOfBook
  <2>3. LinesOnFile' /\ ExecutionsFileExplainsPositionsFile'
    BY <1>1, Zenon
       DEF LinesOnFile, MovedBetween, SignedQuantity,
           ExecutionsFileExplainsPositionsFile
  <2> QED
    BY <1>2, <2>1, <2>2, <2>3, Zenon DEF FlowInv, OrdersInv
<1> QED
  BY <1>3, <1>4

\* The inductive invariant holds in every reachable state.
THEOREM FlowInvariant == Spec => []FlowInv
  BY FlowInit, FlowStep, PTL DEF Spec

\* The three places that keep the last order of a product never disagree but
\* on the order in flight.
THEOREM LastOrdersCorrect == Spec => []LastOrdersAgree
<1>1. FlowInv => LastOrdersAgree
  BY DEF FlowInv, OrdersInv
<1> QED
  BY <1>1, FlowInvariant, PTL

\* No order goes out but at the best price, and for the whole quantity, of its
\* side of a tight bid/offer.
THEOREM OrdersCorrect == Spec => []AggressesTopOfBook
<1>1. FlowInv => AggressesTopOfBook
  BY DEF FlowInv, OrdersInv
<1> QED
  BY <1>1, FlowInvariant, PTL

\* Each line of executions.txt is explained by two lines of positions.txt.
THEOREM ExecutionsFileCorrect == Spec => []ExecutionsFileExplainsPositionsFile
<1>1. FlowInv => ExecutionsFileExplainsPositionsFile
  BY DEF FlowInv
<1> QED
  BY <1>1, FlowInvariant, PTL

\* Only a stored trade moves a position, and by what it says.
THEOREM TradesMovePositions == Spec => StoredTradesMovePositions
<1>1. FlowInv /\ [Next]_vars => [MovesByStoredTrade]_vars
  <2> SUFFICES ASSUME FlowInv, Next PROVE MovesByStoredTrade
    BY DEF vars, serviceVars, MovesByStoredTrade, Held, PositionOf, GetPosition
  <2>1. CASE AddTrade
    <3>1. pc = "AddTrade" /\ TradeStored
      BY <2>1 DEF AddTrade, FlowInv, OrdersInv
    <3>2. trade.tradeId \in DOMAIN trades /\ trades[trade.tradeId] = trade
      BY <3>1 DEF TradeStored
    <3>3. SUFFICES ASSUME NEW p \in ProductIds, NEW b \in Books,
                          Held(p, b)' # Held(p, b)
          PROVE  \E id \in DOMAIN trades :
                   /\ trades[id].product = p /\ trades[id].book = b
                   /\ Held(p, b)' = Held(p, b) + SignedQuantity(trades[id])
      BY Zenon DEF MovesByStoredTrade
    <3>4. /\ p = trade.product /\ b = trade.book
          /\ Held(p, b)' = Held(p, b) + SignedQuantity(trade)
      BY <2>1, <3>3, AddTradeMoves
    <3> QED
      BY <3>2, <3>4
  <2>2. CASE UNCHANGED positions
    BY <2>2 DEF MovesByStoredTrade, Held, PositionOf, GetPosition, At
  <2> QED
    BY <2>1, <2>2
       DEF Next, ReadTrade, EndOfTrades, ReadOrderBook, EndOfMarket,
           PassOnWideBook, AlgoExecuteOrder, ExecuteOrder, ProcessExecution,
           OnMessage, BookTrade, AddPosition, PersistRisk, PersistPosition,
           PersistExecution, serviceVars
<1> QED
  BY <1>1, FlowInvariant, PTL DEF Spec, StoredTradesMovePositions

-----------------------------------------------------------------------------
(***************************************************************************)
(* How far from 0 a position can be.                                       *)
(***************************************************************************)

\* The quantities of the input are integers, and so are their magnitudes.
LEMMA InputTypes ==
  /\ InputOrders \subseteq Orders
  /\ \A n \in Int : Magnitude(n) \in Nat /\ -Magnitude(n) <= n /\ n <= Magnitude(n)
  /\ Magnitudes \subseteq Nat
<1>1. \A n \in Int : Magnitude(n) \in Nat /\ -Magnitude(n) <= n /\ n <= Magnitude(n)
  BY DEF Magnitude
<1>2. ASSUME NEW book \in OrderBooks PROVE OrdersOf(book) \subseteq Orders
  <2>1. book.bidStack \in Seq(Orders) /\ book.offerStack \in Seq(Orders)
    BY OrderBooksAssumption DEF Stacks
  <2>2. \A stack \in Seq(Orders) : Range(stack) \subseteq Orders
    BY DEF Range
  <2> QED
    BY <2>1, <2>2 DEF OrdersOf
<1>3. InputOrders \subseteq Orders
  <2>1. UNION {OrdersOf(book) : book \in OrderBooks} \subseteq Orders
    BY <1>2
  <2>2. /\ {bidOffer.bid : bidOffer \in StaleBidOffers} \subseteq Orders
        /\ {bidOffer.offer : bidOffer \in StaleBidOffers} \subseteq Orders
    BY StaleBidOffersAssumption DEF BidOffers
  <2>3. UnsetOrders \subseteq Orders
    BY OrderBooksAssumption
  <2> QED
    BY <2>1, <2>2, <2>3 DEF InputOrders
<1>4. \A placed \in InputOrders : placed.quantity \in Int
  BY <1>3 DEF Orders
<1>5. \A line \in FileTrades : line.quantity \in Int
  BY TradeBookingAssumption DEF TradeLines
<1> QED
  BY <1>1, <1>3, <1>4, <1>5 DEF Magnitudes

\* The input has a largest quantity; 32-bit quantities always do.
HasLargest == \E largest \in Magnitudes : \A n \in Magnitudes : n <= largest

\* It is the one LargestQuantity names.
LEMMA LargestIsLargest ==
  ASSUME HasLargest
  PROVE  LargestQuantity \in Nat /\ \A n \in Magnitudes : n <= LargestQuantity
<1>1. /\ LargestQuantity \in Magnitudes
      /\ \A n \in Magnitudes : n <= LargestQuantity
  BY Zenon DEF HasLargest, LargestQuantity
<1> QED
  BY <1>1, InputTypes

\* The order read from a book is one of the input.
LEMMA OrderFromInput ==
  ASSUME NEW book \in OrderBooks, NEW bidOffer \in ReadableBidOffers(book),
         NEW id \in OrderIds
  PROVE  Magnitude(NextOrder(book.product, id, bidOffer).visibleQuantity)
           \in Magnitudes
<1>1. bidOffer.bid \in InputOrders /\ bidOffer.offer \in InputOrders
  <2>1. CASE bidOffer \in StaleBidOffers
    BY <2>1 DEF InputOrders
  <2>2. CASE bidOffer \in [bid   : Range(book.bidStack) \cup UnsetOrders,
                           offer : Range(book.offerStack) \cup UnsetOrders]
    <3>1. /\ bidOffer.bid \in OrdersOf(book) \cup UnsetOrders
          /\ bidOffer.offer \in OrdersOf(book) \cup UnsetOrders
      BY <2>2 DEF OrdersOf
    <3>2. OrdersOf(book) \subseteq UNION {OrdersOf(other) : other \in OrderBooks}
      OBVIOUS
    <3>3. OrdersOf(book) \cup UnsetOrders \subseteq InputOrders
      BY <3>2 DEF InputOrders
    <3> QED
      BY <3>1, <3>3
  <2> QED
    BY <2>1, <2>2, ReadBidOffer
<1>2. \/ NextOrder(book.product, id, bidOffer).visibleQuantity
           = bidOffer.bid.quantity
      \/ NextOrder(book.product, id, bidOffer).visibleQuantity
           = bidOffer.offer.quantity
  BY DEF NextOrder
<1> QED
  BY <1>1, <1>2 DEF Magnitudes

\* The order and the trade in flight have a quantity of the input.
QuantitiesFromInput ==
  /\ pc \in OrderCalls \/ returnTo # "Main"
       => Magnitude(order.visibleQuantity) \in Magnitudes
  /\ pc \in NotifyCalls \cup {"BookTrade"} \/ returnTo # "Main"
       => Magnitude(trade.quantity) \in Magnitudes

\* No call changes a quantity on its way.
LEMMA QuantitiesStep ==
  ASSUME TypeOK, CallsReturn, QuantitiesFromInput, Next
  PROVE  QuantitiesFromInput'
<1> USE DEF QuantitiesFromInput, OrderCalls, NotifyCalls
<1>0. CallsTypeOK
  BY TypeOKParts
<1>1. CASE ReadTrade
  <2>1. Magnitude(trade'.quantity) \in Magnitudes
    BY <1>1 DEF ReadTrade, TradeOfLine, Magnitudes
  <2> QED
    BY <1>1, <2>1 DEF ReadTrade, CallsReturn
<1>2. CASE AlgoExecuteOrder
  <2>1. orderBook \in OrderBooks
    BY <1>0, <1>2 DEF AlgoExecuteOrder, CallsTypeOK
  <2>2. Magnitude(order'.visibleQuantity) \in Magnitudes
    BY <1>2, <2>1, OrderFromInput DEF AlgoExecuteOrder
  <2> QED
    BY <1>2, <2>2 DEF AlgoExecuteOrder, CallsReturn
<1>3. CASE ProcessExecution
  <2>1. order \in ExecutionOrders
    BY <1>0, <1>3 DEF ProcessExecution, CallsTypeOK
  <2>2. trade'.quantity = order.visibleQuantity + order.hiddenQuantity
    BY <1>3 DEF ProcessExecution, TradeOfExecution
  <2>3. trade'.quantity = order.visibleQuantity
    BY <2>1, <2>2 DEF ExecutionOrders
  <2> QED
    BY <1>3, <2>3 DEF ProcessExecution
<1>4. CASE EndOfTrades \/ ReadOrderBook \/ EndOfMarket \/ PassOnWideBook
  BY <1>4 DEF EndOfTrades, ReadOrderBook, EndOfMarket, PassOnWideBook, callVars,
              CallsReturn
<1>5. CASE ExecuteOrder \/ OnMessage \/ BookTrade \/ AddTrade
  BY <1>5 DEF ExecuteOrder, OnMessage, BookTrade, AddTrade, CallsReturn
<1>6. CASE AddPosition \/ PersistRisk \/ PersistPosition \/ PersistExecution
  BY <1>0, <1>6 DEF AddPosition, PersistRisk, PersistPosition, PersistExecution,
                    CallsReturn, CallsTypeOK
<1> QED
  BY <1>1, <1>2, <1>3, <1>4, <1>5, <1>6 DEF Next

\* The magnitudes of a position's books are a function to sum.
LEMMA GrossType ==
  ASSUME NEW held, IsPosition(held)
  PROVE  /\ IsFiniteSet(DOMAIN held)
         /\ [book \in DOMAIN held |-> Magnitude(held[book])]
              \in [DOMAIN held -> Int]
         /\ Gross(held) \in Int
<1>1. IsFiniteSet(DOMAIN held) /\ held \in [DOMAIN held -> Int]
  BY TradeBookingAssumption, FS_Subset DEF IsPosition, IsMap
<1>2. [book \in DOMAIN held |-> Magnitude(held[book])] \in [DOMAIN held -> Int]
  BY <1>1, InputTypes
<1> QED
  BY <1>1, <1>2, SumFunctionInt DEF Gross

\* Adding to a book adds at most as much to what the position holds.
LEMMA GrossAdds ==
  ASSUME NEW held, IsPosition(held), NEW book \in Books, NEW n \in Int,
         NEW added, added = AddToBook(held, book, n), IsPosition(added)
  PROVE  Gross(added) <= Gross(held) + Magnitude(n)
<1>1. PICK S : S = DOMAIN held
  OBVIOUS
<1>2. PICK T : T = DOMAIN added
  OBVIOUS
<1>3. PICK f : f = [b \in S |-> Magnitude(held[b])]
  OBVIOUS
<1>4. PICK g : g = [b \in T |-> Magnitude(added[b])]
  OBVIOUS
<1>5. /\ IsFiniteSet(S) /\ f \in [S -> Int]
      /\ Gross(held) = SumFunction(f) /\ SumFunction(f) \in Int
  BY <1>1, <1>3, GrossType DEF Gross
<1>6. /\ IsFiniteSet(T) /\ g \in [T -> Int]
      /\ Gross(added) = SumFunction(g) /\ SumFunction(g) \in Int
  BY <1>2, <1>4, GrossType DEF Gross
<1>7. /\ T = S \cup {book} /\ added[book] = GetPosition(held, book) + n
      /\ \A b \in S \ {book} : added[b] = held[b]
  <2>1. PICK sum : sum = GetPosition(held, book) + n
    OBVIOUS
  <2>2. added = Put(held, book, sum)
    BY <2>1 DEF AddToBook
  <2>3. /\ DOMAIN added = DOMAIN held \cup {book} /\ added[book] = sum
        /\ \A b \in DOMAIN held : b # book => added[b] = held[b]
    BY <2>2 DEF Put
  <2> QED
    BY <1>1, <1>2, <2>1, <2>3
<1>8. \A b \in S \ {book} : g[b] = f[b]
  BY <1>3, <1>4, <1>7
<1>9. CASE book \in S
  <2>1. T = S
    BY <1>7, <1>9
  <2>2. SumFunction(g) - g[book] = SumFunction(f) - f[book]
    BY <1>5, <1>6, <1>8, <1>9, <2>1, SumMoves
  <2>3. held[book] \in Int /\ added[book] = held[book] + n
    BY <1>1, <1>7, <1>9 DEF GetPosition, At, IsPosition, IsMap
  <2>4. f[book] = Magnitude(held[book]) /\ g[book] = Magnitude(held[book] + n)
    BY <1>3, <1>4, <1>9, <2>1, <2>3
  <2>5. \A k \in Int : Magnitude(k + n) <= Magnitude(k) + Magnitude(n)
    BY DEF Magnitude
  <2>6. g[book] <= f[book] + Magnitude(n)
    BY <2>3, <2>4, <2>5
  <2>7. f[book] \in Int /\ g[book] \in Int /\ Magnitude(n) \in Int
    BY <1>5, <1>6, <1>9, <2>1, InputTypes
  <2> QED
    BY <1>5, <1>6, <2>2, <2>6, <2>7
<1>10. CASE book \notin S
  <2>1. book \in T /\ S = T \ {book} /\ \A b \in S : f[b] = g[b]
    BY <1>7, <1>8, <1>10
  <2>2. SumFunction(g) = g[book] + SumFunction(f)
    <3>1. IsFiniteSet(T) /\ g \in [T -> Int] /\ f \in [S -> Int]
      BY <1>5, <1>6
    <3>2. PICK x \in T : x = book
      BY <2>1
    <3>3. S = T \ {x} /\ \A b \in S : f[b] = g[b]
      BY <2>1, <3>2
    <3>4. SumFunction(g) = g[x] + SumFunction(f)
      BY <3>1, <3>2, <3>3, SumWithout
    <3> QED
      BY <3>2, <3>4
  <2>3. added[book] = n
    BY <1>1, <1>7, <1>10 DEF GetPosition, At
  <2>4. g[book] = Magnitude(n) /\ Magnitude(n) \in Int
    BY <1>4, <2>1, <2>3, InputTypes
  <2> QED
    BY <1>5, <1>6, <2>2, <2>4
<1> QED
  BY <1>9, <1>10

\* No books hold nothing.
LEMMA GrossOfNothing == Gross(EmptyMap) = 0
<1>1. PICK f : f = [book \in DOMAIN EmptyMap |-> Magnitude(EmptyMap[book])]
  OBVIOUS
<1>2. DOMAIN f = {} /\ f = [x \in {} |-> f[x]]
  BY <1>1 DEF EmptyMap
<1> QED
  BY <1>1, <1>2, SumOfNone DEF Gross

\* A book holds no more than its position does, nor does the aggregate.
LEMMA GrossBounds ==
  ASSUME NEW held, IsPosition(held)
  PROVE  /\ Magnitude(GetAggregatePosition(held)) <= Gross(held)
         /\ \A book \in Books : Magnitude(GetPosition(held, book)) <= Gross(held)
<1>1. PICK S : S = DOMAIN held
  OBVIOUS
<1>2. PICK f : f = [b \in S |-> Magnitude(held[b])]
  OBVIOUS
<1>3. /\ IsFiniteSet(S) /\ f \in [S -> Int] /\ held \in [S -> Int]
      /\ Gross(held) = SumFunction(f) /\ SumFunction(f) \in Int
  BY <1>1, <1>2, GrossType DEF Gross, IsPosition, IsMap
<1>4. \A b \in S : -f[b] <= held[b] /\ held[b] <= f[b]
  BY <1>2, <1>3, InputTypes
<1>5. /\ -SumFunction(f) <= SumFunction(held)
      /\ SumFunction(held) <= SumFunction(f)
  BY <1>3, <1>4, SumAtMost
<1>6. SumFunction(held) \in Int
  BY <1>3, SumFunctionInt
<1>7. Magnitude(GetAggregatePosition(held)) <= Gross(held)
  BY <1>3, <1>5, <1>6 DEF GetAggregatePosition, Magnitude
<1>8. ASSUME NEW book \in Books
      PROVE  Magnitude(GetPosition(held, book)) <= Gross(held)
  <2>1. CASE book \notin S
    <3>1. GetPosition(held, book) = 0
      BY <1>1, <2>1 DEF GetPosition, At
    <3> QED
      BY <1>3, <1>5, <1>6, <3>1 DEF Magnitude
  <2>2. CASE book \in S
    <3>1. PICK R : R = S \ {book}
      OBVIOUS
    <3>2. PICK e : e = [b \in R |-> f[b]]
      OBVIOUS
    <3>3. IsFiniteSet(R) /\ e \in [R -> Int] /\ \A b \in R : e[b] = f[b]
      BY <1>3, <3>1, <3>2, FS_Subset
    <3>4. SumFunction(f) = f[book] + SumFunction(e)
      <4>1. IsFiniteSet(S) /\ f \in [S -> Int]
        BY <1>3
      <4>2. PICK x \in S : x = book
        BY <2>2
      <4>3. R = S \ {x}
        BY <3>1, <4>2
      <4>4. SumFunction(f) = f[x] + SumFunction(e)
        BY <3>3, <4>1, <4>2, <4>3, SumWithout
      <4> QED
        BY <4>2, <4>4
    <3>5. \A b \in R : -e[b] <= e[b] /\ e[b] <= e[b]
      <4>1. \A b \in R : f[b] \in Nat
        BY <1>2, <1>3, <3>1, InputTypes
      <4> QED
        BY <3>3, <4>1
    <3>6. SumFunction(e) \in Int /\ -SumFunction(e) <= SumFunction(e)
      BY <3>3, <3>5, SumAtMost, SumFunctionInt
    <3>7. f[book] = Magnitude(GetPosition(held, book)) /\ f[book] \in Int
      BY <1>1, <1>2, <1>3, <2>2 DEF GetPosition, At
    <3> QED
      BY <1>3, <3>4, <3>6, <3>7
  <2> QED
    BY <2>1, <2>2
<1> QED
  BY <1>7, <1>8

\* One more of the largest.
LEMMA OneMore ==
  ASSUME NEW largest \in Nat, NEW n \in Nat
  PROVE  /\ largest * (n + 1) = largest * n + largest
         /\ largest * n \in Nat
  BY SMT

\* Only AddTrade moves a position, and counts as a posting when it does.
LEMMA PostingsStep ==
  ASSUME IInv, Next
  PROVE  /\ Postings \in Nat
         /\ AddTrade => Postings' = Postings + 1
         /\ ~AddTrade => Postings' = Postings /\ UNCHANGED positions
<1>0. TypeOK /\ CallsTypeOK /\ CallsReturn /\ FilesInStep /\ ServicesTypeOK
  BY TypeOKParts DEF IInv
<1>1. tradesRead \in Nat /\ bookingCount \in Nat
  BY <1>0, BoundsAssumption
     DEF CallsTypeOK, ServicesTypeOK, TradeBookingTypeOK
<1>2. AddTradesDue \in {0, 1, 2}
  BY DEF AddTradesDue
<1>3. Postings \in Nat
  <2>1. Len(positionsFile) \in Nat
    BY <1>0, Lengths
  <2>2. AddTradesDue <= tradesRead + 2 * bookingCount
    BY <1>0, <1>1, <2>1 DEF FilesInStep, AddTradesDue, NotifyCalls
  <2> QED
    BY <1>1, <1>2, <2>2 DEF Postings
<1> USE DEF AddTradesDue, serviceVars, callVars, inputVars
<1>4. CASE AddTrade
  <2>1. AddTradesDue' = AddTradesDue - 1 /\ UNCHANGED <<tradesRead, bookingCount>>
    BY <1>4 DEF AddTrade
  <2> QED
    BY <1>1, <1>2, <1>3, <1>4, <2>1 DEF Postings
<1>5. CASE ReadTrade
  <2>1. /\ AddTradesDue' = AddTradesDue + 1 /\ tradesRead' = tradesRead + 1
        /\ UNCHANGED <<positions, bookingCount>> /\ ~AddTrade
    BY <1>0, <1>5 DEF ReadTrade, AddTrade, CallsReturn
  <2> QED
    BY <1>1, <1>2, <1>3, <2>1 DEF Postings
<1>6. CASE ProcessExecution
  <2>1. /\ AddTradesDue' = AddTradesDue + 2 /\ bookingCount' = bookingCount + 1
        /\ UNCHANGED <<positions, tradesRead>> /\ ~AddTrade
    BY <1>0, <1>6 DEF ProcessExecution, CountExecution, AddTrade, CallsReturn
  <2> QED
    BY <1>1, <1>2, <1>3, <2>1 DEF Postings
<1>7. CASE /\ AddTradesDue' = AddTradesDue /\ ~AddTrade
           /\ UNCHANGED <<positions, tradesRead, bookingCount>>
  BY <1>1, <1>2, <1>3, <1>7 DEF Postings
<1>8. CASE EndOfTrades \/ ReadOrderBook \/ EndOfMarket \/ PassOnWideBook
  BY <1>0, <1>7, <1>8
     DEF EndOfTrades, ReadOrderBook, EndOfMarket, PassOnWideBook, AddTrade
<1>9. CASE AlgoExecuteOrder \/ ExecuteOrder \/ OnMessage \/ BookTrade
  BY <1>0, <1>7, <1>9
     DEF AlgoExecuteOrder, ExecuteOrder, OnMessage, BookTrade, AddTrade,
         CallsReturn
<1>10. CASE AddPosition \/ PersistRisk \/ PersistPosition \/ PersistExecution
  BY <1>0, <1>7, <1>10
     DEF AddPosition, PersistRisk, PersistPosition, PersistExecution, AddTrade,
         CallsReturn, CallsTypeOK
<1> QED
  BY <1>4, <1>5, <1>6, <1>8, <1>9, <1>10 DEF Next

\* Each call of AddTrade adds at most the largest quantity.
LEMMA WithinInputStep ==
  ASSUME HasLargest, IInv, QuantitiesFromInput, PositionsWithinInput, Next
  PROVE  PositionsWithinInput'
<1>0. TypeOK /\ CallsTypeOK /\ PositionTypeOK
  BY TypeOKParts DEF IInv, ServicesTypeOK
<1>1. PICK largest \in Nat : /\ largest = LargestQuantity
                             /\ \A n \in Magnitudes : n <= largest
  BY LargestIsLargest
<1>2. PICK n \in Nat : n = Postings
  BY PostingsStep
<1>3. \A p \in DOMAIN positions : /\ IsPosition(positions[p])
                                  /\ Gross(positions[p]) \in Int
                                  /\ Gross(positions[p]) <= largest * n
  BY <1>0, <1>1, <1>2, GrossType DEF PositionsWithinInput, PositionTypeOK
<1>4. /\ largest * (n + 1) = largest * n + largest
      /\ largest * n \in Nat /\ largest * (n + 1) \in Nat
  BY OneMore
<1>5. CASE AddTrade
  <2>1. trade \in Trades /\ Magnitude(trade.quantity) \in Magnitudes
    BY <1>0, <1>5 DEF AddTrade, CallsTypeOK, QuantitiesFromInput, NotifyCalls
  <2>2. PICK signed \in Int : signed = SignedQuantity(trade)
    BY <2>1, SignedQuantityType
  <2>3. Magnitude(signed) <= largest /\ Magnitude(signed) \in Nat
    <3>1. trade.quantity \in Int
      BY <2>1 DEF Trades
    <3>2. Magnitude(signed) = Magnitude(trade.quantity)
      BY <2>2, <3>1 DEF SignedQuantity, Magnitude
    <3> QED
      BY <1>1, <2>1, <2>2, <3>2, InputTypes
  <2>4. PICK held : held = PositionOf(trade.product)
    OBVIOUS
  <2>5. PICK added : added = MergedPosition(trade)
    OBVIOUS
  <2>6. /\ IsPosition(held) /\ Gross(held) \in Int /\ Gross(held) <= largest * n
    <3>1. CASE trade.product \in DOMAIN positions
      BY <1>3, <2>4, <3>1 DEF PositionOf, At
    <3>2. CASE trade.product \notin DOMAIN positions
      <4>1. held = EmptyMap
        BY <2>4, <3>2 DEF PositionOf, At
      <4> QED
        BY <1>4, <4>1, GrossOfNothing, EmptyIsMap DEF IsPosition
    <3> QED
      BY <3>1, <3>2
  <2>7. IsPosition(added) /\ Gross(added) \in Int
    BY <1>0, <2>1, <2>5, MergedPositionType, GrossType
  <2>8. added = AddToBook(held, trade.book, signed) /\ trade.book \in Books
    BY <2>1, <2>2, <2>4, <2>5 DEF MergedPosition, Trades
  <2>9. Gross(added) <= Gross(held) + Magnitude(signed)
    BY <2>6, <2>7, <2>8, GrossAdds
  <2>10. Gross(added) <= largest * (n + 1)
    BY <1>4, <2>3, <2>6, <2>7, <2>9
  <2>11. /\ DOMAIN positions' = DOMAIN positions \cup {trade.product}
         /\ positions'[trade.product] = added
         /\ \A q \in DOMAIN positions :
              q # trade.product => positions'[q] = positions[q]
    BY <1>5, <2>5, MapWrites
  <2>12. ASSUME NEW p \in DOMAIN positions'
         PROVE  Gross(positions'[p]) <= largest * (n + 1)
    <3>1. CASE p = trade.product
      BY <2>10, <2>11, <3>1
    <3>2. CASE p # trade.product
      <4>1. /\ positions'[p] = positions[p]
            /\ Gross(positions[p]) \in Int /\ Gross(positions[p]) <= largest * n
        BY <1>3, <2>11, <3>2
      <4> QED
        BY <1>4, <4>1
    <3> QED
      BY <3>1, <3>2
  <2>13. Postings' = n + 1
    BY <1>2, <1>5, PostingsStep
  <2> QED
    BY <1>1, <2>12, <2>13 DEF PositionsWithinInput, LargestQuantity, Gross
<1>6. CASE ~AddTrade
  <2>1. UNCHANGED positions /\ Postings' = Postings
    BY <1>6, PostingsStep
  <2> QED
    BY <2>1 DEF PositionsWithinInput, Gross
<1> QED
  BY <1>5, <1>6

\* Whatever the input, so many calls of AddTrade reach no further from 0 than
\* as many times its largest quantity.
THEOREM PositionsStayWithinInput ==
  ASSUME HasLargest
  PROVE  Spec => []PositionsWithinInput
<1>1. Init => QuantitiesFromInput /\ PositionsWithinInput
  BY DEF Init, QuantitiesFromInput, PositionsWithinInput, PositionInit,
         EmptyMap, OrderCalls, NotifyCalls
<1>2. IInv /\ QuantitiesFromInput /\ PositionsWithinInput /\ [Next]_vars
        => QuantitiesFromInput' /\ PositionsWithinInput'
  <2> SUFFICES ASSUME IInv, QuantitiesFromInput, PositionsWithinInput,
                      [Next]_vars
               PROVE  QuantitiesFromInput' /\ PositionsWithinInput'
    OBVIOUS
  <2>1. CASE Next
    BY <2>1, QuantitiesStep, WithinInputStep DEF IInv
  <2>2. CASE UNCHANGED vars
    BY <2>2
       DEF vars, serviceVars, callVars, inputVars, QuantitiesFromInput,
           PositionsWithinInput, Postings, AddTradesDue, Gross
  <2> QED
    BY <2>1, <2>2
<1> QED
  BY <1>1, <1>2, Invariant, PTL DEF Spec

\* As long as so much does not leave 32 bits, no book and no aggregate does.
THEOREM QuantitiesFit ==
  ASSUME NEW longEnd \in Nat, HasLargest, TypeOK, PositionsWithinInput,
         LargestQuantity * Postings < longEnd,
         NEW product \in DOMAIN positions
  PROVE  /\ Magnitude(GetAggregatePosition(positions[product])) < longEnd
         /\ \A book \in Books : Magnitude(Held(product, book)) < longEnd
<1>1. IsPosition(positions[product])
  BY DEF TypeOK, PositionTypeOK
<1>2. PICK g \in Int : g = Gross(positions[product])
  BY <1>1, GrossType
<1>3. PICK l : l = LargestQuantity * Postings
  OBVIOUS
<1>4. l \in Int
  <2>1. tradesRead \in Int /\ bookingCount \in Int /\ AddTradesDue \in {0, 1, 2}
    BY BoundsAssumption DEF TypeOK, TradeBookingTypeOK, AddTradesDue
  <2>2. Postings \in Int
    BY <2>1 DEF Postings
  <2>3. LargestQuantity \in Int
    BY LargestIsLargest
  <2> QED
    BY <1>3, <2>2, <2>3
<1>5. g <= l /\ l < longEnd
  BY <1>2, <1>3 DEF PositionsWithinInput
<1>6. ASSUME NEW k \in Int, Magnitude(k) <= g PROVE Magnitude(k) < longEnd
  BY <1>4, <1>5, <1>6, InputTypes
<1>7. Magnitude(GetAggregatePosition(positions[product])) < longEnd
  BY <1>1, <1>2, <1>6, GrossBounds, AggregateType
<1>8. ASSUME NEW book \in Books PROVE Magnitude(Held(product, book)) < longEnd
  <2>1. Held(product, book) = GetPosition(positions[product], book)
    BY DEF Held, PositionOf, At
  <2>2. Held(product, book) \in Int
    BY HeldType DEF TypeOK
  <2> QED
    BY <1>1, <1>2, <1>6, <2>1, <2>2, GrossBounds
<1> QED
  BY <1>7, <1>8

-----------------------------------------------------------------------------
(***************************************************************************)
(* Ledger: every step of the flow is a step of the ledger, or leaves it    *)
(* alone, when the files are read by the last line of each product.        *)
(***************************************************************************)

\* The last line of a product is found if there is any of it.
LEMMA LastLineExists ==
  ASSUME NEW file, NEW n \in Nat, DOMAIN file = 1..n, NEW p,
         NEW i \in 1..n, file[i].product = p
  PROVE  \E k \in 1..n : IsLastLine(file, k, p)
<1> DEFINE T == {m \in 0..n : \E k \in 1..n : file[k].product = p /\ m = n - k}
<1>1. T \in SUBSET Nat /\ n - i \in T
  OBVIOUS
<1>2. PICK m \in T : \A other \in T : m <= other
  <2> HIDE DEF T
  <2> QED
    BY <1>1, LeastNat
<1>3. PICK k \in 1..n : file[k].product = p /\ m = n - k
  BY <1>2
<1>4. ASSUME NEW j \in 1..n, j > k, file[j].product = p
      PROVE  FALSE
  <2>1. n - j \in T
    BY <1>4
  <2> QED
    BY <1>2, <1>3, <1>4, <2>1
<1> QED
  BY <1>3, <1>4 DEF IsLastLine

\* There is only one last line of a product.
LEMMA LastLineChosen ==
  ASSUME NEW file, NEW n \in Nat, DOMAIN file = 1..n, NEW p,
         NEW i, IsLastLine(file, i, p)
  PROVE  LastLine(file, p) = i
<1> DEFINE c == LastLine(file, p)
<1>1. i \in 1..n
  BY DEF IsLastLine
<1>2. c \in 1..n /\ IsLastLine(file, c, p)
  BY <1>1, Zenon DEF LastLine
<1> HIDE DEF c
<1>3. ~ (c < i) /\ ~ (i < c)
  BY <1>1, <1>2 DEF IsLastLine
<1>4. c = i
  BY <1>1, <1>2, <1>3
<1> QED
  BY <1>4 DEF c

\* A line appended is the last of its product, and leaves the last lines of
\* the others where they are.
LEMMA LastLineAppended ==
  ASSUME NEW file, NEW longer, NEW n \in Nat,
         DOMAIN file = 1..n, DOMAIN longer = 1..(n + 1),
         \A i \in 1..n : longer[i] = file[i],
         NEW p
  PROVE  IF longer[n + 1].product = p
         THEN LastLine(longer, p) = n + 1
         ELSE (\E i \in DOMAIN file : file[i].product = p) =>
                /\ LastLine(longer, p) \in 1..n
                /\ LastLine(longer, p) = LastLine(file, p)
<1>1. CASE longer[n + 1].product = p
  <2>1. IsLastLine(longer, n + 1, p)
    BY <1>1 DEF IsLastLine
  <2> QED
    BY <1>1, <2>1, LastLineChosen
<1>2. CASE longer[n + 1].product # p
                /\ \E i \in DOMAIN file : file[i].product = p
  <2>1. PICK k \in 1..n : IsLastLine(file, k, p)
    BY <1>2, LastLineExists
  <2>2. IsLastLine(longer, k, p)
    BY <1>2, <2>1 DEF IsLastLine
  <2>3. LastLine(file, p) = k
    BY <2>1, LastLineChosen
  <2>4. LastLine(longer, p) = k
    BY <2>2, LastLineChosen
  <2> QED
    BY <1>2, <2>3, <2>4
<1> QED
  BY <1>1, <1>2

\* The records the two files make, after a line is added to one.
LEMMA RecordsMove ==
  ASSUME TypeOK, NEW p
  PROVE  /\ PersistRisk =>
              LastRisk(p)' = IF pv01.product = p THEN pv01.quantity
                                                 ELSE LastRisk(p)
         /\ PersistPosition =>
              LastPosition(p)' = IF position.product = p THEN position.held
                                                         ELSE LastPosition(p)
<1>1. ASSUME PersistRisk
      PROVE  LastRisk(p)' = IF pv01.product = p THEN pv01.quantity
                                                ELSE LastRisk(p)
  <2> DEFINE n == Len(riskFile)
  <2>1. /\ n \in Nat /\ DOMAIN riskFile = 1..n
        /\ DOMAIN riskFile' = 1..(n + 1)
        /\ riskFile'[n + 1] = pv01
        /\ \A i \in 1..n : riskFile'[i] = riskFile[i]
    BY <1>1, Appends, Lengths
  <2>4. /\ LastRisk(p) = IF \E i \in DOMAIN riskFile : riskFile[i].product = p
                    THEN riskFile[LastLine(riskFile, p)].quantity ELSE 0
        /\ LastRisk(p)' = IF \E i \in DOMAIN riskFile' : riskFile'[i].product = p
                     THEN riskFile'[LastLine(riskFile', p)].quantity ELSE 0
    BY Zenon DEF LastRisk, LastLine, IsLastLine
  <2>5. IF riskFile'[n + 1].product = p
        THEN LastLine(riskFile', p) = n + 1
        ELSE (\E i \in DOMAIN riskFile : riskFile[i].product = p) =>
               LastLine(riskFile', p) \in 1..n /\ LastLine(riskFile', p) = LastLine(riskFile, p)
    BY <2>1, LastLineAppended
  <2> HIDE DEF n
  <2>2. CASE pv01.product = p
    BY <2>1, <2>2, <2>4, <2>5
  <2>3. CASE pv01.product # p
    <3>1. (\E i \in DOMAIN riskFile' : riskFile'[i].product = p)
            <=> (\E i \in DOMAIN riskFile : riskFile[i].product = p)
      BY <2>1, <2>3
    <3> QED
      BY <2>1, <2>3, <2>4, <2>5, <3>1
  <2> QED
    BY <2>2, <2>3
<1>2. ASSUME PersistPosition
      PROVE  LastPosition(p)' = IF position.product = p THEN position.held
                                                        ELSE LastPosition(p)
  <2> DEFINE n == Len(positionsFile)
  <2>1. /\ n \in Nat /\ DOMAIN positionsFile = 1..n
        /\ DOMAIN positionsFile' = 1..(n + 1)
        /\ positionsFile'[n + 1] = position
        /\ \A i \in 1..n : positionsFile'[i] = positionsFile[i]
    BY <1>2, Appends, Lengths
  <2>4. /\ LastPosition(p) = IF \E i \in DOMAIN positionsFile : positionsFile[i].product = p
                    THEN positionsFile[LastLine(positionsFile, p)].held ELSE EmptyMap
        /\ LastPosition(p)' = IF \E i \in DOMAIN positionsFile' : positionsFile'[i].product = p
                     THEN positionsFile'[LastLine(positionsFile', p)].held ELSE EmptyMap
    BY Zenon DEF LastPosition, LastLine, IsLastLine
  <2>5. IF positionsFile'[n + 1].product = p
        THEN LastLine(positionsFile', p) = n + 1
        ELSE (\E i \in DOMAIN positionsFile : positionsFile[i].product = p) =>
               LastLine(positionsFile', p) \in 1..n /\ LastLine(positionsFile', p) = LastLine(positionsFile, p)
    BY <2>1, LastLineAppended
  <2> HIDE DEF n
  <2>2. CASE position.product = p
    BY <2>1, <2>2, <2>4, <2>5
  <2>3. CASE position.product # p
    <3>1. (\E i \in DOMAIN positionsFile' : positionsFile'[i].product = p)
            <=> (\E i \in DOMAIN positionsFile : positionsFile[i].product = p)
      BY <2>1, <2>3
    <3> QED
      BY <2>1, <2>3, <2>4, <2>5, <3>1
  <2> QED
    BY <2>2, <2>3
<1> QED
  BY <1>1, <1>2

\* The sum that the ledger takes is the one RiskService takes.
LEMMA SumsAgree ==
  ASSUME NEW f
  PROVE  AsLedger!SumFunction(f) = SumFunction(f)
  BY DEF AsLedger!SumFunction, SumFunction, AsLedger!SumFunctionOnSet,
         SumFunctionOnSet, AsLedger!FoldFunctionOnSet, FoldFunctionOnSet,
         AsLedger!MapThenFoldSet, MapThenFoldSet

\* The entry of the ledger, given what is due and not yet recorded.
Entry == IF AddTradesDue > 0 \/ Unrecorded # {}
         THEN [account |-> trade.product, book |-> trade.book,
               quantity |-> SignedQuantity(trade)]
         ELSE Null

\* A record stays while no line is added to its file.
LEMMA RecordsStay ==
  ASSUME NEW p
  PROVE  /\ UNCHANGED riskFile => LastRisk(p)' = LastRisk(p)
         /\ UNCHANGED positionsFile => LastPosition(p)' = LastPosition(p)
<1>1. /\ LastRisk(p)' = IF \E i \in DOMAIN riskFile' : riskFile'[i].product = p
                        THEN riskFile'[LastLine(riskFile', p)].quantity ELSE 0
      /\ LastPosition(p)'
           = IF \E i \in DOMAIN positionsFile' : positionsFile'[i].product = p
             THEN positionsFile'[LastLine(positionsFile', p)].held
             ELSE EmptyMap
  BY Zenon DEF LastRisk, LastPosition, LastLine, IsLastLine
<1> QED
  BY <1>1 DEF LastRisk, LastPosition

\* What the ledger sees of a step: it leaves the ledger alone when it leaves
\* the positions, the last lines, what is due and the entry alone.
LEMMA LedgerStutters ==
  ASSUME UNCHANGED <<positions, riskFile, positionsFile>>,
         AddTradesDue' = AddTradesDue, Unrecorded' = Unrecorded,
         Entry' = Entry
  PROVE  UNCHANGED AsLedger!vars
<1>1. \A p \in ProductIds : PositionOf(p)' = PositionOf(p)
  BY DEF PositionOf, At
<1>2. \A p \in ProductIds : /\ LastRisk(p)' = LastRisk(p)
                            /\ LastPosition(p)' = LastPosition(p)
  BY RecordsStay
<1> QED
  BY <1>1, <1>2 DEF AsLedger!vars, Entry

\* main starts with an empty ledger.
LEMMA LedgerInit == Init => AsLedger!Init
<1> SUFFICES ASSUME Init PROVE AsLedger!Init
  OBVIOUS
<1>1. /\ pc = "Main" /\ returnTo = "Main" /\ DOMAIN positions = {}
      /\ riskFile = << >> /\ positionsFile = << >>
  BY DEF Init, PositionInit, EmptyMap, RiskHistory!Init, PositionHistory!Init
<1>2. AddTradesDue = 0 /\ Unrecorded = {}
  BY <1>1 DEF AddTradesDue, Unrecorded
<1>3. \A p \in ProductIds : /\ PositionOf(p) = EmptyMap
                            /\ LastRisk(p) = 0 /\ LastPosition(p) = EmptyMap
  BY <1>1 DEF PositionOf, At, LastRisk, LastPosition
<1>4. EmptyMap = AsLedger!EmptyMap
  BY DEF EmptyMap, AsLedger!EmptyMap
<1> QED
  BY <1>2, <1>3, <1>4 DEF AsLedger!Init

\* Reading a line of trades.txt, or booking an execution, receives an entry.
LEMMA LedgerReceives ==
  ASSUME IInv, ReadTrade \/ ProcessExecution
  PROVE  AsLedger!Receive
<1>0. CallsReturn /\ CallsTypeOK /\ CallsTypeOK' /\ ServicesTypeOK
  <2>1. Next
    BY Zenon DEF Next
  <2> QED
    BY <2>1, TypeOKParts, CallsTypeStep, Zenon DEF IInv
<1>1. /\ AddTradesDue = 0 /\ AddTradesDue' \in {1, 2}
      /\ Unrecorded = {} /\ Unrecorded' = {}
      /\ trade' \in Trades
      /\ UNCHANGED <<positions, riskFile, positionsFile>>
  BY <1>0
     DEF ReadTrade, ProcessExecution, AddTradesDue, Unrecorded, CallsReturn,
         CallsTypeOK, NotifyCalls, serviceVars, fileVars
<1>2. Entry' = [account |-> trade'.product, book |-> trade'.book,
                quantity |-> SignedQuantity(trade')]
  BY <1>1 DEF Entry, SignedQuantity
<1>3. Entry' \in [account : ProductIds, book : Books, quantity : Int]
  <2>1. SignedQuantity(trade') \in Int
    BY <1>1, SignedQuantityType
  <2> QED
    BY <1>1, <1>2, <2>1 DEF Trades
<1>4. \A p \in ProductIds : PositionOf(p)' = PositionOf(p)
  BY <1>1 DEF PositionOf, At
<1>5. \A p \in ProductIds : /\ LastRisk(p)' = LastRisk(p)
                            /\ LastPosition(p)' = LastPosition(p)
  BY <1>1, RecordsStay
<1> QED
  BY <1>1, <1>3, <1>4, <1>5 DEF AsLedger!Receive, AsLedger!Entries, Entry

\* AddTrade is the posting of the entry.
LEMMA LedgerPosts ==
  ASSUME IInv, AddTrade
  PROVE  AsLedger!Post
<1>0. CallsTypeOK /\ TypeOK
  BY TypeOKParts DEF IInv
<1>1. /\ AddTradesDue > 0 /\ AddTradesDue' = AddTradesDue - 1
      /\ Unrecorded = {} /\ Unrecorded' = {"risk", "positions"}
      /\ UNCHANGED <<trade, riskFile, positionsFile>>
      /\ trade.product \in ProductIds
  BY <1>0
     DEF AddTrade, AddTradesDue, Unrecorded, CallsTypeOK, NotifyCalls, Trades,
         fileVars
<1>2. /\ Entry = [account |-> trade.product, book |-> trade.book,
                  quantity |-> SignedQuantity(trade)]
      /\ Entry' = Entry
  BY <1>1 DEF Entry, SignedQuantity
<1>3. \A p \in ProductIds :
        PositionOf(p)' = IF p = trade.product THEN MergedPosition(trade)
                                              ELSE PositionOf(p)
  BY MapWrites DEF PositionOf, At
<1>4. MergedPosition(trade) = AsLedger!Posted(PositionOf(trade.product))
  BY <1>2
     DEF MergedPosition, AddToBook, GetPosition, AsLedger!Posted, Put, At,
         AsLedger!Put, AsLedger!At, Entry
<1>5. \A p \in ProductIds : /\ LastRisk(p)' = LastRisk(p)
                            /\ LastPosition(p)' = LastPosition(p)
  BY <1>1, RecordsStay
<1> QED
  BY <1>1, <1>2, <1>3, <1>4, <1>5
     DEF AsLedger!Post, AsLedger!Records, Entry

\* The line of risk.txt records the risk of the balances just posted.
LEMMA LedgerRecordsRisk ==
  ASSUME IInv, PersistRisk
  PROVE  AsLedger!RecordRisk
<1>0. ArgumentsCurrent /\ TypeOK
  BY DEF IInv
<1>1. /\ Unrecorded = {"risk", "positions"} /\ Unrecorded' = {"positions"}
      /\ AddTradesDue' = AddTradesDue
      /\ UNCHANGED <<trade, positions, positionsFile>>
      /\ pc = "PersistRisk"
  BY DEF PersistRisk, Unrecorded, AddTradesDue, serviceVars
<1>2. /\ Entry = [account |-> trade.product, book |-> trade.book,
                  quantity |-> SignedQuantity(trade)]
      /\ Entry' = Entry
  BY <1>1 DEF Entry, SignedQuantity
<1>3. /\ pv01.product = trade.product
      /\ pv01.quantity = SumFunction(PositionOf(trade.product))
  BY <1>0, <1>1
     DEF ArgumentsCurrent, RiskOf, PositionOf, At, GetAggregatePosition
<1>4. \A p \in ProductIds :
        LastRisk(p)' = IF p = trade.product
                       THEN AsLedger!SumFunction(PositionOf(trade.product))
                       ELSE LastRisk(p)
  BY <1>0, <1>3, RecordsMove, SumsAgree
<1>5. \A p \in ProductIds : /\ PositionOf(p)' = PositionOf(p)
                            /\ LastPosition(p)' = LastPosition(p)
  BY <1>1, RecordsStay DEF PositionOf, At
<1>6. trade.product \in ProductIds
  BY <1>1, TypeOKParts DEF IInv, CallsTypeOK, NotifyCalls, Trades
<1> QED
  BY <1>1, <1>2, <1>4, <1>5, <1>6
     DEF AsLedger!RecordRisk, AsLedger!Records, Entry

\* The line of positions.txt records those balances; the entry is done with
\* when it is not due again.
LEMMA LedgerRecordsPosition ==
  ASSUME IInv, PersistPosition
  PROVE  AsLedger!RecordPosition
<1>0. ArgumentsCurrent /\ TypeOK /\ CallsTypeOK
  BY TypeOKParts DEF IInv
<1>1. /\ Unrecorded = {"positions"} /\ Unrecorded' = {}
      /\ AddTradesDue' = AddTradesDue /\ AddTradesDue \in {0, 1}
      /\ AddTradesDue > 0 => UNCHANGED trade
      /\ UNCHANGED <<positions, riskFile>>
      /\ pc = "PersistPosition"
  BY <1>0
     DEF PersistPosition, Unrecorded, AddTradesDue, serviceVars, CallsTypeOK
<1>2. /\ Entry = [account |-> trade.product, book |-> trade.book,
                  quantity |-> SignedQuantity(trade)]
      /\ Entry' = IF AddTradesDue = 0 THEN Null ELSE Entry
  BY <1>1 DEF Entry, SignedQuantity
<1>3. /\ position.product = trade.product
      /\ position.held = PositionOf(trade.product)
  BY <1>0, <1>1 DEF ArgumentsCurrent, PositionOf, At
<1>4. \A p \in ProductIds :
        LastPosition(p)' = IF p = trade.product THEN PositionOf(trade.product)
                                                ELSE LastPosition(p)
  BY <1>0, <1>3, RecordsMove
<1>5. \A p \in ProductIds : /\ PositionOf(p)' = PositionOf(p)
                            /\ LastRisk(p)' = LastRisk(p)
  BY <1>1, RecordsStay DEF PositionOf, At
<1>6. trade.product \in ProductIds
  BY <1>0, <1>1 DEF CallsTypeOK, NotifyCalls, Trades
<1> QED
  BY <1>1, <1>2, <1>4, <1>5, <1>6 DEF AsLedger!RecordPosition, Entry

\* Every step of the flow is a step of the ledger or leaves it alone.
LEMMA LedgerStep == IInv /\ [Next]_vars => [AsLedger!Next]_(AsLedger!vars)
<1> SUFFICES ASSUME IInv, [Next]_vars PROVE [AsLedger!Next]_(AsLedger!vars)
  OBVIOUS
<1>0. CallsReturn /\ CallsTypeOK
  BY TypeOKParts DEF IInv
<1>1. CASE ReadTrade \/ ProcessExecution
  BY <1>1, LedgerReceives DEF AsLedger!Next
<1>2. CASE AddTrade
  BY <1>2, LedgerPosts DEF AsLedger!Next, AsLedger!Settle
<1>3. CASE PersistRisk
  BY <1>3, LedgerRecordsRisk DEF AsLedger!Next, AsLedger!Settle
<1>4. CASE PersistPosition
  BY <1>4, LedgerRecordsPosition DEF AsLedger!Next, AsLedger!Settle
<1>5. CASE /\ UNCHANGED <<positions, riskFile, positionsFile>>
           /\ AddTradesDue' = AddTradesDue /\ Unrecorded' = Unrecorded
           /\ AddTradesDue > 0 \/ Unrecorded # {} => UNCHANGED trade
  <2>1. Entry' = Entry
    BY <1>5 DEF Entry, SignedQuantity
  <2> QED
    BY <1>5, <2>1, LedgerStutters
<1>6. CASE \/ EndOfTrades \/ ReadOrderBook \/ EndOfMarket \/ PassOnWideBook
           \/ AlgoExecuteOrder \/ ExecuteOrder \/ OnMessage \/ BookTrade
           \/ AddPosition \/ PersistExecution \/ UNCHANGED vars
  BY <1>0, <1>5, <1>6
     DEF EndOfTrades, ReadOrderBook, EndOfMarket, PassOnWideBook,
         AlgoExecuteOrder, ExecuteOrder, OnMessage, BookTrade, AddPosition,
         PersistExecution, AddTradesDue, Unrecorded, CallsReturn, vars,
         serviceVars, fileVars, callVars
<1> QED
  BY <1>1, <1>2, <1>3, <1>4, <1>6, Zenon DEF Next

\* From trades received to lines on file the flow is a ledger in everything
\* but that it gets there in the end, which TLC checks.
THEOREM LedgerImplemented ==
  Spec => AsLedger!Init /\ [][AsLedger!Next]_(AsLedger!vars)
  BY LedgerInit, LedgerStep, Invariant, PTL DEF Spec
=============================================================================
