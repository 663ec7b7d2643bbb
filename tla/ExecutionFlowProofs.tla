------------------------ MODULE ExecutionFlowProofs -------------------------
(***************************************************************************)
(* Proofs about ExecutionFlow, for every value of its constants.           *)
(***************************************************************************)
EXTENDS ExecutionFlow, DataTheorems

-----------------------------------------------------------------------------
(***************************************************************************)
(* The services' operators.                                                *)
(***************************************************************************)

\* GetBidOffer's loops find the best of a non-empty stack, wherever it is: the
\* highest bid and the lowest offer are orders of it, and none is better.
LEMMA BestOrders ==
  ASSUME NEW stack \in Stacks, stack # << >>
  PROVE  /\ HighestBid(stack) \in Orders /\ LowestOffer(stack) \in Orders
         /\ IsBestBid(HighestBid(stack), stack)
         /\ IsBestOffer(LowestOffer(stack), stack)
<1> DEFINE L == Len(stack)
           p == [j \in 1..L |-> stack[j].price]
           q == [j \in 1..L |-> -stack[j].price]
<1>1. /\ L \in Nat /\ L # 0 /\ DOMAIN stack = 1..L
      /\ \A j \in 1..L : stack[j] \in Orders /\ stack[j].price \in Int
  <2>1. stack \in Seq(Orders) /\ stack # << >>
    BY DEF Stacks
  <2>2. L \in Nat /\ DOMAIN stack = 1..L /\ \A j \in 1..L : stack[j] \in Orders
    BY <2>1
  <2> QED
    BY <2>1, <2>2, EmptySeq DEF Orders
<1>2. p \in [1..L -> Int] /\ q \in [1..L -> Int]
  BY <1>1
<1>3. PICK i \in 1..L : FirstMaximum(p, L, i)
  <2> HIDE DEF p, L
  <2> QED
    BY <1>1, <1>2, FirstMaximumExists
<1>4. PICK k \in 1..L : FirstMaximum(q, L, k)
  <2> HIDE DEF q, L
  <2> QED
    BY <1>1, <1>2, FirstMaximumExists
<1>5. /\ \A j \in 1..L : stack[j].price <= stack[i].price
      /\ \A j \in 1..(i - 1) : stack[j].price < stack[i].price
  <2>1. \A j \in 1..L : p[j] <= p[i]
    BY <1>3, Zenon DEF FirstMaximum
  <2>2. \A j \in 1..(i - 1) : p[j] < p[i]
    BY <1>3, Zenon DEF FirstMaximum
  <2>3. \A j \in 1..(i - 1) : j \in 1..L
    BY <1>1
  <2>4. \A j \in 1..L : p[j] = stack[j].price
    OBVIOUS
  <2> HIDE DEF p, L
  <2> QED
    BY <1>1, <2>1, <2>2, <2>3, <2>4
<1>6. /\ \A j \in 1..L : stack[k].price <= stack[j].price
      /\ \A j \in 1..(k - 1) : stack[k].price < stack[j].price
  <2>1. \A j \in 1..L : q[j] <= q[k]
    BY <1>4, Zenon DEF FirstMaximum
  <2>2. \A j \in 1..(k - 1) : q[j] < q[k]
    BY <1>4, Zenon DEF FirstMaximum
  <2>3. \A j \in 1..(k - 1) : j \in 1..L
    BY <1>1
  <2>4. \A j \in 1..L : q[j] = -stack[j].price
    OBVIOUS
  <2> HIDE DEF q, L
  <2> QED
    BY <1>1, <2>1, <2>2, <2>3, <2>4
<1> HIDE DEF L, p, q
<1>7. \E h \in 1..L : /\ HighestBid(stack) = stack[h]
                      /\ \A j \in 1..L : stack[j].price <= stack[h].price
  BY <1>1, <1>5, Zenon DEF HighestBid
<1>8. \E l \in 1..L : /\ LowestOffer(stack) = stack[l]
                      /\ \A j \in 1..L : stack[l].price <= stack[j].price
  BY <1>1, <1>6, Zenon DEF LowestOffer
<1>9. Range(stack) = {stack[j] : j \in 1..L}
  BY <1>1, Zenon DEF Range
<1>10. HighestBid(stack) \in Orders /\ IsBestBid(HighestBid(stack), stack)
  BY <1>1, <1>7, <1>9 DEF IsBestBid
<1>11. LowestOffer(stack) \in Orders /\ IsBestOffer(LowestOffer(stack), stack)
  BY <1>1, <1>8, <1>9 DEF IsBestOffer
<1> QED
  BY <1>10, <1>11

\* What GetBidOffer may build of a delivered book is a bid/offer of orders.
LEMMA BidOfferType ==
  ASSUME NEW book \in OrderBooks
  PROVE  GetBidOffer(book) \subseteq BidOffers
<1>1. book.bidStack \in Stacks /\ book.offerStack \in Stacks
  BY OrderBooksAssumption
<1>2. \A stack \in Stacks :
        BestBids(stack) \subseteq Orders /\ BestOffers(stack) \subseteq Orders
  BY OrderBooksAssumption, BestOrders DEF BestBids, BestOffers
<1> QED
  BY <1>1, <1>2 DEF GetBidOffer, BidOffers

\* Whatever bid/offer the algo reads, the order it builds is well formed.
LEMMA NextOrderType ==
  ASSUME NEW book \in OrderBooks, NEW bidOffer \in ReadableBidOffers(book),
         NEW id \in OrderIds
  PROVE  NextOrder(book.product, id, bidOffer) \in ExecutionOrders
<1>1. bidOffer \in BidOffers
  BY BidOfferType, StaleBidOffersAssumption DEF ReadableBidOffers
<1>2. book.product \in ProductIds
  BY OrderBooksAssumption
<1> QED
  BY <1>1, <1>2 DEF NextOrder, BidOffers, Orders, SideOf, ExecutionOrders

\* The book picked for an execution is one of Books.
LEMMA BookOfType ==
  ASSUME NEW n \in Nat
  PROVE  BookOf(n) \in Books
  BY TradeBookingAssumption DEF BookOf

\* The two sources of trades, the file and the executions.
LEMMA TradeTypes ==
  /\ \A line \in FileTrades : TradeOfLine(line) \in Trades
  /\ bookingCount \in Nat =>
       \A o \in ExecutionOrders : TradeOfExecution(o) \in Trades
<1>1. ASSUME NEW line \in FileTrades
      PROVE  TradeOfLine(line) \in Trades
  BY TradeBookingAssumption
     DEF TradeOfLine, Trades, TradeLines, GetBond, ProductIds
<1>2. ASSUME bookingCount \in Nat, NEW o \in ExecutionOrders
      PROVE  TradeOfExecution(o) \in Trades
  <2>1. BookOf(bookingCount + 1) \in Books
    BY <1>2, BookOfType
  <2> QED
    BY <2>1, <1>2, TradeBookingAssumption
       DEF TradeOfExecution, Trades, ExecutionOrders
<1> QED
  BY <1>1, <1>2

\* What a trade adds to its book, negated for a SELL, is an integer.
LEMMA SignedQuantityType ==
  ASSUME NEW t \in Trades
  PROVE  SignedQuantity(t) \in Int
  BY DEF Trades, SignedQuantity

\* Merging a trade into its product's position gives a position.
LEMMA MergedPositionType ==
  ASSUME PositionTypeOK, NEW t \in Trades
  PROVE  IsPosition(MergedPosition(t))
<1>1. IsPosition(PositionOf(t.product))
  BY DEF PositionTypeOK, PositionOf, At, IsPosition, EmptyMap, IsMap
<1>2. GetPosition(PositionOf(t.product), t.book) \in Int
  BY <1>1 DEF GetPosition, At, IsPosition, IsMap
<1>3. t.book \in Books
  BY DEF Trades
<1> QED
  BY <1>1, <1>2, <1>3, SignedQuantityType, PutIsMap
     DEF MergedPosition, AddToBook, IsPosition

\* The aggregate that RiskService takes of a position is an integer.
LEMMA AggregateType ==
  ASSUME NEW held, IsPosition(held)
  PROVE  GetAggregatePosition(held) \in Int
<1>1. IsFiniteSet(DOMAIN held) /\ held \in [DOMAIN held -> Int]
  BY TradeBookingAssumption, FS_Subset DEF IsPosition, IsMap
<1> QED
  BY <1>1, SumFunctionInt DEF GetAggregatePosition

-----------------------------------------------------------------------------
(***************************************************************************)
(* Types.                                                                  *)
(***************************************************************************)

\* The part of TypeOK about the services' maps.
ServicesTypeOK ==
  /\ MarketDataTypeOK /\ AlgoExecutionTypeOK /\ ExecutionTypeOK
  /\ TradeBookingTypeOK /\ PositionTypeOK /\ RiskTypeOK

\* The part of TypeOK about the files.
FilesTypeOK ==
  /\ PositionHistory!TypeOK(IsPositionLine)
  /\ RiskHistory!TypeOK(IsRiskLine)
  /\ ExecutionHistory!TypeOK(IsExecutionLine)

\* The part of TypeOK about the call chain, the input and the history.
CallsTypeOK ==
  /\ stage \in {"Trades", "Market", "Ended"}
  /\ pc \in Calls
  /\ returnTo \in {"Main", "BookTrade", "PersistExecution"}
  /\ pc = "AlgoExecuteOrder" => orderBook \in OrderBooks
  /\ (pc \in OrderCalls \/ returnTo # "Main") => order \in ExecutionOrders
  /\ (pc \in NotifyCalls \cup {"BookTrade"} \/ returnTo # "Main")
       => trade \in Trades
  /\ pc \in {"AddPosition", "PersistRisk", "PersistPosition"}
       => IsPositionLine(position)
  /\ pc = "PersistRisk" => IsRiskLine(pv01)
  /\ tradesRead \in 0..MaxTrades /\ booksRead \in 0..MaxBooks
  /\ filed \in Totals /\ executed \in Totals

\* TypeOK in three parts: the services, the files and the calls in progress.
LEMMA TypeOKParts == TypeOK <=> ServicesTypeOK /\ FilesTypeOK /\ CallsTypeOK
  BY Zenon DEF TypeOK, ServicesTypeOK, FilesTypeOK, CallsTypeOK

\* Everything main constructs before it reads a line has its type.
LEMMA TypeInit == Init => TypeOK
<1> SUFFICES ASSUME Init PROVE TypeOK
  OBVIOUS
<1>1. ServicesTypeOK
  BY EmptyIsMap
     DEF Init, ServicesTypeOK, MarketDataInit, MarketDataTypeOK,
         AlgoExecutionInit, AlgoExecutionTypeOK, ExecutionInit,
         ExecutionTypeOK, TradeBookingInit, TradeBookingTypeOK, PositionInit,
         PositionTypeOK, RiskInit, RiskTypeOK, EmptyMap
<1>2. FilesTypeOK
  BY DEF Init, FilesTypeOK, PositionHistory!Init, PositionHistory!TypeOK,
         RiskHistory!Init, RiskHistory!TypeOK, ExecutionHistory!Init,
         ExecutionHistory!TypeOK
<1>3. CallsTypeOK
  BY BoundsAssumption
     DEF Init, CallsTypeOK, Calls, OrderCalls, NotifyCalls, Nothing, Totals
<1> QED
  BY <1>1, <1>2, <1>3, TypeOKParts

\* A total with a trade added is still a total.
LEMMA OrderedType ==
  ASSUME NEW totals \in Totals, NEW t \in Trades
  PROVE  Ordered(totals, t) \in Totals
  BY SignedQuantityType DEF Ordered, Totals, Trades

\* No call stores in a service's map anything but values of its type.
LEMMA ServicesTypeStep ==
  ASSUME TypeOK, Next
  PROVE  ServicesTypeOK'
<1> USE DEF ServicesTypeOK, MarketDataTypeOK, AlgoExecutionTypeOK,
            ExecutionTypeOK, TradeBookingTypeOK, PositionTypeOK, RiskTypeOK
<1>0. ServicesTypeOK /\ CallsTypeOK
  BY TypeOKParts
<1>1. CASE UNCHANGED serviceVars
  BY <1>0, <1>1 DEF serviceVars
<1>2. CASE ReadOrderBook
  BY <1>0, <1>2, PutIsMap, OrderBooksAssumption
     DEF ReadOrderBook, StoreOrderBook, fileVars, historyVars
<1>3. CASE AlgoExecuteOrder
  <2>1. orderBook \in OrderBooks
    BY <1>0, <1>3 DEF AlgoExecuteOrder, CallsTypeOK
  <2>2. order' \in ExecutionOrders /\ StoreAlgoExecution(order')
    BY <1>3, <2>1, NextOrderType DEF AlgoExecuteOrder
  <2>3. order'.product \in ProductIds
    BY <2>2 DEF ExecutionOrders
  <2> QED
    BY <1>0, <1>3, <2>2, <2>3, PutIsMap
       DEF AlgoExecuteOrder, StoreAlgoExecution
<1>4. CASE ExecuteOrder
  <2>1. order \in ExecutionOrders /\ order.product \in ProductIds
    BY <1>0, <1>4 DEF ExecuteOrder, CallsTypeOK, OrderCalls, ExecutionOrders
  <2> QED
    BY <1>0, <1>4, <2>1, PutIsMap DEF ExecuteOrder, StoreExecutionOrder
<1>5. CASE ProcessExecution
  BY <1>0, <1>5 DEF ProcessExecution, CountExecution
<1>6. CASE OnMessage
  <2>1. trade \in Trades /\ trade.tradeId \in TradeIds
    BY <1>0, <1>6 DEF OnMessage, CallsTypeOK, NotifyCalls, Trades
  <2> QED
    BY <1>0, <1>6, <2>1, PutIsMap DEF OnMessage, StoreTrade
<1>7. CASE AddTrade
  <2>1. trade \in Trades /\ trade.product \in ProductIds
    BY <1>0, <1>7 DEF AddTrade, CallsTypeOK, NotifyCalls, Trades
  <2>2. PositionTypeOK'
    BY <1>0, <1>7, <2>1, MergedPositionType
       DEF AddTrade, StorePosition, Put
  <2> QED
    BY <1>0, <1>7, <2>2 DEF AddTrade
<1>8. CASE AddPosition
  <2>1. position.product \in ProductIds /\ IsPosition(position.held)
    BY <1>0, <1>8 DEF AddPosition, CallsTypeOK, IsPositionLine
  <2> QED
    BY <1>0, <1>8, <2>1, PutIsMap, AggregateType DEF AddPosition, StorePV01
<1> QED
  BY <1>1, <1>2, <1>3, <1>4, <1>5, <1>6, <1>7, <1>8
     DEF Next, ReadTrade, EndOfTrades, EndOfMarket, PassOnWideBook, BookTrade,
         PersistRisk, PersistPosition, PersistExecution

\* What TypeOK of a file says, and what appending a line of its kind keeps.
LEMMA FilesTypeFacts ==
  /\ PositionHistory!TypeOK(IsPositionLine) <=>
       /\ IsSequence(positionsFile)
       /\ \A i \in DOMAIN positionsFile : IsPositionLine(positionsFile[i])
  /\ RiskHistory!TypeOK(IsRiskLine) <=>
       /\ IsSequence(riskFile)
       /\ \A i \in DOMAIN riskFile : IsRiskLine(riskFile[i])
  /\ ExecutionHistory!TypeOK(IsExecutionLine) <=>
       /\ IsSequence(executionsFile)
       /\ \A i \in DOMAIN executionsFile : IsExecutionLine(executionsFile[i])
  BY DEF PositionHistory!TypeOK, RiskHistory!TypeOK, ExecutionHistory!TypeOK,
         IsSequence

\* No call appends to a file anything but lines of its kind.
LEMMA FilesTypeStep ==
  ASSUME TypeOK, Next
  PROVE  FilesTypeOK'
<1>0. FilesTypeOK /\ CallsTypeOK
  BY TypeOKParts
<1>1. CASE UNCHANGED fileVars
  BY <1>0, <1>1
     DEF FilesTypeOK, fileVars, PositionHistory!TypeOK, RiskHistory!TypeOK,
         ExecutionHistory!TypeOK
<1>2. CASE PersistRisk
  <2>1. riskFile' = Append(riskFile, pv01)
    BY <1>2 DEF PersistRisk, RiskHistory!PersistData
  <2>2. IsRiskLine(pv01)
    BY <1>0, <1>2 DEF PersistRisk, CallsTypeOK
  <2>3. /\ IsSequence(riskFile')
        /\ \A i \in DOMAIN riskFile' : IsRiskLine(riskFile'[i])
    BY <1>0, <2>1, <2>2, FilesTypeFacts, AppendFacts DEF FilesTypeOK
  <2> QED
    BY <1>0, <1>2, <2>3
       DEF PersistRisk, FilesTypeOK, PositionHistory!TypeOK,
           RiskHistory!TypeOK, ExecutionHistory!TypeOK, IsSequence
<1>3. CASE PersistPosition
  <2>1. positionsFile' = Append(positionsFile, position)
    BY <1>3 DEF PersistPosition, PositionHistory!PersistData
  <2>2. IsPositionLine(position)
    BY <1>0, <1>3 DEF PersistPosition, CallsTypeOK
  <2>3. /\ IsSequence(positionsFile')
        /\ \A i \in DOMAIN positionsFile' : IsPositionLine(positionsFile'[i])
    BY <1>0, <2>1, <2>2, FilesTypeFacts, AppendFacts DEF FilesTypeOK
  <2> QED
    BY <1>0, <1>3, <2>3
       DEF PersistPosition, FilesTypeOK, PositionHistory!TypeOK,
           RiskHistory!TypeOK, ExecutionHistory!TypeOK, IsSequence
<1>4. CASE PersistExecution
  <2>1. executionsFile' = Append(executionsFile, order)
    BY <1>4 DEF PersistExecution, ExecutionHistory!PersistData
  <2>2. order \in ExecutionOrders
    BY <1>0, <1>4 DEF PersistExecution, CallsTypeOK, OrderCalls
  <2>3. /\ IsSequence(executionsFile')
        /\ \A i \in DOMAIN executionsFile' :
             IsExecutionLine(executionsFile'[i])
    BY <1>0, <2>1, <2>2, FilesTypeFacts, AppendFacts
       DEF FilesTypeOK, IsExecutionLine
  <2> QED
    BY <1>0, <1>4, <2>3
       DEF PersistExecution, FilesTypeOK, PositionHistory!TypeOK,
           RiskHistory!TypeOK, ExecutionHistory!TypeOK, IsSequence
<1> QED
  BY <1>1, <1>2, <1>3, <1>4
     DEF Next, ReadTrade, EndOfTrades, ReadOrderBook, EndOfMarket,
         PassOnWideBook, AlgoExecuteOrder, ExecuteOrder, ProcessExecution,
         OnMessage, BookTrade, AddTrade, AddPosition

\* The argument of the next call has its type, and so do the histories.
LEMMA CallsTypeStep ==
  ASSUME TypeOK, Next
  PROVE  CallsTypeOK'
<1> USE DEF CallsTypeOK, Calls, OrderCalls, NotifyCalls
<1>0. ServicesTypeOK /\ CallsTypeOK
  BY TypeOKParts
<1>1. CASE ReadTrade
  <2>1. trade' \in Trades /\ filed' = Ordered(filed, trade')
    BY <1>1, TradeTypes DEF ReadTrade
  <2>2. filed' \in Totals
    BY <1>0, <2>1, OrderedType
  <2> QED
    BY <1>0, <1>1, <2>1, <2>2, BoundsAssumption DEF ReadTrade
<1>2. CASE EndOfTrades
  BY <1>0, <1>2 DEF EndOfTrades, callVars, historyVars
<1>3. CASE ReadOrderBook
  BY <1>0, <1>3, BoundsAssumption DEF ReadOrderBook, historyVars
<1>4. CASE EndOfMarket
  BY <1>0, <1>4 DEF EndOfMarket, callVars, historyVars
<1>5. CASE PassOnWideBook
  BY <1>0, <1>5 DEF PassOnWideBook, inputVars, historyVars
<1>6. CASE AlgoExecuteOrder
  <2>1. order' \in ExecutionOrders
    BY <1>0, <1>6, NextOrderType DEF AlgoExecuteOrder
  <2> QED
    BY <1>0, <1>6, <2>1 DEF AlgoExecuteOrder, inputVars, historyVars
<1>7. CASE ExecuteOrder
  BY <1>0, <1>7 DEF ExecuteOrder, inputVars, historyVars
<1>8. CASE ProcessExecution
  <2>1. trade' \in Trades /\ executed' = Ordered(executed, trade')
    BY <1>0, <1>8, TradeTypes
       DEF ProcessExecution, ServicesTypeOK, TradeBookingTypeOK
  <2>2. executed' \in Totals
    BY <1>0, <2>1, OrderedType
  <2> QED
    BY <1>0, <1>8, <2>1, <2>2 DEF ProcessExecution, inputVars
<1>9. CASE OnMessage
  BY <1>0, <1>9 DEF OnMessage, inputVars, historyVars
<1>10. CASE BookTrade
  BY <1>0, <1>10 DEF BookTrade, inputVars, historyVars
<1>11. CASE AddTrade
  <2>1. IsPositionLine(position')
    BY <1>0, <1>11, MergedPositionType
       DEF AddTrade, IsPositionLine, ServicesTypeOK, Trades
  <2> QED
    BY <1>0, <1>11, <2>1 DEF AddTrade, inputVars, historyVars
<1>12. CASE AddPosition
  <2>1. IsRiskLine(pv01')
    BY <1>0, <1>12, AggregateType
       DEF AddPosition, RiskOf, IsRiskLine, IsPositionLine
  <2> QED
    BY <1>0, <1>12, <2>1 DEF AddPosition, inputVars, historyVars
<1>13. CASE PersistRisk
  BY <1>0, <1>13 DEF PersistRisk, inputVars, historyVars
<1>14. CASE PersistPosition
  BY <1>0, <1>14 DEF PersistPosition, inputVars, historyVars
<1>15. CASE PersistExecution
  BY <1>0, <1>15 DEF PersistExecution, inputVars, historyVars
<1> QED
  BY <1>1, <1>2, <1>3, <1>4, <1>5, <1>6, <1>7, <1>8, <1>9, <1>10, <1>11,
     <1>12, <1>13, <1>14, <1>15 DEF Next

\* Every step preserves TypeOK, the sum of the three parts.
LEMMA TypeStep == TypeOK /\ [Next]_vars => TypeOK'
<1> SUFFICES ASSUME TypeOK, [Next]_vars PROVE TypeOK'
  OBVIOUS
<1>1. CASE Next
  <2>1. ServicesTypeOK' /\ FilesTypeOK' /\ CallsTypeOK'
    BY <1>1, ServicesTypeStep, FilesTypeStep, CallsTypeStep
  <2> QED
    BY <2>1, Zenon DEF TypeOK, ServicesTypeOK, FilesTypeOK, CallsTypeOK
<1>2. CASE UNCHANGED vars
  BY <1>2, Zenon
     DEF TypeOK, vars, serviceVars, fileVars, callVars, inputVars,
         historyVars, MarketDataTypeOK, AlgoExecutionTypeOK, ExecutionTypeOK,
         TradeBookingTypeOK, PositionTypeOK, RiskTypeOK,
         PositionHistory!TypeOK, RiskHistory!TypeOK, ExecutionHistory!TypeOK
<1> QED
  BY <1>1, <1>2

\* Every service's map, every file and every argument in flight always holds
\* values of its type.
THEOREM TypeCorrect == Spec => []TypeOK
  BY TypeInit, TypeStep, PTL DEF Spec

-----------------------------------------------------------------------------
(***************************************************************************)
(* The call chain and the counters.                                        *)
(***************************************************************************)

\* Where the calls in progress may return to: a notification to the one of its
\* three callers that made it, and no trade is read once orders are. The other
\* invariants rest on it.
CallsReturn ==
  /\ pc \in {"Main", "AlgoExecuteOrder", "ExecuteOrder", "ProcessExecution"}
       => returnTo = "Main"
  /\ pc \in {"BookTrade", "PersistExecution"} => returnTo = pc
  /\ pc = "OnMessage" => returnTo # "PersistExecution"
  /\ stage = "Trades" => /\ pc \in NotifyCalls \cup {"Main"}
                         /\ returnTo = "Main" /\ bookingCount = 0
  /\ stage # "Trades" /\ pc \in NotifyCalls => BookingExecution

\* Each of the three callers of a notification is returned to: every step
\* keeps the return address one the next call may have.
LEMMA CallsReturnStep ==
  ASSUME TypeOK, CallsReturn, Next
  PROVE  CallsReturn'
<1> USE DEF CallsReturn, NotifyCalls, BookingExecution
<1>0. CallsTypeOK
  BY TypeOKParts
<1>1. CASE ReadTrade
  BY <1>1 DEF ReadTrade, serviceVars
<1>2. CASE EndOfTrades
  BY <1>2 DEF EndOfTrades, serviceVars, callVars
<1>3. CASE ReadOrderBook
  BY <1>3 DEF ReadOrderBook
<1>4. CASE EndOfMarket
  BY <1>4 DEF EndOfMarket, serviceVars, callVars
<1>5. CASE PassOnWideBook
  BY <1>5 DEF PassOnWideBook, serviceVars, inputVars
<1>6. CASE AlgoExecuteOrder
  BY <1>6 DEF AlgoExecuteOrder, inputVars
<1>7. CASE ExecuteOrder
  BY <1>7 DEF ExecuteOrder, inputVars
<1>8. CASE ProcessExecution
  BY <1>8 DEF ProcessExecution, inputVars
<1>9. CASE OnMessage
  BY <1>9 DEF OnMessage, inputVars
<1>10. CASE BookTrade
  BY <1>10 DEF BookTrade, serviceVars, inputVars
<1>11. CASE AddTrade
  BY <1>11 DEF AddTrade, inputVars
<1>12. CASE AddPosition
  BY <1>12 DEF AddPosition, inputVars
<1>13. CASE PersistRisk
  BY <1>13 DEF PersistRisk, serviceVars, inputVars
<1>14. CASE PersistPosition
  BY <1>0, <1>14 DEF PersistPosition, serviceVars, inputVars, CallsTypeOK
<1>15. CASE PersistExecution
  BY <1>15 DEF PersistExecution, serviceVars, inputVars
<1> QED
  BY <1>1, <1>2, <1>3, <1>4, <1>5, <1>6, <1>7, <1>8, <1>9, <1>10, <1>11,
     <1>12, <1>13, <1>14, <1>15 DEF Next

\* What the files' and the counters' types say in terms of lengths.
LEMMA Lengths ==
  ASSUME TypeOK
  PROVE  /\ Len(positionsFile) \in Nat
         /\ DOMAIN positionsFile = 1..Len(positionsFile)
         /\ Len(riskFile) \in Nat /\ DOMAIN riskFile = 1..Len(riskFile)
         /\ Len(executionsFile) \in Nat
         /\ DOMAIN executionsFile = 1..Len(executionsFile)
         /\ algoCount \in Nat /\ bookingCount \in Nat
         /\ tradesRead \in Nat /\ booksRead \in Nat
<1>1. /\ IsSequence(positionsFile) /\ IsSequence(riskFile)
      /\ IsSequence(executionsFile)
  BY TypeOKParts, FilesTypeFacts DEF FilesTypeOK
<1> QED
  BY <1>1, AppendFacts, BoundsAssumption, TypeOKParts
     DEF ServicesTypeOK, AlgoExecutionTypeOK, TradeBookingTypeOK, CallsTypeOK

\* What the steps that append to a file do to it.
LEMMA Appends ==
  ASSUME TypeOK
  PROVE  /\ PersistRisk =>
              /\ DOMAIN riskFile' = 1..(Len(riskFile) + 1)
              /\ Len(riskFile') = Len(riskFile) + 1
              /\ riskFile'[Len(riskFile) + 1] = pv01
              /\ \A i \in 1..Len(riskFile) : riskFile'[i] = riskFile[i]
         /\ PersistPosition =>
              /\ DOMAIN positionsFile' = 1..(Len(positionsFile) + 1)
              /\ Len(positionsFile') = Len(positionsFile) + 1
              /\ positionsFile'[Len(positionsFile) + 1] = position
              /\ \A i \in 1..Len(positionsFile) :
                   positionsFile'[i] = positionsFile[i]
         /\ PersistExecution =>
              /\ DOMAIN executionsFile' = 1..(Len(executionsFile) + 1)
              /\ Len(executionsFile') = Len(executionsFile) + 1
              /\ executionsFile'[Len(executionsFile) + 1] = order
              /\ \A i \in 1..Len(executionsFile) :
                   executionsFile'[i] = executionsFile[i]
<1>1. /\ IsSequence(positionsFile) /\ IsSequence(riskFile)
      /\ IsSequence(executionsFile)
  BY TypeOKParts, FilesTypeFacts DEF FilesTypeOK
<1>2. ASSUME PersistRisk
      PROVE  riskFile' = Append(riskFile, pv01)
  BY <1>2 DEF PersistRisk, RiskHistory!PersistData
<1>3. ASSUME PersistPosition
      PROVE  positionsFile' = Append(positionsFile, position)
  BY <1>3 DEF PersistPosition, PositionHistory!PersistData
<1>4. ASSUME PersistExecution
      PROVE  executionsFile' = Append(executionsFile, order)
  BY <1>4 DEF PersistExecution, ExecutionHistory!PersistData
<1> QED
  BY <1>1, <1>2, <1>3, <1>4, AppendFacts

\* A line is appended exactly when the count it is due for is reached: every
\* step preserves the relation between the lengths of the files.
LEMMA FilesInStepStep ==
  ASSUME TypeOK, CallsReturn, FilesInStep, Next
  PROVE  FilesInStep'
<1> USE Lengths DEF FilesInStep, CallsReturn, NotifyCalls, BookingExecution
<1>0. CallsTypeOK
  BY TypeOKParts
<1>1. CASE ReadTrade
  BY <1>1 DEF ReadTrade, serviceVars, fileVars
<1>2. CASE EndOfTrades
  BY <1>2 DEF EndOfTrades, serviceVars, callVars, fileVars
<1>3. CASE ReadOrderBook
  BY <1>3 DEF ReadOrderBook, fileVars
<1>4. CASE EndOfMarket
  BY <1>4 DEF EndOfMarket, serviceVars, callVars, fileVars
<1>5. CASE PassOnWideBook
  BY <1>5 DEF PassOnWideBook, serviceVars, inputVars, fileVars
<1>6. CASE AlgoExecuteOrder
  BY <1>6 DEF AlgoExecuteOrder, inputVars, fileVars
<1>7. CASE ExecuteOrder
  BY <1>7 DEF ExecuteOrder, inputVars, fileVars
<1>8. CASE ProcessExecution
  BY <1>8 DEF ProcessExecution, CountExecution, inputVars, fileVars
<1>9. CASE OnMessage
  BY <1>9 DEF OnMessage, inputVars, fileVars
<1>10. CASE BookTrade
  BY <1>10 DEF BookTrade, serviceVars, inputVars, fileVars
<1>11. CASE AddTrade
  BY <1>11 DEF AddTrade, inputVars, fileVars
<1>12. CASE AddPosition
  BY <1>12 DEF AddPosition, inputVars, fileVars
<1>13. CASE PersistRisk
  BY <1>13 DEF PersistRisk, serviceVars, inputVars
<1>14. CASE PersistPosition
  <2>1. Len(positionsFile') = Len(positionsFile) + 1
    BY <1>14, Appends
  <2> QED
    BY <1>0, <1>14, <2>1
       DEF PersistPosition, serviceVars, inputVars, CallsTypeOK
<1>15. CASE PersistExecution
  <2>1. Len(executionsFile') = Len(executionsFile) + 1
    BY <1>15, Appends
  <2> QED
    BY <1>15, <2>1 DEF PersistExecution, serviceVars, inputVars
<1> QED
  BY <1>1, <1>2, <1>3, <1>4, <1>5, <1>6, <1>7, <1>8, <1>9, <1>10, <1>11,
     <1>12, <1>13, <1>14, <1>15 DEF Next

\* The two counts move together, the algo's one step of the chain earlier:
\* every step preserves their relation and the sides and books that follow.
LEMMA CountersInStepStep ==
  ASSUME TypeOK, CallsReturn, FilesInStep, CountersInStep, Next
  PROVE  CountersInStep'
<1> USE Lengths DEF CountersInStep, CallsReturn, BookingExecution
<1>0. CallsTypeOK
  BY TypeOKParts
<1>1. CASE ReadTrade
  BY <1>1 DEF ReadTrade, serviceVars, fileVars
<1>2. CASE EndOfTrades
  BY <1>2 DEF EndOfTrades, serviceVars, callVars, fileVars
<1>3. CASE ReadOrderBook
  BY <1>3 DEF ReadOrderBook, fileVars
<1>4. CASE EndOfMarket
  BY <1>4 DEF EndOfMarket, serviceVars, callVars, fileVars
<1>5. CASE PassOnWideBook
  BY <1>5 DEF PassOnWideBook, serviceVars, inputVars, fileVars
<1>6. CASE AlgoExecuteOrder
  BY <1>6
     DEF AlgoExecuteOrder, StoreAlgoExecution, NextOrder, inputVars, fileVars
<1>7. CASE ExecuteOrder
  BY <1>7 DEF ExecuteOrder, inputVars, fileVars
<1>8. CASE ProcessExecution
  BY <1>8
     DEF ProcessExecution, CountExecution, TradeOfExecution, inputVars, fileVars
<1>9. CASE OnMessage
  BY <1>9 DEF OnMessage, inputVars, fileVars
<1>10. CASE BookTrade
  BY <1>10 DEF BookTrade, serviceVars, inputVars, fileVars
<1>11. CASE AddTrade
  BY <1>11 DEF AddTrade, inputVars, fileVars
<1>12. CASE AddPosition
  BY <1>12 DEF AddPosition, inputVars, fileVars
<1>13. CASE PersistRisk
  BY <1>13 DEF PersistRisk, serviceVars, inputVars
<1>14. CASE PersistPosition
  BY <1>0, <1>14 DEF PersistPosition, serviceVars, inputVars, CallsTypeOK
<1>15. CASE PersistExecution
  <2>1. /\ Len(executionsFile) + 1 = bookingCount
        /\ order.side = SideOf(bookingCount - 1)
    BY <1>15 DEF PersistExecution, FilesInStep
  <2>2. \A i \in DOMAIN executionsFile' :
          executionsFile'[i].side = SideOf(i - 1)
    BY <1>15, <2>1, Appends
  <2> QED
    BY <1>15, <2>2 DEF PersistExecution, serviceVars, inputVars
<1> QED
  BY <1>1, <1>2, <1>3, <1>4, <1>5, <1>6, <1>7, <1>8, <1>9, <1>10, <1>11,
     <1>12, <1>13, <1>14, <1>15 DEF Next

-----------------------------------------------------------------------------
(***************************************************************************)
(* Positions, risk and their files.                                        *)
(***************************************************************************)

\* What AddTrade and AddPosition do to the maps they write.
LEMMA MapWrites ==
  /\ AddTrade =>
       /\ DOMAIN positions' = DOMAIN positions \cup {trade.product}
       /\ positions'[trade.product] = MergedPosition(trade)
       /\ \A p \in DOMAIN positions :
            p # trade.product => positions'[p] = positions[p]
  /\ AddPosition =>
       /\ DOMAIN pv01s' = DOMAIN pv01s \cup {position.product}
       /\ pv01s'[position.product] = GetAggregatePosition(position.held)
       /\ \A p \in DOMAIN pv01s :
            p # position.product => pv01s'[p] = pv01s[p]
<1>1. ASSUME AddTrade
      PROVE  /\ DOMAIN positions' = DOMAIN positions \cup {trade.product}
             /\ positions'[trade.product] = MergedPosition(trade)
             /\ \A p \in DOMAIN positions :
                  p # trade.product => positions'[p] = positions[p]
  BY <1>1 DEF AddTrade, StorePosition, Put
<1>2. ASSUME AddPosition
      PROVE  /\ DOMAIN pv01s' = DOMAIN pv01s \cup {position.product}
             /\ pv01s'[position.product] = GetAggregatePosition(position.held)
             /\ \A p \in DOMAIN pv01s :
                  p # position.product => pv01s'[p] = pv01s[p]
  BY <1>2 DEF AddPosition, StorePV01, Put
<1> QED
  BY <1>1, <1>2, Zenon

\* Nothing overwrites a position between its being stored and its being
\* printed: every step preserves that the arguments in flight are current.
LEMMA ArgumentsCurrentStep ==
  ASSUME TypeOK, CallsReturn, ArgumentsCurrent, Next
  PROVE  ArgumentsCurrent'
<1> USE DEF ArgumentsCurrent
<1>0. CallsTypeOK
  BY TypeOKParts
<1>1. CASE pc' \notin {"AddPosition", "PersistRisk", "PersistPosition"}
  BY <1>1
<1>2. CASE AddTrade
  BY <1>2, MapWrites DEF AddTrade
<1>3. CASE AddPosition
  BY <1>3 DEF AddPosition
<1>4. CASE PersistRisk
  <2>1. riskFile' # << >> /\ riskFile'[Len(riskFile')] = pv01
    <3>1. Len(riskFile') = Len(riskFile) + 1 /\ Len(riskFile) \in Nat
      BY <1>4, Appends, Lengths
    <3> QED
      BY <1>4, <3>1, Appends
  <2> QED
    BY <1>4, <2>1 DEF PersistRisk, serviceVars
<1> QED
  BY <1>0, <1>1, <1>2, <1>3, <1>4
     DEF Next, ReadTrade, EndOfTrades, ReadOrderBook, EndOfMarket,
         PassOnWideBook, AlgoExecuteOrder, ExecuteOrder, ProcessExecution,
         OnMessage, BookTrade, PersistPosition, PersistExecution, callVars,
         CallsTypeOK, CallsReturn

\* RiskService catches up with PositionService in the very next call: every
\* step preserves that their quantities match but for the one in flight.
LEMMA RiskMatchesPositionStep ==
  ASSUME TypeOK, CallsReturn, ArgumentsCurrent, RiskMatchesPosition, Next
  PROVE  RiskMatchesPosition'
<1> USE DEF RiskMatchesPosition
<1>1. CASE AddTrade
  <2>1. /\ position'.product = trade.product /\ pc = "AddTrade"
        /\ pc' = "AddPosition" /\ UNCHANGED pv01s
        /\ DOMAIN positions' = DOMAIN positions \cup {trade.product}
        /\ \A p \in DOMAIN positions :
             p # trade.product => positions'[p] = positions[p]
    BY <1>1, MapWrites DEF AddTrade
  <2> QED
    BY <2>1
<1>2. CASE AddPosition
  <2>1. /\ pc = "AddPosition" /\ pc' = "PersistRisk" /\ UNCHANGED positions
        /\ DOMAIN pv01s' = DOMAIN pv01s \cup {position.product}
        /\ pv01s'[position.product] = GetAggregatePosition(position.held)
        /\ \A p \in DOMAIN pv01s :
             p # position.product => pv01s'[p] = pv01s[p]
    BY <1>2, MapWrites DEF AddPosition
  <2>2. /\ position.product \in DOMAIN positions
        /\ position.held = positions[position.product]
    BY <2>1 DEF ArgumentsCurrent
  <2> QED
    BY <2>1, <2>2
<1>3. CASE UNCHANGED <<positions, pv01s>> /\ pc # "AddPosition"
  BY <1>3
<1> QED
  BY <1>1, <1>2, <1>3
     DEF Next, ReadTrade, EndOfTrades, ReadOrderBook, EndOfMarket,
         PassOnWideBook, AlgoExecuteOrder, ExecuteOrder, ProcessExecution,
         OnMessage, BookTrade, PersistRisk, PersistPosition, PersistExecution,
         serviceVars

\* risk.txt gets its line first and positions.txt the one it explains next:
\* every step preserves that they match line by line.
LEMMA RiskFileStep ==
  ASSUME TypeOK, CallsReturn, ArgumentsCurrent, RiskFileExplainsPositionsFile,
         Next
  PROVE  RiskFileExplainsPositionsFile'
<1> USE DEF RiskFileExplainsPositionsFile
<1>0. CallsTypeOK
  BY TypeOKParts
<1>1. CASE PersistRisk
  <2>1. /\ pc = "PersistRisk" /\ pc' = "PersistPosition"
        /\ UNCHANGED positionsFile
    BY <1>1 DEF PersistRisk
  <2>2. Len(riskFile) = Len(positionsFile)
    BY <2>1, Lengths
  <2>3. /\ Len(riskFile') = Len(riskFile) + 1
        /\ \A i \in DOMAIN positionsFile : riskFile'[i] = riskFile[i]
    BY <1>1, <2>2, Appends, Lengths
  <2> QED
    BY <2>1, <2>2, <2>3
<1>2. CASE PersistPosition
  <2>1. /\ pc = "PersistPosition" /\ pc' = returnTo /\ UNCHANGED riskFile
        /\ returnTo # "PersistPosition"
    BY <1>0, <1>2 DEF PersistPosition, CallsTypeOK
  <2>2. riskFile[Len(riskFile)] = RiskOf(position.product, position.held)
    BY <2>1 DEF ArgumentsCurrent
  <2>3. Len(riskFile) = Len(positionsFile) + 1
    BY <2>1
  <2> QED
    BY <1>2, <2>1, <2>2, <2>3, Appends, Lengths
<1>3. CASE /\ UNCHANGED <<riskFile, positionsFile>>
           /\ pc # "PersistPosition" /\ pc' # "PersistPosition"
  BY <1>3
<1>4. CASE pc = "Main" /\ (ReadTrade \/ EndOfTrades \/ ReadOrderBook
                           \/ EndOfMarket)
  BY <1>4, <1>3
     DEF ReadTrade, EndOfTrades, ReadOrderBook, EndOfMarket, callVars, fileVars
<1>5. CASE \/ PassOnWideBook \/ AlgoExecuteOrder \/ ExecuteOrder
           \/ ProcessExecution \/ OnMessage \/ BookTrade \/ AddTrade
           \/ AddPosition \/ PersistExecution
  BY <1>5, <1>3
     DEF PassOnWideBook, AlgoExecuteOrder, ExecuteOrder, ProcessExecution,
         OnMessage, BookTrade, AddTrade, AddPosition, PersistExecution, fileVars
<1> QED
  BY <1>1, <1>2, <1>4, <1>5, Zenon
     DEF Next, ReadTrade, EndOfTrades, ReadOrderBook, EndOfMarket

\* A position reaches positions.txt before its product's next one is stored:
\* every step preserves that last lines are what is in memory. Appending a
\* line makes it its product's last and leaves the others theirs.
LEMMA PositionsFileStep ==
  ASSUME TypeOK, CallsReturn, ArgumentsCurrent, PositionsFileReflectsMemory,
         Next
  PROVE  PositionsFileReflectsMemory'
<1> USE DEF PositionsFileReflectsMemory, IsLastLine
<1>0. CallsTypeOK
  BY TypeOKParts
<1>1. CASE AddTrade
  <2>1. /\ position'.product = trade.product /\ pc = "AddTrade"
        /\ pc' = "AddPosition" /\ UNCHANGED positionsFile
        /\ DOMAIN positions' = DOMAIN positions \cup {trade.product}
        /\ \A p \in DOMAIN positions :
             p # trade.product => positions'[p] = positions[p]
    BY <1>1, MapWrites DEF AddTrade, fileVars
  <2> QED
    BY <2>1
<1>2. CASE PersistPosition
  <2> DEFINE n == Len(positionsFile)
  <2>1. /\ pc = "PersistPosition" /\ UNCHANGED positions
        /\ pc' \notin {"AddPosition", "PersistRisk", "PersistPosition"}
        /\ position.product \in DOMAIN positions
        /\ position.held = positions[position.product]
    BY <1>0, <1>2
       DEF PersistPosition, CallsTypeOK, ArgumentsCurrent, serviceVars
  <2>2. /\ n \in Nat /\ DOMAIN positionsFile = 1..n
        /\ DOMAIN positionsFile' = 1..(n + 1)
        /\ positionsFile'[n + 1] = position
        /\ \A i \in 1..n : positionsFile'[i] = positionsFile[i]
    BY <1>2, Appends, Lengths
  <2> HIDE DEF n
  <2>3. SUFFICES ASSUME NEW p \in ProductIds
        PROVE  /\ p \in DOMAIN positions =>
                    \E i \in 1..(n + 1) : positionsFile'[i].product = p
               /\ \A i \in 1..(n + 1) :
                    /\ positionsFile'[i].product = p
                    /\ \A j \in 1..(n + 1) :
                         j > i => positionsFile'[j].product # p
                    => /\ p \in DOMAIN positions
                       /\ positionsFile'[i].held = positions[p]
    BY <2>1, <2>2
  <2>4. CASE p = position.product
    BY <2>1, <2>2, <2>4
  <2>5. CASE p # position.product
    <3>1. /\ p \in DOMAIN positions =>
               \E i \in 1..n : positionsFile[i].product = p
          /\ \A i \in 1..n :
               /\ positionsFile[i].product = p
               /\ \A j \in 1..n : j > i => positionsFile[j].product # p
               => /\ p \in DOMAIN positions
                  /\ positionsFile[i].held = positions[p]
      BY <2>2, <2>5
    <3> QED
      BY <2>2, <2>5, <3>1
  <2> QED
    BY <2>4, <2>5
<1>3. CASE UNCHANGED <<positions, positionsFile, position>>
             /\ pc \in {"AddPosition", "PersistRisk"}
             /\ pc' \in {"PersistRisk", "PersistPosition"}
  BY <1>3
<1>4. CASE UNCHANGED <<positions, positionsFile>>
             /\ pc \notin {"AddPosition", "PersistRisk", "PersistPosition"}
  BY <1>4
<1>5. CASE AddPosition \/ PersistRisk
  BY <1>3, <1>5 DEF AddPosition, PersistRisk, serviceVars, fileVars
<1>6. CASE \/ ReadTrade \/ EndOfTrades \/ ReadOrderBook \/ EndOfMarket
           \/ PassOnWideBook \/ AlgoExecuteOrder \/ ExecuteOrder
           \/ ProcessExecution \/ OnMessage \/ BookTrade \/ PersistExecution
  BY <1>4, <1>6
     DEF ReadTrade, EndOfTrades, ReadOrderBook, EndOfMarket, PassOnWideBook,
         AlgoExecuteOrder, ExecuteOrder, ProcessExecution, OnMessage,
         BookTrade, PersistExecution, serviceVars, fileVars
<1> QED
  BY <1>1, <1>2, <1>5, <1>6, Zenon DEF Next

-----------------------------------------------------------------------------
(***************************************************************************)
(* Reconciliation of the positions with what was ordered.                  *)
(***************************************************************************)

\* What PositionService holds of a product in a book is an integer.
LEMMA HeldType ==
  ASSUME PositionTypeOK, NEW p, NEW b
  PROVE  Held(p, b) \in Int
  BY DEF PositionTypeOK, Held, PositionOf, GetPosition, At, IsPosition, IsMap,
         EmptyMap

\* AddTrade moves one book of one product, by the quantity of the trade.
LEMMA AddTradeMoves ==
  ASSUME AddTrade, NEW p, NEW b
  PROVE  Held(p, b)' = IF p = trade.product /\ b = trade.book
                       THEN Held(p, b) + SignedQuantity(trade)
                       ELSE Held(p, b)
<1>1. /\ DOMAIN positions' = DOMAIN positions \cup {trade.product}
      /\ positions'[trade.product] = MergedPosition(trade)
      /\ \A q \in DOMAIN positions :
           q # trade.product => positions'[q] = positions[q]
  BY MapWrites
<1>2. CASE p # trade.product
  BY <1>1, <1>2 DEF Held, PositionOf, At
<1>3. CASE p = trade.product
  <2>1. PositionOf(p)' = MergedPosition(trade)
    BY <1>1, <1>3 DEF PositionOf, At
  <2>2. GetPosition(MergedPosition(trade), b) =
          IF b = trade.book
          THEN GetPosition(PositionOf(p), b) + SignedQuantity(trade)
          ELSE GetPosition(PositionOf(p), b)
    BY <1>3 DEF MergedPosition, AddToBook, GetPosition, At, Put
  <2> QED
    BY <1>3, <2>1, <2>2 DEF Held, GetPosition, At
<1> QED
  BY <1>2, <1>3

\* Reading a line or booking an execution adds one trade to one total.
LEMMA OrderedMoves ==
  ASSUME NEW totals \in Totals, NEW t \in Trades,
         NEW p \in ProductIds, NEW b \in Books
  PROVE  Ordered(totals, t)[p][b] =
           IF p = t.product /\ b = t.book
           THEN totals[p][b] + SignedQuantity(t) ELSE totals[p][b]
  BY DEF Ordered, Totals, Trades

\* The quantity due, spelled out by the number of calls due.
LEMMA DueCases ==
  ASSUME NEW p, NEW b
  PROVE  /\ AddTradesDue = 0 => QuantityDue(p, b) = 0
         /\ AddTradesDue = 1 /\ SignedQuantity(trade) \in Int =>
              QuantityDue(p, b) = IF trade.product = p /\ trade.book = b
                                  THEN SignedQuantity(trade) ELSE 0
         /\ AddTradesDue = 2 =>
              QuantityDue(p, b) = IF trade.product = p /\ trade.book = b
                                  THEN 2 * SignedQuantity(trade) ELSE 0
         /\ AddTradesDue \in {0, 1, 2}
  BY DEF QuantityDue, AddTradesDue

\* What is due of a trade that is in flight is an integer, and so is nothing.
LEMMA DueType ==
  ASSUME TypeOK, NEW p, NEW b
  PROVE  QuantityDue(p, b) \in Int
<1>1. CallsTypeOK
  BY TypeOKParts
<1>2. AddTradesDue # 0 => trade \in Trades
  BY <1>1 DEF AddTradesDue, CallsTypeOK, NotifyCalls
<1>3. AddTradesDue # 0 => SignedQuantity(trade) \in Int
  BY <1>2, SignedQuantityType
<1> QED
  BY <1>3, DueCases

\* Every step moves what is held, and what the call in progress has yet to add
\* to it, by as much as it moves what was ordered.
LEMMA OrdersBalance ==
  ASSUME TypeOK, CallsReturn, Next, NEW p \in ProductIds, NEW b \in Books
  PROVE  (Held(p, b)' + QuantityDue(p, b)')
             - (filed'[p][b] + 2 * executed'[p][b])
           = (Held(p, b) + QuantityDue(p, b))
               - (filed[p][b] + 2 * executed[p][b])
<1> DEFINE matches == trade.product = p /\ trade.book = b
           signed  == SignedQuantity(trade)
<1>0. /\ CallsTypeOK /\ ServicesTypeOK
      /\ TypeOK'
      /\ QuantityDue(p, b) \in Int
  BY TypeOKParts, TypeStep, DueType
<1>1. /\ filed \in Totals /\ executed \in Totals
      /\ filed[p][b] \in Int /\ executed[p][b] \in Int
      /\ Held(p, b) \in Int
  BY <1>0, HeldType DEF CallsTypeOK, ServicesTypeOK, Totals
<1>2. UNCHANGED positions => Held(p, b)' = Held(p, b)
  BY DEF Held, PositionOf, GetPosition, At
<1>3. UNCHANGED trade => SignedQuantity(trade)' = signed
  BY DEF SignedQuantity
<1>4. pc \in NotifyCalls \cup {"BookTrade"} => signed \in Int
  BY <1>0, SignedQuantityType DEF CallsTypeOK
<1>5. CASE ReadTrade
  <2>1. /\ trade' \in Trades /\ filed' = Ordered(filed, trade')
        /\ UNCHANGED <<positions, executed>>
        /\ AddTradesDue = 0 /\ AddTradesDue' = 1
    BY <1>5, TradeTypes
       DEF ReadTrade, serviceVars, AddTradesDue, CallsReturn
  <2>2. SignedQuantity(trade') \in Int
    BY <2>1, SignedQuantityType
  <2>3. QuantityDue(p, b)' = IF trade'.product = p /\ trade'.book = b
                             THEN SignedQuantity(trade') ELSE 0
    BY <2>1, <2>2 DEF QuantityDue, SignedQuantity
  <2>4. filed'[p][b] = IF p = trade'.product /\ b = trade'.book
                       THEN filed[p][b] + SignedQuantity(trade')
                       ELSE filed[p][b]
    BY <1>1, <2>1, OrderedMoves
  <2>5. QuantityDue(p, b) = 0
    BY <2>1, DueCases
  <2> QED
    BY <1>0, <1>1, <1>2, <2>1, <2>2, <2>3, <2>4, <2>5
<1>6. CASE ProcessExecution
  <2>1. /\ trade' \in Trades /\ executed' = Ordered(executed, trade')
        /\ UNCHANGED <<positions, filed>>
        /\ AddTradesDue = 0 /\ AddTradesDue' = 2
    BY <1>0, <1>6, TradeTypes
       DEF ProcessExecution, AddTradesDue, CallsReturn, CallsTypeOK,
           OrderCalls, ServicesTypeOK, TradeBookingTypeOK
  <2>2. SignedQuantity(trade') \in Int
    BY <2>1, SignedQuantityType
  <2>3. QuantityDue(p, b)' = IF trade'.product = p /\ trade'.book = b
                             THEN 2 * SignedQuantity(trade') ELSE 0
    BY <2>1, <2>2 DEF QuantityDue, SignedQuantity
  <2>4. executed'[p][b] = IF p = trade'.product /\ b = trade'.book
                          THEN executed[p][b] + SignedQuantity(trade')
                          ELSE executed[p][b]
    BY <1>1, <2>1, OrderedMoves
  <2>5. QuantityDue(p, b) = 0
    BY <2>1, DueCases
  <2> QED
    BY <1>0, <1>1, <1>2, <2>1, <2>2, <2>3, <2>4, <2>5
<1>7. CASE AddTrade
  <2>1. /\ UNCHANGED <<trade, filed, executed>> /\ signed \in Int
        /\ AddTradesDue \in {1, 2} /\ AddTradesDue' = AddTradesDue - 1
    BY <1>4, <1>7 DEF AddTrade, AddTradesDue, NotifyCalls, historyVars
  <2>2. Held(p, b)' = IF matches THEN Held(p, b) + signed ELSE Held(p, b)
    BY <1>7, AddTradeMoves
  <2>3. QuantityDue(p, b)' = QuantityDue(p, b) - (IF matches THEN signed ELSE 0)
    BY <1>3, <2>1 DEF QuantityDue
  <2>4. QuantityDue(p, b) \in Int
    BY <2>1, DueCases
  <2> HIDE DEF matches, signed
  <2> QED
    BY <1>0, <1>1, <2>1, <2>2, <2>3, <2>4
<1>8. CASE /\ UNCHANGED <<positions, filed, executed>>
           /\ AddTradesDue' = AddTradesDue
           /\ AddTradesDue # 0 => UNCHANGED trade
  <2>1. QuantityDue(p, b)' = QuantityDue(p, b)
    BY <1>3, <1>8 DEF QuantityDue
  <2> QED
    BY <1>0, <1>2, <1>8, <2>1
<1>9. CASE \/ EndOfTrades \/ ReadOrderBook \/ EndOfMarket \/ PassOnWideBook
           \/ AlgoExecuteOrder \/ ExecuteOrder \/ OnMessage \/ BookTrade
           \/ AddPosition \/ PersistRisk
  BY <1>8, <1>9
     DEF EndOfTrades, ReadOrderBook, EndOfMarket, PassOnWideBook,
         AlgoExecuteOrder, ExecuteOrder, OnMessage, BookTrade, AddPosition,
         PersistRisk, AddTradesDue, CallsReturn, serviceVars, callVars,
         historyVars
<1>10. CASE PersistPosition
  BY <1>0, <1>8, <1>10
     DEF PersistPosition, AddTradesDue, CallsTypeOK, serviceVars, historyVars
<1>11. CASE PersistExecution
  BY <1>8, <1>11
     DEF PersistExecution, AddTradesDue, CallsReturn, serviceVars, historyVars
<1> QED
  BY <1>5, <1>6, <1>7, <1>9, <1>10, <1>11, Zenon DEF Next

\* After a step too they are integers, and so is what was ordered.
LEMMA BalanceTypesNext ==
  ASSUME TypeOK', NEW p \in ProductIds, NEW b \in Books
  PROVE  /\ Held(p, b)' \in Int /\ QuantityDue(p, b)' \in Int
         /\ (Held(p, b)' + QuantityDue(p, b)') \in Int
         /\ (filed'[p][b] + 2 * executed'[p][b]) \in Int
<1>1. Held(p, b)' \in Int
  BY DEF TypeOK, PositionTypeOK, Held, PositionOf, GetPosition, At, IsPosition,
         IsMap, EmptyMap
<1>2. QuantityDue(p, b)' \in Int
  <2>1. AddTradesDue' \in {0, 1, 2}
    BY DEF AddTradesDue
  <2>2. AddTradesDue' # 0 => trade' \in Trades
    BY DEF AddTradesDue, TypeOK, NotifyCalls
  <2> QED
    BY <2>1, <2>2 DEF QuantityDue, SignedQuantity, Trades
<1>3. filed'[p][b] \in Int /\ executed'[p][b] \in Int
  BY DEF TypeOK, Totals
<1> QED
  BY <1>1, <1>2, <1>3

\* What is as far from its total as before is at its total if it was.
LEMMA Levelled ==
  ASSUME NEW before \in Int, NEW after \in Int, NEW total \in Int,
         NEW moved \in Int, after - moved = before - total
  PROVE  before = total <=> after = moved
  OBVIOUS

\* Every step preserves that positions, and what the call in progress has yet
\* to add to them, sum to what was ordered.
LEMMA ReconcileStep ==
  ASSUME TypeOK, CallsReturn, PositionsReconcile, Next
  PROVE  PositionsReconcile'
<1> SUFFICES ASSUME NEW p \in ProductIds, NEW b \in Books
             PROVE  Held(p, b)' + QuantityDue(p, b)'
                      = filed'[p][b] + 2 * executed'[p][b]
  BY DEF PositionsReconcile
<1>1. /\ Held(p, b) + QuantityDue(p, b) = filed[p][b] + 2 * executed[p][b]
      /\ (Held(p, b)' + QuantityDue(p, b)')
             - (filed'[p][b] + 2 * executed'[p][b])
           = (Held(p, b) + QuantityDue(p, b))
               - (filed[p][b] + 2 * executed[p][b])
  BY OrdersBalance DEF PositionsReconcile
<1>2. TypeOK'
  BY TypeStep
<1>3. /\ (Held(p, b)' + QuantityDue(p, b)') \in Int
      /\ (filed'[p][b] + 2 * executed'[p][b]) \in Int
  BY <1>2, BalanceTypesNext
<1>4. /\ (Held(p, b) + QuantityDue(p, b)) \in Int
      /\ (filed[p][b] + 2 * executed[p][b]) \in Int
  <2>1. Held(p, b) \in Int /\ QuantityDue(p, b) \in Int
    BY HeldType, DueType DEF TypeOK
  <2>2. filed[p][b] \in Int /\ executed[p][b] \in Int
    BY TypeOKParts DEF TypeOK, Totals
  <2> QED
    BY <2>1, <2>2
<1> QED
  BY <1>1, <1>3, <1>4, Levelled

-----------------------------------------------------------------------------
(***************************************************************************)
(* The inductive invariant and the theorems.                               *)
(***************************************************************************)

\* None of the invariants below is inductive alone: the files rest on the
\* arguments in flight, those on the call chain, and all of them on the types.
IInv ==
  /\ TypeOK /\ CallsReturn /\ ArgumentsCurrent
  /\ PositionsReconcile /\ RiskMatchesPosition
  /\ PositionsFileReflectsMemory /\ RiskFileExplainsPositionsFile
  /\ FilesInStep /\ CountersInStep

\* main starts with empty maps and files and nothing in flight.
LEMMA InvariantInit == Init => IInv
<1> SUFFICES ASSUME Init PROVE IInv
  OBVIOUS
<1>1. TypeOK
  BY TypeInit
<1>2. /\ pc = "Main" /\ returnTo = "Main" /\ stage = "Trades"
      /\ bookingCount = 0 /\ algoCount = 0 /\ tradesRead = 0
      /\ DOMAIN positions = {} /\ DOMAIN pv01s = {}
      /\ filed = Nothing /\ executed = Nothing
      /\ positionsFile = << >> /\ riskFile = << >> /\ executionsFile = << >>
  BY DEF Init, TradeBookingInit, AlgoExecutionInit, PositionInit, RiskInit,
         EmptyMap, PositionHistory!Init, RiskHistory!Init,
         ExecutionHistory!Init
<1>3. CallsReturn /\ ArgumentsCurrent
  BY <1>2 DEF CallsReturn, ArgumentsCurrent, NotifyCalls
<1>4. PositionsReconcile
  <2>1. SUFFICES ASSUME NEW p \in ProductIds, NEW b \in Books
                 PROVE  Held(p, b) + QuantityDue(p, b)
                          = filed[p][b] + 2 * executed[p][b]
    BY DEF PositionsReconcile
  <2>2. Held(p, b) = 0
    BY <1>2 DEF Held, PositionOf, GetPosition, At, EmptyMap
  <2>3. QuantityDue(p, b) = 0
    BY <1>2 DEF QuantityDue, AddTradesDue
  <2>4. filed[p][b] = 0 /\ executed[p][b] = 0
    BY <1>2 DEF Nothing
  <2> QED
    BY <2>2, <2>3, <2>4
<1>5. RiskMatchesPosition
  BY <1>2 DEF RiskMatchesPosition
<1>6. PositionsFileReflectsMemory /\ RiskFileExplainsPositionsFile
  BY <1>2
     DEF PositionsFileReflectsMemory, IsLastLine, RiskFileExplainsPositionsFile
<1>7. FilesInStep /\ CountersInStep
  BY <1>2 DEF FilesInStep, CountersInStep, NotifyCalls, BookingExecution
<1> QED
  BY <1>1, <1>3, <1>4, <1>5, <1>6, <1>7 DEF IInv

\* What a stutter leaves alone, an invariant does not notice.
LEMMA InvariantStutter == IInv /\ UNCHANGED vars => IInv'
<1> SUFFICES ASSUME IInv, UNCHANGED vars PROVE IInv'
  OBVIOUS
<1> USE DEF vars, serviceVars, fileVars, callVars, inputVars, historyVars
<1>1. TypeOK'
  BY TypeStep DEF IInv
<1>2. CallsReturn' /\ ArgumentsCurrent'
  BY DEF IInv, CallsReturn, ArgumentsCurrent, BookingExecution
<1>3. PositionsReconcile'
  BY DEF IInv, PositionsReconcile, Held, PositionOf, QuantityDue,
         AddTradesDue
<1>4. RiskMatchesPosition'
  BY DEF IInv, RiskMatchesPosition
<1>5. PositionsFileReflectsMemory' /\ RiskFileExplainsPositionsFile'
  BY DEF IInv, PositionsFileReflectsMemory, RiskFileExplainsPositionsFile,
         IsLastLine
<1>6. FilesInStep' /\ CountersInStep'
  BY DEF IInv, FilesInStep, CountersInStep, BookingExecution
<1> QED
  BY <1>1, <1>2, <1>3, <1>4, <1>5, <1>6 DEF IInv

\* Every step of the flow preserves the inductive invariant.
LEMMA InvariantStep == IInv /\ [Next]_vars => IInv'
<1> SUFFICES ASSUME IInv, [Next]_vars PROVE IInv'
  OBVIOUS
<1>1. CASE Next
  <2>1. /\ TypeOK /\ CallsReturn /\ ArgumentsCurrent
        /\ PositionsReconcile /\ RiskMatchesPosition
        /\ PositionsFileReflectsMemory /\ RiskFileExplainsPositionsFile
        /\ FilesInStep /\ CountersInStep
    BY Zenon DEF IInv
  <2>2. TypeOK' /\ CallsReturn' /\ ArgumentsCurrent'
    BY <1>1, <2>1, TypeStep, CallsReturnStep, ArgumentsCurrentStep
  <2>3. PositionsReconcile' /\ RiskMatchesPosition'
    BY <1>1, <2>1, ReconcileStep, RiskMatchesPositionStep
  <2>4. PositionsFileReflectsMemory' /\ RiskFileExplainsPositionsFile'
    BY <1>1, <2>1, PositionsFileStep, RiskFileStep
  <2>5. FilesInStep' /\ CountersInStep'
    BY <1>1, <2>1, FilesInStepStep, CountersInStepStep
  <2> QED
    BY <2>2, <2>3, <2>4, <2>5, Zenon DEF IInv
<1>2. CASE UNCHANGED vars
  BY <1>2, InvariantStutter
<1> QED
  BY <1>1, <1>2

\* The inductive invariant holds in every reachable state.
THEOREM Invariant == Spec => []IInv
  BY InvariantInit, InvariantStep, PTL DEF Spec

\* Positions account for every quantity trades.txt and the executions
\* ordered, whatever the order of the input and wherever the program stops.
THEOREM PositionsCorrect == Spec => []PositionsReconcile
<1>1. IInv => PositionsReconcile
  BY DEF IInv
<1> QED
  BY <1>1, Invariant, PTL

\* RiskService never disagrees with PositionService beyond the one position
\* it is about to be told of.
THEOREM RiskCorrect == Spec => []RiskMatchesPosition
<1>1. IInv => RiskMatchesPosition
  BY DEF IInv
<1> QED
  BY <1>1, Invariant, PTL

\* The positions in memory can be read back from the last lines of
\* positions.txt.
THEOREM PositionsFileCorrect == Spec => []PositionsFileReflectsMemory
<1>1. IInv => PositionsFileReflectsMemory
  BY DEF IInv
<1> QED
  BY <1>1, Invariant, PTL

\* Wherever the program stops, risk.txt explains positions.txt line by line
\* and is at most one line ahead.
THEOREM RiskFileCorrect == Spec => []RiskFileExplainsPositionsFile
<1>1. IInv => RiskFileExplainsPositionsFile
  BY DEF IInv
<1> QED
  BY <1>1, Invariant, PTL

\* Wherever the program stops, the three files are as long as the inputs and
\* executions they record, and no execution lacks its position lines.
THEOREM FilesCorrect == Spec => []FilesInStep
<1>1. IInv => FilesInStep
  BY DEF IInv
<1> QED
  BY <1>1, Invariant, PTL

\* The two services that count executions separately never drift apart.
THEOREM CountersCorrect == Spec => []CountersInStep
<1>1. IInv => CountersInStep
  BY DEF IInv
<1> QED
  BY <1>1, Invariant, PTL

\* No listener is ever handed a position or a risk that is not the one the
\* services hold by then.
THEOREM ArgumentsCorrect == Spec => []ArgumentsCurrent
<1>1. IInv => ArgumentsCurrent
  BY DEF IInv
<1> QED
  BY <1>1, Invariant, PTL
-----------------------------------------------------------------------------
(***************************************************************************)
(* The end. That main reaches it rests on fairness, which TLC checks; that *)
(* no run is longer than its input allows, and that the files are complete *)
(* when it does, are safety properties.                                    *)
(***************************************************************************)

\* The calls between the next one and the return to main.
CallsLeft ==
  CASE pc = "Main" -> 0
    [] pc = "AlgoExecuteOrder" -> 14
    [] pc = "ExecuteOrder" -> 13
    [] pc = "ProcessExecution" -> 12
    [] pc = "BookTrade" -> 6
    [] pc = "PersistExecution" -> 1
    [] OTHER ->
         (CASE pc = "OnMessage" -> 5 [] pc = "AddTrade" -> 4
            [] pc = "AddPosition" -> 3 [] pc = "PersistRisk" -> 2
            [] pc = "PersistPosition" -> 1)
           + (CASE returnTo = "Main" -> 0 [] returnTo = "BookTrade" -> 6
                [] returnTo = "PersistExecution" -> 1)

\* The most steps left: six for a line of trades.txt, fifteen for a book, and
\* one for the end of each file.
StepsLeft ==
  6 * (MaxTrades - tradesRead) + 15 * (MaxBooks - booksRead)
    + (CASE stage = "Trades" -> 2 [] stage = "Market" -> 1 [] OTHER -> 0)
    + CallsLeft

\* The calls left are a number, whatever the call.
LEMMA CallsLeftType ==
  ASSUME CallsTypeOK
  PROVE  CallsLeft \in Nat
  BY DEF CallsTypeOK, Calls, CallsLeft

\* Reading pays for the calls it starts, and every call makes one less left.
LEMMA CallsLeftStep ==
  ASSUME CallsTypeOK, CallsReturn
  PROVE  /\ ReadTrade => CallsLeft = 0 /\ CallsLeft' = 5
         /\ ReadOrderBook => CallsLeft = 0 /\ CallsLeft' = 14
         /\ EndOfTrades \/ EndOfMarket => CallsLeft' = CallsLeft
         /\ PassOnWideBook => CallsLeft = 14 /\ CallsLeft' = 0
         /\ (\/ AlgoExecuteOrder \/ ExecuteOrder \/ ProcessExecution
             \/ OnMessage \/ BookTrade \/ AddTrade
             \/ AddPosition \/ PersistRisk \/ PersistPosition
             \/ PersistExecution)
              => CallsLeft' = CallsLeft - 1
<1> USE DEF CallsLeft
<1>1. ReadTrade => CallsLeft = 0 /\ CallsLeft' = 5
  BY DEF ReadTrade, CallsReturn
<1>2. ReadOrderBook => CallsLeft = 0 /\ CallsLeft' = 14
  BY DEF ReadOrderBook
<1>3. EndOfTrades \/ EndOfMarket => CallsLeft' = CallsLeft
  BY DEF EndOfTrades, EndOfMarket, callVars
<1>4. PassOnWideBook => CallsLeft = 14 /\ CallsLeft' = 0
  BY DEF PassOnWideBook
<1>5. AlgoExecuteOrder \/ ExecuteOrder => CallsLeft' = CallsLeft - 1
  BY DEF AlgoExecuteOrder, ExecuteOrder
<1>6. ProcessExecution \/ OnMessage => CallsLeft' = CallsLeft - 1
  BY DEF ProcessExecution, OnMessage, CallsTypeOK
<1>7. BookTrade \/ AddTrade => CallsLeft' = CallsLeft - 1
  BY DEF BookTrade, AddTrade, CallsTypeOK
<1>8. AddPosition \/ PersistRisk => CallsLeft' = CallsLeft - 1
  BY DEF AddPosition, PersistRisk, CallsTypeOK
<1>9. PersistPosition \/ PersistExecution => CallsLeft' = CallsLeft - 1
  BY DEF PersistPosition, PersistExecution, CallsTypeOK
<1> HIDE DEF CallsLeft
<1> QED
  BY <1>1, <1>2, <1>3, <1>4, <1>5, <1>6, <1>7, <1>8, <1>9, Zenon

\* Every step that is not a stutter leaves fewer.
LEMMA StepsLeftStep ==
  ASSUME TypeOK, CallsReturn, Next
  PROVE  StepsLeft \in Nat /\ StepsLeft' < StepsLeft
<1>0. CallsTypeOK /\ CallsLeft \in Nat
  BY TypeOKParts, CallsLeftType
<1>1. PICK t \in Nat, b \in Nat :
        t = MaxTrades - tradesRead /\ b = MaxBooks - booksRead
  BY <1>0, BoundsAssumption DEF CallsTypeOK
<1> DEFINE rank == CASE stage = "Trades" -> 2 [] stage = "Market" -> 1
                     [] OTHER -> 0
<1>2. rank \in Nat
  OBVIOUS
<1>3. StepsLeft = 6 * t + 15 * b + rank + CallsLeft
  BY <1>1 DEF StepsLeft
<1>4. StepsLeft' = 6 * (MaxTrades - tradesRead') + 15 * (MaxBooks - booksRead')
                     + rank' + CallsLeft'
  BY DEF StepsLeft
<1>5. tradesRead \in Int /\ booksRead \in Int /\ MaxTrades \in Int /\ MaxBooks \in Int
  BY <1>0, BoundsAssumption DEF CallsTypeOK
<1>6. CASE ReadTrade
  <2>1. /\ tradesRead' = tradesRead + 1 /\ booksRead' = booksRead
        /\ rank' = rank /\ CallsLeft = 0 /\ CallsLeft' = 5
    BY <1>0, <1>6, CallsLeftStep DEF ReadTrade
  <2> HIDE DEF rank
  <2> QED
    BY <1>1, <1>2, <1>3, <1>4, <1>5, <2>1
<1>7. CASE ReadOrderBook
  <2>1. /\ tradesRead' = tradesRead /\ booksRead' = booksRead + 1
        /\ rank' = rank /\ CallsLeft = 0 /\ CallsLeft' = 14
    BY <1>0, <1>7, CallsLeftStep DEF ReadOrderBook
  <2> HIDE DEF rank
  <2> QED
    BY <1>1, <1>2, <1>3, <1>4, <1>5, <2>1
<1>8. CASE EndOfTrades \/ EndOfMarket
  <2>1. /\ tradesRead' = tradesRead /\ booksRead' = booksRead
        /\ rank' = rank - 1 /\ CallsLeft' = CallsLeft
    BY <1>0, <1>8, CallsLeftStep DEF EndOfTrades, EndOfMarket
  <2> HIDE DEF rank
  <2> QED
    BY <1>0, <1>1, <1>2, <1>3, <1>4, <1>5, <2>1
<1>9. CASE /\ UNCHANGED inputVars
           /\ CallsLeft' < CallsLeft /\ CallsLeft' \in Int
  <2>1. tradesRead' = tradesRead /\ booksRead' = booksRead /\ rank' = rank
    BY <1>9 DEF inputVars
  <2> HIDE DEF rank
  <2>2. PICK now \in Nat, next \in Int :
          now = CallsLeft /\ next = CallsLeft' /\ next < now
    BY <1>0, <1>9
  <2>3. StepsLeft = 6 * t + 15 * b + rank + now
    BY <1>3, <2>2
  <2>4. StepsLeft' = 6 * t + 15 * b + rank + next
    BY <1>1, <1>4, <2>1, <2>2
  <2> QED
    BY <1>1, <1>2, <2>2, <2>3, <2>4
<1>10. CASE PassOnWideBook
  <2>1. CallsLeft = 14 /\ CallsLeft' = 0 /\ UNCHANGED inputVars
    BY <1>0, <1>10, CallsLeftStep DEF PassOnWideBook
  <2> QED
    BY <1>9, <2>1
<1>11. CASE \/ AlgoExecuteOrder \/ ExecuteOrder \/ ProcessExecution
            \/ OnMessage \/ BookTrade \/ AddTrade
            \/ AddPosition \/ PersistRisk \/ PersistPosition
            \/ PersistExecution
  <2>1. CallsLeft' = CallsLeft - 1
    <3>1. CallsTypeOK /\ CallsReturn
      BY <1>0
    <3>2. CASE AlgoExecuteOrder \/ ExecuteOrder \/ ProcessExecution
      BY <3>1, <3>2, CallsLeftStep
    <3>3. CASE OnMessage \/ BookTrade \/ AddTrade \/ AddPosition
      BY <3>1, <3>3, CallsLeftStep
    <3>4. CASE PersistRisk \/ PersistPosition \/ PersistExecution
      BY <3>1, <3>4, CallsLeftStep
    <3> QED
      BY <1>11, <3>2, <3>3, <3>4
  <2>2. UNCHANGED inputVars
    BY <1>11
       DEF AlgoExecuteOrder, ExecuteOrder, ProcessExecution, OnMessage,
           BookTrade, AddTrade, AddPosition, PersistRisk, PersistPosition,
           PersistExecution
  <2> QED
    BY <1>0, <1>9, <2>1, <2>2
<1> QED
  BY <1>6, <1>7, <1>8, <1>10, <1>11, Zenon DEF Next

\* No call is made twice over: a step always leaves fewer steps, a number that
\* starts at six per line, fifteen per book and two, so every run ends.
THEOREM RunsAreBounded ==
  Spec => /\ [](StepsLeft \in Nat)
          /\ [][StepsLeft' < StepsLeft]_vars
<1>1. IInv => StepsLeft \in Nat
  <2> SUFFICES ASSUME IInv PROVE StepsLeft \in Nat
    OBVIOUS
  <2>1. CallsTypeOK /\ CallsLeft \in Nat
    BY TypeOKParts, CallsLeftType DEF IInv
  <2>2. MaxTrades - tradesRead \in Nat /\ MaxBooks - booksRead \in Nat
    BY <2>1, BoundsAssumption DEF CallsTypeOK
  <2> QED
    BY <2>1, <2>2 DEF StepsLeft
<1>2. IInv /\ [Next]_vars => [StepsLeft' < StepsLeft]_vars
  BY StepsLeftStep DEF IInv
<1> QED
  BY <1>1, <1>2, Invariant, PTL DEF Spec

\* Once main has read both files nothing is on its way to a file.
EndIsComplete ==
  stage = "Ended" =>
    /\ pc = "Main"
    /\ Len(positionsFile) = tradesRead + 2 * algoCount
    /\ Len(riskFile) = Len(positionsFile)
    /\ Len(executionsFile) = algoCount

\* The end of the program finds every file complete: what
\* EndsWithCompleteFiles says main reaches, without the reaching.
THEOREM EndCorrect == Spec => []EndIsComplete
<1> DEFINE Idle == stage = "Ended" => pc = "Main"
<1>1. Init => Idle
  BY DEF Init
<1>2. CallsReturn /\ Idle /\ [Next]_vars => Idle'
  <2> SUFFICES ASSUME CallsReturn, Idle, [Next]_vars PROVE Idle'
    OBVIOUS
  <2>1. CASE Next
    BY <2>1
       DEF Next, ReadTrade, EndOfTrades, ReadOrderBook, EndOfMarket,
           PassOnWideBook, AlgoExecuteOrder, ExecuteOrder, ProcessExecution,
           OnMessage, BookTrade, AddTrade, AddPosition, PersistRisk,
           PersistPosition, PersistExecution, callVars, inputVars
  <2>2. CASE UNCHANGED vars
    BY <2>2 DEF vars, callVars, inputVars
  <2> QED
    BY <2>1, <2>2
<1>3. IInv => CallsReturn
  BY DEF IInv
<1>4. IInv /\ Idle => EndIsComplete
  <2> SUFFICES ASSUME IInv, Idle, stage = "Ended" PROVE EndIsComplete
    BY DEF EndIsComplete
  <2>1. pc = "Main" /\ returnTo = "Main"
    BY DEF IInv, CallsReturn
  <2>2. /\ Len(positionsFile) \in Nat /\ Len(executionsFile) \in Nat
        /\ Len(riskFile) \in Nat
    BY Lengths DEF IInv
  <2>3. bookingCount \in Nat /\ algoCount = bookingCount
    BY <2>1 DEF IInv, TypeOK, TradeBookingTypeOK, CountersInStep
  <2>4. /\ Len(positionsFile) = tradesRead + 2 * bookingCount
        /\ Len(executionsFile) = bookingCount
    BY <2>1, <2>2 DEF IInv, FilesInStep, NotifyCalls, BookingExecution
  <2>5. Len(riskFile) = Len(positionsFile)
    BY <2>1, <2>2 DEF IInv, RiskFileExplainsPositionsFile
  <2> QED
    BY <2>1, <2>3, <2>4, <2>5 DEF EndIsComplete
<1> QED
  BY <1>1, <1>2, <1>3, <1>4, Invariant, PTL DEF Spec
=============================================================================
