------------------------ MODULE AlgoExecutionService ------------------------
(***************************************************************************)
(* AlgoExecutionService: aggresses an order book whose spread is tight,    *)
(* alternating between its bid and its offer.                              *)
(***************************************************************************)
EXTENDS MarketDataService

CONSTANTS
  OrderIds,           \* the values GenerateId may return; nothing keeps it
                      \*   from returning a value twice
  StaleBidOffers      \* what the read through GetBidOffer's reference may
                      \*   yield besides the bid/offer of the book: the
                      \*   object it refers to has been destroyed

ASSUME StaleBidOffersAssumption == StaleBidOffers \subseteq BidOffers

VARIABLES
  algoExecutions,     \* map<string, AlgoExecution>: product -> its last order
  algoCount           \* count: orders generated so far

\* The constructor's spread, 1/128, in ticks of 1/256.
Spread == 2

\* class ExecutionOrder. The order type and the parent order are the same
\* for every order the algo generates, and the hidden quantity is 0.
ExecutionOrders ==
  [product : ProductIds, orderId : OrderIds, side : {"BID", "OFFER"},
   price : Int, visibleQuantity : Int, hiddenQuantity : {0}]

\* The side of the order generated when the count is the given one.
SideOf(count) == IF count % 2 = 0 THEN "BID" ELSE "OFFER"

IsTight(bidOffer) == bidOffer.offer.price - bidOffer.bid.price <= Spread

\* The bid/offers AlgoExecuteOrder may read from a book.
ReadableBidOffers(book) == GetBidOffer(book) \cup StaleBidOffers

\* The order AlgoExecuteOrder builds from the bid/offer it read.
NextOrder(product, orderId, bidOffer) ==
  LET side  == SideOf(algoCount)
      touch == IF side = "BID" THEN bidOffer.bid ELSE bidOffer.offer
  IN [product |-> product, orderId |-> orderId, side |-> side,
      price |-> touch.price, visibleQuantity |-> touch.quantity,
      hiddenQuantity |-> 0]

-----------------------------------------------------------------------------
AlgoExecutionTypeOK ==
  /\ IsMap(algoExecutions, ProductIds, ExecutionOrders)
  /\ algoCount \in Nat

AlgoExecutionInit == algoExecutions = EmptyMap /\ algoCount = 0

\* AlgoExecutionService::AlgoExecuteOrder once the spread is found tight, up
\* to the notification of the listeners with the order.
StoreAlgoExecution(algoOrder) ==
  /\ algoCount' = algoCount + 1
  /\ algoExecutions' = Put(algoExecutions, algoOrder.product, algoOrder)
=============================================================================
