------------------------- MODULE MarketDataService --------------------------
(***************************************************************************)
(* MarketDataService: the latest order book of each product. Prices are    *)
(* in ticks of 1/256. A book arrives whole through OnMessage, which stores *)
(* it and hands it to the listeners (the composition makes those calls).   *)
(***************************************************************************)
EXTENDS Integers, Sequences, Products, StdMap

CONSTANTS
  OrderBooks,         \* the order books MarketDataConnector may deliver
  UnsetOrders         \* what an Order never written to may hold

VARIABLE orderBooks   \* map<string, OrderBook>: product -> order book

\* class Order: the stack an order is in gives its side.
Orders == [price : Int, quantity : Int]

\* class OrderBook; ten lines of one side make a book with an empty stack.
Stacks == Seq(Orders)

ASSUME OrderBooksAssumption ==
  /\ OrderBooks \subseteq
       [product : ProductIds, bidStack : Stacks, offerStack : Stacks]
  /\ UnsetOrders \subseteq Orders

\* class BidOffer: the bid and the offer order read together.
BidOffers == [bid : Orders, offer : Orders]

\* Mutant of HighestBid: the stack is taken to be sorted.
FirstBid(stack) == stack[1]

\* The loops of GetBidOffer replace the best so far by a strictly better
\* order only: of equal ones the first is kept.
HighestBid(stack) ==
  stack[CHOOSE i \in DOMAIN stack :
          /\ \A j \in DOMAIN stack : stack[j].price <= stack[i].price
          /\ \A j \in 1..(i - 1) : stack[j].price < stack[i].price]

LowestOffer(stack) ==
  stack[CHOOSE i \in DOMAIN stack :
          /\ \A j \in DOMAIN stack : stack[i].price <= stack[j].price
          /\ \A j \in 1..(i - 1) : stack[i].price < stack[j].price]

\* The best orders of an empty stack are the loops' Orders, never written to.
BestBids(stack) ==
  IF stack = << >> THEN UnsetOrders ELSE {HighestBid(stack)}

BestOffers(stack) ==
  IF stack = << >> THEN UnsetOrders ELSE {LowestOffer(stack)}

\* The bid/offers OrderBook::GetBidOffer may build: one, if no side is empty.
GetBidOffer(book) ==
  [bid : BestBids(book.bidStack), offer : BestOffers(book.offerStack)]

-----------------------------------------------------------------------------
MarketDataTypeOK == IsMap(orderBooks, ProductIds, OrderBooks)

MarketDataInit == orderBooks = EmptyMap

\* MarketDataService::OnMessage, up to the notification of the listeners.
StoreOrderBook(book) == orderBooks' = Put(orderBooks, book.product, book)
=============================================================================
