-------------------------- MODULE MCExecutionFlow ---------------------------
(***************************************************************************)
(* Values for the constants of ExecutionFlow, small and chosen so that     *)
(* products meet in one position, books are revisited, identifiers repeat  *)
(* and spreads are on both sides of the threshold.                         *)
(***************************************************************************)
EXTENDS ExecutionFlow

\* Two bonds, and an identifier GetBond has no case for.
MCBonds  == {"2Y", "3Y"}
MCCusips == MCBonds \cup {"other"}

MCBooks    == {"TRSY1", "TRSY2", "TRSY3"}
MCOrderIds == {"a", "b"}
MCTradeIds == MCOrderIds \cup {"t"}

Line(cusip, id, book, quantity, side) ==
  [cusip |-> cusip, tradeId |-> id, book |-> book, quantity |-> quantity,
   side |-> side]

\* The second line has the identifier an order may also get.
MCFileTrades ==
  {Line("2Y", "t", "TRSY2", 3, "BUY"), Line("other", "a", "TRSY1", 5, "SELL")}

At1(price, quantity) == [price |-> price, quantity |-> quantity]

\* A tight book whose best bid is not the first of its stack, a book as tight
\* as the threshold with two equal bids, a wide book, and one with no offers.
MCOrderBooks ==
  {[product |-> "2Y", bidStack |-> <<At1(1, 7), At1(2, 1)>>,
    offerStack |-> <<At1(3, 2), At1(5, 7)>>],
   [product |-> "3Y", bidStack |-> <<At1(0, 4), At1(0, 9)>>,
    offerStack |-> <<At1(2, 4)>>],
   [product |-> "3Y", bidStack |-> <<At1(0, 2)>>,
    offerStack |-> <<At1(4, 2)>>],
   [product |-> "", bidStack |-> <<At1(5, 3)>>, offerStack |-> << >>]}

\* An offer never written to that makes a tight spread with that bid.
MCUnsetOrders == {At1(6, 6)}

\* What was left of another bid/offer where GetBidOffer's was.
MCStaleBidOffers == {[bid |-> At1(9, 8), offer |-> At1(9, 8)]}
=============================================================================
