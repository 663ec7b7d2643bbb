----------------------- MODULE MCExecutionFlowFaults ------------------------
(***************************************************************************)
(* Values for the constants of ExecutionFlowFaults: one trade and one order*)
(* book per run and two restarts, on the same product or on two, such that *)
(* a trade and the execution after it make a position flat.                *)
(***************************************************************************)
EXTENDS ExecutionFlowFaults

MCBonds    == {"2Y"}
MCCusips   == {"2Y", "other"}
MCBooks    == {"TRSY1", "TRSY2", "TRSY3"}
MCTradeIds == {"a", "t"}
MCOrderIds == {"a"}

Line(cusip, book, quantity) ==
  [cusip |-> cusip, tradeId |-> "t", book |-> book, quantity |-> quantity,
   side |-> "BUY"]
MCFileTrades == {Line("2Y", "TRSY2", 4), Line("other", "TRSY1", 5)}

At1(price, quantity) == <<[price |-> price, quantity |-> quantity]>>
MCOrderBooks ==
  {[product |-> "2Y", bidStack |-> At1(2, 2), offerStack |-> At1(3, 2)],
   [product |-> "", bidStack |-> At1(0, 2), offerStack |-> At1(4, 2)]}

NoOrders == {}
=============================================================================
