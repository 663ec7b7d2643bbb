----------------------- MODULE MCMarketDataConnector ------------------------
(***************************************************************************)
(* Values for the constants of MarketDataConnector: books two deep, lines  *)
(* of both sides, two bonds and an identifier GetBond has no case for, in  *)
(* any order, and room for two books.                                      *)
(***************************************************************************)
EXTENDS MarketDataConnector

MCBonds  == {"2Y", "3Y"}
MCCusips == MCBonds \cup {"other"}

Line(cusip, price, side) ==
  [cusip |-> cusip, price |-> price, quantity |-> 1, side |-> side]

MCMarketDataLines ==
  {Line("2Y", 1, "BID"), Line("2Y", 3, "OFFER"),
   Line("3Y", 2, "BID"), Line("3Y", 4, "OFFER"), Line("other", 0, "BID")}
=============================================================================
