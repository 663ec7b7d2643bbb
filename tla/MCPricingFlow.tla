--------------------------- MODULE MCPricingFlow ----------------------------
(***************************************************************************)
(* Values for the constants of PricingFlow. A second of 10 with a throttle *)
(* of 3 keeps the ratio of 1000 to 300; gaps between prices are below, at  *)
(* and above the throttle and the second.                                  *)
(***************************************************************************)
EXTENDS PricingFlow

\* Two bonds, and an identifier GetBond has no case for.
MCBonds  == {"2Y", "3Y"}
MCCusips == MCBonds \cup {"other"}

Quote(cusip, bid, offer) == [cusip |-> cusip, bid |-> bid, offer |-> offer]

Text(whole, thirtySeconds, eighth) ==
  [whole |-> whole, thirtySeconds |-> thirtySeconds, eighth |-> eighth]

\* Two quotes have their mids between two ticks, half a 32nd is written both
\* ways, and the bid and offer of the last are in different whole parts. One
\* bond has two quotes, so that a price or a stream of it can be stale.
MCQuotes == {Quote("2Y", Text(100, 0, "1"), Text(100, 0, "4")),
             Quote("2Y", Text(101, 0, "0"), Text(101, 0, "2")),
             Quote("3Y", Text(99, 0, "+"), Text(99, 0, "5")),
             Quote("other", Text(98, 31, "7"), Text(99, 0, "1"))}

\* The program starts before and after the throttle in its second.
MCStarts == {0, 5}
MCDelays == {0, 2, 3, 9, 12}
=============================================================================
