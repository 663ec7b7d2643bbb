--------------------------- MODULE PricingService ---------------------------
(***************************************************************************)
(* PricingService: the latest price of each product. The texts of          *)
(* prices.txt are whole ticks of 1/256; the mid of a bid and an offer may  *)
(* fall between two, so a price in memory is a number of half ticks.       *)
(***************************************************************************)
EXTENDS PriceNotation, Products, StdMap

CONSTANT Quotes       \* the lines prices.txt may hold

ASSUME QuotesAssumption ==
  Quotes \subseteq [cusip : Cusips, bid : PriceTexts, offer : PriceTexts]

VARIABLE prices       \* map<string, Price>: product -> price

\* class Price, in half ticks.
Prices == [product : ProductIds, mid : Int, bidOfferSpread : Int]

\* Mutant of PriceOfLine: the mid is a whole number of ticks.
PriceOfLineWholeTicks(line) ==
  [product |-> GetBond(line.cusip),
   mid |-> 2 * ((TicksOf(line.bid) + TicksOf(line.offer)) \div 2),
   bidOfferSpread |-> 2 * (TicksOf(line.offer) - TicksOf(line.bid))]

\* A line of prices.txt as PricingConnector::Subscribe decodes it.
PriceOfLine(line) ==
  [product |-> GetBond(line.cusip),
   mid |-> TicksOf(line.bid) + TicksOf(line.offer),
   bidOfferSpread |-> 2 * (TicksOf(line.offer) - TicksOf(line.bid))]

-----------------------------------------------------------------------------
PricingServiceTypeOK == IsMap(prices, ProductIds, Prices)

PricingServiceInit == prices = EmptyMap

\* PricingService::OnMessage, up to the notification of the listeners.
StorePrice(price) == prices' = Put(prices, price.product, price)
=============================================================================
