------------------------ MODULE AlgoStreamingService ------------------------
(***************************************************************************)
(* AlgoStreamingService: turns each price into a two-way stream whose size *)
(* alternates from one price to the next, whatever their products.         *)
(***************************************************************************)
EXTENDS PricingService

VARIABLES
  algoStreams,        \* map<string, AlgoStream>: product -> its last stream
  streamCount         \* count: streams built so far

\* class PriceStream: both of its orders have the same sizes.
PriceStreams ==
  [product : ProductIds, bid : Int, offer : Int, visibleQuantity : Nat,
   hiddenQuantity : Nat]

\* Mutant of PriceStreamOf: the size alternates with the price, not the count.
PriceStreamOfMid(price) ==
  LET size == ((price.mid % 2) + 1) * 10000000
  IN [product |-> price.product,
      bid   |-> price.mid - price.bidOfferSpread \div 2,
      offer |-> price.mid + price.bidOfferSpread \div 2,
      visibleQuantity |-> size, hiddenQuantity |-> 2 * size]

\* The stream AlgoPublishPrice builds. Half a spread is whole half ticks.
PriceStreamOf(price) ==
  LET size == ((streamCount % 2) + 1) * 10000000
  IN [product |-> price.product,
      bid   |-> price.mid - price.bidOfferSpread \div 2,
      offer |-> price.mid + price.bidOfferSpread \div 2,
      visibleQuantity |-> size, hiddenQuantity |-> 2 * size]

-----------------------------------------------------------------------------
AlgoStreamingTypeOK ==
  IsMap(algoStreams, ProductIds, PriceStreams) /\ streamCount \in Nat

AlgoStreamingInit == algoStreams = EmptyMap /\ streamCount = 0

\* AlgoStreamingService::AlgoPublishPrice, up to the notification.
StoreAlgoStream(priceStream) ==
  /\ streamCount' = streamCount + 1
  /\ algoStreams' = Put(algoStreams, priceStream.product, priceStream)
=============================================================================
