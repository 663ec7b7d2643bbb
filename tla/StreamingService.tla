-------------------------- MODULE StreamingService --------------------------
(***************************************************************************)
(* StreamingService: the last stream published, per product.               *)
(***************************************************************************)
EXTENDS AlgoStreamingService

VARIABLE priceStreams \* map<string, PriceStream>: product -> stream

StreamLines ==
  [product : ProductIds, bid : PrintedTexts, offer : PrintedTexts,
   visibleQuantity : Nat, hiddenQuantity : Nat]

\* A line as PriceStream::ToStrings prints it, half ticks cut off.
StreamLine(priceStream) ==
  [priceStream EXCEPT !.bid = ConvertPrice(@), !.offer = ConvertPrice(@)]

StreamingTypeOK == IsMap(priceStreams, ProductIds, PriceStreams)

StreamingInit == priceStreams = EmptyMap

\* Mutant of StorePriceStream: map::insert, which keeps what is there.
StorePriceStreamOnce(priceStream) ==
  priceStreams' = Put(priceStreams, priceStream.product,
                      At(priceStreams, priceStream.product, priceStream))

\* StreamingToAlgoStreamingListener::ProcessAdd: OnMessage stores the stream;
\* PublishPrice, called next, only notifies.
StorePriceStream(priceStream) ==
  priceStreams' = Put(priceStreams, priceStream.product, priceStream)
=============================================================================
