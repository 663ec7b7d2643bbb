---------------------------- MODULE PricingFlow -----------------------------
(***************************************************************************)
(* The flow that main.cpp wires from prices to the output files:           *)
(*                                                                         *)
(*   prices.txt -> Pricing -> AlgoStreaming -> Streaming -> streaming.txt  *)
(*                    `-----> GUI -> gui.txt                               *)
(*                                                                         *)
(* As in ExecutionFlow one thread runs everything and a step is one call   *)
(* up to the next one it makes. Time passes anywhere, but is only looked   *)
(* at when the GUI is notified, so it advances there.                      *)
(***************************************************************************)
EXTENDS StreamingService, GUIService

CONSTANTS
  MaxPrices,          \* the most lines prices.txt holds
  Starts,             \* when the program may start, in milliseconds
  Delays,             \* how long it may be from one price to the next
  Null                \* what a local variable holds outside its scope

ASSUME PricingBoundsAssumption ==
  MaxPrices \in Nat /\ Starts \subseteq Nat /\ Delays \subseteq Nat

VARIABLES
  streamingFile,      \* lines of streaming.txt
  stage,              \* whether main is reading prices.txt or past it
  pc,                 \* the call about to be made; "Main" between prices
  price,              \* arguments of the calls in progress: the price
  priceStream,        \*   and the stream made of it
  now,                \* the clock, in milliseconds
  quotes              \* history: the lines of prices.txt read so far

storeVars == <<prices, algoStreams, streamCount, priceStreams>>
guiVars   == <<guis, millisec, guiFile, now>>
vars == <<storeVars, guiVars, streamingFile, stage, pc, price, priceStream,
          quotes>>

StreamingHistory == INSTANCE HistoricalDataService WITH file <- streamingFile

-----------------------------------------------------------------------------
\* In these calls the stream of the price read last is not yet in the file.
StreamCalls == {"AlgoPublishPrice", "PublishPrice", "PersistStream"}

IsStreamLine(line) == line \in StreamLines

TypeOK ==
  /\ PricingServiceTypeOK /\ AlgoStreamingTypeOK /\ StreamingTypeOK
  /\ GUITypeOK
  /\ StreamingHistory!TypeOK(IsStreamLine)
  /\ stage \in {"Prices", "Ended"}
  /\ pc \in StreamCalls \cup {"Main", "GUI"}
  /\ pc # "Main" => price \in Prices
  /\ pc \in {"PublishPrice", "PersistStream"} => priceStream \in PriceStreams
  /\ now \in Nat
  /\ quotes \in Seq(Quotes)

Init ==
  /\ PricingServiceInit /\ AlgoStreamingInit /\ StreamingInit /\ GUIInit
  /\ StreamingHistory!Init
  /\ stage = "Prices" /\ pc = "Main" /\ price = Null /\ priceStream = Null
  /\ now \in Starts
  /\ quotes = << >>

-----------------------------------------------------------------------------
\* One line of prices.txt: PricingConnector::Subscribe, PricingService.
ReadPrice ==
  /\ pc = "Main" /\ stage = "Prices" /\ Len(quotes) < MaxPrices
  /\ \E line \in Quotes :
       /\ quotes' = Append(quotes, line)
       /\ price' = PriceOfLine(line)
       /\ StorePrice(price')
  /\ pc' = "AlgoPublishPrice"
  /\ UNCHANGED <<algoStreams, streamCount, priceStreams, guiVars,
                 streamingFile, stage, priceStream>>

\* Mutant of EndOfPrices: the end of the file is not noticed.
EndOfPricesMissed ==
  /\ pc = "Main" /\ stage = "Prices"
  /\ UNCHANGED vars

\* The end of prices.txt.
EndOfPrices ==
  /\ pc = "Main" /\ stage = "Prices"
  /\ stage' = "Ended"
  /\ UNCHANGED <<storeVars, guiVars, streamingFile, pc, price, priceStream,
                 quotes>>

\* AlgoStreamingToPricingListener, the first listener of PricingService.
AlgoPublishPrice ==
  /\ pc = "AlgoPublishPrice"
  /\ priceStream' = PriceStreamOf(price)
  /\ StoreAlgoStream(priceStream')
  /\ pc' = "PublishPrice"
  /\ UNCHANGED <<prices, priceStreams, guiVars, streamingFile, stage, price,
                 quotes>>

\* StreamingToAlgoStreamingListener stores and publishes the stream.
PublishPrice ==
  /\ pc = "PublishPrice"
  /\ StorePriceStream(priceStream)
  /\ pc' = "PersistStream"
  /\ UNCHANGED <<prices, algoStreams, streamCount, guiVars, streamingFile,
                 stage, price, priceStream, quotes>>

\* HistoricalDataService<PriceStream> appends the line; the notification of
\* AlgoStreaming returns and PricingService goes on to its second listener.
PersistStream ==
  /\ pc = "PersistStream"
  /\ StreamingHistory!PersistData(StreamLine(priceStream))
  /\ priceStream' = Null /\ pc' = "GUI"
  /\ UNCHANGED <<storeVars, guiVars, stage, price, quotes>>

\* GUIToPricingListener, the second listener of PricingService.
NotifyGUI ==
  /\ pc = "GUI"
  /\ \E delay \in Delays : now' = now + delay
  /\ ShowPrice(price, now')
  /\ price' = Null /\ pc' = "Main"
  /\ UNCHANGED <<storeVars, streamingFile, stage, priceStream, quotes>>

Next ==
  \/ ReadPrice \/ EndOfPrices \/ AlgoPublishPrice \/ PublishPrice
  \/ PersistStream \/ NotifyGUI

\* The only thread is never blocked, and the input file is finite.
Fairness == WF_vars(Next)

Spec == Init /\ [][Next]_vars /\ Fairness

-----------------------------------------------------------------------------
\* Line by line streaming.txt repeats the bids and offers of prices.txt: the
\* texts are read into numbers, a price is kept as its mid and spread, which
\* may fall between two ticks, a bid and offer are made again of them, cut to
\* ticks and printed; nothing is lost by it but that a last digit 4 comes out
\* as the "+" it stands for, nor is any price left out or taken twice.
StreamingFileRepeatsQuotes ==
  /\ Len(quotes) = Len(streamingFile) + (IF pc \in StreamCalls THEN 1 ELSE 0)
  /\ \A i \in DOMAIN streamingFile :
       /\ streamingFile[i].product = GetBond(quotes[i].cusip)
       /\ streamingFile[i].bid = Canonical(quotes[i].bid)
       /\ streamingFile[i].offer = Canonical(quotes[i].offer)

\* Consecutive lines of streaming.txt differ in size, whatever their products:
\* no price advances the count twice or not at all.
SizesAlternate ==
  \A i \in DOMAIN streamingFile :
    streamingFile[i].visibleQuantity = IF i % 2 = 1 THEN 10000000 ELSE 20000000

\* i is the last line of a product in streaming.txt.
IsLastStream(i, product) ==
  /\ i \in DOMAIN streamingFile /\ streamingFile[i].product = product
  /\ \A j \in DOMAIN streamingFile :
       j > i => streamingFile[j].product # product

\* The four services that keep the last price or stream of a product agree
\* with each other and with streaming.txt, except on a product in flight.
LastPricesAgree ==
  \A product \in ProductIds :
    \/ pc # "Main" /\ price.product = product
    \/ /\ DOMAIN prices \cap {product} = DOMAIN guis \cap {product}
       /\ DOMAIN prices \cap {product} = DOMAIN algoStreams \cap {product}
       /\ DOMAIN prices \cap {product} = DOMAIN priceStreams \cap {product}
       /\ product \in DOMAIN prices =>
            /\ guis[product] = prices[product]
            /\ priceStreams[product] = algoStreams[product]
            /\ priceStreams[product].bid + priceStreams[product].offer
                 = 2 * prices[product].mid
            /\ \E i \in DOMAIN streamingFile :
                 /\ IsLastStream(i, product)
                 /\ streamingFile[i] = StreamLine(priceStreams[product])

\* When the last line of gui.txt was printed; 0 before the first.
LastShown == IF guiFile = << >> THEN 0 ELSE guiFile[Len(guiFile)].at

\* Two lines of gui.txt are never closer in time than the throttle, though the
\* program only looks at the milliseconds within the second.
GuiLinesSpaced ==
  \A i \in DOMAIN guiFile :
    i > 1 => guiFile[i].at - guiFile[i - 1].at >= Throttle

\* What the throttle does for every gap between two prices: whole seconds do
\* not count, so a price is shown exactly when the rest reaches the throttle.
ShownByTheGap ==
  pc = "GUI" /\ pc' = "Main" =>
    (Len(guiFile') = Len(guiFile) + 1
       <=> (now' - LastShown) % Second >= Throttle)

ShownUnlessWithinThrottle == [][ShownByTheGap]_vars

\* main gets past prices.txt with each of its prices streamed.
EndsWithEveryStream ==
  <>[](stage = "Ended" /\ Len(streamingFile) = Len(quotes))

-----------------------------------------------------------------------------
\* README.md:70: the GUI is notified at the throttle interval. A price that
\* comes later than that after the last line is left out all the same when
\* the part of the gap beyond whole seconds is shorter than the throttle.
GuiNotifiedEachInterval ==
  [][pc = "GUI" /\ pc' = "Main" /\ guiFile # << >>
       /\ now' - LastShown >= Throttle => guiFile' # guiFile]_vars
=============================================================================
