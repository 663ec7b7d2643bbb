----------------------------- MODULE GUIService -----------------------------
(***************************************************************************)
(* GUIService: prints the prices it is notified of to gui.txt, throttled.  *)
(* The only clock it reads, GetMillisecond, is the millisecond within the  *)
(* second, which starts again from 0 every second.                         *)
(***************************************************************************)
EXTENDS PricingService, Sequences

CONSTANTS
  Throttle,           \* the throttle: 300 milliseconds in the code
  Second              \* where the clock wraps: 1000 milliseconds

ASSUME ClockAssumption ==
  /\ Throttle \in Nat /\ Second \in Nat \ {0} /\ Throttle < Second

VARIABLES
  guis,               \* map<string, Price>: product -> the last price received
  millisec,           \* millisec: the time of the last line, as measured below
  guiFile             \* the lines of gui.txt; "at" is the time of its stamp

\* What the clock reads at a given time.
GetMillisecond(time) == time % Second

\* Mutant of MillisecNow: an if where the code has a while.
MillisecNowOnce(reading) ==
  IF reading >= millisec THEN reading ELSE reading + Second

\* GUIConnector::Publish's time: seconds are added to what the clock reads
\* until it is not before the last line's.
MillisecNow(reading) ==
  IF reading >= millisec THEN reading
  ELSE reading + Second * ((millisec - reading + Second - 1) \div Second)

\* A line as Price::ToStrings prints it, half ticks cut off.
GuiLine(price, time) ==
  [product |-> price.product, mid |-> ConvertPrice(price.mid),
   bidOfferSpread |-> ConvertPrice(price.bidOfferSpread), at |-> time]

-----------------------------------------------------------------------------
GUITypeOK ==
  /\ IsMap(guis, ProductIds, Prices)
  /\ millisec \in Nat
  /\ guiFile \in Seq([product : ProductIds, mid : PrintedTexts,
                      bidOfferSpread : PrintedTexts, at : Nat])

GUIInit == guis = EmptyMap /\ millisec = 0 /\ guiFile = << >>

\* Mutant of Publish: the time of the line is not kept.
PublishForgets(price, time) ==
  /\ UNCHANGED millisec
  /\ IF MillisecNow(GetMillisecond(time)) - millisec >= Throttle
     THEN guiFile' = Append(guiFile, GuiLine(price, time))
     ELSE UNCHANGED guiFile

\* GUIConnector::Publish at a given time.
Publish(price, time) ==
  LET now == MillisecNow(GetMillisecond(time))
  IN IF now - millisec >= Throttle
     THEN /\ millisec' = now
          /\ guiFile' = Append(guiFile, GuiLine(price, time))
     ELSE UNCHANGED <<millisec, guiFile>>

\* GUIService::OnMessage at a given time.
ShowPrice(price, time) ==
  /\ guis' = Put(guis, price.product, price)
  /\ Publish(price, time)
=============================================================================
