-------------------------- MODULE PricingFlowProofs --------------------------
(***************************************************************************)
(* Proofs about PriceNotation, for every price and text, and about         *)
(* PricingFlow, for every value of its constants: types, what              *)
(* streaming.txt says of prices.txt, that the services agree on the last   *)
(* price, and what the throttle of the GUI does.                           *)
(***************************************************************************)
EXTENDS PricingFlow, DataTheorems

-----------------------------------------------------------------------------
(***************************************************************************)
(* Reading a price and printing it again, for every price: nothing is lost *)
(* but the second way to write half a 32nd, and what is printed is never   *)
(* above the price and less than a tick below it.                          *)
(***************************************************************************)

\* A sign is read as a number of 256ths below 8, and the sign printed for
\* that number is the sign read, but for "4", which comes out as "+".
LEMMA SignReadAndPrinted ==
  ASSUME NEW sign \in Signs
  PROVE  /\ EighthsOf(sign) \in 0..7
         /\ EighthsOf(sign) = 4 <=> sign \in {"4", "+"}
         /\ sign # "+" => DigitSign[EighthsOf(sign) + 1] = sign
<1>1. CASE sign = "+"
  BY <1>1 DEF EighthsOf
<1>2. CASE sign # "+"
  <2>1. \E i \in 1..8 : DigitSign[i] = sign
    BY <1>2 DEF Signs
  <2> DEFINE place == CHOOSE i \in 1..8 : DigitSign[i] = sign
  <2>2. place \in 1..8 /\ DigitSign[place] = sign
    BY <2>1
  <2>3. EighthsOf(sign) = place - 1
    BY <1>2, Zenon DEF EighthsOf
  <2> HIDE DEF place
  <2>4. place = 5 <=> sign = "4"
    BY <2>2 DEF DigitSign
  <2> QED
    BY <1>2, <2>2, <2>3, <2>4
<1> QED
  BY <1>1, <1>2

\* The sign printed for a number of 256ths below 8 is read as that number.
LEMMA SignPrintedAndRead ==
  ASSUME NEW eighth \in 0..7
  PROVE  LET sign == IF eighth = 4 THEN "+" ELSE DigitSign[eighth + 1]
         IN sign \in Signs \ {"4"} /\ EighthsOf(sign) = eighth
<1> DEFINE sign == IF eighth = 4 THEN "+" ELSE DigitSign[eighth + 1]
<1>1. CASE eighth = 4
  BY <1>1 DEF Signs, EighthsOf
<1>2. CASE eighth # 4
  <2>1. sign = DigitSign[eighth + 1] /\ eighth + 1 \in 1..8
    BY <1>2
  <2>2. sign \in Signs
    BY <2>1 DEF Signs
  <2>3. sign # "4" /\ sign # "+"
    BY <1>2 DEF DigitSign
  <2>4. \A i, j \in 1..8 : DigitSign[i] = DigitSign[j] => i = j
    BY DEF DigitSign
  <2>5. DigitSign[EighthsOf(sign) + 1] = sign /\ EighthsOf(sign) \in 0..7
    BY <2>2, <2>3, SignReadAndPrinted
  <2>6. EighthsOf(sign) + 1 = eighth + 1
    BY <2>1, <2>4, <2>5
  <2> QED
    BY <2>2, <2>3, <2>5, <2>6
<1> QED
  BY <1>1, <1>2

\* ConvertPrice(string) of what ConvertPrice(double) prints is the price cut
\* to a tick, whatever its sign: no tick is lost or gained by printing.
THEOREM PrintedThenRead ==
  ASSUME NEW halfTicks \in Int
  PROVE  /\ ConvertPrice(halfTicks) \in PrintedTexts
         /\ TicksOf(ConvertPrice(halfTicks)) = halfTicks \div 2
         /\ 2 * TicksOf(ConvertPrice(halfTicks)) \in {halfTicks, halfTicks - 1}
<1> DEFINE ticks == halfTicks \div 2
           eighth == ticks % 8
           text == ConvertPrice(halfTicks)
<1>1. ticks \in Int /\ eighth \in 0..7
  OBVIOUS
<1>2. text.eighth \in Signs \ {"4"} /\ EighthsOf(text.eighth) = eighth
  BY <1>1, SignPrintedAndRead DEF ConvertPrice
<1>3. text.whole = ticks \div 256 /\ text.thirtySeconds = (ticks % 256) \div 8
  BY DEF ConvertPrice
<1>4. text = [whole |-> text.whole, thirtySeconds |-> text.thirtySeconds,
              eighth |-> text.eighth]
  BY DEF ConvertPrice
<1>5. 2 * ticks \in {halfTicks, halfTicks - 1}
  OBVIOUS
<1> HIDE DEF ticks, text
<1>6. ticks \div 256 \in Int /\ (ticks % 256) \div 8 \in 0..31
  BY <1>1
<1>7. 256 * (ticks \div 256) + 8 * ((ticks % 256) \div 8) + eighth = ticks
  BY <1>1
<1>8. TicksOf(text) = ticks
  BY <1>2, <1>3, <1>7 DEF TicksOf
<1>9. text \in PrintedTexts
  BY <1>2, <1>3, <1>4, <1>6 DEF PrintedTexts
<1> QED
  BY <1>5, <1>8, <1>9 DEF ticks, text

\* Printing the price read from a text gives that text back, with half a 32nd
\* written "+": the file a price came from can be compared with a file it is
\* printed to.
THEOREM ReadThenPrinted ==
  ASSUME NEW text \in PriceTexts
  PROVE  /\ TicksOf(text) \in Nat
         /\ ConvertPrice(2 * TicksOf(text)) = Canonical(text)
<1> DEFINE whole == text.whole
           xy == text.thirtySeconds
           sign == text.eighth
           z == EighthsOf(sign)
           ticks == TicksOf(text)
<1>1. /\ whole \in Nat /\ xy \in 0..31 /\ sign \in Signs
      /\ text = [whole |-> whole, thirtySeconds |-> xy, eighth |-> sign]
  BY DEF PriceTexts
<1>2. /\ z \in 0..7
      /\ z = 4 <=> sign \in {"4", "+"}
      /\ sign # "+" => DigitSign[z + 1] = sign
  BY <1>1, SignReadAndPrinted
<1>3. ticks = 256 * whole + 8 * xy + z
  BY DEF TicksOf
<1> HIDE DEF whole, xy, sign, z, ticks
<1>4. ticks \in Nat /\ (2 * ticks) \div 2 = ticks
  BY <1>1, <1>2, <1>3
<1>5. ticks \div 256 = whole /\ ticks % 256 = 8 * xy + z
  BY <1>1, <1>2, <1>3
<1>6. (8 * xy + z) \div 8 = xy /\ ticks % 8 = z
  BY <1>1, <1>2, <1>3
<1>7. (IF z = 4 THEN "+" ELSE DigitSign[z + 1])
        = (IF sign = "4" THEN "+" ELSE sign)
  BY <1>2
<1>8. ConvertPrice(2 * ticks)
        = [whole |-> whole, thirtySeconds |-> xy,
           eighth |-> IF sign = "4" THEN "+" ELSE sign]
  BY <1>4, <1>5, <1>6, <1>7 DEF ConvertPrice
<1>9. Canonical(text)
        = [whole |-> whole, thirtySeconds |-> xy,
           eighth |-> IF sign = "4" THEN "+" ELSE sign]
  BY <1>1 DEF Canonical, whole, xy, sign
<1> QED
  BY <1>4, <1>8, <1>9 DEF ticks

-----------------------------------------------------------------------------
(***************************************************************************)
(* The inductive invariant.                                                *)
(***************************************************************************)

\* The calls in which there is a stream that is not in the file.
HasStream == pc \in {"PublishPrice", "PersistStream"}

\* The size of the n-th stream.
SizeOf(n) == IF n % 2 = 1 THEN 10000000 ELSE 20000000

\* The bid and offer of a stream are those of the price it is made of.
IsStreamOf(stream, of) ==
  /\ stream.product = of.product
  /\ stream.bid = of.mid - of.bidOfferSpread \div 2
  /\ stream.offer = of.mid + of.bidOfferSpread \div 2

\* The arguments of the calls are made of the line read last, and the count is
\* that of the streams built.
ArgumentsOfLastLine ==
  /\ pc # "Main" =>
       Len(quotes) # 0 /\ price = PriceOfLine(quotes[Len(quotes)])
  /\ streamCount = Len(streamingFile) + (IF HasStream THEN 1 ELSE 0)
  /\ HasStream =>
       IsStreamOf(priceStream, price)
         /\ priceStream.visibleQuantity = SizeOf(streamCount)

\* A file and two maps agree on the last stream of a product, made of price p.
StreamsAgree(product, p) ==
  /\ product \in DOMAIN algoStreams /\ product \in DOMAIN priceStreams
  /\ priceStreams[product] = algoStreams[product]
  /\ priceStreams[product].bid + priceStreams[product].offer = 2 * p.mid
  /\ \E i \in DOMAIN streamingFile :
       /\ IsLastStream(i, product)
       /\ streamingFile[i] = StreamLine(priceStreams[product])

\* A product's price and stream are the same wherever they are kept.
InStep(product) ==
  /\ product \in DOMAIN guis <=> product \in DOMAIN prices
  /\ product \in DOMAIN algoStreams <=> product \in DOMAIN prices
  /\ product \in DOMAIN priceStreams <=> product \in DOMAIN prices
  /\ product \in DOMAIN prices =>
       /\ guis[product] = prices[product]
       /\ StreamsAgree(product, prices[product])

\* Every product but the one in flight is in step.
OthersInStep ==
  \A product \in ProductIds :
    (pc # "Main" /\ price.product = product) \/ InStep(product)

\* What is stored of the product in flight, call by call.
StoredSoFar ==
  /\ pc # "Main" =>
       price.product \in DOMAIN prices /\ prices[price.product] = price
  /\ HasStream =>
       /\ price.product \in DOMAIN algoStreams
       /\ algoStreams[price.product] = priceStream
  /\ pc = "PersistStream" =>
       /\ price.product \in DOMAIN priceStreams
       /\ priceStreams[price.product] = priceStream
  /\ pc = "GUI" => StreamsAgree(price.product, price)

\* The GUI remembers the time of its last line up to whole seconds.
ThrottleState ==
  /\ LastShown <= now
  /\ millisec % Second = LastShown % Second

\* The checked invariants are not inductive: they rest on the arguments and on
\* what the clock of the GUI remembers.
IInv ==
  /\ TypeOK
  /\ ArgumentsOfLastLine
  /\ StreamingFileRepeatsQuotes
  /\ SizesAlternate
  /\ StoredSoFar
  /\ OthersInStep
  /\ ThrottleState
  /\ GuiLinesSpaced

-----------------------------------------------------------------------------
(***************************************************************************)
(* The clock of the GUI.                                                   *)
(***************************************************************************)

\* The loop of GUIConnector::Publish: s, a second, is added to reading r until
\* it is not before m.
FirstReading(s, m, r) ==
  IF r >= m THEN r ELSE r + s * ((m - r + s - 1) \div s)

\* A reading that shows time t, and whose distance to m is the gap since the
\* time last, less its whole seconds.
ShowsGap(reading, s, m, last, t) ==
  /\ reading \in Nat
  /\ reading % s = t % s
  /\ reading - m = (t - last) % s
  /\ reading - m <= t - last

\* GUIConnector::Publish's loop: the seconds it adds to the reading take it to
\* the first time not before the last line's that reads so. What it compares
\* with the throttle is the gap since the last line, less its whole seconds.
LEMMA ClockReading ==
  ASSUME NEW s \in Nat \ {0}, NEW m \in Nat, NEW r \in 0..(s - 1),
         NEW last \in Nat, NEW t \in Nat, last <= t,
         m % s = last % s, r = t % s
  PROVE  ShowsGap(FirstReading(s, m, r), s, m, last, t)
<1> DEFINE n == FirstReading(s, m, r)
           k == IF r >= m THEN 0 ELSE (m - r + s - 1) \div s
           a == m \div s
           b == t \div s
           c == last \div s
           l == last % s
<1>1. k \in Int /\ n = s * k + r /\ 0 <= n - m /\ n - m < s
  <2>1. CASE r >= m
    <3>1. k = 0 /\ n = r
      BY <2>1 DEF FirstReading
    <3> HIDE DEF k, n
    <3> QED
      BY <2>1, <3>1
  <2>2. CASE ~(r >= m)
    <3>1. k = (m - r + s - 1) \div s /\ n = r + s * ((m - r + s - 1) \div s)
      BY <2>2 DEF FirstReading
    <3>2. /\ k \in Int
          /\ m - r + s - 1 = s * k + ((m - r + s - 1) % s)
          /\ (m - r + s - 1) % s \in 0..(s - 1)
      <4> DEFINE x == m - r + s - 1
      <4>1. x \in Int
        OBVIOUS
      <4> HIDE DEF x, k
      <4>2. /\ x \div s \in Int /\ x % s \in 0..(s - 1)
            /\ x = s * (x \div s) + (x % s)
        BY <4>1, DivMod
      <4>3. k = x \div s
        BY <3>1 DEF x
      <4>4. k \in Int /\ x = s * k + (x % s) /\ x % s \in 0..(s - 1)
        BY <4>2, <4>3
      <4> QED
        BY <4>4 DEF x
    <3>3. n = r + s * k
      BY <3>1
    <3> DEFINE z == s * k
               e == (m - r + s - 1) % s
    <3>4. z \in Int
      BY <3>2
    <3> HIDE DEF k, n, z, e
    <3>5. 0 <= n - m /\ n - m < s
      <4>1. m - r + s - 1 = z + e /\ e \in 0..(s - 1) /\ n = r + z
        BY <3>2, <3>3 DEF z, e
      <4> QED
        BY <3>4, <4>1
    <3> QED
      BY <3>2, <3>3, <3>5
  <2> QED
    BY <2>1, <2>2
<1>2. /\ a \in Int /\ b \in Int /\ c \in Int /\ l \in 0..(s - 1)
      /\ m = s * a + l /\ t = s * b + r /\ last = s * c + l
  BY DivMod
<1> HIDE DEF n, k, a, b, c, l
<1>3. n \in Nat /\ n - m \in 0..(s - 1)
  BY <1>1
<1>4. n % s = r
  BY <1>1, DivModUnique
<1>5. t - last = s * (b - c - k + a) + (n - m)
  <2>1. s * (b - c - k + a) = s * b - s * c - s * k + s * a
    BY <1>1, <1>2
  <2>2. s * b \in Int /\ s * c \in Int /\ s * k \in Int /\ s * a \in Int
    BY <1>1, <1>2
  <2> QED
    BY <1>1, <1>2, <2>1, <2>2
<1>6. (t - last) % s = n - m
  <2> DEFINE x == b - c - k + a
             y == n - m
  <2>1. x \in Int /\ y \in 0..(s - 1) /\ t - last = s * x + y
    BY <1>1, <1>2, <1>3, <1>5
  <2> HIDE DEF x, y
  <2>2. (t - last) % s = y
    BY <2>1, DivModUnique
  <2> QED
    BY <2>2 DEF y
<1>7. n - m <= t - last
  <2> DEFINE x == b - c - k + a
             y == n - m
  <2>1. x \in Int /\ y \in 0..(s - 1) /\ t - last = s * x + y
    BY <1>1, <1>2, <1>3, <1>5
  <2> HIDE DEF x, y
  <2>2. x >= 0
    <3>1. x <= -1 => s * x <= -s
      BY <2>1
    <3>2. 0 <= s * x + y
      BY <2>1
    <3> QED
      BY <2>1, <3>1, <3>2
  <2>3. s * x >= 0
    BY <2>1, <2>2
  <2>4. y <= t - last
    BY <2>1, <2>3
  <2> QED
    BY <2>4 DEF y
<1> QED
  BY <1>3, <1>4, <1>6, <1>7 DEF n, ShowsGap

-----------------------------------------------------------------------------
(***************************************************************************)
(* The services' operators.                                                *)
(***************************************************************************)

\* A line of prices.txt makes a price of a known product, or of the unnamed.
LEMMA PriceOfLineType ==
  ASSUME NEW line \in Quotes
  PROVE  /\ PriceOfLine(line) \in Prices
         /\ line.bid \in PriceTexts /\ line.offer \in PriceTexts
<1>1. line.bid \in PriceTexts /\ line.offer \in PriceTexts
  BY QuotesAssumption
<1>2. TicksOf(line.bid) \in Nat /\ TicksOf(line.offer) \in Nat
  BY <1>1, ReadThenPrinted
<1>3. GetBond(line.cusip) \in ProductIds
  BY DEF GetBond, ProductIds
<1> QED
  BY <1>1, <1>2, <1>3 DEF PriceOfLine, Prices

\* AlgoPublishPrice makes a stream of the price, of the size of its turn.
LEMMA StreamOfPrice ==
  ASSUME NEW p \in Prices, streamCount \in Nat
  PROVE  /\ PriceStreamOf(p) \in PriceStreams
         /\ IsStreamOf(PriceStreamOf(p), p)
         /\ PriceStreamOf(p).visibleQuantity = SizeOf(streamCount + 1)
<1> DEFINE size == ((streamCount % 2) + 1) * 10000000
           half == p.bidOfferSpread \div 2
<1>1. p.product \in ProductIds /\ p.mid \in Int /\ half \in Int
  BY DEF Prices
<1>2. PriceStreamOf(p) =
        [product |-> p.product, bid |-> p.mid - half, offer |-> p.mid + half,
         visibleQuantity |-> size, hiddenQuantity |-> 2 * size]
  BY DEF PriceStreamOf
<1>3. size \in Nat /\ size = SizeOf(streamCount + 1)
  <2>1. CASE streamCount % 2 = 0
    <3>1. size = 10000000 /\ (streamCount + 1) % 2 = 1
      BY <2>1
    <3> QED
      BY <3>1 DEF SizeOf
  <2>2. CASE streamCount % 2 = 1
    <3>1. size = 20000000 /\ (streamCount + 1) % 2 # 1
      BY <2>2
    <3> QED
      BY <3>1 DEF SizeOf
  <2> QED
    BY <2>1, <2>2
<1> HIDE DEF size, half
<1>4. PriceStreamOf(p) \in PriceStreams
  BY <1>1, <1>2, <1>3 DEF PriceStreams
<1> QED
  BY <1>2, <1>3, <1>4 DEF IsStreamOf, half

\* A stream is printed as a line of streaming.txt.
LEMMA StreamLineType ==
  ASSUME NEW stream \in PriceStreams
  PROVE  /\ StreamLine(stream) \in StreamLines
         /\ StreamLine(stream).product = stream.product
         /\ StreamLine(stream).bid = ConvertPrice(stream.bid)
         /\ StreamLine(stream).offer = ConvertPrice(stream.offer)
         /\ StreamLine(stream).visibleQuantity = stream.visibleQuantity
<1>1. /\ ConvertPrice(stream.bid) \in PrintedTexts
      /\ ConvertPrice(stream.offer) \in PrintedTexts
  BY PrintedThenRead DEF PriceStreams
<1> QED
  BY <1>1 DEF StreamLine, StreamLines, PriceStreams

\* The bid and offer of a line survive being kept as a mid and a spread.
LEMMA BidAndOfferKept ==
  ASSUME NEW line \in Quotes, NEW stream \in PriceStreams,
         IsStreamOf(stream, PriceOfLine(line))
  PROVE  /\ StreamLine(stream).product = GetBond(line.cusip)
         /\ StreamLine(stream).bid = Canonical(line.bid)
         /\ StreamLine(stream).offer = Canonical(line.offer)
<1> DEFINE b == TicksOf(line.bid)
           o == TicksOf(line.offer)
<1>1. line.bid \in PriceTexts /\ line.offer \in PriceTexts
  BY PriceOfLineType
<1>2. /\ b \in Nat /\ ConvertPrice(2 * b) = Canonical(line.bid)
      /\ o \in Nat /\ ConvertPrice(2 * o) = Canonical(line.offer)
  BY <1>1, ReadThenPrinted
<1>3. /\ PriceOfLine(line).mid = b + o
      /\ PriceOfLine(line).bidOfferSpread = 2 * (o - b)
      /\ PriceOfLine(line).product = GetBond(line.cusip)
  BY DEF PriceOfLine
<1> HIDE DEF b, o
<1>4. (2 * (o - b)) \div 2 = o - b
  BY <1>2
<1>5. /\ stream.bid = 2 * b /\ stream.offer = 2 * o
      /\ stream.product = GetBond(line.cusip)
  BY <1>2, <1>3, <1>4 DEF IsStreamOf
<1> QED
  BY <1>2, <1>5, StreamLineType

\* The sequences are sequences, and the kept prices and streams have types.
LEMMA Shapes ==
  ASSUME TypeOK
  PROVE  /\ IsSequence(streamingFile) /\ Len(streamingFile) \in Nat
         /\ DOMAIN streamingFile = 1..Len(streamingFile)
         /\ \A i \in DOMAIN streamingFile : streamingFile[i] \in StreamLines
         /\ Len(quotes) \in Nat /\ DOMAIN quotes = 1..Len(quotes)
         /\ \A i \in DOMAIN quotes : quotes[i] \in Quotes
         /\ Len(guiFile) \in Nat /\ DOMAIN guiFile = 1..Len(guiFile)
         /\ \A i \in DOMAIN guiFile : guiFile[i].at \in Nat
<1>1. IsSequence(streamingFile)
  BY DEF TypeOK, StreamingHistory!TypeOK, IsSequence
<1>2. \A i \in DOMAIN streamingFile : streamingFile[i] \in StreamLines
  BY DEF TypeOK, StreamingHistory!TypeOK, IsStreamLine
<1>3. Len(quotes) \in Nat /\ DOMAIN quotes = 1..Len(quotes)
      /\ \A i \in DOMAIN quotes : quotes[i] \in Quotes
  BY DEF TypeOK
<1>4. /\ Len(guiFile) \in Nat /\ DOMAIN guiFile = 1..Len(guiFile)
      /\ \A i \in DOMAIN guiFile : guiFile[i].at \in Nat
  <2> DEFINE Lines == [product : ProductIds, mid : PrintedTexts,
                       bidOfferSpread : PrintedTexts, at : Nat]
  <2>1. guiFile \in Seq(Lines) /\ \A line \in Lines : line.at \in Nat
    BY DEF TypeOK, GUITypeOK
  <2> HIDE DEF Lines
  <2> QED
    BY <2>1
<1> QED
  BY <1>1, <1>2, <1>3, <1>4, AppendFacts

\* PersistStream adds the line of its argument at the end of streaming.txt.
LEMMA FileGrows ==
  ASSUME TypeOK, PersistStream
  PROVE  /\ priceStream \in PriceStreams
         /\ IsSequence(streamingFile')
         /\ Len(streamingFile') = Len(streamingFile) + 1
         /\ DOMAIN streamingFile' = 1..(Len(streamingFile) + 1)
         /\ streamingFile'[Len(streamingFile) + 1] = StreamLine(priceStream)
         /\ \A i \in 1..Len(streamingFile) :
              streamingFile'[i] = streamingFile[i]
<1>1. streamingFile' = Append(streamingFile, StreamLine(priceStream))
  BY DEF PersistStream, StreamingHistory!PersistData
<1>2. priceStream \in PriceStreams
  BY DEF PersistStream, TypeOK
<1> QED
  BY <1>1, <1>2, Shapes, AppendFacts

\* NotifyGUI looks at the clock once, some time after the last price.
LEMMA TimePasses ==
  ASSUME TypeOK, NotifyGUI
  PROVE  now' \in Nat /\ now <= now'
<1>1. PICK delay \in Delays : now' = now + delay
  BY DEF NotifyGUI
<1>2. delay \in Nat /\ now \in Nat
  BY PricingBoundsAssumption DEF TypeOK
<1> QED
  BY <1>1, <1>2

\* What the connector of the GUI compares with the throttle, and keeps.
LEMMA ThrottleReads ==
  ASSUME TypeOK, ThrottleState, NotifyGUI
  PROVE  LET reading == MillisecNow(GetMillisecond(now'))
         IN /\ reading \in Nat /\ reading % Second = now' % Second
            /\ reading - millisec = (now' - LastShown) % Second
            /\ reading - millisec <= now' - LastShown
<1> DEFINE reading == MillisecNow(GetMillisecond(now'))
<1>1. now' \in Nat /\ LastShown <= now'
  <2>1. LastShown \in Nat
    BY Shapes, EmptySeq DEF LastShown, TypeOK, GUITypeOK
  <2> QED
    BY <2>1, TimePasses DEF ThrottleState, TypeOK
<1>2. LastShown \in Nat /\ millisec \in Nat
  BY Shapes, EmptySeq DEF LastShown, TypeOK, GUITypeOK
<1>3. PICK s \in Nat \ {0} : s = Second
  BY ClockAssumption
<1>4. PICK t \in Nat : t = now'
  BY <1>1
<1>5. PICK m \in Nat, last \in Nat : m = millisec /\ last = LastShown
  BY <1>2
<1>6. PICK r \in 0..(s - 1) : r = t % s
  BY DivMod
<1>7. last <= t /\ m % s = last % s
  BY <1>1, <1>3, <1>4, <1>5 DEF ThrottleState
<1>8. reading = FirstReading(s, m, r)
  BY <1>3, <1>4, <1>5, <1>6 DEF MillisecNow, GetMillisecond, FirstReading
<1> HIDE DEF reading
<1>9. ShowsGap(FirstReading(s, m, r), s, m, last, t)
  BY <1>6, <1>7, ClockReading, Zenon
<1> QED
  BY <1>3, <1>4, <1>5, <1>8, <1>9 DEF reading, ShowsGap

-----------------------------------------------------------------------------
(***************************************************************************)
(* Types.                                                                  *)
(***************************************************************************)

\* Every step keeps TypeOK.
LEMMA TypeOKStep ==
  ASSUME IInv, Next
  PROVE  TypeOK'
<1> USE DEF PricingServiceTypeOK, AlgoStreamingTypeOK, StreamingTypeOK
<1>0. TypeOK
  BY DEF IInv
<1>1. CASE ReadPrice
  <2>1. PICK line \in Quotes :
          quotes' = Append(quotes, line) /\ price' = PriceOfLine(line)
    BY <1>1 DEF ReadPrice
  <2>2. price' \in Prices /\ price'.product \in ProductIds
    BY <2>1, PriceOfLineType DEF Prices
  <2>3. PricingServiceTypeOK'
    BY <1>0, <1>1, <2>2, PutIsMap DEF ReadPrice, StorePrice, TypeOK
  <2>4. quotes' \in Seq(Quotes)
    BY <1>0, <2>1 DEF TypeOK
  <2> QED
    BY <1>0, <1>1, <2>2, <2>3, <2>4
       DEF ReadPrice, TypeOK, GUITypeOK, StreamingHistory!TypeOK, guiVars,
           StreamCalls
<1>2. CASE EndOfPrices
  BY <1>0, <1>2
     DEF EndOfPrices, TypeOK, GUITypeOK, StreamingHistory!TypeOK, guiVars,
         storeVars
<1>3. CASE AlgoPublishPrice
  <2>1. price \in Prices /\ streamCount \in Nat
    BY <1>0, <1>3 DEF AlgoPublishPrice, TypeOK
  <2>2. priceStream' \in PriceStreams /\ priceStream'.product \in ProductIds
    BY <1>3, <2>1, StreamOfPrice DEF AlgoPublishPrice, PriceStreams
  <2>3. AlgoStreamingTypeOK'
    BY <1>0, <1>3, <2>1, <2>2, PutIsMap
       DEF AlgoPublishPrice, StoreAlgoStream, TypeOK
  <2> QED
    BY <1>0, <1>3, <2>2, <2>3
       DEF AlgoPublishPrice, TypeOK, GUITypeOK, StreamingHistory!TypeOK,
           guiVars, StreamCalls
<1>4. CASE PublishPrice
  <2>1. priceStream \in PriceStreams /\ priceStream.product \in ProductIds
    BY <1>0, <1>4 DEF PublishPrice, TypeOK, PriceStreams
  <2>2. StreamingTypeOK'
    BY <1>0, <1>4, <2>1, PutIsMap DEF PublishPrice, StorePriceStream, TypeOK
  <2> QED
    BY <1>0, <1>4, <2>1, <2>2
       DEF PublishPrice, TypeOK, GUITypeOK, StreamingHistory!TypeOK, guiVars,
           StreamCalls
<1>5. CASE PersistStream
  <2>1. StreamLine(priceStream) \in StreamLines
    BY <1>0, <1>5, FileGrows, StreamLineType
  <2>2. \A i \in DOMAIN streamingFile' : streamingFile'[i] \in StreamLines
    <3>1. \A i \in 1..(Len(streamingFile) + 1) :
            i = Len(streamingFile) + 1 \/ i \in 1..Len(streamingFile)
      BY <1>0, Shapes
    <3> QED
      BY <1>0, <1>5, <2>1, <3>1, FileGrows, Shapes
  <2>3. StreamingHistory!TypeOK(IsStreamLine)'
    BY <1>0, <1>5, <2>2, FileGrows
       DEF StreamingHistory!TypeOK, IsStreamLine, IsSequence
  <2> QED
    BY <1>0, <1>5, <2>3
       DEF PersistStream, TypeOK, GUITypeOK, guiVars, storeVars, StreamCalls
<1>6. CASE NotifyGUI
  <2>1. price \in Prices /\ price.product \in ProductIds /\ now' \in Nat
    BY <1>0, <1>6, TimePasses DEF NotifyGUI, TypeOK, Prices
  <2>2. IsMap(guis', ProductIds, Prices)
    BY <1>0, <1>6, <2>1, PutIsMap DEF NotifyGUI, ShowPrice, TypeOK, GUITypeOK
  <2>3. GuiLine(price, now') \in [product : ProductIds, mid : PrintedTexts,
                                  bidOfferSpread : PrintedTexts, at : Nat]
    <3>1. /\ ConvertPrice(price.mid) \in PrintedTexts
          /\ ConvertPrice(price.bidOfferSpread) \in PrintedTexts
      BY <2>1, PrintedThenRead DEF Prices
    <3> QED
      BY <2>1, <3>1 DEF GuiLine
  <2>4. millisec' \in Nat
    BY <1>0, <1>6, ThrottleReads
       DEF NotifyGUI, ShowPrice, Publish, TypeOK, GUITypeOK, IInv
  <2>5. guiFile' \in Seq([product : ProductIds, mid : PrintedTexts,
                          bidOfferSpread : PrintedTexts, at : Nat])
    <3> DEFINE Lines == [product : ProductIds, mid : PrintedTexts,
                         bidOfferSpread : PrintedTexts, at : Nat]
    <3>1. guiFile \in Seq(Lines) /\ GuiLine(price, now') \in Lines
      BY <1>0, <2>3 DEF TypeOK, GUITypeOK
    <3>2. guiFile' \in {guiFile, Append(guiFile, GuiLine(price, now'))}
      BY <1>6 DEF NotifyGUI, ShowPrice, Publish
    <3> HIDE DEF Lines
    <3>3. guiFile' \in Seq(Lines)
      BY <3>1, <3>2
    <3> QED
      BY <3>3 DEF Lines
  <2> QED
    BY <1>0, <1>6, <2>1, <2>2, <2>4, <2>5
       DEF NotifyGUI, TypeOK, GUITypeOK, StreamingHistory!TypeOK, storeVars,
           StreamCalls
<1> QED
  BY <1>1, <1>2, <1>3, <1>4, <1>5, <1>6 DEF Next

-----------------------------------------------------------------------------
(***************************************************************************)
(* The arguments and the file.                                             *)
(***************************************************************************)

\* Every step keeps ArgumentsOfLastLine: no price is read while another is in
\* flight, and each is counted once.
LEMMA ArgumentsStep ==
  ASSUME IInv, Next
  PROVE  ArgumentsOfLastLine'
<1> USE DEF ArgumentsOfLastLine, HasStream
<1>0. TypeOK /\ ArgumentsOfLastLine
  BY DEF IInv
<1>1. CASE ReadPrice
  <2>1. PICK line \in Quotes :
          quotes' = Append(quotes, line) /\ price' = PriceOfLine(line)
    BY <1>1 DEF ReadPrice
  <2>2. Len(quotes') # 0 /\ quotes'[Len(quotes')] = line
    BY <1>0, <2>1 DEF TypeOK
  <2> QED
    BY <1>0, <1>1, <2>1, <2>2 DEF ReadPrice
<1>2. CASE EndOfPrices
  BY <1>0, <1>2 DEF EndOfPrices, storeVars
<1>3. CASE AlgoPublishPrice
  <2>1. /\ streamCount' = streamCount + 1 /\ streamCount \in Nat
        /\ price \in Prices /\ price' = price /\ quotes' = quotes
        /\ priceStream' = PriceStreamOf(price)
        /\ pc = "AlgoPublishPrice" /\ pc' = "PublishPrice"
        /\ streamingFile' = streamingFile
    BY <1>0, <1>3
       DEF AlgoPublishPrice, StoreAlgoStream, TypeOK, AlgoStreamingTypeOK
  <2>2. /\ IsStreamOf(priceStream', price)
        /\ priceStream'.visibleQuantity = SizeOf(streamCount')
    BY <2>1, StreamOfPrice
  <2>3. streamCount' = Len(streamingFile') + 1
    BY <1>0, <2>1, Shapes
  <2> QED
    BY <1>0, <2>1, <2>2, <2>3
<1>4. CASE PublishPrice
  BY <1>0, <1>4 DEF PublishPrice
<1>5. CASE PersistStream
  <2>1. Len(streamingFile') = Len(streamingFile) + 1
    BY <1>0, <1>5, FileGrows
  <2> QED
    BY <1>0, <1>5, <2>1, Shapes DEF PersistStream, storeVars
<1>6. CASE NotifyGUI
  BY <1>0, <1>6 DEF NotifyGUI, storeVars
<1> QED
  BY <1>1, <1>2, <1>3, <1>4, <1>5, <1>6 DEF Next

\* Every step keeps StreamingFileRepeatsQuotes: the stream PersistStream prints
\* is made of the line read last.
LEMMA FileStep ==
  ASSUME IInv, Next
  PROVE  StreamingFileRepeatsQuotes'
<1> DEFINE n == Len(streamingFile)
           m == Len(quotes)
<1>0. TypeOK /\ ArgumentsOfLastLine /\ StreamingFileRepeatsQuotes
  BY DEF IInv
<1>1. /\ n \in Nat /\ m \in Nat /\ DOMAIN streamingFile = 1..n
      /\ DOMAIN quotes = 1..m /\ \A i \in 1..m : quotes[i] \in Quotes
  BY <1>0, Shapes
<1>2. /\ m = n + (IF pc \in StreamCalls THEN 1 ELSE 0)
      /\ \A i \in 1..n :
           /\ streamingFile[i].product = GetBond(quotes[i].cusip)
           /\ streamingFile[i].bid = Canonical(quotes[i].bid)
           /\ streamingFile[i].offer = Canonical(quotes[i].offer)
  BY <1>0, <1>1 DEF StreamingFileRepeatsQuotes
<1>3. pc \in StreamCalls => m = n + 1
  BY <1>2
<1>4. pc \notin StreamCalls => m = n
  BY <1>1, <1>2
<1>5. CASE ReadPrice
  <2>1. PICK line \in Quotes : quotes' = Append(quotes, line)
    BY <1>5 DEF ReadPrice
  <2>2. Len(quotes') = m + 1 /\ \A i \in 1..m : quotes'[i] = quotes[i]
    BY <1>0, <2>1 DEF TypeOK
  <2>3. /\ streamingFile' = streamingFile
        /\ pc \notin StreamCalls /\ pc' \in StreamCalls
    BY <1>5 DEF ReadPrice, StreamCalls
  <2> HIDE DEF n, m
  <2>4. /\ Len(quotes') = n + 1
        /\ \A i \in 1..n : quotes'[i] = quotes[i]
    BY <1>1, <1>4, <2>2, <2>3
  <2>5. Len(quotes') = Len(streamingFile') + (IF pc' \in StreamCalls THEN 1 ELSE 0)
    BY <2>3, <2>4 DEF n
  <2> QED
    BY <1>1, <1>2, <2>3, <2>4, <2>5 DEF StreamingFileRepeatsQuotes
<1>6. CASE EndOfPrices \/ AlgoPublishPrice \/ PublishPrice \/ NotifyGUI
  <2>1. /\ UNCHANGED <<streamingFile, quotes>>
        /\ pc' \in StreamCalls <=> pc \in StreamCalls
    BY <1>6
       DEF EndOfPrices, AlgoPublishPrice, PublishPrice, NotifyGUI, StreamCalls
  <2> QED
    BY <1>0, <2>1 DEF StreamingFileRepeatsQuotes
<1>7. CASE PersistStream
  <2>1. /\ priceStream \in PriceStreams
        /\ Len(streamingFile') = n + 1 /\ DOMAIN streamingFile' = 1..(n + 1)
        /\ streamingFile'[n + 1] = StreamLine(priceStream)
        /\ \A i \in 1..n : streamingFile'[i] = streamingFile[i]
    BY <1>0, <1>7, FileGrows
  <2>2. /\ quotes' = quotes /\ pc \in StreamCalls /\ pc' \notin StreamCalls
        /\ IsStreamOf(priceStream, price) /\ price = PriceOfLine(quotes[m])
    BY <1>0, <1>7
       DEF PersistStream, StreamCalls, ArgumentsOfLastLine, HasStream
  <2> HIDE DEF n, m
  <2>3. m = n + 1 /\ quotes[m] \in Quotes
    BY <1>1, <1>3, <2>2
  <2>4. /\ StreamLine(priceStream).product = GetBond(quotes[n + 1].cusip)
        /\ StreamLine(priceStream).bid = Canonical(quotes[n + 1].bid)
        /\ StreamLine(priceStream).offer = Canonical(quotes[n + 1].offer)
    BY <2>1, <2>2, <2>3, BidAndOfferKept
  <2>5. \A i \in 1..(n + 1) :
          /\ streamingFile'[i].product = GetBond(quotes[i].cusip)
          /\ streamingFile'[i].bid = Canonical(quotes[i].bid)
          /\ streamingFile'[i].offer = Canonical(quotes[i].offer)
    <3>1. \A i \in 1..(n + 1) : i = n + 1 \/ i \in 1..n
      BY <1>1
    <3> QED
      BY <1>2, <2>1, <2>4, <3>1
  <2>6. Len(quotes') = Len(streamingFile') + (IF pc' \in StreamCalls THEN 1 ELSE 0)
    BY <1>1, <2>1, <2>2, <2>3 DEF m
  <2> QED
    BY <2>1, <2>2, <2>5, <2>6 DEF StreamingFileRepeatsQuotes
<1> QED
  BY <1>5, <1>6, <1>7 DEF Next

\* Every step keeps SizesAlternate: the line PersistStream prints has the size
\* of its place.
LEMMA SizesStep ==
  ASSUME IInv, Next
  PROVE  SizesAlternate'
<1> DEFINE n == Len(streamingFile)
<1>0. TypeOK /\ ArgumentsOfLastLine /\ SizesAlternate
  BY DEF IInv
<1>1. n \in Nat /\ DOMAIN streamingFile = 1..n
  BY <1>0, Shapes
<1>2. \A i \in 1..n : streamingFile[i].visibleQuantity = SizeOf(i)
  BY <1>0, <1>1 DEF SizesAlternate, SizeOf
<1>3. CASE PersistStream
  <2>1. /\ priceStream \in PriceStreams /\ DOMAIN streamingFile' = 1..(n + 1)
        /\ streamingFile'[n + 1] = StreamLine(priceStream)
        /\ \A i \in 1..n : streamingFile'[i] = streamingFile[i]
    BY <1>0, <1>3, FileGrows
  <2>2. /\ priceStream.visibleQuantity = SizeOf(streamCount)
        /\ streamCount = n + 1
    BY <1>0, <1>3 DEF PersistStream, ArgumentsOfLastLine, HasStream
  <2> HIDE DEF n
  <2>3. streamingFile'[n + 1].visibleQuantity = SizeOf(n + 1)
    BY <2>1, <2>2, StreamLineType
  <2>4. \A i \in 1..(n + 1) : i = n + 1 \/ i \in 1..n
    BY <1>1
  <2>5. \A i \in DOMAIN streamingFile' :
          streamingFile'[i].visibleQuantity = SizeOf(i)
    BY <1>2, <2>1, <2>3, <2>4
  <2> QED
    BY <2>5 DEF SizesAlternate, SizeOf
<1>4. CASE ~PersistStream
  <2>1. streamingFile' = streamingFile
    BY <1>4
       DEF Next, ReadPrice, EndOfPrices, AlgoPublishPrice, PublishPrice,
           NotifyGUI
  <2> QED
    BY <1>0, <2>1 DEF SizesAlternate
<1> QED
  BY <1>3, <1>4

-----------------------------------------------------------------------------
(***************************************************************************)
(* The last price of a product.                                            *)
(***************************************************************************)

\* The line PersistStream prints is the last of its product, and changes
\* nothing for another.
LEMMA LastStreams ==
  ASSUME TypeOK, PersistStream, NEW product
  PROVE  /\ product = priceStream.product =>
              \E i : /\ IsLastStream(i, product)'
                     /\ streamingFile'[i] = StreamLine(priceStream)
         /\ \A i : product # priceStream.product /\ IsLastStream(i, product) =>
              /\ IsLastStream(i, product)'
              /\ streamingFile'[i] = streamingFile[i]
<1>0. PICK n \in Nat : n = Len(streamingFile)
  BY Shapes
<1>1. /\ n \in Nat /\ DOMAIN streamingFile = 1..n
      /\ DOMAIN streamingFile' = 1..(n + 1)
      /\ streamingFile'[n + 1] = StreamLine(priceStream)
      /\ StreamLine(priceStream).product = priceStream.product
      /\ \A i \in 1..n : streamingFile'[i] = streamingFile[i]
  BY <1>0, Shapes, FileGrows, StreamLineType
<1>2. product = priceStream.product => IsLastStream(n + 1, product)'
  BY <1>1 DEF IsLastStream
<1>3. ASSUME NEW i, product # priceStream.product, IsLastStream(i, product)
      PROVE  IsLastStream(i, product)' /\ streamingFile'[i] = streamingFile[i]
  <2>1. i \in 1..n /\ i \in 1..(n + 1)
    BY <1>1, <1>3 DEF IsLastStream
  <2>2. \A j \in 1..(n + 1) : j = n + 1 \/ j \in 1..n
    BY <1>1
  <2> QED
    BY <1>1, <1>3, <2>1, <2>2 DEF IsLastStream
<1> QED
  BY <1>1, <1>2, <1>3

\* Every step keeps StoredSoFar: a call leaves its argument where the next ones
\* look for it.
LEMMA StoredStep ==
  ASSUME IInv, Next
  PROVE  StoredSoFar'
<1> USE DEF HasStream
<1>0. TypeOK /\ ArgumentsOfLastLine /\ StoredSoFar
  BY DEF IInv
<1>1. CASE ReadPrice
  <2>1. /\ prices' = Put(prices, price'.product, price')
        /\ pc' = "AlgoPublishPrice"
    BY <1>1 DEF ReadPrice, StorePrice
  <2> QED
    BY <2>1 DEF StoredSoFar, Put
<1>2. CASE EndOfPrices \/ NotifyGUI
  BY <1>2 DEF EndOfPrices, NotifyGUI, StoredSoFar
<1>3. CASE AlgoPublishPrice
  <2>1. /\ algoStreams' = Put(algoStreams, priceStream'.product, priceStream')
        /\ pc = "AlgoPublishPrice" /\ pc' = "PublishPrice"
        /\ UNCHANGED <<prices, price>>
    BY <1>3 DEF AlgoPublishPrice, StoreAlgoStream
  <2>2. priceStream'.product = price.product
    BY <1>0, <1>3, StreamOfPrice
       DEF AlgoPublishPrice, TypeOK, AlgoStreamingTypeOK, IsStreamOf
  <2> QED
    BY <1>0, <2>1, <2>2 DEF StoredSoFar, Put
<1>4. CASE PublishPrice
  <2>1. /\ priceStreams' = Put(priceStreams, priceStream.product, priceStream)
        /\ pc = "PublishPrice" /\ pc' = "PersistStream"
        /\ UNCHANGED <<prices, algoStreams, price, priceStream>>
    BY <1>4 DEF PublishPrice, StorePriceStream
  <2>2. priceStream.product = price.product
    BY <1>0, <2>1 DEF ArgumentsOfLastLine, IsStreamOf
  <2> QED
    BY <1>0, <2>1, <2>2 DEF StoredSoFar, Put
<1>5. CASE PersistStream
  <2>0. PICK q : q = price.product
    OBVIOUS
  <2>1. /\ pc = "PersistStream" /\ pc' = "GUI"
        /\ UNCHANGED <<prices, algoStreams, priceStreams, price>>
    BY <1>5 DEF PersistStream, storeVars
  <2>2. IsStreamOf(priceStream, price) /\ price \in Prices
    BY <1>0, <2>1 DEF ArgumentsOfLastLine, TypeOK
  <2>3. priceStream.bid + priceStream.offer = 2 * price.mid
    <3> DEFINE half == price.bidOfferSpread \div 2
    <3>1. half \in Int /\ price.mid \in Int
      BY <2>2 DEF Prices
    <3> HIDE DEF half
    <3>2. (price.mid - half) + (price.mid + half) = 2 * price.mid
      BY <3>1
    <3> QED
      BY <2>2, <3>2 DEF IsStreamOf, half
  <2>4. /\ q \in DOMAIN algoStreams /\ algoStreams[q] = priceStream
        /\ q \in DOMAIN priceStreams /\ priceStreams[q] = priceStream
        /\ q \in DOMAIN prices /\ prices[q] = price
    BY <1>0, <2>0, <2>1 DEF StoredSoFar
  <2>5. \E i : /\ IsLastStream(i, q)'
               /\ streamingFile'[i] = StreamLine(priceStream)
    BY <1>0, <1>5, <2>0, <2>2, LastStreams DEF IsStreamOf
  <2>6. StreamsAgree(price.product, price)'
    BY <2>0, <2>1, <2>3, <2>4, <2>5 DEF StreamsAgree, IsLastStream
  <2> QED
    BY <2>0, <2>1, <2>4, <2>6 DEF StoredSoFar
<1> QED
  BY <1>1, <1>2, <1>3, <1>4, <1>5 DEF Next

\* Every step keeps OthersInStep: a step touches the product in flight only,
\* and that one is in step again when the GUI is told.
LEMMA OthersStep ==
  ASSUME IInv, Next
  PROVE  OthersInStep'
<1>0. TypeOK /\ ArgumentsOfLastLine /\ StoredSoFar /\ OthersInStep
  BY DEF IInv
<1> SUFFICES ASSUME NEW product \in ProductIds
             PROVE  (pc' # "Main" /\ price'.product = product) \/ InStep(product)'
  BY DEF OthersInStep
<1>1. (pc # "Main" /\ price.product = product) \/ InStep(product)
  BY <1>0 DEF OthersInStep
<1>2. ASSUME UNCHANGED streamingFile, InStep(product),
             product \in DOMAIN prices' <=> product \in DOMAIN prices,
             product \in DOMAIN guis' <=> product \in DOMAIN guis,
             product \in DOMAIN algoStreams' <=> product \in DOMAIN algoStreams,
             product \in DOMAIN priceStreams' <=> product \in DOMAIN priceStreams,
             product \in DOMAIN prices => prices'[product] = prices[product],
             product \in DOMAIN guis => guis'[product] = guis[product],
             product \in DOMAIN algoStreams =>
               algoStreams'[product] = algoStreams[product],
             product \in DOMAIN priceStreams =>
               priceStreams'[product] = priceStreams[product]
      PROVE  InStep(product)'
  BY <1>2 DEF InStep, StreamsAgree, IsLastStream
<1>3. CASE ReadPrice
  <2>1. /\ prices' = Put(prices, price'.product, price')
        /\ pc = "Main" /\ pc' # "Main"
        /\ UNCHANGED <<guis, algoStreams, priceStreams, streamingFile>>
    BY <1>3 DEF ReadPrice, StorePrice, guiVars
  <2>2. CASE price'.product = product
    BY <2>1, <2>2
  <2>3. CASE price'.product # product
    <3>1. /\ product \in DOMAIN prices' <=> product \in DOMAIN prices
          /\ product \in DOMAIN prices => prices'[product] = prices[product]
      BY <2>1, <2>3 DEF Put
    <3> QED
      BY <1>1, <1>2, <2>1, <3>1
  <2> QED
    BY <2>2, <2>3
<1>4. CASE EndOfPrices
  BY <1>1, <1>2, <1>4 DEF EndOfPrices, storeVars, guiVars
<1>5. CASE AlgoPublishPrice
  <2>1. /\ algoStreams' = Put(algoStreams, priceStream'.product, priceStream')
        /\ pc # "Main" /\ pc' # "Main"
        /\ UNCHANGED <<prices, guis, priceStreams, streamingFile, price>>
    BY <1>5 DEF AlgoPublishPrice, StoreAlgoStream, guiVars
  <2>2. priceStream'.product = price.product
    BY <1>0, <1>5, StreamOfPrice
       DEF AlgoPublishPrice, TypeOK, AlgoStreamingTypeOK, IsStreamOf
  <2>3. CASE price.product = product
    BY <2>1, <2>3
  <2>4. CASE price.product # product
    <3>1. /\ product \in DOMAIN algoStreams' <=> product \in DOMAIN algoStreams
          /\ product \in DOMAIN algoStreams =>
               algoStreams'[product] = algoStreams[product]
      BY <2>1, <2>2, <2>4 DEF Put
    <3> QED
      BY <1>1, <1>2, <2>1, <2>4, <3>1
  <2> QED
    BY <2>3, <2>4
<1>6. CASE PublishPrice
  <2>1. /\ priceStreams' = Put(priceStreams, priceStream.product, priceStream)
        /\ pc = "PublishPrice" /\ pc' # "Main"
        /\ UNCHANGED <<prices, guis, algoStreams, streamingFile, price>>
    BY <1>6 DEF PublishPrice, StorePriceStream, guiVars
  <2>2. priceStream.product = price.product
    BY <1>0, <2>1 DEF ArgumentsOfLastLine, HasStream, IsStreamOf
  <2>3. CASE price.product = product
    BY <2>1, <2>3
  <2>4. CASE price.product # product
    <3>1. /\ product \in DOMAIN priceStreams'
               <=> product \in DOMAIN priceStreams
          /\ product \in DOMAIN priceStreams =>
               priceStreams'[product] = priceStreams[product]
      BY <2>1, <2>2, <2>4 DEF Put
    <3> QED
      BY <1>1, <1>2, <2>1, <2>4, <3>1
  <2> QED
    BY <2>3, <2>4
<1>7. CASE PersistStream
  <2>1. /\ pc = "PersistStream" /\ pc' # "Main"
        /\ UNCHANGED <<prices, guis, algoStreams, priceStreams, price>>
    BY <1>7 DEF PersistStream, storeVars, guiVars
  <2>2. priceStream.product = price.product
    BY <1>0, <2>1 DEF ArgumentsOfLastLine, HasStream, IsStreamOf
  <2>3. CASE price.product = product
    BY <2>1, <2>3
  <2>4. CASE price.product # product
    <3>1. \A i : IsLastStream(i, product) =>
                   /\ IsLastStream(i, product)'
                   /\ streamingFile'[i] = streamingFile[i]
      BY <1>0, <1>7, <2>2, <2>4, LastStreams
    <3>2. InStep(product)
      BY <1>1, <2>4
    <3>3. ASSUME product \in DOMAIN prices
          PROVE  StreamsAgree(product, prices[product])'
      <4>1. StreamsAgree(product, prices[product])
        BY <3>2, <3>3 DEF InStep
      <4>2. PICK i \in DOMAIN streamingFile :
              /\ IsLastStream(i, product)
              /\ streamingFile[i] = StreamLine(priceStreams[product])
        BY <4>1 DEF StreamsAgree
      <4>3. /\ i \in DOMAIN streamingFile' /\ IsLastStream(i, product)'
            /\ streamingFile'[i] = StreamLine(priceStreams'[product])
        BY <2>1, <3>1, <4>2 DEF IsLastStream
      <4> QED
        BY <2>1, <4>1, <4>3 DEF StreamsAgree
    <3> QED
      BY <2>1, <3>2, <3>3 DEF InStep
  <2> QED
    BY <2>3, <2>4
<1>8. CASE NotifyGUI
  <2>1. /\ guis' = Put(guis, price.product, price) /\ pc = "GUI"
        /\ UNCHANGED <<prices, algoStreams, priceStreams, streamingFile>>
    BY <1>8 DEF NotifyGUI, ShowPrice, storeVars
  <2>2. CASE price.product = product
    <3>1. /\ product \in DOMAIN prices /\ prices[product] = price
          /\ StreamsAgree(product, prices[product])
      BY <1>0, <2>1, <2>2 DEF StoredSoFar
    <3>2. product \in DOMAIN guis' /\ guis'[product] = price
      BY <2>1, <2>2 DEF Put
    <3>3. StreamsAgree(product, prices[product])'
      BY <2>1, <3>1 DEF StreamsAgree, IsLastStream
    <3> QED
      BY <2>1, <3>1, <3>2, <3>3 DEF InStep, StreamsAgree
  <2>3. CASE price.product # product
    <3>1. /\ product \in DOMAIN guis' <=> product \in DOMAIN guis
          /\ product \in DOMAIN guis => guis'[product] = guis[product]
      BY <2>1, <2>3 DEF Put
    <3> QED
      BY <1>1, <1>2, <2>1, <2>3, <3>1
  <2> QED
    BY <2>2, <2>3
<1> QED
  BY <1>3, <1>4, <1>5, <1>6, <1>7, <1>8 DEF Next

-----------------------------------------------------------------------------
(***************************************************************************)
(* The throttle.                                                           *)
(***************************************************************************)

\* NotifyGUI prints a line exactly when the gap, less its whole seconds,
\* reaches the throttle; the line then has the time of the step, which is at
\* least the throttle after the last one's.
LEMMA NotifyShows ==
  ASSUME TypeOK, ThrottleState, NotifyGUI
  PROVE  LET shown == (now' - LastShown) % Second >= Throttle
         IN /\ shown =>
                 /\ guiFile' = Append(guiFile, GuiLine(price, now'))
                 /\ millisec' % Second = now' % Second
                 /\ now' - LastShown >= Throttle
            /\ ~shown => UNCHANGED <<guiFile, millisec>>
<1> DEFINE reading == MillisecNow(GetMillisecond(now'))
           gap == reading - millisec
<1>1. IF gap >= Throttle
      THEN /\ millisec' = reading
           /\ guiFile' = Append(guiFile, GuiLine(price, now'))
      ELSE UNCHANGED <<millisec, guiFile>>
  BY DEF NotifyGUI, ShowPrice, Publish
<1>2. /\ reading \in Nat /\ reading % Second = now' % Second
      /\ gap = (now' - LastShown) % Second /\ gap <= now' - LastShown
  BY ThrottleReads
<1>3. gap \in Int /\ now' - LastShown \in Int /\ Throttle \in Nat
  <2>1. LastShown \in Nat /\ millisec \in Nat
    BY Shapes, EmptySeq DEF LastShown, TypeOK, GUITypeOK
  <2> QED
    BY <1>2, <2>1, TimePasses, ClockAssumption
<1> DEFINE d == now' - LastShown
<1>4. gap <= d /\ d \in Int
  BY <1>2, <1>3
<1>5. gap >= Throttle <=> (now' - LastShown) % Second >= Throttle
  BY <1>2
<1>6. gap >= Throttle => d >= Throttle
  <2> HIDE DEF gap, d
  <2> QED
    BY <1>3, <1>4
<1> HIDE DEF gap, reading
<1> QED
  BY <1>1, <1>2, <1>5, <1>6

\* The time of the last line, after it and before the next.
LEMMA LastShownMoves ==
  ASSUME TypeOK, ThrottleState, NotifyGUI
  PROVE  LastShown' = IF (now' - LastShown) % Second >= Throttle THEN now'
                      ELSE LastShown
<1> DEFINE line == GuiLine(price, now')
<1>1. CASE (now' - LastShown) % Second >= Throttle
  <2>1. guiFile' = Append(guiFile, line)
    BY <1>1, NotifyShows
  <2>2. /\ guiFile' # << >> /\ guiFile'[Len(guiFile')] = line
    BY <2>1 DEF TypeOK, GUITypeOK
  <2>3. line.at = now'
    BY DEF GuiLine
  <2> QED
    BY <1>1, <2>2, <2>3 DEF LastShown
<1>2. CASE ~((now' - LastShown) % Second >= Throttle)
  BY <1>2, NotifyShows DEF LastShown
<1> QED
  BY <1>1, <1>2

\* Every step keeps ThrottleState: the time kept is that of the last line, cut
\* to a second or ahead by some.
LEMMA ThrottleStep ==
  ASSUME IInv, Next
  PROVE  ThrottleState'
<1>0. TypeOK /\ ThrottleState
  BY DEF IInv
<1>1. CASE NotifyGUI
  <2>1. LastShown \in Nat /\ now \in Nat /\ now' \in Nat /\ now <= now'
    BY <1>0, <1>1, Shapes, EmptySeq, TimePasses
       DEF LastShown, TypeOK, GUITypeOK
  <2>2. CASE (now' - LastShown) % Second >= Throttle
    <3>1. LastShown' = now' /\ millisec' % Second = now' % Second
      BY <1>0, <1>1, <2>2, LastShownMoves, NotifyShows
    <3> QED
      BY <2>1, <3>1 DEF ThrottleState
  <2>3. CASE ~((now' - LastShown) % Second >= Throttle)
    <3>1. LastShown' = LastShown /\ millisec' = millisec
      BY <1>0, <1>1, <2>3, LastShownMoves, NotifyShows
    <3> QED
      BY <1>0, <2>1, <3>1 DEF ThrottleState
  <2> QED
    BY <2>2, <2>3
<1>2. CASE ~NotifyGUI
  <2>1. UNCHANGED <<now, millisec, guiFile>>
    BY <1>2
       DEF Next, ReadPrice, EndOfPrices, AlgoPublishPrice, PublishPrice,
           PersistStream, guiVars
  <2> QED
    BY <1>0, <2>1 DEF ThrottleState, LastShown
<1> QED
  BY <1>1, <1>2

\* Every step keeps GuiLinesSpaced.
LEMMA SpacedStep ==
  ASSUME IInv, Next
  PROVE  GuiLinesSpaced'
<1>0. TypeOK /\ ThrottleState /\ GuiLinesSpaced
  BY DEF IInv
<1>1. CASE NotifyGUI /\ (now' - LastShown) % Second >= Throttle
  <2> DEFINE n == Len(guiFile)
             line == GuiLine(price, now')
  <2>1. guiFile' = Append(guiFile, line) /\ now' - LastShown >= Throttle
    BY <1>0, <1>1, NotifyShows
  <2>2. /\ n \in Nat /\ DOMAIN guiFile = 1..n /\ DOMAIN guiFile' = 1..(n + 1)
        /\ guiFile'[n + 1] = line
        /\ \A i \in 1..n : guiFile'[i] = guiFile[i]
    BY <1>0, <2>1 DEF TypeOK, GUITypeOK
  <2>3. line.at = now'
    BY DEF GuiLine
  <2>4. n > 0 => LastShown = guiFile[n].at
    BY <1>0 DEF LastShown, TypeOK, GUITypeOK
  <2> HIDE DEF n, line
  <2>5. \A i \in 1..(n + 1) : i > 1 =>
          i - 1 \in 1..n /\ (i = n + 1 \/ i \in 1..n)
    BY <2>2
  <2>6. \A i \in 1..(n + 1) :
          i > 1 => guiFile'[i].at - guiFile'[i - 1].at >= Throttle
    <3> SUFFICES ASSUME NEW i \in 1..(n + 1), i > 1
                 PROVE  guiFile'[i].at - guiFile'[i - 1].at >= Throttle
      OBVIOUS
    <3>1. CASE i = n + 1
      <4>1. n > 0 /\ i - 1 = n /\ n \in 1..n
        BY <2>2, <3>1
      <4>2. guiFile'[i].at = now' /\ guiFile'[i - 1].at = LastShown
        BY <2>2, <2>3, <2>4, <3>1, <4>1
      <4> QED
        BY <2>1, <4>2
    <3>2. CASE i \in 1..n
      <4>1. guiFile'[i] = guiFile[i] /\ guiFile'[i - 1] = guiFile[i - 1]
        BY <2>2, <2>5, <3>2
      <4> QED
        BY <1>0, <2>2, <3>2, <4>1 DEF GuiLinesSpaced
    <3> QED
      BY <2>5, <3>1, <3>2
  <2> QED
    BY <2>2, <2>6 DEF GuiLinesSpaced
<1>2. CASE ~(NotifyGUI /\ (now' - LastShown) % Second >= Throttle)
  <2>1. guiFile' = guiFile
    <3>1. CASE NotifyGUI
      BY <1>0, <1>2, <3>1, NotifyShows
    <3>2. CASE ~NotifyGUI
      BY <3>2
         DEF Next, ReadPrice, EndOfPrices, AlgoPublishPrice, PublishPrice,
             PersistStream, guiVars
    <3> QED
      BY <3>1, <3>2
  <2> QED
    BY <1>0, <2>1 DEF GuiLinesSpaced
<1> QED
  BY <1>1, <1>2

-----------------------------------------------------------------------------
(***************************************************************************)
(* The theorems.                                                           *)
(***************************************************************************)

\* The program starts with nothing stored, streamed or shown.
LEMMA InitInvariant ==
  ASSUME Init
  PROVE  IInv
<1>1. /\ prices = EmptyMap /\ guis = EmptyMap /\ algoStreams = EmptyMap
      /\ priceStreams = EmptyMap /\ streamCount = 0 /\ millisec = 0
      /\ streamingFile = << >> /\ guiFile = << >> /\ quotes = << >>
      /\ pc = "Main" /\ stage = "Prices" /\ now \in Nat
  BY PricingBoundsAssumption
     DEF Init, PricingServiceInit, AlgoStreamingInit, StreamingInit, GUIInit,
         StreamingHistory!Init
<1>2. /\ PricingServiceTypeOK /\ AlgoStreamingTypeOK /\ StreamingTypeOK
      /\ IsMap(guis, ProductIds, Prices)
  BY <1>1, EmptyIsMap
     DEF PricingServiceTypeOK, AlgoStreamingTypeOK, StreamingTypeOK
<1>3. /\ DOMAIN prices = {} /\ DOMAIN guis = {} /\ DOMAIN algoStreams = {}
      /\ DOMAIN priceStreams = {}
  BY <1>1 DEF EmptyMap
<1>4. /\ Len(streamingFile) = 0 /\ Len(quotes) = 0
      /\ DOMAIN streamingFile = {} /\ DOMAIN guiFile = {}
  BY <1>1
<1>5. TypeOK
  <2>1. GUITypeOK
    BY <1>1, <1>2 DEF GUITypeOK
  <2>2. StreamingHistory!TypeOK(IsStreamLine)
    BY <1>1, <1>4 DEF StreamingHistory!TypeOK
  <2> QED
    BY <1>1, <1>2, <2>1, <2>2 DEF TypeOK, StreamCalls
<1>6. ArgumentsOfLastLine /\ StoredSoFar
  BY <1>1, <1>4 DEF ArgumentsOfLastLine, StoredSoFar, HasStream
<1>7. StreamingFileRepeatsQuotes /\ SizesAlternate /\ GuiLinesSpaced
  <2>1. Len(quotes) = Len(streamingFile) + (IF pc \in StreamCalls THEN 1 ELSE 0)
    BY <1>1, <1>4 DEF StreamCalls
  <2> QED
    BY <1>4, <2>1
       DEF StreamingFileRepeatsQuotes, SizesAlternate, GuiLinesSpaced
<1>8. OthersInStep
  BY <1>3 DEF OthersInStep, InStep
<1>9. ThrottleState
  BY <1>1 DEF ThrottleState, LastShown
<1> QED
  BY <1>5, <1>6, <1>7, <1>8, <1>9 DEF IInv

\* IInv is an invariant of the flow of prices.
THEOREM Invariant == Spec => []IInv
<1>1. ASSUME IInv, Next PROVE IInv'
  BY <1>1, TypeOKStep, ArgumentsStep, FileStep, SizesStep, StoredStep,
     OthersStep, ThrottleStep, SpacedStep DEF IInv
<1>2. ASSUME IInv, UNCHANGED vars PROVE IInv'
  <2> USE <1>2 DEF IInv, vars, storeVars, guiVars
  <2>1. TypeOK'
    BY DEF TypeOK, PricingServiceTypeOK, AlgoStreamingTypeOK, StreamingTypeOK,
           GUITypeOK, StreamingHistory!TypeOK
  <2>2. ArgumentsOfLastLine' /\ ThrottleState' /\ GuiLinesSpaced'
    BY DEF ArgumentsOfLastLine, HasStream, ThrottleState, LastShown,
           GuiLinesSpaced
  <2>3. StreamingFileRepeatsQuotes' /\ SizesAlternate'
    BY DEF StreamingFileRepeatsQuotes, SizesAlternate
  <2>4. StoredSoFar' /\ OthersInStep'
    BY DEF StoredSoFar, HasStream, OthersInStep, InStep, StreamsAgree,
           IsLastStream
  <2> QED
    BY <2>1, <2>2, <2>3, <2>4
<1> QED
  BY InitInvariant, <1>1, <1>2, PTL DEF Spec

\* The services of the flow hold what their types allow.
THEOREM TypeCorrect == Spec => []TypeOK
<1>1. IInv => TypeOK
  BY DEF IInv
<1> QED
  BY <1>1, Invariant, PTL

\* streaming.txt repeats the bids and offers of prices.txt, line by line,
\* through two conversions and the mid and spread between them.
THEOREM StreamsCorrect == Spec => []StreamingFileRepeatsQuotes
<1>1. IInv => StreamingFileRepeatsQuotes
  BY DEF IInv
<1> QED
  BY <1>1, Invariant, PTL

\* The sizes of streaming.txt alternate, whatever the products of its lines.
THEOREM SizesCorrect == Spec => []SizesAlternate
<1>1. IInv => SizesAlternate
  BY DEF IInv
<1> QED
  BY <1>1, Invariant, PTL

\* The four services and streaming.txt agree on the last price of every product
\* but the one in flight.
THEOREM LastPricesCorrect == Spec => []LastPricesAgree
<1>1. IInv => LastPricesAgree
  <2> SUFFICES ASSUME OthersInStep, NEW product \in ProductIds,
                      ~(pc # "Main" /\ price.product = product)
               PROVE  /\ DOMAIN prices \cap {product}
                           = DOMAIN guis \cap {product}
                      /\ DOMAIN prices \cap {product}
                           = DOMAIN algoStreams \cap {product}
                      /\ DOMAIN prices \cap {product}
                           = DOMAIN priceStreams \cap {product}
                      /\ product \in DOMAIN prices =>
                           /\ guis[product] = prices[product]
                           /\ StreamsAgree(product, prices[product])
    BY DEF IInv, LastPricesAgree, StreamsAgree
  <2> QED
    BY DEF OthersInStep, InStep
<1> QED
  BY <1>1, Invariant, PTL

\* Two lines of gui.txt are never closer than the throttle.
THEOREM SpacingCorrect == Spec => []GuiLinesSpaced
<1>1. IInv => GuiLinesSpaced
  BY DEF IInv
<1> QED
  BY <1>1, Invariant, PTL

\* A price is shown exactly when the gap since the last line, less its whole
\* seconds, reaches the throttle: all the throttle ever does.
THEOREM ThrottleCorrect == Spec => ShownUnlessWithinThrottle
<1>1. ASSUME IInv, [Next]_vars PROVE [ShownByTheGap]_vars
  <2>1. CASE NotifyGUI
    <3>1. TypeOK /\ ThrottleState /\ guiFile \in Seq({guiFile[i] : i \in DOMAIN guiFile})
      <4>1. TypeOK /\ ThrottleState
        BY <1>1 DEF IInv
      <4> DEFINE Lines == [product : ProductIds, mid : PrintedTexts,
                           bidOfferSpread : PrintedTexts, at : Nat]
      <4>2. guiFile \in Seq(Lines)
        BY <4>1 DEF TypeOK, GUITypeOK
      <4> HIDE DEF Lines
      <4> QED
        BY <4>1, <4>2
    <3>2. IsSequence(guiFile) /\ Len(guiFile) \in Nat
      BY <3>1, Shapes DEF IsSequence
    <3>3. CASE (now' - LastShown) % Second >= Throttle
      <4>1. guiFile' = Append(guiFile, GuiLine(price, now'))
        BY <2>1, <3>1, <3>3, NotifyShows
      <4>2. Len(guiFile') = Len(guiFile) + 1
        BY <3>2, <4>1, AppendFacts
      <4> QED
        BY <3>3, <4>2 DEF ShownByTheGap
    <3>4. CASE ~((now' - LastShown) % Second >= Throttle)
      <4>1. guiFile' = guiFile
        BY <2>1, <3>1, <3>4, NotifyShows
      <4>2. Len(guiFile') # Len(guiFile) + 1
        BY <3>2, <4>1
      <4> QED
        BY <3>4, <4>2 DEF ShownByTheGap
    <3> QED
      BY <3>3, <3>4
  <2>2. CASE \/ ReadPrice \/ EndOfPrices \/ AlgoPublishPrice \/ PublishPrice
             \/ PersistStream
    BY <2>2
       DEF ShownByTheGap, ReadPrice, EndOfPrices, AlgoPublishPrice,
           PublishPrice, PersistStream
  <2> QED
    BY <1>1, <2>1, <2>2 DEF Next
<1> QED
  BY <1>1, Invariant, PTL DEF Spec, ShownUnlessWithinThrottle
-----------------------------------------------------------------------------
(***************************************************************************)
(* The end. That main reaches it rests on fairness, which TLC checks; that *)
(* no run is longer than its input allows, and that every price is         *)
(* streamed when it ends, are safety properties.                           *)
(***************************************************************************)

\* The calls between the next one and the return to main.
CallsLeft ==
  CASE pc = "Main" -> 0
    [] pc = "AlgoPublishPrice" -> 4
    [] pc = "PublishPrice" -> 3
    [] pc = "PersistStream" -> 2
    [] pc = "GUI" -> 1

\* The most steps left: five for a line of prices.txt and one for its end.
StepsLeft ==
  5 * (MaxPrices - Len(quotes)) + (IF stage = "Prices" THEN 1 ELSE 0)
    + CallsLeft

\* main reads no more lines than there are, and returns before it ends.
WithinInput ==
  /\ Len(quotes) <= MaxPrices
  /\ stage = "Ended" => pc = "Main"

\* Every step keeps WithinInput and leaves fewer steps.
LEMMA StepsLeftStep ==
  ASSUME TypeOK, WithinInput, Next
  PROVE  WithinInput' /\ StepsLeft \in Nat /\ StepsLeft' < StepsLeft
<1> DEFINE mark == IF stage = "Prices" THEN 1 ELSE 0
<1>1. CallsLeft \in 0..4 /\ mark \in Nat
  BY DEF TypeOK, StreamCalls, CallsLeft
<1>2. PICK n \in Nat : n = Len(quotes)
  <2>1. Len(quotes) \in Nat
    BY Shapes
  <2> QED
    BY <2>1
<1>3. MaxPrices \in Nat /\ n <= MaxPrices
  BY <1>2, PricingBoundsAssumption DEF WithinInput
<1>4. StepsLeft = 5 * (MaxPrices - n) + mark + CallsLeft
  BY <1>2 DEF StepsLeft
<1>5. StepsLeft' = 5 * (MaxPrices - Len(quotes')) + mark' + CallsLeft'
  BY DEF StepsLeft
<1>6. StepsLeft \in Nat
  <2> HIDE DEF mark
  <2> QED
    BY <1>1, <1>3, <1>4
<1>7. CASE ReadPrice
  <2>1. PICK line \in Quotes : quotes' = Append(quotes, line)
    BY <1>7 DEF ReadPrice
  <2>2. Len(quotes') = n + 1
    BY <1>2, <2>1 DEF TypeOK
  <2>3. /\ n < MaxPrices /\ stage' = stage /\ mark' = mark
        /\ CallsLeft = 0 /\ CallsLeft' = 4 /\ stage # "Ended"
    BY <1>2, <1>7 DEF ReadPrice, CallsLeft
  <2>4. WithinInput'
    BY <1>2, <1>3, <2>2, <2>3 DEF WithinInput
  <2> HIDE DEF mark
  <2> QED
    BY <1>1, <1>3, <1>4, <1>5, <1>6, <2>2, <2>3, <2>4
<1>8. CASE EndOfPrices
  <2>1. /\ quotes' = quotes /\ mark = 1 /\ mark' = 0
        /\ CallsLeft' = CallsLeft /\ pc' = "Main"
    BY <1>8 DEF EndOfPrices, CallsLeft
  <2>2. WithinInput'
    BY <2>1 DEF WithinInput
  <2> HIDE DEF mark
  <2> QED
    BY <1>1, <1>2, <1>3, <1>4, <1>5, <1>6, <2>1, <2>2
<1>9. CASE AlgoPublishPrice \/ PublishPrice \/ PersistStream \/ NotifyGUI
  <2>1. CallsLeft' = CallsLeft - 1
    <3>1. CASE AlgoPublishPrice \/ PublishPrice
      BY <3>1 DEF AlgoPublishPrice, PublishPrice, CallsLeft
    <3>2. CASE PersistStream \/ NotifyGUI
      BY <3>2 DEF PersistStream, NotifyGUI, CallsLeft
    <3> QED
      BY <1>9, <3>1, <3>2
  <2>2. quotes' = quotes /\ stage' = stage /\ mark' = mark /\ pc # "Main"
    BY <1>9 DEF AlgoPublishPrice, PublishPrice, PersistStream, NotifyGUI
  <2>3. WithinInput'
    BY <2>2 DEF WithinInput
  <2> HIDE DEF mark
  <2> QED
    BY <1>1, <1>2, <1>3, <1>4, <1>5, <1>6, <2>1, <2>2, <2>3
<1> QED
  BY <1>7, <1>8, <1>9 DEF Next

\* The steps left are a number in every state.
LEMMA StepsLeftType ==
  ASSUME TypeOK, WithinInput
  PROVE  StepsLeft \in Nat
<1>1. CallsLeft \in Nat
  BY DEF TypeOK, StreamCalls, CallsLeft
<1>2. MaxPrices - Len(quotes) \in Nat
  BY Shapes, PricingBoundsAssumption DEF WithinInput
<1> QED
  BY <1>1, <1>2 DEF StepsLeft

\* Every line has been streamed once main is past prices.txt.
EndIsComplete ==
  stage = "Ended" => pc = "Main" /\ Len(streamingFile) = Len(quotes)

\* No run is longer than five steps per line of prices.txt and one, and its end
\* finds every price streamed: what EndsWithEveryStream says main reaches,
\* without the reaching.
THEOREM EndCorrect ==
  Spec => /\ []EndIsComplete
          /\ [](StepsLeft \in Nat)
          /\ [][StepsLeft' < StepsLeft]_vars
<1>1. Init => WithinInput
  BY PricingBoundsAssumption DEF Init, WithinInput
<1>2. IInv /\ WithinInput /\ [Next]_vars => WithinInput'
  <2> SUFFICES ASSUME IInv, WithinInput, [Next]_vars PROVE WithinInput'
    OBVIOUS
  <2>1. CASE Next
    BY <2>1, StepsLeftStep DEF IInv
  <2>2. CASE UNCHANGED vars
    BY <2>2 DEF vars, WithinInput
  <2> QED
    BY <2>1, <2>2
<1>3. IInv /\ WithinInput /\ [Next]_vars => [StepsLeft' < StepsLeft]_vars
  BY StepsLeftStep DEF IInv
<1>4. IInv /\ WithinInput => StepsLeft \in Nat
  BY StepsLeftType DEF IInv
<1>5. IInv /\ WithinInput => EndIsComplete
  <2> SUFFICES ASSUME IInv, WithinInput, stage = "Ended" PROVE EndIsComplete
    BY DEF EndIsComplete
  <2>1. pc = "Main" /\ Len(streamingFile) \in Nat
    BY Shapes DEF IInv, WithinInput
  <2> QED
    BY <2>1 DEF IInv, StreamingFileRepeatsQuotes, StreamCalls, EndIsComplete
<1> QED
  BY <1>1, <1>2, <1>3, <1>4, <1>5, Invariant, PTL DEF Spec
=============================================================================
