---------------------- MODULE MarketDataConnectorProofs ----------------------
(***************************************************************************)
(* Proofs about MarketDataConnector, for every depth of book and every     *)
(* file: the books it delivers are the runs of lines of marketdata.txt.    *)
(***************************************************************************)
EXTENDS MarketDataConnector, DataTheorems

-----------------------------------------------------------------------------
(***************************************************************************)
(* The inductive invariant.                                                *)
(***************************************************************************)

\* How many lines the books delivered took.
Framed == LinesPerBook * Len(delivered)

\* The lines of the book being read, or of the one about to be delivered.
OpenLines == SubSeq(linesRead, Framed + 1, Len(linesRead))

\* A book is made at once when it has its lines, before another line is read.
FramesMeet ==
  /\ lineCount = Len(linesRead)
  /\ Framed <= Len(linesRead)
  /\ pc = "Main" => Len(linesRead) < Framed + LinesPerBook
  /\ pc = "OnMessage" =>
       stage = "Market" /\ Len(linesRead) = Framed + LinesPerBook

\* The stacks hold what was read of the book, and the book about to be
\* delivered is made of them.
StacksAreOpenLines ==
  /\ stage = "Market" =>
       /\ IsSideOf(bidStack, OpenLines, "BID")
       /\ IsSideOf(offerStack, OpenLines, "OFFER")
  /\ pc = "OnMessage" =>
       /\ orderBook.product = GetBond(linesRead[Len(linesRead)].cusip)
       /\ orderBook.bidStack = bidStack /\ orderBook.offerStack = offerStack

\* What BooksAreRunsOfLines says of a book.
IsRun(book, k) ==
  /\ book.product = GetBond(linesRead[k * LinesPerBook].cusip)
  /\ IsSideOf(book.bidStack, LinesOf(k), "BID")
  /\ IsSideOf(book.offerStack, LinesOf(k), "OFFER")

\* BooksAreRunsOfLines is not inductive: it rests on the stacks.
IInv ==
  /\ TypeOK
  /\ FramesMeet
  /\ StacksAreOpenLines
  /\ \A k \in DOMAIN delivered : IsRun(delivered[k], k)

-----------------------------------------------------------------------------
(***************************************************************************)
(* A side of some lines.                                                   *)
(***************************************************************************)

\* The count of a side is a number, and does not fall from line to line.
LEMMA CountGrows ==
  ASSUME NEW side, NEW lines, NEW n \in Nat
  PROVE  /\ CountOf(side, lines, n) \in Nat
         /\ \A m \in 0..n : CountOf(side, lines, m) <= CountOf(side, lines, n)
<1> DEFINE Places(m) == {i \in 1..m : lines[i].side = side}
<1>1. IsFiniteSet(1..n)
  BY FS_Interval
<1>2. Places(n) \in SUBSET (1..n)
  OBVIOUS
<1>3. IsFiniteSet(Places(n))
  BY <1>1, <1>2, FS_Subset
<1>4. ASSUME NEW m \in 0..n
      PROVE  Cardinality(Places(m)) <= Cardinality(Places(n))
  <2>1. Places(m) \in SUBSET Places(n)
    OBVIOUS
  <2> QED
    BY <1>3, <2>1, FS_Subset
<1> QED
  BY <1>3, <1>4, FS_CardinalityType, Zenon DEF CountOf

\* A line counts for its own side only.
LEMMA CountOfNext ==
  ASSUME NEW side, NEW lines, NEW n \in Nat
  PROVE  CountOf(side, lines, n + 1) =
           IF lines[n + 1].side = side THEN CountOf(side, lines, n) + 1
           ELSE CountOf(side, lines, n)
<1> DEFINE Places(m) == {i \in 1..m : lines[i].side = side}
<1>1. IsFiniteSet(1..n)
  BY FS_Interval
<1>2. Places(n) \in SUBSET (1..n)
  OBVIOUS
<1>3. IsFiniteSet(Places(n)) /\ n + 1 \notin Places(n)
  BY <1>1, <1>2, FS_Subset
<1>4. CASE lines[n + 1].side = side
  <2>1. Places(n + 1) = Places(n) \cup {n + 1}
    BY <1>4
  <2>2. Cardinality(Places(n + 1)) = Cardinality(Places(n)) + 1
    <3> HIDE DEF Places
    <3> QED
      BY <1>3, <2>1, FS_AddElement
  <2> QED
    BY <1>4, <2>2, Zenon DEF CountOf
<1>5. CASE lines[n + 1].side # side
  <2>1. Places(n + 1) = Places(n)
    BY <1>5
  <2> QED
    BY <1>5, <2>1, Zenon DEF CountOf
<1> QED
  BY <1>4, <1>5

\* Counting looks at the lines before only.
LEMMA CountOfPrefix ==
  ASSUME NEW side, NEW lines, NEW more, NEW n \in Nat,
         \A i \in 1..n : more[i] = lines[i]
  PROVE  CountOf(side, more, n) = CountOf(side, lines, n)
<1>1. {i \in 1..n : more[i].side = side} = {i \in 1..n : lines[i].side = side}
  OBVIOUS
<1> QED
  BY <1>1 DEF CountOf

\* The empty stack is each side of no lines.
LEMMA NoLines ==
  ASSUME NEW side
  PROVE  IsSideOf(<< >>, << >>, side)
<1>1. {i \in 1..0 : << >>[i].side = side} = {}
  OBVIOUS
<1>2. CountOf(side, << >>, 0) = 0
  BY <1>1, FS_EmptySet DEF CountOf
<1> QED
  BY <1>2 DEF IsSideOf

\* Pushing the order of a line keeps a stack the side of the lines read.
LEMMA PushedIsSide ==
  ASSUME NEW side, NEW lines \in Seq(MarketDataLines),
         NEW line \in MarketDataLines, NEW stack \in Seq(Orders),
         IsSideOf(stack, lines, side)
  PROVE  /\ Pushed(stack, line, side) \in Seq(Orders)
         /\ IsSideOf(Pushed(stack, line, side), Append(lines, line), side)
<1> DEFINE n == Len(lines)
           more == Append(lines, line)
           order == OrderOfLine(line)
           pushed == Pushed(stack, line, side)
           Count(m) == CountOf(side, lines, m)
<1>1. /\ n \in Nat /\ DOMAIN lines = 1..n /\ DOMAIN more = 1..(n + 1)
      /\ Len(more) = n + 1 /\ more[n + 1] = line
      /\ \A i \in 1..n : more[i] = lines[i]
  OBVIOUS
<1>2. order \in Orders
  BY MarketDataAssumption DEF OrderOfLine, Orders
<1>3. /\ Len(stack) = Count(n)
      /\ \A i \in 1..n :
           lines[i].side = side => stack[Count(i)] = OrderOfLine(lines[i])
  BY <1>1 DEF IsSideOf
<1>4. \A i \in 0..n : CountOf(side, more, i) = Count(i)
  <2> SUFFICES ASSUME NEW i \in 0..n PROVE CountOf(side, more, i) = Count(i)
    OBVIOUS
  <2> HIDE DEF more, n
  <2>1. \A j \in 1..i : more[j] = lines[j]
    BY <1>1
  <2> QED
    BY <1>1, <2>1, CountOfPrefix
<1>5. CountOf(side, more, n + 1) =
        IF line.side = side THEN Count(n) + 1 ELSE Count(n)
  <2> HIDE DEF more, n
  <2> QED
    BY <1>1, <1>4, CountOfNext
<1>6. \A i \in 1..n : lines[i].side = side => Count(i) \in 1..Count(n)
  <2> SUFFICES ASSUME NEW i \in 1..n, lines[i].side = side
               PROVE  Count(i) \in 1..Count(n)
    OBVIOUS
  <2> HIDE DEF n
  <2>1. PICK j \in Nat : i = j + 1
    <3>1. i - 1 \in Nat /\ i = (i - 1) + 1
      BY <1>1
    <3> QED
      BY <3>1
  <2>2. Count(i) = Count(j) + 1 /\ Count(j) \in Nat
    BY <2>1, CountOfNext, CountGrows
  <2>3. Count(i) <= Count(n) /\ Count(n) \in Nat
    BY <1>1, CountGrows
  <2> QED
    BY <2>2, <2>3
<1>7. /\ pushed \in Seq(Orders) /\ Len(pushed) = CountOf(side, more, n + 1)
      /\ \A i \in 1..Count(n) : pushed[i] = stack[i]
      /\ line.side = side => pushed[Count(n) + 1] = order
  <2>1. CASE line.side = side
    <3>1. pushed = Append(stack, order)
      BY <2>1 DEF Pushed
    <3>2. /\ Len(Append(stack, order)) = Len(stack) + 1
          /\ \A i \in 1..Len(stack) : Append(stack, order)[i] = stack[i]
          /\ Append(stack, order)[Len(stack) + 1] = order
          /\ Append(stack, order) \in Seq(Orders)
      BY <1>2, AppendProperties
    <3> QED
      BY <1>3, <1>5, <2>1, <3>1, <3>2
  <2>2. CASE line.side # side
    BY <1>3, <1>5, <2>2 DEF Pushed
  <2> QED
    BY <2>1, <2>2
<1>8. ASSUME NEW i \in DOMAIN more, more[i].side = side
      PROVE  pushed[CountOf(side, more, i)] = OrderOfLine(more[i])
  <2>1. CASE i = n + 1
    BY <1>1, <1>5, <1>7, <1>8, <2>1
  <2>2. CASE i \in 1..n
    <3>1. more[i] = lines[i] /\ CountOf(side, more, i) = Count(i)
      BY <1>1, <1>4, <2>2
    <3>2. Count(i) \in 1..Count(n) /\ stack[Count(i)] = OrderOfLine(lines[i])
      BY <1>3, <1>6, <1>8, <2>2, <3>1
    <3> HIDE DEF more, n, pushed
    <3> QED
      BY <1>7, <3>1, <3>2
  <2>3. i = n + 1 \/ i \in 1..n
    BY <1>1
  <2> QED
    BY <2>1, <2>2, <2>3
<1> QED
  BY <1>1, <1>7, <1>8 DEF IsSideOf

-----------------------------------------------------------------------------
(***************************************************************************)
(* Runs of lines.                                                          *)
(***************************************************************************)

\* A book takes at least a line, and one book more takes as many lines more.
LEMMA BookSize ==
  /\ LinesPerBook \in Nat \ {0}
  /\ \A d \in Nat : /\ LinesPerBook * d \in Nat
                    /\ LinesPerBook * (d + 1) = LinesPerBook * d + LinesPerBook
<1>1. LinesPerBook \in Nat \ {0}
  BY MarketDataAssumption DEF LinesPerBook
<1> QED
  BY <1>1

\* The lines of each of d books are among those the d books took.
LEMMA RunBounds ==
  ASSUME NEW size \in Nat \ {0}, NEW d \in Nat, NEW k \in 1..d, NEW n \in Nat,
         size * d <= n
  PROVE  /\ (k - 1) * size + 1 \in 1..(n + 1)
         /\ k * size \in 0..n /\ k * size \in 1..n
<1>1. PICK j \in Nat : k = j + 1
  <2>1. k - 1 \in Nat /\ k = (k - 1) + 1
    OBVIOUS
  <2> QED
    BY <2>1
<1>2. PICK i \in Nat : d = k + i
  <2>1. d - k \in Nat /\ d = k + (d - k)
    OBVIOUS
  <2> QED
    BY <2>1
<1>3. /\ (k - 1) * size = j * size /\ k * size = j * size + size
      /\ size * d = k * size + i * size
  <2>1. k - 1 = j
    BY <1>1
  <2>2. k * size = j * size + size
    BY <1>1
  <2>3. size * d = k * size + i * size
    BY <1>2
  <2> QED
    BY <2>1, <2>2, <2>3
<1>4. PICK a \in Nat : a = j * size
  OBVIOUS
<1>5. PICK b \in Nat : b = i * size
  OBVIOUS
<1> QED
  BY <1>3, <1>4, <1>5

\* Appending a line leaves the runs before it as they were, and makes an open
\* run one line longer.
LEMMA RunsOfAppend ==
  ASSUME NEW S, NEW s \in Seq(S), NEW e \in S, NEW m \in 1..(Len(s) + 1)
  PROVE  /\ \A n \in 0..Len(s) : SubSeq(Append(s, e), m, n) = SubSeq(s, m, n)
         /\ SubSeq(s, m, Len(s)) \in Seq(S)
         /\ SubSeq(Append(s, e), m, Len(s) + 1)
              = Append(SubSeq(s, m, Len(s)), e)
<1> DEFINE t == Append(s, e)
           open == SubSeq(s, m, Len(s))
           longer == SubSeq(t, m, Len(s) + 1)
<1>1. /\ Len(s) \in Nat /\ m \in Nat \ {0}
      /\ \A i \in 1..Len(s) : s[i] \in S
  OBVIOUS
<1>2. /\ t \in Seq(S) /\ Len(t) = Len(s) + 1 /\ t[Len(s) + 1] = e
      /\ \A i \in 1..Len(s) : t[i] = s[i]
      /\ \A i \in 1..(Len(s) + 1) : t[i] \in S
  OBVIOUS
<1> HIDE DEF t
<1>3. ASSUME NEW n \in 0..Len(s) PROVE SubSeq(t, m, n) = SubSeq(s, m, n)
  <2> DEFINE size == IF m <= n THEN n - m + 1 ELSE 0
             x == SubSeq(t, m, n)
             y == SubSeq(s, m, n)
  <2>1. \A i \in m..n : i \in 1..Len(s)
    BY <1>1
  <2>2. x \in Seq(S) /\ Len(x) = size /\ \A i \in 1..(n - m + 1) : x[i] = t[m + i - 1]
    <3>1. n \in Int /\ m \in Int /\ \A i \in m..n : t[i] \in S
      BY <1>1, <1>2, <2>1
    <3> QED
      BY <3>1, SubSeqProperties
  <2>3. y \in Seq(S) /\ Len(y) = size /\ \A i \in 1..(n - m + 1) : y[i] = s[m + i - 1]
    <3>1. n \in Int /\ m \in Int /\ \A i \in m..n : s[i] \in S
      BY <1>1, <2>1
    <3> QED
      BY <3>1, SubSeqProperties
  <2>4. \A i \in 1..size : i \in 1..(n - m + 1) /\ m + i - 1 \in 1..Len(s)
    BY <1>1
  <2> HIDE DEF x, y
  <2>5. \A i \in 1..size : x[i] = y[i]
    BY <1>2, <2>2, <2>3, <2>4
  <2> HIDE DEF size
  <2> QED
    <3>1. x = y
      BY <2>2, <2>3, <2>5, SeqEqual
    <3> QED
      BY <3>1 DEF x, y
<1>4. /\ open \in Seq(S) /\ Len(open) = Len(s) + 1 - m
      /\ \A i \in 1..(Len(s) + 1 - m) : open[i] = s[m + i - 1]
  <2>1. \A i \in m..Len(s) : s[i] \in S
    BY <1>1
  <2>2. /\ open \in Seq(S)
        /\ Len(open) = IF m <= Len(s) THEN Len(s) - m + 1 ELSE 0
        /\ \A i \in 1..(Len(s) - m + 1) : open[i] = s[m + i - 1]
    BY <1>1, <2>1, SubSeqProperties
  <2>3. Len(s) - m + 1 = Len(s) + 1 - m
    BY <1>1
  <2> HIDE DEF open
  <2> QED
    BY <1>1, <2>2, <2>3
<1>5. /\ longer \in Seq(S) /\ Len(longer) = Len(s) + 2 - m
      /\ \A i \in 1..(Len(s) + 2 - m) : longer[i] = t[m + i - 1]
  <2>1. \A i \in m..(Len(s) + 1) : t[i] \in S
    BY <1>1, <1>2
  <2>2. /\ longer \in Seq(S)
        /\ Len(longer) = IF m <= Len(s) + 1 THEN (Len(s) + 1) - m + 1 ELSE 0
        /\ \A i \in 1..((Len(s) + 1) - m + 1) : longer[i] = t[m + i - 1]
    BY <1>1, <2>1, SubSeqProperties
  <2>3. (Len(s) + 1) - m + 1 = Len(s) + 2 - m
    BY <1>1
  <2> HIDE DEF longer
  <2> QED
    BY <1>1, <2>2, <2>3
<1>6. longer = Append(open, e)
  <2> HIDE DEF open, longer
  <2>1. /\ Append(open, e) \in Seq(S) /\ Len(Append(open, e)) = Len(s) + 2 - m
        /\ \A i \in 1..(Len(s) + 1 - m) : Append(open, e)[i] = open[i]
        /\ Append(open, e)[Len(s) + 2 - m] = e
    <3>1. /\ Append(open, e) \in Seq(S) /\ Len(Append(open, e)) = Len(open) + 1
          /\ \A i \in 1..Len(open) : Append(open, e)[i] = open[i]
          /\ Append(open, e)[Len(open) + 1] = e
      BY <1>4, AppendProperties
    <3>2. Len(open) + 1 = Len(s) + 2 - m
      BY <1>1, <1>4
    <3> QED
      BY <1>4, <3>1, <3>2
  <2>2. ASSUME NEW i \in 1..(Len(s) + 2 - m) PROVE longer[i] = Append(open, e)[i]
    <3>1. CASE i = Len(s) + 2 - m
      <4>1. m + i - 1 = Len(s) + 1
        BY <1>1, <3>1
      <4>2. longer[i] = t[Len(s) + 1]
        BY <1>5, <4>1
      <4> QED
        BY <1>2, <2>1, <3>1, <4>2
    <3>2. CASE i # Len(s) + 2 - m
      <4>1. i \in 1..(Len(s) + 1 - m) /\ m + i - 1 \in 1..Len(s)
        BY <1>1, <3>2
      <4> QED
        BY <1>2, <1>4, <1>5, <2>1, <4>1
    <3> QED
      BY <3>1, <3>2
  <2> QED
    BY <1>5, <2>1, <2>2, SeqEqual
<1> QED
  BY <1>3, <1>4, <1>6 DEF t

-----------------------------------------------------------------------------
(***************************************************************************)
(* The initial state.                                                      *)
(***************************************************************************)

\* No line is read and no book is made.
LEMMA InitIInv == Init => IInv
<1> SUFFICES ASSUME Init PROVE IInv
  OBVIOUS
<1>1. TypeOK
  BY DEF Init, TypeOK
<1>2. Len(linesRead) = 0 /\ Framed = 0 /\ linesRead = << >>
  BY BookSize DEF Init, Framed
<1>3. FramesMeet
  BY <1>2, BookSize DEF FramesMeet, Init
<1>4. OpenLines = << >>
  BY <1>2, SubSeqEmpty DEF OpenLines
<1>5. StacksAreOpenLines
  BY <1>4, NoLines DEF Init, StacksAreOpenLines
<1>6. \A k \in DOMAIN delivered : IsRun(delivered[k], k)
  BY DEF Init
<1> QED
  BY <1>1, <1>3, <1>5, <1>6 DEF IInv

-----------------------------------------------------------------------------
(***************************************************************************)
(* A line is read.                                                         *)
(***************************************************************************)

\* What reading a line does, the line named.
ReadsLine(line) ==
  /\ pc = "Main" /\ stage = "Market"
  /\ lineCount' = lineCount + 1
  /\ linesRead' = Append(linesRead, line)
  /\ bidStack' = Pushed(bidStack, line, "BID")
  /\ offerStack' = Pushed(offerStack, line, "OFFER")
  /\ IF lineCount' % LinesPerBook = 0
     THEN /\ orderBook' = [product |-> GetBond(line.cusip),
                           bidStack |-> bidStack', offerStack |-> offerStack']
          /\ pc' = "OnMessage"
     ELSE UNCHANGED <<orderBook, pc>>
  /\ UNCHANGED <<stage, delivered>>

\* The action reads some line of those the file may hold.
LEMMA ReadLineReads ==
  ASSUME ReadLine
  PROVE  \E line \in MarketDataLines : ReadsLine(line)
  BY DEF ReadLine, ReadsLine

\* The remainder tells the last line of a book, and no other.
LEMMA LastOfBook ==
  ASSUME IInv, NEW line \in MarketDataLines, ReadsLine(line)
  PROVE  /\ Len(linesRead) \in Nat /\ Framed \in Nat
         /\ Len(linesRead') = Len(linesRead) + 1
         /\ lineCount' % LinesPerBook = 0
              <=> Len(linesRead') = Framed + LinesPerBook
<1> PICK size : size = LinesPerBook
  OBVIOUS
<1> PICK d : d = Len(delivered)
  OBVIOUS
<1> PICK n : n = Len(linesRead)
  OBVIOUS
<1>1. /\ size \in Nat \ {0} /\ d \in Nat /\ n \in Nat
      /\ Framed = size * d /\ size * d \in Nat
  BY BookSize DEF IInv, TypeOK, Framed
<1>2. Len(linesRead') = n + 1
  BY AppendProperties DEF IInv, TypeOK, ReadsLine
<1>3. lineCount' = n + 1 /\ size * d <= n /\ n < size * d + size
  BY <1>1 DEF IInv, FramesMeet, ReadsLine
<1>4. PICK f \in Nat : f = size * d
  BY <1>1
<1>5. CASE n + 1 = f + size
  <2>1. size * (d + 1) + 0 = f + size /\ 0 \in 0..(size - 1) /\ d + 1 \in Int
    BY <1>1, <1>4
  <2>2. (size * (d + 1) + 0) % size = 0
    BY <1>1, <2>1, DivModUnique
  <2>3. (f + size) % size = 0
    BY <2>1, <2>2, Zenon
  <2>4. lineCount' = f + size
    BY <1>3, <1>5
  <2>5. lineCount' % size = 0
    BY <2>3, <2>4, Zenon
  <2> QED
    BY <1>1, <1>2, <1>4, <1>5, <2>5
<1>6. CASE n + 1 # f + size
  <2>1. PICK r \in 1..(size - 1) : n + 1 = f + r
    <3>1. n + 1 - f \in 1..(size - 1) /\ n + 1 = f + (n + 1 - f)
      BY <1>1, <1>3, <1>4, <1>6
    <3> QED
      BY <3>1
  <2>2. r \in 0..(size - 1) /\ d \in Int /\ r # 0
    BY <1>1
  <2>3. (size * d + r) % size = r
    BY <1>1, <2>2, DivModUnique
  <2>4. lineCount' = size * d + r
    BY <1>3, <1>4, <2>1
  <2>5. lineCount' % size = r
    BY <2>3, <2>4, Zenon
  <2> QED
    BY <1>1, <1>2, <1>4, <1>6, <2>2, <2>5
<1> QED
  BY <1>5, <1>6

\* The open lines grow by the line read, and the books delivered keep theirs.
LEMMA ReadLineRuns ==
  ASSUME IInv, NEW line \in MarketDataLines, ReadsLine(line)
  PROVE  /\ OpenLines \in Seq(MarketDataLines)
         /\ OpenLines' = Append(OpenLines, line)
         /\ linesRead'[Len(linesRead')] = line
         /\ \A k \in DOMAIN delivered :
              /\ LinesOf(k)' = LinesOf(k)
              /\ linesRead'[k * LinesPerBook] = linesRead[k * LinesPerBook]
<1> PICK s : s = linesRead
  OBVIOUS
<1> PICK size : size = LinesPerBook
  OBVIOUS
<1> PICK f : f = Framed
  OBVIOUS
<1>1. /\ s \in Seq(MarketDataLines) /\ Len(s) \in Nat /\ f \in Nat /\ f <= Len(s)
      /\ delivered \in Seq(OrderBooks) /\ delivered' = delivered
      /\ linesRead' = Append(s, line) /\ Len(Append(s, line)) = Len(s) + 1
  BY LastOfBook DEF IInv, TypeOK, FramesMeet, ReadsLine
<1>2. Framed' = f
  BY <1>1 DEF Framed
<1>3. f + 1 \in 1..(Len(s) + 1)
  BY <1>1
<1>4. /\ SubSeq(s, f + 1, Len(s)) \in Seq(MarketDataLines)
      /\ SubSeq(Append(s, line), f + 1, Len(s) + 1)
           = Append(SubSeq(s, f + 1, Len(s)), line)
  BY <1>1, <1>3, RunsOfAppend
<1>5. OpenLines \in Seq(MarketDataLines) /\ OpenLines' = Append(OpenLines, line)
  BY <1>1, <1>2, <1>4 DEF OpenLines
<1>6. linesRead'[Len(linesRead')] = line
  BY <1>1
<1>7. ASSUME NEW k \in DOMAIN delivered
      PROVE  /\ LinesOf(k)' = LinesOf(k)
             /\ linesRead'[k * LinesPerBook] = linesRead[k * LinesPerBook]
  <2>1. /\ (k - 1) * size + 1 \in 1..(Len(s) + 1) /\ k * size \in 0..Len(s)
        /\ k * size \in 1..Len(s)
    <3>1. PICK d \in Nat : d = Len(delivered)
      BY <1>1
    <3>2. k \in 1..d /\ size \in Nat \ {0} /\ f = size * d
      BY <1>1, <3>1, BookSize DEF Framed
    <3> QED
      BY <1>1, <3>2, RunBounds
  <2>2. SubSeq(Append(s, line), (k - 1) * size + 1, k * size)
          = SubSeq(s, (k - 1) * size + 1, k * size)
    <3>1. PICK first \in 1..(Len(s) + 1) : first = (k - 1) * size + 1
      BY <2>1
    <3>2. PICK last \in 0..Len(s) : last = k * size
      BY <2>1
    <3>3. SubSeq(Append(s, line), first, last) = SubSeq(s, first, last)
      BY <1>1, RunsOfAppend
    <3> QED
      BY <3>1, <3>2, <3>3
  <2>3. LinesOf(k)' = LinesOf(k)
    BY <1>1, <2>2 DEF LinesOf
  <2>4. Append(s, line)[k * size] = s[k * size]
    BY <1>1, <2>1, AppendProperties
  <2> QED
    BY <1>1, <2>3, <2>4
<1> QED
  BY <1>5, <1>6, <1>7

\* The types are kept.
LEMMA ReadLineType ==
  ASSUME IInv, NEW line \in MarketDataLines, ReadsLine(line)
  PROVE  TypeOK'
<1>1. /\ TypeOK /\ pc = "Main" /\ stage = "Market"
      /\ bidStack \in Seq(Orders) /\ offerStack \in Seq(Orders)
  BY DEF IInv, TypeOK, ReadsLine
<1>2. OrderOfLine(line) \in Orders /\ GetBond(line.cusip) \in ProductIds
  BY MarketDataAssumption DEF OrderOfLine, Orders, GetBond, ProductIds
<1>3. bidStack' \in Seq(Orders) /\ offerStack' \in Seq(Orders)
  BY <1>1, <1>2, AppendProperties DEF ReadsLine, Pushed
<1>4. linesRead' \in Seq(MarketDataLines)
  BY <1>1, AppendProperties DEF ReadsLine, TypeOK
<1>5. /\ pc' \in {"Main", "OnMessage"}
      /\ pc' = "OnMessage" => orderBook' \in OrderBooks
  BY <1>1, <1>2, <1>3 DEF ReadsLine, OrderBooks
<1>6. lineCount' \in Nat /\ stage' = stage /\ delivered' = delivered
  BY <1>1 DEF ReadsLine, TypeOK
<1> QED
  BY <1>1, <1>3, <1>4, <1>5, <1>6 DEF TypeOK

\* Reading a line keeps the invariant.
LEMMA ReadLineKeeps ==
  ASSUME IInv, ReadLine
  PROVE  IInv'
<1> PICK line \in MarketDataLines : ReadsLine(line)
  BY ReadLineReads
<1>1. TypeOK'
  BY ReadLineType
<1>2. /\ pc = "Main" /\ stage = "Market" /\ stage' = stage
      /\ delivered' = delivered /\ lineCount' = lineCount + 1
      /\ TypeOK /\ FramesMeet /\ StacksAreOpenLines
  BY DEF IInv, ReadsLine
<1>3. Framed' = Framed
  BY <1>2 DEF Framed
<1>4. pc' = IF Len(linesRead') = Framed + LinesPerBook THEN "OnMessage" ELSE "Main"
  BY <1>2, LastOfBook DEF ReadsLine
<1>5. FramesMeet'
  BY <1>2, <1>3, <1>4, LastOfBook, BookSize DEF FramesMeet
<1>6. /\ IsSideOf(bidStack', OpenLines', "BID")
      /\ IsSideOf(offerStack', OpenLines', "OFFER")
  <2>1. PICK open \in Seq(MarketDataLines) : open = OpenLines
    BY ReadLineRuns
  <2>2. PICK bids \in Seq(Orders) : bids = bidStack
    BY <1>2 DEF TypeOK
  <2>3. PICK offers \in Seq(Orders) : offers = offerStack
    BY <1>2 DEF TypeOK
  <2>4. IsSideOf(bids, open, "BID") /\ IsSideOf(offers, open, "OFFER")
    BY <1>2, <2>1, <2>2, <2>3 DEF StacksAreOpenLines
  <2>5. /\ IsSideOf(Pushed(bids, line, "BID"), Append(open, line), "BID")
        /\ IsSideOf(Pushed(offers, line, "OFFER"), Append(open, line), "OFFER")
    BY <2>4, PushedIsSide
  <2>6. OpenLines' = Append(open, line)
    BY <2>1, ReadLineRuns
  <2>7. /\ bidStack' = Pushed(bids, line, "BID")
        /\ offerStack' = Pushed(offers, line, "OFFER")
    BY <2>2, <2>3 DEF ReadsLine
  <2> QED
    BY <2>5, <2>6, <2>7
<1>7. StacksAreOpenLines'
  <2>1. ASSUME pc' = "OnMessage"
        PROVE  /\ orderBook'.product = GetBond(linesRead'[Len(linesRead')].cusip)
               /\ orderBook'.bidStack = bidStack'
               /\ orderBook'.offerStack = offerStack'
    <3>1. orderBook' = [product |-> GetBond(line.cusip),
                        bidStack |-> bidStack', offerStack |-> offerStack']
      BY <1>2, <2>1 DEF ReadsLine
    <3> QED
      BY <3>1, ReadLineRuns
  <2> QED
    BY <1>6, <2>1 DEF StacksAreOpenLines
<1>8. (\A k \in DOMAIN delivered : IsRun(delivered[k], k))'
  <2> SUFFICES ASSUME NEW k \in DOMAIN delivered
               PROVE  IsRun(delivered[k], k)'
    BY <1>2
  <2>1. IsRun(delivered[k], k)
    BY DEF IInv
  <2>2. LinesOf(k)' = LinesOf(k)
        /\ linesRead'[k * LinesPerBook] = linesRead[k * LinesPerBook]
    BY ReadLineRuns
  <2> QED
    BY <1>2, <2>1, <2>2 DEF IsRun
<1> QED
  BY <1>1, <1>5, <1>7, <1>8 DEF IInv

-----------------------------------------------------------------------------
(***************************************************************************)
(* A book is delivered.                                                    *)
(***************************************************************************)

\* The book delivered takes the open lines and leaves none; the invariant
\* holds of the next book, of which nothing is read.
LEMMA DeliverBookKeeps ==
  ASSUME IInv, DeliverBook
  PROVE  IInv'
<1>1. /\ TypeOK /\ FramesMeet /\ StacksAreOpenLines
      /\ pc = "OnMessage" /\ stage = "Market" /\ pc' = "Main" /\ stage' = "Market"
      /\ orderBook \in OrderBooks /\ delivered \in Seq(OrderBooks)
      /\ linesRead \in Seq(MarketDataLines) /\ Len(linesRead) \in Nat
      /\ delivered' = Append(delivered, orderBook)
      /\ bidStack' = << >> /\ offerStack' = << >>
      /\ lineCount' = lineCount /\ linesRead' = linesRead
  BY DEF IInv, TypeOK, FramesMeet, DeliverBook
<1> PICK d \in Nat : d = Len(delivered)
  BY <1>1
<1> PICK n \in Nat : n = Len(linesRead)
  BY <1>1
<1>2. /\ delivered' \in Seq(OrderBooks) /\ Len(delivered') = d + 1
      /\ DOMAIN delivered' = 1..(d + 1) /\ DOMAIN delivered = 1..d
      /\ delivered'[d + 1] = orderBook
      /\ \A k \in 1..d : delivered'[k] = delivered[k]
  BY <1>1, AppendProperties
<1>3. TypeOK'
  BY <1>1, <1>2 DEF TypeOK
<1>4. /\ LinesPerBook \in Nat \ {0} /\ Framed = LinesPerBook * d /\ Framed \in Nat
      /\ Framed' = Framed + LinesPerBook /\ n = Framed + LinesPerBook
  <2>1. LinesPerBook * d \in Nat /\ LinesPerBook * (d + 1) = LinesPerBook * d + LinesPerBook
    BY BookSize
  <2>2. Framed' = LinesPerBook * (d + 1)
    BY <1>2 DEF Framed
  <2> QED
    BY <1>1, <2>1, <2>2, BookSize DEF Framed, FramesMeet
<1>5. FramesMeet'
  BY <1>1, <1>4 DEF FramesMeet
<1>6. OpenLines' = << >>
  <2>1. SubSeq(linesRead, n + 1, n) = << >>
    BY SubSeqEmpty
  <2> QED
    BY <1>1, <1>4, <2>1 DEF OpenLines
<1>7. StacksAreOpenLines'
  BY <1>1, <1>6, NoLines DEF StacksAreOpenLines
<1>8. (\A k \in DOMAIN delivered : IsRun(delivered[k], k))'
  <2> SUFFICES ASSUME NEW k \in 1..(d + 1) PROVE IsRun(delivered[k], k)'
    BY <1>2
  <2>1. LinesOf(k)' = LinesOf(k) /\ linesRead' = linesRead
    BY <1>1 DEF LinesOf
  <2>2. CASE k \in 1..d
    <3>1. IsRun(delivered[k], k)
      BY <1>2, <2>2 DEF IInv
    <3> QED
      BY <1>2, <2>1, <2>2, <3>1 DEF IsRun
  <2>3. CASE k = d + 1
    <3>1. k * LinesPerBook = n /\ (k - 1) * LinesPerBook + 1 = Framed + 1
      BY <1>4, <2>3
    <3>2. LinesOf(k) = OpenLines
      BY <3>1 DEF LinesOf, OpenLines
    <3>3. /\ orderBook.product = GetBond(linesRead[k * LinesPerBook].cusip)
          /\ IsSideOf(orderBook.bidStack, LinesOf(k), "BID")
          /\ IsSideOf(orderBook.offerStack, LinesOf(k), "OFFER")
      BY <1>1, <3>1, <3>2 DEF StacksAreOpenLines
    <3> QED
      BY <1>2, <2>1, <2>3, <3>3 DEF IsRun
  <2> QED
    BY <2>2, <2>3
<1> QED
  BY <1>3, <1>5, <1>7, <1>8 DEF IInv

-----------------------------------------------------------------------------
(***************************************************************************)
(* The theorems.                                                           *)
(***************************************************************************)

\* At the end of the file the stacks are dropped, and no book is open.
LEMMA EndOfFileKeeps ==
  ASSUME IInv, EndOfFile
  PROVE  IInv'
<1>1. /\ lineCount' = lineCount /\ linesRead' = linesRead
      /\ delivered' = delivered /\ orderBook' = orderBook /\ pc' = pc
      /\ pc = "Main" /\ stage' = "Ended"
      /\ bidStack' = << >> /\ offerStack' = << >>
  BY DEF EndOfFile
<1>2. TypeOK'
  BY <1>1 DEF IInv, TypeOK
<1>3. FramesMeet'
  BY <1>1 DEF IInv, FramesMeet, Framed
<1>4. StacksAreOpenLines'
  BY <1>1 DEF StacksAreOpenLines
<1>5. (\A k \in DOMAIN delivered : IsRun(delivered[k], k))'
  BY <1>1 DEF IInv, IsRun, LinesOf
<1> QED
  BY <1>2, <1>3, <1>4, <1>5 DEF IInv

\* The strengthened invariant holds throughout: whatever lines the file holds,
\* MarketDataConnector::Subscribe keeps the books delivered, the stacks and
\* the count of lines in step with what was read.
THEOREM Invariant == Spec => []IInv
<1>1. IInv /\ [Next]_vars => IInv'
  <2> SUFFICES ASSUME IInv, [Next]_vars PROVE IInv'
    OBVIOUS
  <2>1. CASE ReadLine
    BY <2>1, ReadLineKeeps
  <2>2. CASE DeliverBook
    BY <2>2, DeliverBookKeeps
  <2>3. CASE EndOfFile
    BY <2>3, EndOfFileKeeps
  <2>4. CASE UNCHANGED vars
    <3>1. TypeOK'
      BY <2>4 DEF IInv, TypeOK, vars
    <3>2. FramesMeet'
      BY <2>4 DEF IInv, FramesMeet, Framed, vars
    <3>3. StacksAreOpenLines'
      BY <2>4 DEF IInv, StacksAreOpenLines, OpenLines, Framed, vars
    <3>4. (\A k \in DOMAIN delivered : IsRun(delivered[k], k))'
      BY <2>4 DEF IInv, IsRun, LinesOf, vars
    <3> QED
      BY <3>1, <3>2, <3>3, <3>4 DEF IInv
  <2> QED
    BY <2>1, <2>2, <2>3, <2>4 DEF Next
<1> QED
  BY InitIInv, <1>1, PTL DEF Spec

\* The locals of Subscribe and the books it makes have the types the code
\* gives them.
THEOREM TypeCorrect == Spec => []TypeOK
<1>1. IInv => TypeOK
  BY DEF IInv
<1> QED
  BY <1>1, Invariant, PTL

\* Every book OnMessage is called with is one run of lines of marketdata.txt,
\* split by side in order, for the product of the last line; as many are made
\* as the lines read allow.
THEOREM BooksCorrect == Spec => []BooksAreRunsOfLines
<1>1. IInv => BooksAreRunsOfLines
  <2> SUFFICES ASSUME IInv PROVE BooksAreRunsOfLines
    OBVIOUS
  <2> PICK size \in Nat \ {0} : size = LinesPerBook
    BY BookSize
  <2> PICK d \in Nat : d = Len(delivered)
    BY DEF IInv, TypeOK
  <2> PICK n \in Nat : n = Len(linesRead)
    BY DEF IInv, TypeOK
  <2>1. PICK f \in Nat : f = size * d /\ size * (d + 1) = f + size
    BY BookSize
  <2>2. /\ f <= n /\ pc \in {"Main", "OnMessage"}
        /\ pc = "Main" => n < f + size
        /\ pc = "OnMessage" => n = f + size
    BY <2>1 DEF IInv, TypeOK, FramesMeet, Framed
  <2>3. d + (IF pc = "OnMessage" THEN 1 ELSE 0) = n \div size
    <3>1. CASE pc = "Main"
      <4>1. PICK r \in 0..(size - 1) : n = f + r
        <5>1. n - f \in 0..(size - 1) /\ n = f + (n - f)
          BY <2>2, <3>1
        <5> QED
          BY <5>1
      <4>2. (size * d + r) \div size = d
        <5>1. d \in Int /\ r \in 0..(size - 1)
          OBVIOUS
        <5> QED
          BY <5>1, DivModUnique
      <4>3. size * d + r = n
        BY <2>1, <4>1
      <4>4. n \div size = d
        BY <4>2, <4>3, Zenon
      <4> QED
        BY <3>1, <4>4
    <3>2. CASE pc = "OnMessage"
      <4>1. (size * (d + 1) + 0) \div size = d + 1
        <5>1. d + 1 \in Int /\ 0 \in 0..(size - 1)
          OBVIOUS
        <5> QED
          BY <5>1, DivModUnique
      <4>2. size * (d + 1) + 0 = n
        BY <2>1, <2>2, <3>2
      <4>3. n \div size = d + 1
        BY <4>1, <4>2, Zenon
      <4> QED
        BY <3>2, <4>3
    <3> QED
      BY <2>2, <3>1, <3>2
  <2>4. \A k \in DOMAIN delivered : IsRun(delivered[k], k)
    BY DEF IInv
  <2> QED
    BY <2>3, <2>4 DEF BooksAreRunsOfLines, IsRun
<1> QED
  BY <1>1, Invariant, PTL
=============================================================================
