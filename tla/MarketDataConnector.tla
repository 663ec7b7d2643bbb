------------------------ MODULE MarketDataConnector -------------------------
(***************************************************************************)
(* How MarketDataConnector::Subscribe cuts marketdata.txt into order books.*)
(* A line is one order; a book ends where the count of lines is a multiple *)
(* of twice the depth, whatever products and sides the lines name.         *)
(* ExecutionFlow starts from the books that come out of it.                *)
(***************************************************************************)
EXTENDS Products, Integers, Sequences, FiniteSets

CONSTANTS
  BookDepth,          \* bookDepth: 5 in the code
  MarketDataLines,    \* the lines marketdata.txt may hold
  MaxLines,           \* the most it holds of them
  Null                \* what a local variable holds outside its scope

Sides == {"BID", "OFFER"}

ASSUME MarketDataAssumption ==
  /\ BookDepth \in Nat \ {0} /\ MaxLines \in Nat
  /\ MarketDataLines \subseteq
       [cusip : Cusips, price : Int, quantity : Int, side : Sides]

VARIABLES
  lineCount,          \* _count: lines read so far
  bidStack,           \* orders of the book being read
  offerStack,
  orderBook,          \* the argument of the call of OnMessage
  stage,              \* whether main is reading marketdata.txt or past it
  pc,                 \* "Main", or the call about to be made
  linesRead,          \* history: the lines read so far
  delivered           \* history: the books OnMessage was called with

vars == <<lineCount, bidStack, offerStack, orderBook, stage, pc, linesRead,
          delivered>>

\* _thread: how many lines make a book.
LinesPerBook == 2 * BookDepth

Orders == [price : Int, quantity : Int]
OrderBooks ==
  [product : ProductIds, bidStack : Seq(Orders), offerStack : Seq(Orders)]

OrderOfLine(line) == [price |-> line.price, quantity |-> line.quantity]

TypeOK ==
  /\ lineCount \in Nat
  /\ bidStack \in Seq(Orders) /\ offerStack \in Seq(Orders)
  /\ stage \in {"Market", "Ended"}
  /\ pc \in {"Main", "OnMessage"}
  /\ pc = "OnMessage" => orderBook \in OrderBooks
  /\ linesRead \in Seq(MarketDataLines)
  /\ delivered \in Seq(OrderBooks)

Init ==
  /\ lineCount = 0 /\ bidStack = << >> /\ offerStack = << >>
  /\ orderBook = Null /\ stage = "Market" /\ pc = "Main"
  /\ linesRead = << >> /\ delivered = << >>

-----------------------------------------------------------------------------
\* What a line adds to the stack of a side.
Pushed(stack, line, side) ==
  IF line.side = side THEN Append(stack, OrderOfLine(line)) ELSE stack

\* One line of marketdata.txt; the last line of a book makes it.
ReadLine ==
  /\ pc = "Main" /\ stage = "Market" /\ Len(linesRead) < MaxLines
  /\ lineCount' = lineCount + 1
  /\ \E line \in MarketDataLines :
       /\ linesRead' = Append(linesRead, line)
       /\ bidStack' = Pushed(bidStack, line, "BID")
       /\ offerStack' = Pushed(offerStack, line, "OFFER")
       /\ IF lineCount' % LinesPerBook = 0
          THEN /\ orderBook' = [product |-> GetBond(line.cusip),
                                bidStack |-> bidStack',
                                offerStack |-> offerStack']
               /\ pc' = "OnMessage"
          ELSE UNCHANGED <<orderBook, pc>>
  /\ UNCHANGED <<stage, delivered>>

\* Mutant of DeliverBook: the offers are carried over to the next book.
DeliverBookKeepsOffers ==
  /\ pc = "OnMessage"
  /\ delivered' = Append(delivered, orderBook)
  /\ bidStack' = << >>
  /\ orderBook' = Null /\ pc' = "Main"
  /\ UNCHANGED <<lineCount, offerStack, stage, linesRead>>

\* OnMessage takes the book; the stacks start again from nothing.
DeliverBook ==
  /\ pc = "OnMessage"
  /\ delivered' = Append(delivered, orderBook)
  /\ bidStack' = << >> /\ offerStack' = << >>
  /\ orderBook' = Null /\ pc' = "Main"
  /\ UNCHANGED <<lineCount, stage, linesRead>>

\* The end of the file: the stacks of a book not complete are dropped.
EndOfFile ==
  /\ pc = "Main" /\ stage = "Market"
  /\ stage' = "Ended" /\ bidStack' = << >> /\ offerStack' = << >>
  /\ UNCHANGED <<lineCount, orderBook, pc, linesRead, delivered>>

Next == ReadLine \/ DeliverBook \/ EndOfFile

Spec == Init /\ [][Next]_vars

-----------------------------------------------------------------------------
\* The lines of the k-th book of the file.
LinesOf(k) ==
  SubSeq(linesRead, (k - 1) * LinesPerBook + 1, k * LinesPerBook)

\* How many of the first n lines are of a side.
CountOf(side, lines, n) == Cardinality({i \in 1..n : lines[i].side = side})

\* A stack holds the orders of a side of some lines and no other, in the order
\* of the lines.
IsSideOf(stack, lines, side) ==
  /\ Len(stack) = CountOf(side, lines, Len(lines))
  /\ \A i \in DOMAIN lines :
       lines[i].side = side =>
         stack[CountOf(side, lines, i)] = OrderOfLine(lines[i])

\* The k-th book delivered is made of the k-th run of lines of the file and of
\* no other line, split by side in their order, for the product of the last:
\* nothing is left over from a book to the next.
BooksAreRunsOfLines ==
  /\ Len(delivered) + (IF pc = "OnMessage" THEN 1 ELSE 0)
       = Len(linesRead) \div LinesPerBook
  /\ \A k \in DOMAIN delivered :
       /\ delivered[k].product = GetBond(linesRead[k * LinesPerBook].cusip)
       /\ IsSideOf(delivered[k].bidStack, LinesOf(k), "BID")
       /\ IsSideOf(delivered[k].offerStack, LinesOf(k), "OFFER")
=============================================================================
