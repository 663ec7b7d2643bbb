# A TLA+ model of the MTH9815 bond trading system

This directory specifies, model-checks and proves properties of the trading
system in `src/tradingsystem`: a single-threaded C++ program made of services
that notify each other through listeners, fed by four input files and writing
six output files. Every definition is a translation of the source named for it
in `PROJECT.json` ("map").

## 1. The system

### Components

| component (source) | state | operations | calls |
|---|---|---|---|
| PricingService (`pricingservice.hpp`) | latest price per product | `Subscribe` reads `prices.txt`; `OnMessage` stores and notifies | AlgoStreaming, then GUI |
| AlgoStreamingService (`algostreamingservice.hpp`) | latest stream per product, `count` | `AlgoPublishPrice` builds a two-way stream, alternating its size | Streaming |
| StreamingService (`streamingservice.hpp`) | latest stream per product | `OnMessage` stores, `PublishPrice` notifies | Historical (`streaming.txt`) |
| GUIService (`guiservice.hpp`) | latest price per product, `millisec` | `OnMessage` stores, `Publish` writes `gui.txt` unless throttled | - |
| TradeBookingService (`tradebookingservice.hpp`) | trades by identifier; the listener's `count` | `Subscribe` reads `trades.txt`; `OnMessage` stores and notifies; `BookTrade` only notifies; the listener makes a trade of an execution | Position |
| PositionService (`positionservice.hpp`) | per product, a quantity per book | `AddTrade` merges a trade, stores, notifies | Risk, then Historical (`positions.txt`) |
| RiskService (`riskservice.hpp`) | per product, PV01 and aggregate quantity | `AddPosition` stores, notifies | Historical (`risk.txt`) |
| MarketDataService (`marketdataservice.hpp`) | latest order book per product | `Subscribe` frames `marketdata.txt` into books; `OnMessage` stores and notifies | AlgoExecution |
| AlgoExecutionService (`algoexecutionservice.hpp`) | last order per product, `count` | `AlgoExecuteOrder` sends an order if the spread is tight | Execution |
| ExecutionService (`executionservice.hpp`) | last order per product | `OnMessage` stores, `ExecuteOrder` stores and notifies | TradeBooking, then Historical (`executions.txt`) |
| InquiryService (`inquiryservice.hpp`) | inquiries by identifier | `Subscribe` reads `inquiries.txt`; `OnMessage` and the connector's `Publish` call each other; `SendQuote`, `RejectInquiry` | Historical (`allinquiries.txt`) |
| HistoricalDataService (`historicaldataservice.hpp`) | none of its own; one file per instance | `PersistData` appends a line | - |
| `functions.hpp` | - | price conversion, random numbers, identifiers, clock | - |
| `main.cpp` | - | wires the listeners, then reads the four inputs in order | - |

### How they interact

There is one thread. A connector's `Subscribe` loops over the lines of its
file; each line becomes an object handed to its service's `OnMessage`, which
stores it and calls `ProcessAdd` on each listener in the order `main.cpp` added
them (`main.cpp:47-59`). A notification is a nested call, so a line of input
runs the whole chain of services below it before the next line is read. State
is shared only by value: each service keeps its own map, and each file is a
history of what passed by.

### What is hard about it

* **Several records of one fact.** A quantity traded is in the trade, the
  position, the aggregate risk and lines of three files, written one after the
  other. Whether they agree depends on the order of notifications and on no
  service being notified too often or too late.
* **Stopping anywhere, and starting again.** Nothing is flushed together: a
  crash between two appends leaves the files at different points, and the next
  run starts from no positions and appends to the same files. A file that does
  not open swallows its line.
* **Two counters for one sequence.** AlgoExecution counts orders to alternate
  sides, TradeBooking's listener counts executions to cycle through books.
* **Keys that are not unique.** Unknown CUSIPs all become the product `""`;
  generated identifiers repeat.
* **Undefined behaviour.** `OrderBook::GetBidOffer` returns a reference to a
  temporary, and an order never written to when a side is empty;
  `Inquiry::SetPrice` does not return its value.
* **Numbers at their limits.** Random numbers are products modulo 2^31 - 1
  formed in 32 bits; prices go from text to a double, to a mid and a spread and
  back to text.
* **A clock that wraps.** The GUI throttle compares milliseconds within the
  second.
* **Re-entrant calls.** `InquiryService::OnMessage` is called again, through
  its connector, before it returns.
* **Framing by count.** A book of market data is ten consecutive lines,
  whatever products they name.

The hazards these lead to are listed at their lines in `PROJECT.json`
("hazards"), each with the properties that would catch it going wrong, or the
reason why none does.

### What makes each component correct

* *Pricing, AlgoStreaming, Streaming*: `streaming.txt` repeats the bids and
  offers read, in order, with alternating sizes; the last price or stream each
  keeps is the same one.
* *GUI*: lines are at least the throttle apart.
* *TradeBooking, Position*: no quantity is lost, repeated by accident or put in
  another book; a position moves only by a stored trade.
* *Risk*: its quantity is the sum of the position's books.
* *MarketData*: a book is made of its own lines only, and its best bid and
  offer are the best of its stacks.
* *AlgoExecution, Execution*: orders alternate sides at the top of a tight book
  and each reaches `executions.txt`.
* *Inquiry*: each inquiry is answered once, in order, through its life cycle.
* *HistoricalData*: the files account for each other and for memory, wherever
  the program stops.

## 2. The modules

Modules extend each other as the headers include each other. A module per
service declares its map and count as variables, its types, and its state
changes as operators named after them; a *flow* module composes the services
that `main.cpp` links and has the actions. An action is one call up to the next
call it makes: `pc` names the call about to be made and the arguments of calls
in progress are variables (`Null` outside their scope). Between any two actions
the program may be stopped, so an invariant of a flow is also what a crash
leaves in the files.

| module | models |
|---|---|
| `StdMap` | `std::map` and its `operator[]` (external) |
| `Products` | a product as its identifier; `GetBond` |
| `PriceNotation` | prices as text of 32nds and 256ths, `ConvertPrice` both ways |
| `Identifiers` | `GenerateUniform` and `GenerateId` in 32-bit arithmetic |
| `MarketDataService` | order books, `OrderBook::GetBidOffer` |
| `AlgoExecutionService` | orders, the spread test, the alternation of sides, the dangling bid/offer |
| `ExecutionService` | the last order per product |
| `TradeBookingService` | trades, of the file and of executions, and the books cycled through |
| `PositionService` | positions per book, `AddTrade`'s merge, the aggregate |
| `RiskService` | aggregate quantity per product |
| `HistoricalDataService` | one output file; instantiated once per file |
| `ExecutionFlow` | trades and market data to `positions.txt`, `risk.txt`, `executions.txt` |
| `Ledger` | abstract: what booking, positions, risk and their files promise together |
| `ExecutionFlowFaults` | `ExecutionFlow` stopped and run again over the same files, and lines that are lost |
| `MarketDataConnector` | the framing of `marketdata.txt` into the books `ExecutionFlow` starts from |
| `PricingService`, `AlgoStreamingService`, `StreamingService`, `GUIService` | the services of the price flow |
| `PricingFlow` | prices to `streaming.txt` and `gui.txt` |
| `InquiryService`, `InquiryFlow` | inquiries to `allinquiries.txt` |
| `InquiryLifecycle` | abstract: what the inquiry service promises |
| `MC*` | values of the constants for TLC |
| `DataTheorems` | facts about sums, searches, maps and sequences that the proofs share |
| `ExecutionFlowProofs`, `ExecutionLedgerProofs`, `ExecutionFaultsProofs`, `PricingFlowProofs`, `InquiryFlowProofs`, `MarketDataConnectorProofs`, `IdentifiersProofs` | theorems and proofs about the module named |

The three flows share no state and `main.cpp` runs them one after the other
(prices, trades and market data, inquiries), so each is a specification of its
own.

### ExecutionFlow and the code

| action | code |
|---|---|
| `ReadTrade`, `EndOfTrades` | `TradeBookingConnector::Subscribe`, `main.cpp:67-70` |
| `ReadOrderBook`, `EndOfMarket` | `MarketDataConnector::Subscribe` at a complete book and `MarketDataService::OnMessage` |
| `PassOnWideBook`, `AlgoExecuteOrder` | the two outcomes of `AlgoExecutionService::AlgoExecuteOrder` |
| `ExecuteOrder` | `ExecutionToAlgoExecutionListener::ProcessAdd`: `OnMessage`, `ExecuteOrder` |
| `ProcessExecution` | `TradeBookingToExecutionListener::ProcessAdd` up to its call of `OnMessage` |
| `OnMessage`, `BookTrade` | the methods of `TradeBookingService`, which both notify |
| `AddTrade`, `AddPosition` | `PositionService::AddTrade`, `RiskService::AddPosition` |
| `PersistRisk`, `PersistPosition`, `PersistExecution` | `HistoricalDataListener::ProcessAdd` of the three instances |

The notification of a trade is started from three places (a line of
`trades.txt`, `OnMessage` and `BookTrade` for an execution); `returnTo` is where
it returns. `filed` and `executed` are history: what the input and the
executions ordered, per product and book.

**The dangling reference.** `OrderBook::GetBidOffer` returns a reference to a
temporary. Reading it is undefined, and what the build reads is what was left
on the stack: `ReadableBidOffers(book)` is the right bid/offer or any of
`StaleBidOffers`. With `StaleBidOffers` empty the model is the program as it
was meant. When a side of the book is empty, even the right bid/offer has an
`Order` that was never written to, one of `UnsetOrders`.

**Identifiers.** `GenerateId` is a choice from `OrderIds`, a set that repeats as
the code's identifiers do: they depend on the millisecond within the second.
`Identifiers` models how.

**The ledger.** `AsLedger` maps the flow to `Ledger`: the map of positions is
the balances, the trade of the pending calls is the entry, `AddTradesDue` how
often it is still to be posted, and the last lines of `risk.txt` and
`positions.txt` are the two records. Reading books, ordering and writing
`executions.txt` are stuttering steps. The refinement says in one sentence what
the invariants say in parts: each entry is posted once (twice for an
execution), put on risk's record and then on the position's before anything
else happens, and, the program running, nothing stays unposted or unrecorded.

### ExecutionFlowFaults and the code

| action | code |
|---|---|
| `ProgramStep` | a step of `ExecutionFlow`, every file opening |
| `LoseRisk`, `LosePosition`, `LoseExecution` | `HistoricalDataConnector::Publish` when `_file.open` fails: the stream swallows what is written and nothing looks at it |
| `Restart` | the program stopped between any two calls, or ended, and `main` run again: empty maps, counts of 0, files as they are |

`runs` and `lost` are history: where each run's lines start, and which lines
are missing. `filed` and `executed` go on over restarts, since what the files
should account for is what all runs ordered. The code has no recovery; the
properties bound the damage. A fault (a crash in the middle of a trade, a lost
line no later line of its product made good) spoils at most one book of one
product, never two.

### PricingFlow and the code

Lines of `prices.txt` and `streaming.txt` have texts as `PriceNotation` models
them: a whole part, 32nds, and a sign of 256ths in which `+` is half a 32nd. In
memory prices are whole half ticks: file prices are whole ticks (1/256), a mid
is at worst half way between two, and doubles hold both exactly. `ConvertPrice`
prints the floor in ticks, with a `+` for each 4. `NotifyGUI` is the only action that looks at the
clock, so time advances there, by a delay from `Delays`; the clock the code
reads is `time % Second`. Time does not go backwards in the model.

### InquiryFlow and the code

`ReceiveInquiry`, `CompleteInquiry` and `IgnoreInquiry` are the cases of
`InquiryService::OnMessage`; `Publish` is `InquiryConnector::Publish` with the
`Subscribe(Inquiry&)` it calls. The nested calls have nothing left to do when
they return, so no return address is kept. `RejectInquiry` and `SendQuote` are
operations of the service no one calls in `main.cpp`; the run lets a user of the
service call them between two lines (`Rejectable`, `Quotable`), with an
identifier never received too. `SendQuote` calls `Inquiry::SetPrice`, which has
no return statement. Its caller uses no value, and the model takes it to store
the price and return; a compiler that takes the missing return for an error has
no `SendQuote` at all. `due` is history: the answers and quotes owed to clients.
A quote of an identifier never received leaves a record without a name in state
RECEIVED, which nobody answers; the life cycle counts it as unknown.

### MarketDataConnector and the code

`lineCount`, `bidStack` and `offerStack` are the locals of `Subscribe`;
`ReadLine` is its loop and `DeliverBook` the call of `OnMessage` with what
follows it. The books it delivers have the form `ExecutionFlow` assumes of
`OrderBooks`, misaligned ones with an empty side included: what the second
takes is what the first gives.

### Identifiers and the code

`Draw` is one round of `GenerateUniform`'s loop and one letter of `GenerateId`.
TLC's integers are as wide as the code's `long` and TLC stops at an overflow, so
a run that ends also shows that no intermediate value overflows. A letter is
`(seed / m) * 36` cut to an int; the model states it by the first seed of each
letter, since 36 times a seed does not fit. Doubles cannot get this wrong: m is
prime, so 36 * seed / m is never nearer to a whole number than 1/m.

The model was compared with the `executions.txt` committed with the code: of
its 612 identifiers, 611 are those the model gives for the milliseconds 1 to
999, and the other, `1ADE58H63Q8B`, is the one for millisecond 0 at
`time(0) = 1514087037`, the second its line is stamped with. (Equal identifiers
are counted each time: 467 are different.)

## 3. The runs

| run | question | bounds |
|---|---|---|
| `flow_files` | do positions, risk and the three files account for each other in every state, implement the ledger, and end complete; do quantities stay within what the input can add up to; is every order at the top of a book or of what the reference left? | 2 trade lines, 3 books out of 4, one of them without offers, 2 bonds and an unknown product, 3 books of positions, identifiers that repeat, stale bid/offers |
| `faults` | what is left of that account after crashes, restarts and lost lines, and does a run left alone still end? | 1 trade line and 1 book per run, 2 restarts anywhere, 1 line lost, 1 bond and an unknown product |
| `identifiers` | are the random numbers the intended ones, and do identifiers tell milliseconds apart? | all 1000 milliseconds, and two times for a clock that reads 0 |
| `pricing` | does `streaming.txt` repeat `prices.txt`, do the four services agree, and what does the throttle do? | 4 prices of 3 products as text, one of them with two quotes, with `+` and `4`, odd and even spreads, an unknown product; second of 10, throttle of 3, gaps from 0 to 12 |
| `inquiries` | is each inquiry answered and each quote sent once and in order, through the life cycle of an inquiry? | 4 lines in every state, identifiers sent twice, rejections and up to 3 quotes between lines |
| `framing` | is a book made of its own lines? | books 2 deep, every file of 8 lines out of 5 |

Three order books with two trade lines before them reach every combination
that matters: a first and a second visit of a product, of a book (`count % 3`)
and of a side (`count % 2`), a product in two books, and an execution after a
pass on a wide book. Two bonds and an unknown identifier are enough to tell
"this product" from "another", and "merged by `GetBond`" from both. Four prices
let `millisec` run two seconds ahead of the clock's reading, which is where one
addition of a second differs from several. Two restarts give three runs over
the same files: one with runs before and after it. A trade and the execution
after it may leave a position flat, so a lost line is told from one that says 0.

In every state of `faults` at most four faults count (two restarts, a lost line
and a notification on its way) and six pairs of a product and a book could be
wrong, so the bound of one each is not met by running out of them.

`CHECK_DEADLOCK FALSE` is in every configuration: the program ends, and so does
the model, when its input does.

Five more `claim_` runs for `ExecutionFlow` and one for `PricingFlow` check
what the documentation says and are expected to be violated:

| claim | what the code does |
|---|---|
| `ExecutionsBookedOnce` (`README.md:78`) | each execution moves its position twice |
| `CyclesFromTRSY1` (`README.md:78`) | the cycle starts at TRSY2 |
| `AggressesTightSpreadOnly` (`README.md:58`) | the spread tested is read through a dangling reference |
| `TradesKeptApart` (`tradebookingservice.hpp:119`) | trades with the same generated identifier replace each other |
| `PositionLinesHaveEveryBook` (`README.md:36`) | a line has the books traded so far |
| `GuiNotifiedEachInterval` (`README.md:70`) | whole seconds do not count towards the throttle |

The output files committed with the code show the same: `positions.txt` has
1284 = 60 + 2 x 612 lines for 60 trades and 612 executions, and
`executions.txt` 467 identifiers for 612 orders.

Each property also has a mutant, a definition replaced by the form a plausible
bug would give it (the operators commented "Mutant of ..."), under which TLC
finds the property violated.

### Fairness

One thread runs the program, never waits for anything but the disk and never
skips a call; the only fairness assumed is weak fairness of the next-state
relation as a whole: the program keeps running. In `InquiryFlow` it excludes
`RejectInquiry` and `SendQuote`, which nobody has to call. In `InquiryLifecycle` each inquiry
received is owed its quote and its completion, and the refinement shows that
the fairness of the one thread provides it. In `Ledger` what was received has to
be settled and nothing has to be received. In `ExecutionFlowFaults` the program
keeps running while nobody stops it, with or without its files; restarts are
bounded and not fair.

## 4. The proofs

Every safety invariant and every action property of the passing runs is a
theorem, for every value of the constants. What follows lists the theorems of
each specification, then the invariant that makes them inductive, and why it is
needed.

### ExecutionFlow

For every set of bonds, identifiers, books, trade lines, order books and stale
bid/offers and any length of the input. In `ExecutionFlowProofs`:

| theorem | property |
|---|---|
| `TypeCorrect` | `TypeOK` |
| `Invariant` | `IInv`, the inductive invariant |
| `PositionsCorrect` | `PositionsReconcile` |
| `RiskCorrect` | `RiskMatchesPosition` |
| `PositionsFileCorrect` | `PositionsFileReflectsMemory` |
| `RiskFileCorrect` | `RiskFileExplainsPositionsFile` |
| `FilesCorrect` | `FilesInStep` |
| `CountersCorrect` | `CountersInStep` |
| `ArgumentsCorrect` | `ArgumentsCurrent` |
| `RunsAreBounded` | every step leaves fewer of the steps a run can take |
| `EndCorrect` | `EndIsComplete`: at the end nothing is in flight and the files are complete |

No property is inductive alone. `PositionsReconcile` speaks of a quantity still
due, which only means something if the trade in flight is the one the pending
calls will add (`TypeOK`), and if the calls that add it return where they were
made from (`CallsReturn`). What risk and the files are compared with is the
position on its way to them, which must be the one stored (`ArgumentsCurrent`).
`IInv` is the conjunction of these with the properties. `flow_files` checks
every conjunct but `CallsReturn`, which is about the model's own record of the
calls in progress and is here as a lemma only. `TypeOK` is proved in three parts (services, files, calls), each
conjunct has a lemma with one step per action that disturbs it, and
`InvariantStep` puts them together.

`RunsAreBounded` counts the steps left: six per line of `trades.txt`, fifteen
per order book, one for the end of each file, less what the calls in progress
have used. Reading pays for the calls it starts and each call uses one; that
`PersistPosition` returns to the call that is owed, and not once more, is
`CallsReturn`. With `EndCorrect` this is `EndsWithCompleteFiles` but for the
fairness that main keeps going.

In `ExecutionLedgerProofs`, on top of `IInv`:

| theorem | property |
|---|---|
| `FlowInvariant` | `FlowInv`, the inductive invariant of orders and lines in flight |
| `LastOrdersCorrect` | `LastOrdersAgree` |
| `OrdersCorrect` | `AggressesTopOfBook` |
| `ExecutionsFileCorrect` | `ExecutionsFileExplainsPositionsFile` |
| `TradesMovePositions` | `StoredTradesMovePositions` |
| `PositionsStayWithinInput` | `PositionsWithinInput` |
| `QuantitiesFit` | where that bound is below the end of a `long`, so are all books and aggregates |
| `LedgerImplemented` | the initial states and steps of `ImplementsLedger` |

`FlowInv` says where an order is while it is in flight: kept by both services
(`OrderKept`), its book stored (`BookStored`), its trade stored before a
position moves (`TradeStored`) and made of it (`TradeOfOrder`), and its lines of
`positions.txt` as far as they are written (`LinesOnFile`). The line of
`executions.txt` comes last, so what it explains has to be known before it is
written. `OrdersCorrect` rests on `DataTheorems`' lemma about the search for the
best order, for stacks of any length in any order.

`PositionsWithinInput` bounds `Gross`, the sum over a product's books of what
each holds, bought or sold; a merge adds to it at most what the trade is worth
(`GrossAdds`). It is not inductive without `IInv`, which says how many merges
the trade in flight is owed, nor without `QuantitiesFromInput`: a quantity on
its way comes from the input, through the order and the trade made of it. The
theorem's hypothesis, `HasLargest`, is that the input has a largest quantity, as
32-bit quantities do.

The refinement takes one step per action: `ReadTrade` and `ProcessExecution`
receive, `AddTrade` posts, `PersistRisk` and `PersistPosition` record, the rest
stutter. What makes it more than reading the names is that a record shows the
*last* line of a product, which appending has to move for one product and leave
for the others, and that what is written there is the balance in memory, which
takes `IInv`.

### ExecutionFlowFaults

For any number of restarts and lost lines, at any point, in
`ExecutionFaultsProofs`:

| theorem | property |
|---|---|
| `FaultsInvariant` | `FaultsInv`, inductive |
| `FaultsTypeCorrect` | `FaultsTypeOK` |
| `ExecutionsCorrect` | `ExecutionsAreInPositions` |
| `AccountInvariant` | `AccountInv`, inductive |
| `RiskFileFollows` | `RiskFileFollowsPositionsFile` |
| `FilesAccount` | `FilesAccountForTrades` |

`FaultsInv` counts the lines of each run, the present one without the lines of
the execution being booked. `AccountInv` is the reason why a fault spoils one
place and not two. The files cannot be looked at alone: a line lost may be made
good by a later one, and a trade cut short by a restart was wrong in memory
before the next run could show it. So each fault is blamed for one place *when
it happens*, in three sets that a fault adds at most one element to and a step
of the program none:

* `StayApart`: the runs and products about which `risk.txt` and `positions.txt`
  will still end apart once what is on its way is written;
* `Stale`: the products and books where memory and the file differ, other than
  the position on its way; a lost line of `positions.txt` adds one, the one it
  was about, and a restart, after which memory is empty and the run's file too,
  has none left;
* `Forgotten`: the products and books where what the files of the runs before
  and the memory of this one add up to, with what is still due, is not what was
  ordered. A restart turns what was stale into forgotten, and forgets what was
  on its way: one more place.

The count of the last two is at most the restarts plus the lines of
`positions.txt` lost, and what the file misstates is among them, but for the
place in flight. The sums over the runs (`OnFile`) need `SumMoves` and
`SumOfOneMore` of `DataTheorems`.

### PricingFlow and PriceNotation

For prices, spreads and quotes of any size and any throttle shorter than the
second, in `PricingFlowProofs`:

| theorem | property |
|---|---|
| `PrintedThenRead` | a price printed and read again is the price cut to a tick |
| `ReadThenPrinted` | a text read and printed again is the same, but for a 4 that becomes a `+` |
| `Invariant` | `IInv`, inductive |
| `TypeCorrect` | `TypeOK` |
| `StreamsCorrect` | `StreamingFileRepeatsQuotes` |
| `SizesCorrect` | `SizesAlternate` |
| `LastPricesCorrect` | `LastPricesAgree` |
| `SpacingCorrect` | `GuiLinesSpaced` |
| `ThrottleCorrect` | `ShownUnlessWithinThrottle` |
| `EndCorrect` | at the end every price is streamed (`EndIsComplete`), after at most five steps per line and one |

The invariant adds what each call knows of its argument
(`ArgumentsOfLastLine`), which stores have it already (`StoredSoFar`), and what
`millisec` is: the time of the last line of `gui.txt` up to whole seconds
(`ThrottleState`). `ClockReading` shows that the loop of `Publish` then compares
the throttle with the gap, less its whole seconds: never more than the gap
(`GuiLinesSpaced`) and exactly that (`ShownUnlessWithinThrottle`).

### InquiryFlow

For every set of lines, identifiers and quotes, in `InquiryFlowProofs`:

| theorem | property |
|---|---|
| `Invariant` | `IInv`, inductive |
| `TypeCorrect` | `TypeOK` |
| `AnswersCorrect` | `AnsweredInOrder` |
| `RecordsCorrect` | `StoredAreAnswered` |
| `LifecycleImplemented` | the initial states and steps of `ImplementsLifecycle` |
| `RunsAreBounded` | answering leaves less to do, and only a quote sent adds to it |

The invariant says what the nested calls know of the inquiry they pass on
(`ArgumentKnown`), that a record has its own name unless a quote or a rejection
made it of nothing (`RecordsKept`), and that no such record is made for an
inquiry that a client was owed an answer to (`KnownKept`).

`RunsAreBounded` is another view of the re-entrant calls: the steps of
`Answering` left, five per line and one for the end, decrease with each of
them, stay with `RejectInquiry` and grow by one with `SendQuote`. So `OnMessage`
and the connector's `Publish` call each other once per inquiry.

### MarketDataConnector

For every depth of book and every file, in `MarketDataConnectorProofs`:

| theorem | property |
|---|---|
| `Invariant` | `IInv`, inductive |
| `TypeCorrect` | `TypeOK` |
| `BooksCorrect` | `BooksAreRunsOfLines` |

The invariant says that the two stacks are the two sides of the lines read
since the last book (`StacksAreOpenLines`) and that those lines start where the
last book ended (`FramesMeet`). A side is stated by the place each of its lines
has (`IsSideOf`), so no recursion over lines is needed.

### Identifiers

For every seed and every reading of the clock, in `IdentifiersProofs`:

| theorem | what it says |
|---|---|
| `NextSeedIsProduct` | the loop of `GenerateUniform` draws `a * seed` modulo `m`, and none of its intermediate values leaves a 32-bit `long` |
| `LetterIsFloor` | there is a letter for each seed, at the whole part of `36 * seed / m`: the base is never read past its end |
| `IdentifiersTypeCorrect` | `TypeOK` |
| `FirstLetterCorrect` | `FirstLetterIsFixed` |
| `DrawsCorrect` | `DrawsAreProducts` |
| `LettersTellSeed` | of all seeds below `m`, no two give the same first nine letters |
| `IdsCorrect` | `IdsTellMillisecondsApart` |
| `IdsRepeat` | `IdIsOfMillisecond`: the identifier is a function of the millisecond, unless that is 0, so orders of two seconds can share it |

The first two rest on writing the seed as a quotient and a rest
(`ProductSplit`): with `m = a * q + r`, the quotient of the seed by `q` is worth
`m - r` each. `DrawsAreProducts` compares the draws with a product made by
doubling and adding (`Product`), so that TLC can form it: `ProductIsProduct`
shows that this recursive function is the product modulo `m`. The product
itself obeys the function's equation, and nothing else does, by a least number
at which it would differ.

`LettersTellSeed` needs no enumeration of seeds. Seeds with the same letter are
less than `m / 36` apart, and what is apart is drawn as the seeds are, so nine
draws are the first times the powers of `a` modulo `m`. `NearIsNothing` gives
nine combinations of those powers that are multiples of `m` and whose
coefficients add up to at most 33: of numbers below `m / 36` each is a multiple
of `m` smaller than `m`, so 0, and nine such equations have one solution. As `a`
has an inverse modulo `m`, equal first draws come of equal seeds. The invariant
`DrawnFromClock` says that seed and letters are the draws from a first seed the
clock gave; `IdsTellMillisecondsApart` reads the finished identifier only and is
not inductive without it. A time is no millisecond because `time(0)` is past the
first 1000 seconds of 1970 (`ReadingsAssumption`).

### Data

`DataTheorems` proves the facts the others share: `SumFunctionInt`, the sum of a
function over a finite set, by which `GetAggregatePosition` is defined, is an
integer; how such a sum changes with a key, and that sums compare as their
terms do; what the search of a stack finds;
what writing a map, appending to a file, and dividing do. What would be
induction is done by a least counterexample, from the well-foundedness of the
naturals: the definition of the fold is unfolded for a least set of keys, or a
least place, that fails.

### Assumptions

Those stated next to the constants: trade lines, order books, quotes and
inquiries have the fields of their types, stacks hold orders, `Throttle` is
below `Second`, a book has at least one level, `time(0)` is at least 1000 and
fits a 32-bit `long`, and bounds are natural numbers.
The only set taken to be finite is that of the books positions are kept in. TLC
evaluates each of them in a run.

### Only model-checked

Liveness: `EndsWithCompleteFiles`, `EndsDespiteFaults`, `EndsWithEveryStream`
and the fairness of `ImplementsLedger` and `ImplementsLifecycle`. Fairness and
ENABLED are out of the prover's reach. What is proved towards them: a run of
`ExecutionFlow` or `PricingFlow` takes no more steps than its input allows and
ends as it should (`RunsAreBounded`, `EndCorrect`), and answering in
`InquiryFlow` always leaves less to do. That the only thread keeps going is the
fairness TLC is given.

## 5. What is not modelled

* `AggregateDepth`, `GetBucketedRisk`: never instantiated, and they do not
  compile once they are. `GetBestBidOffer`: never called; it returns what
  `GetBidOffer` does. None of them is meant to change state.
* `OnMessage` of `PositionService` and `RiskService`: never called.
* `ProcessRemove`, `ProcessUpdate`: empty everywhere.
* `GetData` of the services: never called.
* Time stamps, coupons and maturities, PV01 values, prices of trades: data no
  property here tells apart. `IRSwap`: never used.
* Input lines that the parsers do not understand (fewer cells, unknown sides,
  texts of negative prices): the code reads past a vector's end, throws or reads
  an uninitialised variable on them. An order read through the dangling
  reference can have a price that is no number of ticks, which `executions.txt`
  then shows as no price of `PriceNotation`; the models keep such prices within
  ticks.
* Files that cannot be opened in `PricingFlow` and `InquiryFlow`: the code is
  the one modelled in `ExecutionFlowFaults`, and nothing there is recorded in
  files that have to agree. A line cut in half by a crash: a line is written
  whole or not at all.
* 32-bit overflow of quantities: the models' integers have no end. How much
  input it takes to reach it is `PositionsWithinInput` and `QuantitiesFit`; the
  aggregates in the recorded files stay about ten times below.

## 6. The plan

In this order; what is done is marked.

1. *Done.* `ExecutionFlow` with its services: the flow with most state and most
   files, and the one with the findings that matter most.
2. *Done.* Its type invariant and the safety invariants that tie memory and
   files together, proved.
3. *Done.* `PricingFlow`, `InquiryFlow` with its abstract life cycle, and
   `MarketDataConnector`, model-checked.
4. *Done.* The pure algorithms of `functions.hpp`: prices as text, and random
   numbers with the identifiers made of them, proved where they are arithmetic.
5. *Done.* Restarts and lost lines over `ExecutionFlow`, and how many faults
   spoil how much.
6. *Done.* The ledger, refined by `ExecutionFlow`; `SendQuote`; books with an
   empty side.
7. *Done.* Proofs of every safety property of the other flows, of the safety
   halves of both refinements, of the account of faults, and of identifiers for
   every seed; how far quantities can get; how long runs can be.
8. Left: what section 4 lists as only model-checked stays with TLC. Behaviour
   to add: files that cannot be opened in the other two flows.
