------------------------ MODULE ExecutionFlowFaults -------------------------
(***************************************************************************)
(* ExecutionFlow over a directory that is used again, on a disk that may   *)
(* refuse a line. The program may stop between any two calls, and be run   *)
(* again with other inputs: it starts with empty maps and counts and       *)
(* appends to the files of the run before. Where an ofstream fails to open *)
(* the line is gone and the program goes on as if it had been written.     *)
(* Nothing in the code detects or repairs either; the properties say how   *)
(* much of the account the files give of what was booked can go missing.   *)
(***************************************************************************)
EXTENDS ExecutionFlow, FiniteSetsExt

CONSTANTS
  MaxRestarts,        \* the most times the program is run again
  MaxLost             \* the most lines that are lost

ASSUME FaultBoundsAssumption == MaxRestarts \in Nat /\ MaxLost \in Nat

VARIABLES
  runs,               \* history: where each run's lines start in the files
  lost                \* history: the lines lost, each as its run and file

faultVars == <<runs, lost>>

\* filed and executed are not reset by a restart here: they are what all runs
\* together ordered.
RunStart(positionLines, riskLines, executionLines) ==
  [positions |-> positionLines, risk |-> riskLines,
   executions |-> executionLines]

FaultsInit ==
  /\ Init
  /\ runs = <<RunStart(0, 0, 0)>> /\ lost = << >>

Restarts == Len(runs) - 1

FaultsTypeOK ==
  /\ TypeOK
  /\ runs \in Seq([positions : Nat, risk : Nat, executions : Nat])
  /\ lost \in Seq([run : 1..Len(runs),
                   file : {"positions", "risk", "executions"}])
  /\ Restarts \in 0..MaxRestarts /\ Len(lost) \in 0..MaxLost

-----------------------------------------------------------------------------
\* A step of the program in which every file opens.
ProgramStep == Next /\ UNCHANGED faultVars

\* The program is stopped, or has ended, and is run again: main starts with
\* what the services' constructors make and the files as they are.
Restart ==
  /\ Restarts < MaxRestarts
  /\ runs' = Append(runs, RunStart(Len(positionsFile), Len(riskFile),
                                   Len(executionsFile)))
  /\ orderBooks' = EmptyMap /\ algoExecutions' = EmptyMap
  /\ executionOrders' = EmptyMap /\ trades' = EmptyMap
  /\ positions' = EmptyMap /\ pv01s' = EmptyMap
  /\ algoCount' = 0 /\ bookingCount' = 0
  /\ stage' = "Trades" /\ pc' = "Main" /\ returnTo' = "Main"
  /\ orderBook' = Null /\ order' = Null /\ trade' = Null
  /\ position' = Null /\ pv01' = Null
  /\ tradesRead' = 0 /\ booksRead' = 0
  /\ UNCHANGED <<fileVars, historyVars, lost>>

\* The file of a line cannot be opened: what is written to it goes nowhere.
Lose(file) ==
  /\ Len(lost) < MaxLost
  /\ lost' = Append(lost, [run |-> Len(runs), file |-> file])
  /\ UNCHANGED <<fileVars, runs>>

LoseRisk ==
  /\ pc = "PersistRisk" /\ Lose("risk")
  /\ pv01' = Null /\ pc' = "PersistPosition"
  /\ UNCHANGED <<serviceVars, returnTo, orderBook, order, trade, position,
                 inputVars, historyVars>>

LosePosition ==
  /\ pc = "PersistPosition" /\ Lose("positions")
  /\ position' = Null /\ pc' = returnTo
  /\ trade' = IF returnTo = "Main" THEN Null ELSE trade
  /\ UNCHANGED <<serviceVars, returnTo, orderBook, order, pv01, inputVars,
                 historyVars>>

LoseExecution ==
  /\ pc = "PersistExecution" /\ Lose("executions")
  /\ order' = Null /\ trade' = Null
  /\ returnTo' = "Main" /\ pc' = "Main"
  /\ UNCHANGED <<serviceVars, orderBook, position, pv01, inputVars,
                 historyVars>>

Run == ProgramStep \/ LoseRisk \/ LosePosition \/ LoseExecution

FaultsNext == Run \/ Restart

\* A program that is not stopped goes on, whatever its files do; nobody has to
\* run it again.
FaultsSpec ==
  FaultsInit /\ [][FaultsNext]_<<vars, faultVars>>
    /\ WF_<<vars, faultVars>>(Run)

-----------------------------------------------------------------------------
\* Where a file, whose lengths at the start of each run are given, has the lines
\* that a run wrote about a product.
LinesOf(file, starts, run, product) ==
  LET last == IF run = Len(starts) THEN Len(file) ELSE starts[run + 1]
  IN {i \in (starts[run] + 1)..last : file[i].product = product}

PositionLines(run, product) ==
  LinesOf(positionsFile, [r \in DOMAIN runs |-> runs[r].positions], run,
          product)
RiskLines(run, product) ==
  LinesOf(riskFile, [r \in DOMAIN runs |-> runs[r].risk], run, product)

\* What a run last wrote of a product.
FinalPosition(run, product) ==
  LET lines == PositionLines(run, product)
  IN IF lines = {} THEN EmptyMap ELSE positionsFile[Max(lines)].held
FinalRisk(run, product) ==
  LET lines == RiskLines(run, product)
  IN IF lines = {} THEN 0 ELSE riskFile[Max(lines)].quantity

\* The faults that may have kept lines of the given files from being written:
\* each restart, each line lost, and a notification still on its way.
LostOf(files) == {i \in DOMAIN lost : lost[i].file \in files}
Faults(files) ==
  Restarts + Cardinality(LostOf(files))
    + (IF pc \in NotifyCalls \/ BookingExecution THEN 1 ELSE 0)

\* What positions.txt says is held: every run starts from no positions, so it
\* is the sum of what each run last wrote.
OnFile(product, book) ==
  SumFunction([run \in DOMAIN runs |->
                 GetPosition(FinalPosition(run, product), book)])

\* What the inputs of all runs ordered, executions counted twice.
OrderedByAll(product, book) == filed[product][book] + 2 * executed[product][book]

\* The products and books positions.txt is wrong about.
Misstated ==
  {at \in ProductIds \X Books :
     OnFile(at[1], at[2]) # OrderedByAll(at[1], at[2])}

\* What positions.txt says is what the inputs of all runs ordered, but for one
\* product and book per fault: a crash in the middle of a trade, or a lost line
\* that no later line of its product made good.
FilesAccountForTrades == Cardinality(Misstated) <= Faults({"positions"})

\* The runs and products risk.txt and positions.txt end apart about.
RiskApart ==
  {of \in (DOMAIN runs) \X ProductIds :
     FinalRisk(of[1], of[2])
       # GetAggregatePosition(FinalPosition(of[1], of[2]))}

\* In each run risk.txt ends with the risk of what positions.txt ends with,
\* but for one product per fault of either file.
RiskFileFollowsPositionsFile ==
  Cardinality(RiskApart) <= Faults({"positions", "risk"})

\* A line of executions.txt is never there without both of its lines of
\* positions.txt in the same run, unless those were lost.
ExecutionsAreInPositions ==
  \A run \in DOMAIN runs :
    LET Lines(file, first, next) ==
          (IF run = Len(runs) THEN Len(file) ELSE next) - first
        next  == runs[IF run = Len(runs) THEN run ELSE run + 1]
        unwritten == {i \in DOMAIN lost : /\ lost[i].run = run
                                          /\ lost[i].file = "positions"}
    IN 2 * Lines(executionsFile, runs[run].executions, next.executions)
         <= Lines(positionsFile, runs[run].positions, next.positions)
              + Cardinality(unwritten)

\* Once it is no longer stopped, the program ends with every file complete but
\* for the lines lost since it was last started.
EndsDespiteFaults ==
  LET Missing(file) ==
        Cardinality({i \in DOMAIN lost : /\ lost[i].run = Len(runs)
                                         /\ lost[i].file = file})
      start == runs[Len(runs)]
  IN <>[](/\ stage = "Ended" /\ pc = "Main"
          /\ Len(positionsFile) - start.positions + Missing("positions")
               = tradesRead + 2 * algoCount
          /\ Len(riskFile) - start.risk + Missing("risk")
               = tradesRead + 2 * algoCount
          /\ Len(executionsFile) - start.executions + Missing("executions")
               = algoCount)
=============================================================================
