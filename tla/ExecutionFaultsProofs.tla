------------------------ MODULE ExecutionFaultsProofs ------------------------
(***************************************************************************)
(* Proofs about ExecutionFlowFaults, for any number of restarts and lost   *)
(* lines: types, that executions.txt is never ahead of positions.txt, and  *)
(* that the files are wrong in no more places than there were faults.      *)
(***************************************************************************)
EXTENDS ExecutionFlowFaults, ExecutionFlowProofs

-----------------------------------------------------------------------------
(***************************************************************************)
(* The inductive invariant.                                                *)
(***************************************************************************)

\* The lines of positions.txt that a run lost.
LostPositions(run) ==
  {i \in DOMAIN lost : lost[i].run = run /\ lost[i].file = "positions"}

\* How many of its two lines of positions.txt the execution being booked is
\* through with, written or lost.
LinesDone ==
  IF pc = "PersistExecution" THEN 2
  ELSE IF pc = "BookTrade" \/ returnTo = "PersistExecution" THEN 1 ELSE 0

\* The lines of positions.txt that the present run lost.
LostNow == Cardinality(LostPositions(Len(runs)))

\* So many lines of executions.txt account for so many of positions.txt.
Covers(executionLines, positionLines, run) ==
  2 * executionLines <= positionLines + Cardinality(LostPositions(run))

\* What the runs that were stopped left.
PastRunsCovered ==
  \A run \in 1..(Len(runs) - 1) :
    Covers(runs[run + 1].executions - runs[run].executions,
           runs[run + 1].positions - runs[run].positions, run)

\* What the present run has written, the lines of the execution being booked
\* set aside.
PresentRunCovered ==
  Covers(Len(executionsFile) - runs[Len(runs)].executions,
         Len(positionsFile) - runs[Len(runs)].positions - LinesDone, Len(runs))

\* ExecutionsAreInPositions is not inductive: a line of executions.txt may be
\* written because the call chain was through positions.txt twice.
FaultsInv ==
  FaultsTypeOK /\ CallsReturn /\ PastRunsCovered /\ PresentRunCovered

-----------------------------------------------------------------------------
(***************************************************************************)
(* The runs and the lines lost.                                            *)
(***************************************************************************)

\* Where the lines of a run may start, and what n runs may lose.
Starts == [positions : Nat, risk : Nat, executions : Nat]
LostIn(n) == [run : 1..n, file : {"positions", "risk", "executions"}]

\* What it is to be a sequence of elements of a set.
LEMMA SeqFacts ==
  ASSUME NEW S, NEW s \in Seq(S)
  PROVE  /\ Len(s) \in Nat /\ DOMAIN s = 1..Len(s) /\ \A i \in 1..Len(s) : s[i] \in S
         /\ IsSequence(s)
  BY DEF IsSequence

\* What the types of the two histories say in terms of lengths.
LEMMA HistoryTypes ==
  ASSUME FaultsTypeOK
  PROVE  /\ TypeOK
         /\ runs \in Seq(Starts)
         /\ Len(runs) \in Nat \ {0} /\ DOMAIN runs = 1..Len(runs)
         /\ \A run \in 1..Len(runs) :
              /\ runs[run].positions \in Nat /\ runs[run].risk \in Nat
              /\ runs[run].executions \in Nat
         /\ lost \in Seq(LostIn(Len(runs))) /\ IsSequence(lost)
         /\ Len(lost) \in Nat /\ DOMAIN lost = 1..Len(lost)
         /\ \A i \in 1..Len(lost) : lost[i].run \in 1..Len(runs)
<1>1. /\ TypeOK /\ runs \in Seq(Starts) /\ lost \in Seq(LostIn(Len(runs)))
      /\ Len(runs) - 1 \in 0..MaxRestarts
  BY DEF FaultsTypeOK, Restarts, Starts, LostIn
<1>2. /\ Len(runs) \in Nat /\ DOMAIN runs = 1..Len(runs)
      /\ \A run \in 1..Len(runs) : runs[run] \in Starts
  BY <1>1, SeqFacts
<1>3. Len(runs) # 0
  BY <1>1, <1>2, FaultBoundsAssumption
<1>4. /\ IsSequence(lost) /\ Len(lost) \in Nat /\ DOMAIN lost = 1..Len(lost)
      /\ \A i \in 1..Len(lost) : lost[i] \in LostIn(Len(runs))
  BY <1>1, SeqFacts
<1>5. \A run \in 1..Len(runs) :
        /\ runs[run].positions \in Nat /\ runs[run].risk \in Nat
        /\ runs[run].executions \in Nat
  BY <1>2 DEF Starts
<1>6. \A i \in 1..Len(lost) : lost[i].run \in 1..Len(runs)
  BY <1>4 DEF LostIn
<1> QED
  BY <1>1, <1>2, <1>3, <1>4, <1>5, <1>6

\* There is a number of lines a run lost.
LEMMA LostCount ==
  ASSUME FaultsTypeOK, NEW run
  PROVE  IsFiniteSet(LostPositions(run)) /\ Cardinality(LostPositions(run)) \in Nat
<1>1. IsFiniteSet(DOMAIN lost)
  BY HistoryTypes, FS_Interval
<1>2. LostPositions(run) \in SUBSET (DOMAIN lost)
  BY DEF LostPositions
<1> QED
  BY <1>1, <1>2, FS_Subset, FS_CardinalityType

\* A line lost counts for the run that lost it and the file it was for.
LEMMA LoseCounts ==
  ASSUME FaultsTypeOK, NEW file, Lose(file), NEW run
  PROVE  Cardinality(LostPositions(run)') =
           IF run = Len(runs) /\ file = "positions"
           THEN Cardinality(LostPositions(run)) + 1
           ELSE Cardinality(LostPositions(run))
<1> PICK n \in Nat : n = Len(lost)
  BY HistoryTypes
<1> DEFINE line == [run |-> Len(runs), file |-> file]
<1>1. /\ DOMAIN lost = 1..n /\ DOMAIN lost' = 1..(n + 1)
      /\ lost'[n + 1] = line /\ \A i \in 1..n : lost'[i] = lost[i]
  <2>1. lost' = Append(lost, line)
    BY DEF Lose
  <2> HIDE DEF line
  <2> QED
    BY <2>1, HistoryTypes, AppendFacts
<1>2. IsFiniteSet(LostPositions(run)) /\ n + 1 \notin LostPositions(run)
  <2>1. IsFiniteSet(LostPositions(run))
    BY LostCount
  <2>2. n + 1 \notin LostPositions(run)
    BY <1>1 DEF LostPositions
  <2> QED
    BY <2>1, <2>2
<1>3. CASE run = Len(runs) /\ file = "positions"
  <2>1. LostPositions(run)' = LostPositions(run) \cup {n + 1}
    BY <1>1, <1>3 DEF LostPositions
  <2> QED
    BY <1>2, <1>3, <2>1, FS_AddElement
<1>4. CASE ~(run = Len(runs) /\ file = "positions")
  <2>1. LostPositions(run)' = LostPositions(run)
    BY <1>1, <1>4 DEF LostPositions
  <2> QED
    BY <1>4, <2>1
<1> QED
  BY <1>3, <1>4

-----------------------------------------------------------------------------
(***************************************************************************)
(* Types.                                                                  *)
(***************************************************************************)

\* The first run starts like any other, in empty files.
LEMMA FaultsTypeInit == FaultsInit => FaultsTypeOK
<1> SUFFICES ASSUME FaultsInit PROVE FaultsTypeOK
  OBVIOUS
<1>1. TypeOK
  BY TypeInit DEF FaultsInit
<1>2. /\ runs = <<[positions |-> 0, risk |-> 0, executions |-> 0]>> /\ lost = << >>
  BY DEF FaultsInit, RunStart
<1>3. runs \in Seq([positions : Nat, risk : Nat, executions : Nat]) /\ Len(runs) = 1
  BY <1>2
<1>4. lost \in Seq([run : 1..Len(runs), file : {"positions", "risk", "executions"}])
  BY <1>2
<1> QED
  BY <1>1, <1>2, <1>3, <1>4, FaultBoundsAssumption DEF FaultsTypeOK, Restarts

\* What a restart resets has its type again, and the files keep theirs.
LEMMA RestartType ==
  ASSUME FaultsTypeOK, Restart
  PROVE  FaultsTypeOK'
<1>1. /\ TypeOK /\ Len(positionsFile) \in Nat /\ Len(riskFile) \in Nat
      /\ Len(executionsFile) \in Nat
  BY HistoryTypes, Lengths
<1>2. TypeOK'
  <2>1. ServicesTypeOK'
    BY EmptyIsMap
       DEF Restart, ServicesTypeOK, MarketDataTypeOK, AlgoExecutionTypeOK,
           ExecutionTypeOK, TradeBookingTypeOK, PositionTypeOK, RiskTypeOK,
           EmptyMap
  <2>2. FilesTypeOK'
    BY <1>1, TypeOKParts
       DEF Restart, fileVars, FilesTypeOK, PositionHistory!TypeOK,
           RiskHistory!TypeOK, ExecutionHistory!TypeOK
  <2>3. CallsTypeOK'
    BY <1>1, TypeOKParts, BoundsAssumption
       DEF Restart, historyVars, CallsTypeOK, Calls, OrderCalls, NotifyCalls
  <2> QED
    BY <2>1, <2>2, <2>3, Zenon
       DEF TypeOK, ServicesTypeOK, FilesTypeOK, CallsTypeOK
<1> DEFINE start == RunStart(Len(positionsFile), Len(riskFile), Len(executionsFile))
<1>3. runs \in Seq(Starts) /\ start \in Starts /\ runs' = Append(runs, start)
  BY <1>1, HistoryTypes DEF Restart, RunStart, Starts
<1> HIDE DEF start
<1>4. runs' \in Seq(Starts) /\ Len(runs') = Len(runs) + 1
  BY <1>3, AppendProperties
<1>5. lost' \in Seq(LostIn(Len(runs')))
  <2>1. LostIn(Len(runs)) \subseteq LostIn(Len(runs'))
    BY <1>4, HistoryTypes DEF LostIn
  <2>2. lost \in Seq(LostIn(Len(runs'))) /\ lost' = lost
    BY <2>1, HistoryTypes, SeqMonotonic DEF Restart
  <2> QED
    BY <2>2
<1>6. Len(runs') - 1 \in 0..MaxRestarts /\ Len(lost') \in 0..MaxLost
  BY <1>4, HistoryTypes, FaultBoundsAssumption DEF FaultsTypeOK, Restart, Restarts
<1> QED
  BY <1>2, <1>4, <1>5, <1>6 DEF FaultsTypeOK, Restarts, Starts, LostIn

\* A lost line leaves the types of the calls and the files as they were.
LEMMA LoseType ==
  ASSUME FaultsTypeOK, LoseRisk \/ LosePosition \/ LoseExecution
  PROVE  FaultsTypeOK'
<1>1. TypeOK /\ CallsTypeOK
  BY HistoryTypes, TypeOKParts
<1>2. PICK file \in {"positions", "risk", "executions"} : Lose(file)
  BY DEF LoseRisk, LosePosition, LoseExecution
<1>3. UNCHANGED <<serviceVars, fileVars, inputVars, historyVars, runs>>
  BY <1>2 DEF LoseRisk, LosePosition, LoseExecution, Lose
<1>4. ServicesTypeOK' /\ FilesTypeOK'
  BY <1>1, <1>3, TypeOKParts
     DEF ServicesTypeOK, FilesTypeOK, serviceVars, fileVars, MarketDataTypeOK,
         AlgoExecutionTypeOK, ExecutionTypeOK, TradeBookingTypeOK,
         PositionTypeOK, RiskTypeOK, PositionHistory!TypeOK,
         RiskHistory!TypeOK, ExecutionHistory!TypeOK
<1>5. CallsTypeOK'
  <2> USE DEF CallsTypeOK, Calls, OrderCalls, NotifyCalls, inputVars, historyVars
  <2>1. CASE LoseRisk
    BY <1>1, <2>1 DEF LoseRisk
  <2>2. CASE LosePosition
    BY <1>1, <2>2 DEF LosePosition
  <2>3. CASE LoseExecution
    BY <1>1, <2>3 DEF LoseExecution
  <2> QED
    BY <2>1, <2>2, <2>3
<1>6. TypeOK'
  BY <1>4, <1>5, Zenon DEF TypeOK, ServicesTypeOK, FilesTypeOK, CallsTypeOK
<1> DEFINE line == [run |-> Len(runs), file |-> file]
<1>7. /\ lost \in Seq(LostIn(Len(runs))) /\ line \in LostIn(Len(runs))
      /\ lost' = Append(lost, line) /\ Len(lost) < MaxLost
  BY <1>2, HistoryTypes DEF Lose, LostIn
<1>8. lost' \in Seq(LostIn(Len(runs))) /\ Len(lost') = Len(lost) + 1
  <2> HIDE DEF line
  <2> QED
    BY <1>7, AppendProperties
<1>9. Len(lost') \in 0..MaxLost
  BY <1>7, <1>8, HistoryTypes, FaultBoundsAssumption
<1> QED
  BY <1>3, <1>6, <1>8, <1>9 DEF FaultsTypeOK, Restarts, LostIn

\* Every step keeps the types.
LEMMA FaultsTypeStep ==
  FaultsTypeOK /\ [FaultsNext]_<<vars, faultVars>> => FaultsTypeOK'
<1> SUFFICES ASSUME FaultsTypeOK, [FaultsNext]_<<vars, faultVars>>
             PROVE  FaultsTypeOK'
  OBVIOUS
<1>1. CASE ProgramStep \/ UNCHANGED <<vars, faultVars>>
  <2>1. TypeOK'
    BY <1>1, HistoryTypes, TypeStep DEF ProgramStep
  <2> QED
    BY <1>1, <2>1 DEF ProgramStep, faultVars, FaultsTypeOK, Restarts
<1> QED
  BY <1>1, RestartType, LoseType DEF FaultsNext, Run

-----------------------------------------------------------------------------
(***************************************************************************)
(* Executions and positions.                                               *)
(***************************************************************************)

\* The call chain survives faults: a file that does not open changes nothing
\* in it, and a program run again starts from main.
LEMMA FaultsCallsReturnStep ==
  ASSUME FaultsTypeOK, CallsReturn, [FaultsNext]_<<vars, faultVars>>
  PROVE  CallsReturn'
<1> USE DEF CallsReturn, NotifyCalls, BookingExecution
<1>1. CASE ProgramStep
  BY <1>1, HistoryTypes, CallsReturnStep DEF ProgramStep
<1>2. CASE LoseRisk
  BY <1>2 DEF LoseRisk, serviceVars, inputVars
<1>3. CASE LosePosition
  BY <1>3, HistoryTypes, TypeOKParts
     DEF LosePosition, serviceVars, inputVars, CallsTypeOK
<1>4. CASE LoseExecution
  BY <1>4 DEF LoseExecution, serviceVars, inputVars
<1>5. CASE Restart
  BY <1>5 DEF Restart
<1>6. CASE UNCHANGED <<vars, faultVars>>
  BY <1>6 DEF vars, serviceVars, callVars, inputVars
<1> QED
  BY <1>1, <1>2, <1>3, <1>4, <1>5, <1>6 DEF FaultsNext, Run

\* A step that writes p lines of positions.txt and e of executions.txt and
\* loses l of the first.
LinesMoved(p, e, l) ==
  /\ Len(positionsFile') = Len(positionsFile) + p
  /\ Len(executionsFile') = Len(executionsFile) + e
  /\ LostNow' = LostNow + l
  /\ LinesDone' <= LinesDone + p + l - 2 * e

\* What a step that is not a restart does: it writes or loses a line of
\* positions.txt for one more line done, and a line of executions.txt only when
\* both are.
LEMMA LinesMove ==
  ASSUME FaultsTypeOK, CallsReturn, Run \/ UNCHANGED <<vars, faultVars>>
  PROVE  /\ runs' = runs
         /\ \E p, e, l \in 0..1 : LinesMoved(p, e, l)
<1>0. /\ TypeOK /\ CallsTypeOK /\ LinesDone \in 0..2
      /\ Len(positionsFile) \in Nat /\ Len(executionsFile) \in Nat
      /\ LostNow \in Nat
  BY HistoryTypes, TypeOKParts, Lengths, LostCount DEF LinesDone, LostNow
<1> PICK now : now = Len(runs)
  OBVIOUS
<1> 0 \in 0..1 /\ 1 \in 0..1
  OBVIOUS
<1>1. CASE ProgramStep \/ UNCHANGED <<vars, faultVars>>
  <2>1. runs' = runs /\ LostNow' = LostNow
    BY <1>1 DEF ProgramStep, faultVars, LostNow, LostPositions
  <2>2. CASE PersistPosition
    <3>1. /\ Len(positionsFile') = Len(positionsFile) + 1
          /\ executionsFile' = executionsFile
      BY <1>0, <2>2, Appends DEF PersistPosition
    <3>2. LinesDone' <= LinesDone + 1
      BY <1>0, <2>2 DEF PersistPosition, LinesDone, CallsTypeOK
    <3>3. LinesMoved(1, 0, 0)
      BY <1>0, <2>1, <3>1, <3>2 DEF LinesMoved
    <3> QED
      BY <2>1, <3>3, Zenon
  <2>3. CASE PersistExecution
    <3>1. /\ Len(executionsFile') = Len(executionsFile) + 1
          /\ positionsFile' = positionsFile
      BY <1>0, <2>3, Appends DEF PersistExecution
    <3>2. LinesDone = 2 /\ LinesDone' = 0
      BY <2>3 DEF PersistExecution, LinesDone
    <3>3. LinesMoved(0, 1, 0)
      BY <1>0, <2>1, <3>1, <3>2 DEF LinesMoved
    <3> QED
      BY <2>1, <3>3, Zenon
  <2>4. CASE /\ UNCHANGED <<positionsFile, executionsFile>>
             /\ LinesDone' <= LinesDone
    <3>1. LinesMoved(0, 0, 0)
      BY <1>0, <2>1, <2>4 DEF LinesMoved
    <3> QED
      BY <2>1, <3>1, Zenon
  <2>5. CASE UNCHANGED <<vars, faultVars>>
    BY <1>0, <2>4, <2>5 DEF vars, fileVars, callVars, LinesDone
  <2>6. CASE \/ ReadTrade \/ EndOfTrades \/ ReadOrderBook \/ EndOfMarket
             \/ PassOnWideBook \/ AlgoExecuteOrder \/ ExecuteOrder
             \/ ProcessExecution \/ OnMessage \/ BookTrade \/ AddTrade
             \/ AddPosition \/ PersistRisk
    <3>1. UNCHANGED <<positionsFile, executionsFile>>
      BY <2>6
         DEF ReadTrade, EndOfTrades, ReadOrderBook, EndOfMarket,
             PassOnWideBook, AlgoExecuteOrder, ExecuteOrder,
             ProcessExecution, OnMessage, BookTrade, AddTrade, AddPosition,
             PersistRisk, fileVars
    <3>2. LinesDone' <= LinesDone
      BY <1>0, <2>6
         DEF ReadTrade, EndOfTrades, ReadOrderBook, EndOfMarket,
             PassOnWideBook, AlgoExecuteOrder, ExecuteOrder,
             ProcessExecution, OnMessage, BookTrade, AddTrade, AddPosition,
             PersistRisk, callVars, LinesDone, CallsReturn
    <3> QED
      BY <2>4, <3>1, <3>2
  <2> QED
    BY <1>1, <2>2, <2>3, <2>5, <2>6 DEF ProgramStep, Next
<1>2. CASE LoseRisk \/ LoseExecution
  <2>1. PICK file \in {"risk", "executions"} : Lose(file)
    BY <1>2 DEF LoseRisk, LoseExecution
  <2>2. /\ runs' = runs /\ UNCHANGED <<positionsFile, executionsFile>>
        /\ LostNow' = LostNow
    <3>1. Cardinality(LostPositions(now)') = Cardinality(LostPositions(now))
      BY <2>1, LoseCounts
    <3> QED
      BY <2>1, <3>1 DEF Lose, fileVars, LostNow, LostPositions
  <2>3. LinesDone' <= LinesDone
    BY <1>0, <1>2 DEF LoseRisk, LoseExecution, LinesDone, CallsReturn
  <2>4. LinesMoved(0, 0, 0)
    BY <1>0, <2>2, <2>3 DEF LinesMoved
  <2>5. runs' = runs
    BY <2>2
  <2> QED
    BY <2>4, <2>5, Zenon
<1>3. CASE LosePosition
  <2>1. Lose("positions")
    BY <1>3 DEF LosePosition
  <2>2. /\ runs' = runs /\ UNCHANGED <<positionsFile, executionsFile>>
        /\ LostNow' = LostNow + 1
    <3>1. Cardinality(LostPositions(now)') = Cardinality(LostPositions(now)) + 1
      BY <2>1, LoseCounts
    <3> QED
      BY <2>1, <3>1 DEF Lose, fileVars, LostNow, LostPositions
  <2>3. LinesDone' <= LinesDone + 1
    BY <1>0, <1>3 DEF LosePosition, LinesDone, CallsTypeOK
  <2>4. LinesMoved(0, 0, 1)
    BY <1>0, <2>2, <2>3 DEF LinesMoved
  <2>5. runs' = runs
    BY <2>2
  <2> QED
    BY <2>4, <2>5, Zenon
<1> QED
  BY <1>1, <1>2, <1>3 DEF Run

\* Lines done that are not in the files keep a cover.
LEMMA DoneOrNot ==
  ASSUME NEW executions \in Nat, NEW from \in Nat, NEW done \in 0..2,
         NEW written \in Nat, NEW start \in Nat, NEW missed \in Nat,
         2 * (executions - from) <= written - start - done + missed
  PROVE  2 * (executions - from) <= written - start + missed
  OBVIOUS

\* A line more of executions.txt takes two lines done; a line more of
\* positions.txt, written or lost, makes one.
LEMMA CoverMoves ==
  ASSUME NEW executions \in Nat, NEW from \in Nat, NEW written \in Nat,
         NEW start \in Nat, NEW missed \in Nat, NEW done \in 0..2,
         NEW doneNext \in 0..2, NEW e \in 0..1, NEW p \in 0..1, NEW l \in 0..1,
         doneNext <= done + p + l - 2 * e,
         2 * (executions - from) <= written - start - done + missed
  PROVE  2 * ((executions + e) - from)
           <= (written + p) - start - doneNext + (missed + l)
  OBVIOUS

\* Every step that is not a restart keeps what the runs before left, and keeps
\* the present run covered.
LEMMA RunKeepsCovered ==
  ASSUME FaultsInv, Run \/ UNCHANGED <<vars, faultVars>>
  PROVE  PastRunsCovered' /\ PresentRunCovered'
<1> PICK now \in Nat \ {0} : now = Len(runs)
  BY HistoryTypes DEF FaultsInv
<1>0. /\ FaultsTypeOK /\ CallsReturn /\ PastRunsCovered /\ PresentRunCovered
      /\ TypeOK /\ Len(positionsFile) \in Nat /\ Len(executionsFile) \in Nat
      /\ runs[now].positions \in Nat /\ runs[now].executions \in Nat
      /\ LinesDone \in 0..2 /\ LinesDone' \in 0..2 /\ LostNow \in Nat
  BY HistoryTypes, Lengths, LostCount DEF FaultsInv, LinesDone, LostNow
<1>1. PICK p, e, l \in 0..1 :
        runs' = runs /\ LinesMoved(p, e, l)
  BY <1>0, LinesMove
<1>2. ASSUME NEW run \in 1..(now - 1)
      PROVE  Covers(runs[run + 1].executions - runs[run].executions,
                    runs[run + 1].positions - runs[run].positions, run)'
  <2>1. Cardinality(LostPositions(run)') = Cardinality(LostPositions(run))
    <3>1. CASE UNCHANGED lost
      BY <3>1 DEF LostPositions
    <3>2. CASE \E file \in {"positions", "risk", "executions"} : Lose(file)
      <4>1. run # Len(runs)
        OBVIOUS
      <4> QED
        BY <1>0, <3>2, <4>1, LoseCounts
    <3> QED
      BY <3>1, <3>2
         DEF Run, ProgramStep, faultVars, LoseRisk, LosePosition, LoseExecution
  <2>2. Covers(runs[run + 1].executions - runs[run].executions,
               runs[run + 1].positions - runs[run].positions, run)
    BY <1>0 DEF PastRunsCovered
  <2> QED
    BY <1>1, <2>1, <2>2 DEF Covers
<1>3. PastRunsCovered'
  BY <1>1, <1>2 DEF PastRunsCovered
<1>4. 2 * (Len(executionsFile) - runs[now].executions)
        <= Len(positionsFile) - runs[now].positions - LinesDone + LostNow
  BY <1>0 DEF PresentRunCovered, Covers, LostNow
<1>5. 2 * (Len(executionsFile') - runs[now].executions)
        <= Len(positionsFile') - runs[now].positions - LinesDone' + LostNow'
  <2> PICK executions \in Nat : executions = Len(executionsFile)
    BY <1>0
  <2> PICK written \in Nat : written = Len(positionsFile)
    BY <1>0
  <2> PICK from \in Nat : from = runs[now].executions
    BY <1>0
  <2> PICK start \in Nat : start = runs[now].positions
    BY <1>0
  <2> PICK missed \in Nat : missed = LostNow
    BY <1>0
  <2> PICK done \in 0..2 : done = LinesDone
    BY <1>0
  <2> PICK doneNext \in 0..2 : doneNext = LinesDone'
    BY <1>0
  <2>1. /\ Len(executionsFile') = executions + e
        /\ Len(positionsFile') = written + p /\ LostNow' = missed + l
        /\ doneNext <= done + p + l - 2 * e
        /\ 2 * (executions - from) <= written - start - done + missed
    BY <1>1, <1>4 DEF LinesMoved
  <2>2. 2 * ((executions + e) - from)
          <= (written + p) - start - doneNext + (missed + l)
    <3>1. p \in 0..1 /\ e \in 0..1 /\ l \in 0..1
      BY <1>1
    <3>2. /\ doneNext <= done + p + l - 2 * e
          /\ 2 * (executions - from) <= written - start - done + missed
      BY <2>1
    <3> QED
      BY <3>1, <3>2, CoverMoves
  <2> QED
    BY <2>1, <2>2
<1>6. PresentRunCovered'
  BY <1>1, <1>5 DEF PresentRunCovered, Covers, LostNow
<1> QED
  BY <1>3, <1>6

\* A restart makes the present run one of the past ones: its lines are covered
\* without those of the execution it broke off.
LEMMA RestartKeepsCovered ==
  ASSUME FaultsInv, Restart
  PROVE  PastRunsCovered' /\ PresentRunCovered'
<1> PICK now \in Nat \ {0} : now = Len(runs)
  BY HistoryTypes DEF FaultsInv
<1> DEFINE start == RunStart(Len(positionsFile), Len(riskFile), Len(executionsFile))
<1>0. /\ FaultsTypeOK /\ PastRunsCovered /\ PresentRunCovered
      /\ TypeOK /\ Len(positionsFile) \in Nat /\ Len(executionsFile) \in Nat
      /\ Len(riskFile) \in Nat
      /\ runs[now].positions \in Nat /\ runs[now].executions \in Nat
      /\ runs \in Seq(Starts) /\ LinesDone \in 0..2 /\ LostNow \in Nat
  BY HistoryTypes, Lengths, LostCount DEF FaultsInv, LinesDone, LostNow
<1>1. /\ start \in Starts /\ runs' = Append(runs, start)
      /\ start.positions = Len(positionsFile)
      /\ start.executions = Len(executionsFile)
  BY <1>0 DEF Restart, RunStart, Starts
<1>2. /\ Len(runs') = now + 1 /\ runs'[now + 1] = start
      /\ \A run \in 1..now : runs'[run] = runs[run]
  <2> HIDE DEF start
  <2> QED
    BY <1>0, <1>1, AppendProperties
<1>3. /\ positionsFile' = positionsFile /\ executionsFile' = executionsFile
      /\ LinesDone' = 0 /\ lost' = lost
  BY DEF Restart, fileVars, LinesDone
<1> HIDE DEF start
<1>4. \A run : LostPositions(run)' = LostPositions(run)
  BY <1>3 DEF LostPositions
<1>5. ASSUME NEW run \in 1..now
      PROVE  Covers(runs[run + 1].executions - runs[run].executions,
                    runs[run + 1].positions - runs[run].positions, run)'
  <2>1. CASE run # now
    <3>1. run \in 1..(now - 1) /\ run + 1 \in 1..now
      BY <2>1
    <3>2. Covers(runs[run + 1].executions - runs[run].executions,
                 runs[run + 1].positions - runs[run].positions, run)
      BY <1>0, <3>1 DEF PastRunsCovered
    <3> QED
      BY <1>2, <1>4, <3>1, <3>2 DEF Covers
  <2>2. CASE run = now
    <3>1. 2 * (Len(executionsFile) - runs[now].executions)
            <= Len(positionsFile) - runs[now].positions - LinesDone + LostNow
      BY <1>0 DEF PresentRunCovered, Covers, LostNow
    <3>2. 2 * (Len(executionsFile) - runs[now].executions)
            <= Len(positionsFile) - runs[now].positions + LostNow
      BY <1>0, <3>1, DoneOrNot
    <3>3. 2 * (Len(executionsFile) - runs[now].executions)
            <= Len(positionsFile) - runs[now].positions
                 + Cardinality(LostPositions(now))
      BY <3>2 DEF LostNow
    <3> QED
      BY <1>1, <1>2, <1>4, <2>2, <3>3 DEF Covers
  <2> QED
    BY <2>1, <2>2
<1>6. PastRunsCovered'
  BY <1>2, <1>5 DEF PastRunsCovered
<1>7. Cardinality(LostPositions(now + 1)) \in Nat
  BY <1>0, LostCount
<1>8. PresentRunCovered'
  <2>1. /\ runs'[Len(runs')].executions = Len(executionsFile)
        /\ runs'[Len(runs')].positions = Len(positionsFile)
        /\ Cardinality(LostPositions(Len(runs)))'
             = Cardinality(LostPositions(now + 1))
    BY <1>1, <1>2, <1>4
  <2> PICK executions \in Nat : executions = Len(executionsFile)
    BY <1>0
  <2> PICK written \in Nat : written = Len(positionsFile)
    BY <1>0
  <2> PICK missed \in Nat : missed = Cardinality(LostPositions(now + 1))
    BY <1>7
  <2>2. 2 * (executions - executions) <= written - written - 0 + missed
    OBVIOUS
  <2> QED
    BY <1>3, <2>1, <2>2 DEF PresentRunCovered, Covers
<1> QED
  BY <1>6, <1>8

\* The program starts covered.
LEMMA FaultsInvInit == FaultsInit => FaultsInv
<1> SUFFICES ASSUME FaultsInit PROVE FaultsInv
  OBVIOUS
<1>1. FaultsTypeOK
  BY FaultsTypeInit
<1>2. /\ pc = "Main" /\ returnTo = "Main" /\ stage = "Trades" /\ bookingCount = 0
      /\ positionsFile = << >> /\ executionsFile = << >>
      /\ runs = <<[positions |-> 0, risk |-> 0, executions |-> 0]>>
  BY DEF FaultsInit, Init, RunStart, TradeBookingInit, PositionHistory!Init,
         ExecutionHistory!Init
<1>3. CallsReturn
  BY <1>2 DEF CallsReturn, NotifyCalls
<1>4. PastRunsCovered
  BY <1>2 DEF PastRunsCovered
<1>5. PresentRunCovered
  <2>1. Cardinality(LostPositions(1)) \in Nat
    BY <1>1, LostCount
  <2> QED
    BY <1>2, <2>1 DEF PresentRunCovered, Covers, LinesDone
<1> QED
  BY <1>1, <1>3, <1>4, <1>5 DEF FaultsInv

\* However often the program is stopped and run again, and whichever lines are
\* lost, the call chain returns and executions.txt stays covered.
THEOREM FaultsInvariant == FaultsSpec => []FaultsInv
<1>1. FaultsInv /\ [FaultsNext]_<<vars, faultVars>> => FaultsInv'
  <2> SUFFICES ASSUME FaultsInv, [FaultsNext]_<<vars, faultVars>>
               PROVE  FaultsInv'
    OBVIOUS
  <2>1. FaultsTypeOK' /\ CallsReturn'
    BY FaultsTypeStep, FaultsCallsReturnStep DEF FaultsInv
  <2>2. PastRunsCovered' /\ PresentRunCovered'
    BY RunKeepsCovered, RestartKeepsCovered DEF FaultsNext
  <2> QED
    BY <2>1, <2>2 DEF FaultsInv
<1> QED
  BY FaultsInvInit, <1>1, PTL DEF FaultsSpec

\* Restarts and lost lines leave every map, file and argument well typed.
THEOREM FaultsTypeCorrect == FaultsSpec => []FaultsTypeOK
<1>1. FaultsInv => FaultsTypeOK
  BY DEF FaultsInv
<1> QED
  BY <1>1, FaultsInvariant, PTL

\* No run leaves an execution in executions.txt whose two position lines are
\* neither in positions.txt nor lost.
THEOREM ExecutionsCorrect == FaultsSpec => []ExecutionsAreInPositions
<1>1. FaultsInv => ExecutionsAreInPositions
  <2> SUFFICES ASSUME FaultsInv, NEW run \in DOMAIN runs
               PROVE  2 * ((IF run = Len(runs) THEN Len(executionsFile)
                            ELSE runs[IF run = Len(runs) THEN run ELSE run + 1]
                                   .executions)
                             - runs[run].executions)
                        <= ((IF run = Len(runs) THEN Len(positionsFile)
                             ELSE runs[IF run = Len(runs) THEN run
                                       ELSE run + 1].positions)
                              - runs[run].positions)
                             + Cardinality(LostPositions(run))
    BY Zenon DEF ExecutionsAreInPositions, LostPositions
  <2> PICK now \in Nat \ {0} : now = Len(runs)
    BY HistoryTypes DEF FaultsInv
  <2>1. run \in 1..now
    BY HistoryTypes DEF FaultsInv
  <2>2. CASE run = now
    <3>1. /\ Len(positionsFile) \in Nat /\ Len(executionsFile) \in Nat
          /\ runs[now].positions \in Nat /\ runs[now].executions \in Nat
          /\ LinesDone \in 0..2 /\ LostNow \in Nat
      BY HistoryTypes, Lengths, LostCount DEF FaultsInv, LinesDone, LostNow
    <3>2. 2 * (Len(executionsFile) - runs[now].executions)
            <= Len(positionsFile) - runs[now].positions - LinesDone + LostNow
      BY DEF FaultsInv, PresentRunCovered, Covers, LostNow
    <3>3. 2 * (Len(executionsFile) - runs[now].executions)
            <= Len(positionsFile) - runs[now].positions + LostNow
      BY <3>1, <3>2, DoneOrNot
    <3> QED
      BY <2>2, <3>3 DEF LostNow
  <2>3. CASE run # now
    <3>1. run \in 1..(now - 1)
      BY <2>1, <2>3
    <3>2. 2 * (runs[run + 1].executions - runs[run].executions)
            <= runs[run + 1].positions - runs[run].positions
                 + Cardinality(LostPositions(run))
      BY <3>1 DEF FaultsInv, PastRunsCovered, Covers
    <3> QED
      BY <2>3, <3>2
  <2> QED
    BY <2>2, <2>3
<1> QED
  BY <1>1, FaultsInvariant, PTL

-----------------------------------------------------------------------------
(***************************************************************************)
(* Where a run last wrote of a product.                                    *)
(***************************************************************************)

\* The last place in a file that a run wrote of a product at, 0 if it did not.
LastPlace(file, starts, run, product) ==
  LET lines == LinesOf(file, starts, run, product)
  IN IF lines = {} THEN 0 ELSE Max(lines)

\* Runs that start in a file.
StartIn(starts, file) ==
  /\ IsSequence(starts) /\ IsSequence(file)
  /\ \A run \in 1..Len(starts) : starts[run] \in 0..Len(file)

\* Max finds the greatest of some places.
LEMMA MaxOfPlaces ==
  ASSUME NEW n \in Nat, NEW S \in SUBSET (1..n), S # {}
  PROVE  Max(S) \in S /\ \A j \in S : Max(S) >= j
<1>1. \E i \in S : \A j \in S : i >= j
  BY GreatestPlace
<1> QED
  BY <1>1, Zenon DEF Max

\* The next place is the greatest when it is one of them.
LEMMA MaxOfNext ==
  ASSUME NEW n \in Nat, NEW S \in SUBSET (1..(n + 1)), n + 1 \in S
  PROVE  Max(S) = n + 1
<1>1. Max(S) \in S /\ \A j \in S : Max(S) >= j
  <2>1. n + 1 \in Nat /\ S # {}
    OBVIOUS
  <2> QED
    BY <2>1, MaxOfPlaces
<1>2. Max(S) \in 1..(n + 1) /\ Max(S) >= n + 1
  BY <1>1
<1> QED
  BY <1>2

\* What a run wrote of a product is in the file.
LEMMA LinesAreInFile ==
  ASSUME NEW file, NEW starts, StartIn(starts, file),
         NEW run \in 1..Len(starts), NEW product
  PROVE  /\ LinesOf(file, starts, run, product) \in SUBSET (1..Len(file))
         /\ LastPlace(file, starts, run, product) \in 0..Len(file)
         /\ LastPlace(file, starts, run, product) = 0 <=>
              LinesOf(file, starts, run, product) = {}
<1> DEFINE lines == LinesOf(file, starts, run, product)
<1>1. /\ Len(file) \in Nat /\ Len(starts) \in Nat
      /\ starts[run] \in 0..Len(file)
      /\ run # Len(starts) => starts[run + 1] \in 0..Len(file)
  BY AppendFacts DEF StartIn
<1>2. lines \in SUBSET (1..Len(file))
  BY <1>1 DEF LinesOf
<1> HIDE DEF lines
<1>3. lines # {} => Max(lines) \in lines
  BY <1>1, <1>2, MaxOfPlaces
<1>4. LastPlace(file, starts, run, product) = IF lines = {} THEN 0 ELSE Max(lines)
  BY DEF LastPlace, lines
<1>5. lines # {} => Max(lines) \in 1..Len(file)
  BY <1>2, <1>3
<1>6. /\ LastPlace(file, starts, run, product) \in 0..Len(file)
      /\ LastPlace(file, starts, run, product) = 0 <=> lines = {}
  BY <1>1, <1>4, <1>5
<1> QED
  BY <1>2, <1>6 DEF lines

\* A line more is the last the present run wrote of its product, and tells
\* nothing of another product or run.
LEMMA LastPlaceWrites ==
  ASSUME NEW file, NEW starts, StartIn(starts, file),
         NEW run \in 1..Len(starts), NEW product, NEW line
  PROVE  LastPlace(Append(file, line), starts, run, product) =
           IF run = Len(starts) /\ product = line.product
           THEN Len(file) + 1 ELSE LastPlace(file, starts, run, product)
<1> DEFINE longer == Append(file, line)
           lines  == LinesOf(file, starts, run, product)
           after  == LinesOf(longer, starts, run, product)
<1> PICK n : n = Len(file)
  OBVIOUS
<1>1. /\ n \in Nat /\ Len(starts) \in Nat /\ starts[run] \in 0..n
      /\ run # Len(starts) => starts[run + 1] \in 0..n
      /\ lines \in SUBSET (1..n)
  BY AppendFacts, LinesAreInFile DEF StartIn
<1>2. /\ Len(longer) = n + 1 /\ longer[n + 1] = line
      /\ \A i \in 1..n : longer[i] = file[i]
  BY AppendFacts DEF StartIn
<1> HIDE DEF longer
<1>3. after = IF run = Len(starts) /\ product = line.product
              THEN lines \cup {n + 1} ELSE lines
  BY <1>1, <1>2 DEF LinesOf
<1> HIDE DEF lines, after
<1>4. Max(lines \cup {n + 1}) = n + 1
  BY <1>1, MaxOfNext
<1>5. /\ LastPlace(longer, starts, run, product)
           = (IF after = {} THEN 0 ELSE Max(after))
      /\ LastPlace(file, starts, run, product)
           = (IF lines = {} THEN 0 ELSE Max(lines))
  BY DEF LastPlace, lines, after
<1> QED
  BY <1>3, <1>4, <1>5 DEF longer

\* A run that starts where the file ends has not written yet, and the runs
\* before it have written what they had.
LEMMA LastPlaceRestarts ==
  ASSUME NEW file, NEW starts, StartIn(starts, file), NEW product
  PROVE  LET more == Append(starts, Len(file))
         IN /\ \A run \in 1..Len(starts) :
                 LastPlace(file, more, run, product)
                   = LastPlace(file, starts, run, product)
            /\ LastPlace(file, more, Len(starts) + 1, product) = 0
<1> DEFINE more == Append(starts, Len(file))
<1> PICK n : n = Len(file)
  OBVIOUS
<1> PICK now : now = Len(starts)
  OBVIOUS
<1>1. /\ n \in Nat /\ now \in Nat
      /\ \A run \in 1..now : starts[run] \in 0..n
  BY AppendFacts DEF StartIn
<1>2. /\ Len(more) = now + 1 /\ more[now + 1] = n
      /\ \A run \in 1..now : more[run] = starts[run]
  BY AppendFacts DEF StartIn
<1> HIDE DEF more
<1>3. ASSUME NEW run \in 1..now
      PROVE  LinesOf(file, more, run, product) = LinesOf(file, starts, run, product)
  BY <1>1, <1>2 DEF LinesOf
<1>4. LinesOf(file, more, now + 1, product) = {}
  BY <1>1, <1>2 DEF LinesOf
<1> QED
  BY <1>3, <1>4 DEF LastPlace, more

\* Runs still start in a file when a line is appended, and so does one more
\* run.
LEMMA StartInGrows ==
  ASSUME NEW file, NEW starts, StartIn(starts, file), NEW line
  PROVE  /\ StartIn(starts, Append(file, line))
         /\ StartIn(Append(starts, Len(file)), file)
<1>1. /\ Len(file) \in Nat /\ IsSequence(Append(file, line))
      /\ Len(Append(file, line)) = Len(file) + 1
  BY AppendFacts DEF StartIn
<1> DEFINE more == Append(starts, Len(file))
<1>2. /\ Len(starts) \in Nat /\ IsSequence(more)
      /\ Len(more) = Len(starts) + 1 /\ more[Len(starts) + 1] = Len(file)
      /\ \A run \in 1..Len(starts) : more[run] = starts[run]
  BY AppendFacts DEF StartIn
<1> HIDE DEF more
<1>3. StartIn(starts, Append(file, line))
  BY <1>1 DEF StartIn
<1>4. StartIn(more, file)
  BY <1>1, <1>2 DEF StartIn
<1> QED
  BY <1>3, <1>4 DEF more

-----------------------------------------------------------------------------
(***************************************************************************)
(* The inductive invariant of the account the files give.                  *)
(***************************************************************************)

\* In these calls a position that PositionService holds is on its way to
\* positions.txt.
Writing == pc \in {"AddPosition", "PersistRisk", "PersistPosition"}

\* The position on its way is the one in memory, and the risk on its way is
\* that position's. Of ArgumentsCurrent this is what a lost line leaves.
ArgumentsInFlight ==
  Writing =>
    /\ position.product = trade.product
    /\ position.product \in DOMAIN positions
    /\ position.held = positions[position.product]
    /\ pc = "PersistRisk" => pv01 = RiskOf(position.product, position.held)

\* A run starts where the files were.
RunsStartInFiles ==
  \A run \in 1..Len(runs) :
    /\ runs[run].positions <= Len(positionsFile)
    /\ runs[run].risk <= Len(riskFile)

\* What positions.txt will say of a run and product when the position about to
\* be written is there.
NextFinal(run, product) ==
  IF pc = "PersistPosition" /\ run = Len(runs) /\ product = position.product
  THEN position.held ELSE FinalPosition(run, product)

\* The runs and products that the two files will end apart about even then.
StayApart ==
  {of \in (DOMAIN runs) \X ProductIds :
     FinalRisk(of[1], of[2])
       # GetAggregatePosition(NextFinal(of[1], of[2]))}

\* The restarts, and the lines of the given files lost.
FaultsSoFar(files) == Restarts + Cardinality(LostOf(files))

\* There is a fault to blame for each place.
Blamed(places, files) ==
  IsFiniteSet(places) /\ Cardinality(places) <= FaultsSoFar(files)

\* What each run's last line of a product says of a book.
Filings(product, book) ==
  [run \in DOMAIN runs |-> GetPosition(FinalPosition(run, product), book)]

\* What the present run's says.
FiledNow(product, book) == Filings(product, book)[Len(runs)]

\* What will be held if no fault comes between.
Booked(product, book) ==
  OnFile(product, book) - FiledNow(product, book)
    + (Held(product, book) + QuantityDue(product, book))

\* What a restart made the program forget, in memory or in the calls.
Forgotten ==
  {at \in ProductIds \X Books : Booked(at[1], at[2]) # OrderedByAll(at[1], at[2])}

\* The products and books of which memory and positions.txt differ, but for
\* those of the position on its way.
Stale ==
  {at \in ProductIds \X Books :
     /\ Held(at[1], at[2]) # FiledNow(at[1], at[2])
     /\ Writing => at # <<trade.product, trade.book>>}

\* Neither FilesAccountForTrades nor RiskFileFollowsPositionsFile is inductive:
\* each fault is blamed for one place at the time it happens, whether the files
\* show it then or later.
AccountInv ==
  /\ FaultsTypeOK /\ CallsReturn /\ ArgumentsInFlight /\ RunsStartInFiles
  /\ Blamed(StayApart, {"positions", "risk"})
  /\ Blamed(Forgotten \cup Stale, {"positions"})

-----------------------------------------------------------------------------
(***************************************************************************)
(* What the files say of each run and product.                             *)
(***************************************************************************)

\* Where each run's lines start in the two files.
PositionStarts == [run \in DOMAIN runs |-> runs[run].positions]
RiskStarts == [run \in DOMAIN runs |-> runs[run].risk]

\* Every run starts in both files.
LEMMA StartsInFiles ==
  ASSUME FaultsTypeOK, RunsStartInFiles
  PROVE  /\ StartIn(PositionStarts, positionsFile) /\ StartIn(RiskStarts, riskFile)
         /\ Len(PositionStarts) = Len(runs) /\ Len(RiskStarts) = Len(runs)
<1>1. /\ IsSequence(positionsFile) /\ IsSequence(riskFile)
      /\ Len(positionsFile) \in Nat /\ Len(riskFile) \in Nat
      /\ Len(runs) \in Nat /\ DOMAIN runs = 1..Len(runs)
  BY HistoryTypes, TypeOKParts, FilesTypeFacts, Lengths DEF FilesTypeOK
<1>2. \A run \in 1..Len(runs) : /\ runs[run].positions \in 0..Len(positionsFile)
                                /\ runs[run].risk \in 0..Len(riskFile)
  BY <1>1, HistoryTypes DEF RunsStartInFiles
<1>3. /\ IsSequence(PositionStarts) /\ Len(PositionStarts) = Len(runs)
      /\ IsSequence(RiskStarts) /\ Len(RiskStarts) = Len(runs)
  BY <1>1 DEF IsSequence, PositionStarts, RiskStarts
<1>4. \A run \in 1..Len(runs) : /\ PositionStarts[run] = runs[run].positions
                                /\ RiskStarts[run] = runs[run].risk
  BY <1>1 DEF PositionStarts, RiskStarts
<1> QED
  BY <1>1, <1>2, <1>3, <1>4 DEF StartIn

\* What a run last wrote is read at the last place it wrote at.
LEMMA FinalsAtLastPlaces ==
  ASSUME FaultsTypeOK, RunsStartInFiles, NEW run \in 1..Len(runs), NEW product
  PROVE  /\ LET at == LastPlace(positionsFile, PositionStarts, run, product)
            IN FinalPosition(run, product)
                 = IF at = 0 THEN EmptyMap ELSE positionsFile[at].held
         /\ LET at == LastPlace(riskFile, RiskStarts, run, product)
            IN FinalRisk(run, product)
                 = IF at = 0 THEN 0 ELSE riskFile[at].quantity
  BY StartsInFiles, LinesAreInFile
     DEF FinalPosition, PositionLines, PositionStarts, FinalRisk, RiskLines,
         RiskStarts, LastPlace

\* They are a position and a quantity.
LEMMA FinalTypes ==
  ASSUME FaultsTypeOK, RunsStartInFiles, NEW run \in 1..Len(runs), NEW product
  PROVE  IsPosition(FinalPosition(run, product)) /\ FinalRisk(run, product) \in Int
<1>1. /\ LastPlace(positionsFile, PositionStarts, run, product) \in 0..Len(positionsFile)
      /\ LastPlace(riskFile, RiskStarts, run, product) \in 0..Len(riskFile)
  BY StartsInFiles, LinesAreInFile
<1>2. /\ \A i \in 1..Len(positionsFile) : IsPosition(positionsFile[i].held)
      /\ \A i \in 1..Len(riskFile) : riskFile[i].quantity \in Int
      /\ Len(positionsFile) \in Nat /\ Len(riskFile) \in Nat
  BY HistoryTypes, TypeOKParts, FilesTypeFacts, Lengths
     DEF FilesTypeOK, IsPositionLine, IsRiskLine
<1>3. IsPosition(EmptyMap)
  BY EmptyIsMap DEF IsPosition
<1> QED
  BY <1>1, <1>2, <1>3, FinalsAtLastPlaces

\* The line of a position is what its run last wrote of its product.
LEMMA PersistPositionWrites ==
  ASSUME FaultsTypeOK, RunsStartInFiles, PersistPosition, UNCHANGED runs,
         NEW run \in 1..Len(runs), NEW product
  PROVE  /\ FinalPosition(run, product)' =
              IF run = Len(runs) /\ product = position.product
              THEN position.held ELSE FinalPosition(run, product)
         /\ FinalRisk(run, product)' = FinalRisk(run, product)
<1> DEFINE at    == LastPlace(positionsFile, PositionStarts, run, product)
           after == LastPlace(positionsFile', PositionStarts, run, product)
<1>1. /\ positionsFile' = Append(positionsFile, position)
      /\ StartIn(PositionStarts, positionsFile)
      /\ StartIn(PositionStarts, positionsFile')
      /\ Len(PositionStarts) = Len(runs) /\ PositionStarts' = PositionStarts
      /\ UNCHANGED riskFile
  BY StartsInFiles, StartInGrows
     DEF PersistPosition, PositionHistory!PersistData, PositionStarts
<1>2. /\ Len(positionsFile) \in Nat /\ at \in 0..Len(positionsFile)
      /\ after = IF run = Len(runs) /\ product = position.product
                 THEN Len(positionsFile) + 1 ELSE at
  BY <1>1, HistoryTypes, Lengths, LinesAreInFile, LastPlaceWrites
<1>3. /\ FinalPosition(run, product)
           = IF at = 0 THEN EmptyMap ELSE positionsFile[at].held
      /\ FinalPosition(run, product)'
           = IF after = 0 THEN EmptyMap ELSE positionsFile'[after].held
  <2>1. /\ after = 0 <=> LinesOf(positionsFile', PositionStarts, run, product) = {}
        /\ after # 0 => after = Max(LinesOf(positionsFile', PositionStarts, run, product))
    BY <1>1, LinesAreInFile DEF LastPlace
  <2>2. FinalPosition(run, product)'
          = IF LinesOf(positionsFile', PositionStarts', run, product) = {}
            THEN EmptyMap
            ELSE positionsFile'[Max(LinesOf(positionsFile', PositionStarts', run,
                                            product))].held
    BY DEF FinalPosition, PositionLines, PositionStarts
  <2> QED
    BY <1>1, <2>1, <2>2, FinalsAtLastPlaces
<1>4. /\ positionsFile'[Len(positionsFile) + 1] = position
      /\ \A i \in 1..Len(positionsFile) : positionsFile'[i] = positionsFile[i]
  BY HistoryTypes, Appends
<1> HIDE DEF at, after
<1>5. FinalPosition(run, product)' =
        IF run = Len(runs) /\ product = position.product
        THEN position.held ELSE FinalPosition(run, product)
  BY <1>2, <1>3, <1>4
<1>6. FinalRisk(run, product)' = FinalRisk(run, product)
  BY <1>1 DEF FinalRisk, RiskLines
<1> QED
  BY <1>5, <1>6

\* The line of a risk is what its run last wrote of its product.
LEMMA PersistRiskWrites ==
  ASSUME FaultsTypeOK, RunsStartInFiles, PersistRisk, UNCHANGED runs,
         NEW run \in 1..Len(runs), NEW product
  PROVE  /\ FinalRisk(run, product)' =
              IF run = Len(runs) /\ product = pv01.product
              THEN pv01.quantity ELSE FinalRisk(run, product)
         /\ FinalPosition(run, product)' = FinalPosition(run, product)
<1> DEFINE at    == LastPlace(riskFile, RiskStarts, run, product)
           after == LastPlace(riskFile', RiskStarts, run, product)
<1>1. /\ riskFile' = Append(riskFile, pv01)
      /\ StartIn(RiskStarts, riskFile)
      /\ StartIn(RiskStarts, riskFile')
      /\ Len(RiskStarts) = Len(runs) /\ RiskStarts' = RiskStarts
      /\ UNCHANGED positionsFile
  BY StartsInFiles, StartInGrows
     DEF PersistRisk, RiskHistory!PersistData, RiskStarts
<1>2. /\ Len(riskFile) \in Nat /\ at \in 0..Len(riskFile)
      /\ after = IF run = Len(runs) /\ product = pv01.product
                 THEN Len(riskFile) + 1 ELSE at
  BY <1>1, HistoryTypes, Lengths, LinesAreInFile, LastPlaceWrites
<1>3. /\ FinalRisk(run, product)
           = IF at = 0 THEN 0 ELSE riskFile[at].quantity
      /\ FinalRisk(run, product)'
           = IF after = 0 THEN 0 ELSE riskFile'[after].quantity
  <2>1. /\ after = 0 <=> LinesOf(riskFile', RiskStarts, run, product) = {}
        /\ after # 0 => after = Max(LinesOf(riskFile', RiskStarts, run, product))
    BY <1>1, LinesAreInFile DEF LastPlace
  <2>2. FinalRisk(run, product)'
          = IF LinesOf(riskFile', RiskStarts', run, product) = {}
            THEN 0
            ELSE riskFile'[Max(LinesOf(riskFile', RiskStarts', run, product))]
                   .quantity
    BY DEF FinalRisk, RiskLines, RiskStarts
  <2> QED
    BY <1>1, <2>1, <2>2, FinalsAtLastPlaces
<1>4. /\ riskFile'[Len(riskFile) + 1] = pv01
      /\ \A i \in 1..Len(riskFile) : riskFile'[i] = riskFile[i]
  BY HistoryTypes, Appends
<1> HIDE DEF at, after
<1>5. FinalRisk(run, product)' =
        IF run = Len(runs) /\ product = pv01.product
        THEN pv01.quantity ELSE FinalRisk(run, product)
  BY <1>2, <1>3, <1>4
<1>6. FinalPosition(run, product)' = FinalPosition(run, product)
  BY <1>1 DEF FinalPosition, PositionLines
<1> QED
  BY <1>5, <1>6

\* A sequence that is another with one more element is what Append makes.
LEMMA IsAppended ==
  ASSUME NEW s, IsSequence(s), NEW t, IsSequence(t), NEW e,
         Len(t) = Len(s) + 1, t[Len(s) + 1] = e,
         \A i \in 1..Len(s) : t[i] = s[i]
  PROVE  t = Append(s, e)
<1>1. /\ t = [i \in 1..(Len(s) + 1) |-> t[i]]
      /\ Append(s, e) = [i \in 1..(Len(s) + 1) |-> Append(s, e)[i]]
  <2>1. \A u : IsSequence(u) => u = [i \in 1..Len(u) |-> u[i]]
    BY DEF IsSequence
  <2>2. IsSequence(Append(s, e)) /\ Len(Append(s, e)) = Len(s) + 1
    BY AppendFacts
  <2> QED
    BY <2>1, <2>2
<1>2. \A i \in 1..(Len(s) + 1) : t[i] = Append(s, e)[i]
  BY AppendFacts
<1> QED
  BY <1>1, <1>2

\* A restart adds a run that starts where the files end.
LEMMA RestartStarts ==
  ASSUME FaultsTypeOK, RunsStartInFiles, Restart
  PROVE  /\ Len(runs') = Len(runs) + 1 /\ DOMAIN runs' = 1..(Len(runs) + 1)
         /\ PositionStarts' = Append(PositionStarts, Len(positionsFile))
         /\ RiskStarts' = Append(RiskStarts, Len(riskFile))
         /\ UNCHANGED <<positionsFile, riskFile, lost>>
<1> DEFINE start == RunStart(Len(positionsFile), Len(riskFile), Len(executionsFile))
<1>1. /\ runs \in Seq(Starts) /\ start \in Starts /\ runs' = Append(runs, start)
      /\ start.positions = Len(positionsFile) /\ start.risk = Len(riskFile)
      /\ UNCHANGED <<positionsFile, riskFile, lost>>
  BY HistoryTypes, Lengths DEF Restart, RunStart, Starts, fileVars
<1> PICK now \in Nat : now = Len(runs)
  BY HistoryTypes
<1> HIDE DEF start
<1>2. /\ DOMAIN runs = 1..now /\ runs' \in Seq(Starts)
      /\ Len(runs') = now + 1 /\ DOMAIN runs' = 1..(now + 1)
      /\ runs'[now + 1] = start /\ \A run \in 1..now : runs'[run] = runs[run]
  BY <1>1, AppendProperties
<1>3. /\ IsSequence(PositionStarts') /\ IsSequence(RiskStarts')
      /\ Len(PositionStarts') = now + 1 /\ Len(RiskStarts') = now + 1
      /\ \A run \in 1..(now + 1) :
           /\ PositionStarts'[run] = runs'[run].positions
           /\ RiskStarts'[run] = runs'[run].risk
  BY <1>2 DEF PositionStarts, RiskStarts, IsSequence
<1>4. /\ IsSequence(PositionStarts) /\ IsSequence(RiskStarts)
      /\ Len(PositionStarts) = now /\ Len(RiskStarts) = now
      /\ \A run \in 1..now : /\ PositionStarts[run] = runs[run].positions
                             /\ RiskStarts[run] = runs[run].risk
  BY <1>2 DEF PositionStarts, RiskStarts, IsSequence
<1>5. PositionStarts' = Append(PositionStarts, Len(positionsFile))
  BY <1>1, <1>2, <1>3, <1>4, IsAppended
<1>6. RiskStarts' = Append(RiskStarts, Len(riskFile))
  <2>1. RiskStarts'[now + 1] = Len(riskFile)
    BY <1>1, <1>2, <1>3
  <2>2. \A run \in 1..now : RiskStarts'[run] = RiskStarts[run]
    BY <1>2, <1>3, <1>4
  <2> QED
    BY <1>3, <1>4, <2>1, <2>2, IsAppended
<1> QED
  BY <1>1, <1>2, <1>5, <1>6

\* It has written nothing, and what the runs before it wrote is what it was.
LEMMA RestartWrites ==
  ASSUME FaultsTypeOK, RunsStartInFiles, Restart, NEW product
  PROVE  \A run \in 1..(Len(runs) + 1) :
           /\ FinalPosition(run, product)' =
                IF run = Len(runs) + 1 THEN EmptyMap
                ELSE FinalPosition(run, product)
           /\ FinalRisk(run, product)' =
                IF run = Len(runs) + 1 THEN 0 ELSE FinalRisk(run, product)
<1> PICK now \in Nat : now = Len(runs)
  BY HistoryTypes
<1>1. /\ Len(runs') = now + 1
      /\ PositionStarts' = Append(PositionStarts, Len(positionsFile))
      /\ RiskStarts' = Append(RiskStarts, Len(riskFile))
      /\ UNCHANGED <<positionsFile, riskFile>>
      /\ StartIn(PositionStarts, positionsFile) /\ StartIn(RiskStarts, riskFile)
      /\ StartIn(PositionStarts', positionsFile) /\ StartIn(RiskStarts', riskFile)
      /\ Len(PositionStarts) = now /\ Len(RiskStarts) = now
      /\ Len(PositionStarts') = now + 1 /\ Len(RiskStarts') = now + 1
  BY RestartStarts, StartsInFiles, StartInGrows, AppendFacts DEF StartIn
<1>2. ASSUME NEW run \in 1..(now + 1)
      PROVE  /\ LET at == LastPlace(positionsFile, PositionStarts', run, product)
                IN FinalPosition(run, product)'
                     = IF at = 0 THEN EmptyMap ELSE positionsFile[at].held
             /\ LET at == LastPlace(riskFile, RiskStarts', run, product)
                IN FinalRisk(run, product)'
                     = IF at = 0 THEN 0 ELSE riskFile[at].quantity
  <2>1. /\ LastPlace(positionsFile, PositionStarts', run, product) = 0 <=>
             LinesOf(positionsFile, PositionStarts', run, product) = {}
        /\ LastPlace(riskFile, RiskStarts', run, product) = 0 <=>
             LinesOf(riskFile, RiskStarts', run, product) = {}
    BY <1>1, LinesAreInFile
  <2>2. /\ FinalPosition(run, product)'
             = (LET lines == LinesOf(positionsFile', PositionStarts', run, product)
                IN IF lines = {} THEN EmptyMap ELSE positionsFile'[Max(lines)].held)
        /\ FinalRisk(run, product)'
             = (LET lines == LinesOf(riskFile', RiskStarts', run, product)
                IN IF lines = {} THEN 0 ELSE riskFile'[Max(lines)].quantity)
    BY DEF FinalPosition, PositionLines, PositionStarts, FinalRisk, RiskLines,
           RiskStarts
  <2> QED
    BY <1>1, <2>1, <2>2 DEF LastPlace
<1>3. /\ \A run \in 1..now :
           /\ LastPlace(positionsFile, PositionStarts', run, product)
                = LastPlace(positionsFile, PositionStarts, run, product)
           /\ LastPlace(riskFile, RiskStarts', run, product)
                = LastPlace(riskFile, RiskStarts, run, product)
      /\ LastPlace(positionsFile, PositionStarts', now + 1, product) = 0
      /\ LastPlace(riskFile, RiskStarts', now + 1, product) = 0
  BY <1>1, LastPlaceRestarts
<1>4. ASSUME NEW run \in 1..now
      PROVE  /\ FinalPosition(run, product)' = FinalPosition(run, product)
             /\ FinalRisk(run, product)' = FinalRisk(run, product)
  BY <1>2, <1>3, FinalsAtLastPlaces
<1>5. /\ FinalPosition(now + 1, product)' = EmptyMap
      /\ FinalRisk(now + 1, product)' = 0
  BY <1>2, <1>3
<1> QED
  BY <1>1, <1>4, <1>5

-----------------------------------------------------------------------------
(***************************************************************************)
(* Faults and what is blamed on them.                                      *)
(***************************************************************************)

\* Fewer places need no more faults.
LEMMA BlameNoMore ==
  ASSUME NEW S, IsFiniteSet(S), NEW n \in Nat, Cardinality(S) <= n,
         NEW T \in SUBSET S
  PROVE  IsFiniteSet(T) /\ Cardinality(T) <= n
<1>1. IsFiniteSet(T) /\ Cardinality(T) <= Cardinality(S)
  BY FS_Subset
<1>2. Cardinality(T) \in Nat /\ Cardinality(S) \in Nat
  BY <1>1, FS_CardinalityType
<1> QED
  BY <1>1, <1>2

\* One more place is paid for by one more fault.
LEMMA BlameOneMore ==
  ASSUME NEW S, IsFiniteSet(S), NEW n \in Nat, Cardinality(S) <= n, NEW x,
         NEW T \in SUBSET (S \cup {x})
  PROVE  IsFiniteSet(T) /\ Cardinality(T) <= n + 1
<1> DEFINE U == S \cup {x}
<1>1. IsFiniteSet(U) /\ (Cardinality(U) = Cardinality(S)
                           \/ Cardinality(U) = Cardinality(S) + 1)
  BY FS_AddElement
<1>2. Cardinality(S) \in Nat
  BY FS_CardinalityType
<1>3. Cardinality(U) <= n + 1
  BY <1>1, <1>2
<1> HIDE DEF U
<1>4. T \in SUBSET U
  BY DEF U
<1> QED
  BY <1>1, <1>3, <1>4, BlameNoMore

\* There is a number of faults.
LEMMA FaultsCounted ==
  ASSUME FaultsTypeOK, NEW files
  PROVE  /\ Restarts \in Nat /\ Restarts = Len(runs) - 1
         /\ IsFiniteSet(LostOf(files)) /\ Cardinality(LostOf(files)) \in Nat
         /\ FaultsSoFar(files) \in Nat
<1>1. /\ Len(runs) \in Nat \ {0} /\ Len(lost) \in Nat /\ DOMAIN lost = 1..Len(lost)
  BY HistoryTypes
<1>2. IsFiniteSet(1..Len(lost)) /\ LostOf(files) \in SUBSET (1..Len(lost))
  BY <1>1, FS_Interval DEF LostOf
<1>3. IsFiniteSet(LostOf(files)) /\ Cardinality(LostOf(files)) \in Nat
  BY <1>2, FS_Subset, FS_CardinalityType
<1> QED
  BY <1>1, <1>3 DEF Restarts, FaultsSoFar

\* A line lost is one more fault of its file, and a restart one of every file.
LEMMA FaultsMove ==
  ASSUME FaultsTypeOK, RunsStartInFiles, NEW files
  PROVE  /\ UNCHANGED <<runs, lost>> => FaultsSoFar(files)' = FaultsSoFar(files)
         /\ \A file : Lose(file) =>
              FaultsSoFar(files)' = IF file \in files THEN FaultsSoFar(files) + 1
                                    ELSE FaultsSoFar(files)
         /\ Restart => FaultsSoFar(files)' = FaultsSoFar(files) + 1
<1>0. /\ Restarts \in Nat /\ Cardinality(LostOf(files)) \in Nat
      /\ IsFiniteSet(LostOf(files))
  BY FaultsCounted
<1>1. ASSUME UNCHANGED <<runs, lost>>
      PROVE  FaultsSoFar(files)' = FaultsSoFar(files)
  BY <1>1 DEF FaultsSoFar, Restarts, LostOf
<1>2. ASSUME NEW file, Lose(file)
      PROVE  FaultsSoFar(files)' = IF file \in files THEN FaultsSoFar(files) + 1
                                   ELSE FaultsSoFar(files)
  <2> PICK n \in Nat : n = Len(lost)
    BY HistoryTypes
  <2> DEFINE line == [run |-> Len(runs), file |-> file]
  <2>1. /\ DOMAIN lost = 1..n /\ DOMAIN lost' = 1..(n + 1)
        /\ lost'[n + 1].file = file /\ \A i \in 1..n : lost'[i] = lost[i]
        /\ UNCHANGED runs
    <3>1. lost' = Append(lost, line) /\ line.file = file /\ UNCHANGED runs
      BY <1>2 DEF Lose
    <3> HIDE DEF line
    <3> QED
      BY <3>1, HistoryTypes, AppendFacts
  <2>2. n + 1 \notin LostOf(files)
    BY <2>1 DEF LostOf
  <2>3. LostOf(files)' = IF file \in files THEN LostOf(files) \cup {n + 1}
                         ELSE LostOf(files)
    BY <2>1 DEF LostOf
  <2>4. Cardinality(LostOf(files) \cup {n + 1}) = Cardinality(LostOf(files)) + 1
    BY <1>0, <2>2, FS_AddElement
  <2> QED
    BY <1>0, <2>1, <2>3, <2>4 DEF FaultsSoFar, Restarts
<1>3. ASSUME Restart
      PROVE  FaultsSoFar(files)' = FaultsSoFar(files) + 1
  <2>1. Len(runs') = Len(runs) + 1 /\ UNCHANGED lost /\ Len(runs) \in Nat
    BY <1>3, RestartStarts, HistoryTypes
  <2>2. Restarts' = Restarts + 1 /\ LostOf(files)' = LostOf(files)
    BY <2>1 DEF Restarts, LostOf
  <2> QED
    BY <1>0, <2>2 DEF FaultsSoFar
<1> QED
  BY <1>1, <1>2, <1>3

-----------------------------------------------------------------------------
(***************************************************************************)
(* The arguments in flight and where the runs start.                       *)
(***************************************************************************)

\* Every step keeps the position on its way the one in memory.
LEMMA ArgumentsInFlightStep ==
  ASSUME FaultsTypeOK, CallsReturn, ArgumentsInFlight,
         [FaultsNext]_<<vars, faultVars>>
  PROVE  ArgumentsInFlight'
<1> USE DEF ArgumentsInFlight, Writing
<1>0. CallsTypeOK
  BY HistoryTypes, TypeOKParts
<1>1. CASE pc' \notin {"AddPosition", "PersistRisk", "PersistPosition"}
  BY <1>1
<1>2. CASE AddTrade
  BY <1>2, MapWrites DEF AddTrade
<1>3. CASE AddPosition
  BY <1>3 DEF AddPosition
<1>4. CASE PersistRisk \/ LoseRisk
  BY <1>4 DEF PersistRisk, LoseRisk, serviceVars
<1>5. CASE Next
  BY <1>0, <1>1, <1>2, <1>3, <1>4, <1>5
     DEF Next, ReadTrade, EndOfTrades, ReadOrderBook, EndOfMarket,
         PassOnWideBook, AlgoExecuteOrder, ExecuteOrder, ProcessExecution,
         OnMessage, BookTrade, PersistPosition, PersistExecution, callVars,
         CallsTypeOK, CallsReturn
<1>6. CASE LosePosition \/ LoseExecution \/ Restart
  BY <1>0, <1>1, <1>6 DEF LosePosition, LoseExecution, Restart, CallsTypeOK
<1>7. CASE UNCHANGED <<vars, faultVars>>
  BY <1>7 DEF vars, serviceVars, callVars
<1> QED
  BY <1>4, <1>5, <1>6, <1>7 DEF FaultsNext, Run, ProgramStep

\* The steps of a run that write neither file, and lose no line of theirs.
QuietStep ==
  \/ ProgramStep /\ ~ PersistRisk /\ ~ PersistPosition
  \/ LoseExecution
  \/ UNCHANGED <<vars, faultVars>>

\* They leave the two files alone, and what is about to be written to them.
LEMMA QuietSteps ==
  ASSUME FaultsTypeOK, CallsReturn, QuietStep
  PROVE  /\ UNCHANGED <<positionsFile, riskFile, runs>>
         /\ UNCHANGED lost \/ Lose("executions")
         /\ pc = "PersistPosition" \/ pc' = "PersistPosition" =>
              UNCHANGED <<pc, position>>
         /\ ~ AddTrade => /\ UNCHANGED positions
                          /\ Writing' <=> Writing
                          /\ Writing => UNCHANGED trade
<1> USE DEF Writing
<1>1. CASE UNCHANGED <<vars, faultVars>>
  BY <1>1 DEF vars, serviceVars, fileVars, callVars, faultVars
<1>2. CASE LoseExecution
  BY <1>2 DEF LoseExecution, Lose, serviceVars, fileVars
<1>3. CASE ProgramStep /\ ~ PersistRisk /\ ~ PersistPosition
  <2>1. UNCHANGED <<runs, lost>> /\ Next /\ ~ PersistRisk /\ ~ PersistPosition
    BY <1>3 DEF ProgramStep, faultVars
  <2>2. CASE \/ ReadTrade \/ EndOfTrades \/ ReadOrderBook \/ EndOfMarket
             \/ PassOnWideBook \/ AlgoExecuteOrder \/ ExecuteOrder
             \/ ProcessExecution \/ OnMessage \/ BookTrade \/ PersistExecution
    BY <2>1, <2>2
       DEF ReadTrade, EndOfTrades, ReadOrderBook, EndOfMarket, PassOnWideBook,
           AlgoExecuteOrder, ExecuteOrder, ProcessExecution, OnMessage,
           BookTrade, PersistExecution, serviceVars, fileVars, callVars
  <2>3. CASE AddTrade
    BY <2>1, <2>3 DEF AddTrade, fileVars
  <2>4. CASE AddPosition
    BY <2>1, <2>4 DEF AddPosition, fileVars
  <2> QED
    BY <2>1, <2>2, <2>3, <2>4 DEF Next
<1> QED
  BY <1>1, <1>2, <1>3 DEF QuietStep

\* Files only grow, and a run starts where they end.
LEMMA RunsStartInFilesStep ==
  ASSUME FaultsTypeOK, CallsReturn, RunsStartInFiles,
         [FaultsNext]_<<vars, faultVars>>
  PROVE  RunsStartInFiles'
<1>0. /\ TypeOK /\ Len(positionsFile) \in Nat /\ Len(riskFile) \in Nat
      /\ \A run \in 1..Len(runs) :
           runs[run].positions \in Nat /\ runs[run].risk \in Nat
  BY HistoryTypes, Lengths
<1>1. CASE Restart
  <2> PICK now \in Nat : now = Len(runs)
    BY HistoryTypes
  <2>1. /\ Len(runs') = now + 1 /\ DOMAIN runs' = 1..(now + 1)
        /\ StartIn(PositionStarts', positionsFile')
        /\ StartIn(RiskStarts', riskFile')
    BY <1>1, RestartStarts, StartsInFiles, StartInGrows
  <2>2. /\ Len(PositionStarts') = now + 1 /\ Len(RiskStarts') = now + 1
        /\ \A run \in 1..(now + 1) : /\ PositionStarts'[run] = runs'[run].positions
                                     /\ RiskStarts'[run] = runs'[run].risk
    BY <2>1 DEF PositionStarts, RiskStarts
  <2>3. Len(positionsFile') \in Nat /\ Len(riskFile') \in Nat
    BY <2>1, AppendFacts DEF StartIn
  <2> QED
    BY <2>1, <2>2, <2>3 DEF StartIn, RunsStartInFiles
<1>2. CASE /\ UNCHANGED runs
           /\ Len(positionsFile') \in {Len(positionsFile), Len(positionsFile) + 1}
           /\ Len(riskFile') \in {Len(riskFile), Len(riskFile) + 1}
  BY <1>0, <1>2 DEF RunsStartInFiles
<1>3. CASE QuietStep
  BY <1>2, <1>3, QuietSteps
<1>4. CASE LoseRisk \/ LosePosition
  BY <1>2, <1>4 DEF LoseRisk, LosePosition, Lose, fileVars
<1>5. CASE ProgramStep /\ (PersistRisk \/ PersistPosition)
  BY <1>0, <1>2, <1>5, Appends
     DEF PersistRisk, PersistPosition, ProgramStep, faultVars
<1> QED
  BY <1>1, <1>3, <1>4, <1>5
     DEF FaultsNext, Run, QuietStep

-----------------------------------------------------------------------------
(***************************************************************************)
(* The risk of what positions.txt ends with.                               *)
(***************************************************************************)

\* The run and product of the position on its way.
RiskInFlight == <<Len(runs), position.product>>

\* A position of no books has no risk.
LEMMA NoBooksNoRisk == GetAggregatePosition(EmptyMap) = 0
<1>1. DOMAIN EmptyMap = {} /\ EmptyMap = [x \in {} |-> EmptyMap[x]]
  BY DEF EmptyMap
<1> QED
  BY <1>1, SumOfNone DEF GetAggregatePosition

\* Where the files end as they did, and so does what is about to be written,
\* they stay apart about the same places.
LEMMA StayApartSame ==
  ASSUME FaultsTypeOK, UNCHANGED runs, NEW except,
         \A run \in 1..Len(runs), product \in ProductIds :
           <<run, product>> # except =>
             /\ FinalRisk(run, product)' = FinalRisk(run, product)
             /\ NextFinal(run, product)' = NextFinal(run, product)
  PROVE  StayApart' \in SUBSET (StayApart \cup {except})
<1>1. DOMAIN runs = 1..Len(runs) /\ DOMAIN runs' = 1..Len(runs)
  BY HistoryTypes
<1> SUFFICES ASSUME NEW run \in 1..Len(runs), NEW product \in ProductIds,
                    <<run, product>> # except,
                    FinalRisk(run, product)'
                      # GetAggregatePosition(NextFinal(run, product)')
             PROVE  <<run, product>> \in StayApart
  BY <1>1 DEF StayApart
<1>2. /\ FinalRisk(run, product)' = FinalRisk(run, product)
      /\ NextFinal(run, product)' = NextFinal(run, product)
  OBVIOUS
<1> QED
  BY <1>1, <1>2 DEF StayApart

\* Writing a line of risk.txt, or of positions.txt, leaves no new place apart;
\* losing one leaves one more at most.
LEMMA StayApartStep ==
  ASSUME AccountInv, [FaultsNext]_<<vars, faultVars>>
  PROVE  Blamed(StayApart, {"positions", "risk"})'
<1> DEFINE files == {"positions", "risk"}
<1> PICK now : now = Len(runs)
  OBVIOUS
<1> PICK p : p = position.product
  OBVIOUS
<1>0. /\ FaultsTypeOK /\ CallsReturn /\ RunsStartInFiles /\ ArgumentsInFlight
      /\ IsFiniteSet(StayApart) /\ FaultsSoFar(files) \in Nat
      /\ Cardinality(StayApart) <= FaultsSoFar(files)
      /\ now \in Nat /\ CallsTypeOK /\ DOMAIN runs = 1..now
  BY FaultsCounted, HistoryTypes, TypeOKParts DEF AccountInv, Blamed
<1> HIDE DEF files
<1> DEFINE Enough(n) == /\ IsFiniteSet(StayApart') /\ Cardinality(StayApart') <= n
<1>1. StayApart' \in SUBSET StayApart => Enough(FaultsSoFar(files))
  BY <1>0, BlameNoMore
<1>2. \A x : StayApart' \in SUBSET (StayApart \cup {x}) => Enough(FaultsSoFar(files) + 1)
  BY <1>0, BlameOneMore
<1>3. SUFFICES Enough(FaultsSoFar(files)')
  BY DEF Blamed, files
<1> HIDE DEF Enough
<1>4. CASE QuietStep
  <2>1. /\ UNCHANGED <<positionsFile, riskFile, runs>>
        /\ UNCHANGED lost \/ Lose("executions")
        /\ pc = "PersistPosition" \/ pc' = "PersistPosition" =>
             UNCHANGED <<pc, position>>
    BY <1>0, <1>4, QuietSteps
  <2>2. StayApart' = StayApart
    <3>1. \A run, product : /\ FinalRisk(run, product)' = FinalRisk(run, product)
                            /\ NextFinal(run, product)' = NextFinal(run, product)
      BY <2>1 DEF FinalRisk, RiskLines, NextFinal, FinalPosition, PositionLines
    <3> QED
      BY <2>1, <3>1 DEF StayApart
  <2>3. FaultsSoFar(files)' = FaultsSoFar(files)
    <3>1. "executions" \notin files
      BY DEF files
    <3> QED
      BY <1>0, <2>1, <3>1, FaultsMove
  <2> QED
    BY <1>1, <2>2, <2>3
<1>5. CASE ProgramStep /\ PersistRisk
  <2>1. /\ pc = "PersistRisk" /\ pc' = "PersistPosition" /\ UNCHANGED <<runs, lost>>
        /\ UNCHANGED position /\ pv01 = RiskOf(p, position.held)
    BY <1>0, <1>5
       DEF ProgramStep, PersistRisk, faultVars, ArgumentsInFlight, Writing
  <2>2. /\ pv01.product = p
        /\ pv01.quantity = GetAggregatePosition(position.held)
    BY <2>1 DEF RiskOf
  <2>3. ASSUME NEW run \in 1..now, NEW product \in ProductIds
        PROVE  /\ FinalRisk(run, product)' =
                    IF run = now /\ product = p
                    THEN GetAggregatePosition(position.held)
                    ELSE FinalRisk(run, product)
               /\ NextFinal(run, product)' =
                    IF run = now /\ product = p THEN position.held
                    ELSE NextFinal(run, product)
    BY <1>0, <1>5, <2>1, <2>2, PersistRiskWrites DEF NextFinal
  <2>4. StayApart' \in SUBSET StayApart
    <3> SUFFICES ASSUME NEW run \in 1..now, NEW product \in ProductIds,
                        FinalRisk(run, product)'
                          # GetAggregatePosition(NextFinal(run, product)')
                 PROVE  <<run, product>> \in StayApart
      BY <1>0, <2>1 DEF StayApart
    <3>1. /\ FinalRisk(run, product)' = FinalRisk(run, product)
          /\ NextFinal(run, product)' = NextFinal(run, product)
      BY <2>3
    <3> QED
      BY <1>0, <3>1 DEF StayApart
  <2>5. FaultsSoFar(files)' = FaultsSoFar(files)
    BY <1>0, <2>1, FaultsMove
  <2> QED
    BY <1>1, <2>4, <2>5
<1>6. CASE ProgramStep /\ PersistPosition
  <2>1. /\ pc = "PersistPosition" /\ pc' # "PersistPosition"
        /\ UNCHANGED <<runs, lost>>
    BY <1>0, <1>6 DEF ProgramStep, PersistPosition, faultVars, CallsTypeOK
  <2>2. ASSUME NEW run \in 1..now, NEW product \in ProductIds
        PROVE  /\ FinalRisk(run, product)' = FinalRisk(run, product)
               /\ NextFinal(run, product)' = NextFinal(run, product)
    BY <1>0, <1>6, <2>1, PersistPositionWrites DEF NextFinal
  <2>3. StayApart' \in SUBSET StayApart
    <3> SUFFICES ASSUME NEW run \in 1..now, NEW product \in ProductIds,
                        FinalRisk(run, product)'
                          # GetAggregatePosition(NextFinal(run, product)')
                 PROVE  <<run, product>> \in StayApart
      BY <1>0, <2>1 DEF StayApart
    <3> QED
      BY <1>0, <2>2 DEF StayApart
  <2>4. FaultsSoFar(files)' = FaultsSoFar(files)
    BY <1>0, <2>1, FaultsMove
  <2> QED
    BY <1>1, <2>3, <2>4
<1>7. CASE LoseRisk \/ LosePosition
  <2>1. /\ Lose("risk") \/ Lose("positions")
        /\ UNCHANGED <<positionsFile, riskFile, runs>>
    BY <1>7 DEF LoseRisk, LosePosition, Lose, fileVars
  <2>2. ASSUME NEW run \in 1..now, NEW product \in ProductIds,
               <<run, product>> # RiskInFlight
        PROVE  /\ FinalRisk(run, product)' = FinalRisk(run, product)
               /\ NextFinal(run, product)' = NextFinal(run, product)
    <3>1. ~(run = now /\ product = p)
      BY <2>2 DEF RiskInFlight
    <3>2. \/ UNCHANGED position /\ pc # "PersistPosition"
          \/ pc' # "PersistPosition" /\ pc = "PersistPosition"
      BY <1>0, <1>7 DEF LoseRisk, LosePosition, CallsTypeOK
    <3>3. /\ FinalRisk(run, product)' = FinalRisk(run, product)
          /\ FinalPosition(run, product)' = FinalPosition(run, product)
      BY <2>1 DEF FinalRisk, RiskLines, FinalPosition, PositionLines
    <3> QED
      BY <2>1, <3>1, <3>2, <3>3 DEF NextFinal
  <2>3. StayApart' \in SUBSET (StayApart \cup {RiskInFlight})
    BY <1>0, <2>1, <2>2, StayApartSame
  <2>4. FaultsSoFar(files)' = FaultsSoFar(files) + 1
    BY <1>0, <2>1, FaultsMove DEF files
  <2> QED
    BY <1>2, <2>3, <2>4
<1>8. CASE Restart
  <2>1. /\ DOMAIN runs' = 1..(now + 1) /\ Len(runs') = now + 1
        /\ pc' = "Main"
    BY <1>0, <1>8, RestartStarts DEF Restart
  <2>2. ASSUME NEW run \in 1..(now + 1), NEW product \in ProductIds
        PROVE  /\ FinalRisk(run, product)' =
                    IF run = now + 1 THEN 0 ELSE FinalRisk(run, product)
               /\ NextFinal(run, product)' =
                    IF run = now + 1 THEN EmptyMap ELSE FinalPosition(run, product)
    BY <1>0, <1>8, <2>1, RestartWrites DEF NextFinal
  <2>3. StayApart' \in SUBSET (StayApart \cup {RiskInFlight})
    <3> SUFFICES ASSUME NEW run \in 1..(now + 1), NEW product \in ProductIds,
                        FinalRisk(run, product)'
                          # GetAggregatePosition(NextFinal(run, product)'),
                        <<run, product>> # RiskInFlight
                 PROVE  <<run, product>> \in StayApart
      BY <2>1 DEF StayApart
    <3>1. run # now + 1
      BY <2>2, NoBooksNoRisk
    <3>2. run \in 1..now /\ ~(run = now /\ product = p)
      BY <1>0, <3>1 DEF RiskInFlight
    <3>3. /\ FinalRisk(run, product)' = FinalRisk(run, product)
          /\ NextFinal(run, product)' = NextFinal(run, product)
      BY <2>2, <3>1, <3>2 DEF NextFinal
    <3> QED
      BY <1>0, <3>2, <3>3 DEF StayApart
  <2>4. FaultsSoFar(files)' = FaultsSoFar(files) + 1
    BY <1>0, <1>8, FaultsMove
  <2> QED
    BY <1>2, <2>3, <2>4
<1> QED
  BY <1>4, <1>5, <1>6, <1>7, <1>8 DEF FaultsNext, Run, QuietStep

-----------------------------------------------------------------------------
(***************************************************************************)
(* What positions.txt says of what was booked.                             *)
(***************************************************************************)

\* What a position holds in a book is an integer.
LEMMA InBookType ==
  ASSUME NEW held, IsPosition(held), NEW book
  PROVE  GetPosition(held, book) \in Int
  BY DEF IsPosition, IsMap, GetPosition, At

\* What positions.txt says of each run is an integer, and so is their sum.
LEMMA OnFileTypes ==
  ASSUME FaultsTypeOK, RunsStartInFiles, NEW product, NEW book
  PROVE  /\ Filings(product, book) \in [1..Len(runs) -> Int]
         /\ OnFile(product, book) = SumFunction(Filings(product, book))
         /\ OnFile(product, book) \in Int /\ FiledNow(product, book) \in Int
<1> DEFINE f == Filings(product, book)
<1>1. DOMAIN runs = 1..Len(runs) /\ Len(runs) \in Nat \ {0}
  BY HistoryTypes
<1>2. \A run \in 1..Len(runs) : GetPosition(FinalPosition(run, product), book) \in Int
  BY FinalTypes, InBookType
<1>3. f \in [1..Len(runs) -> Int]
  BY <1>1, <1>2 DEF Filings
<1>4. OnFile(product, book) = SumFunction(f) /\ FiledNow(product, book) = f[Len(runs)]
  BY DEF OnFile, FiledNow, Filings
<1>5. IsFiniteSet(1..Len(runs))
  BY <1>1, FS_Interval
<1> HIDE DEF f
<1>6. SumFunction(f) \in Int /\ f[Len(runs)] \in Int
  BY <1>1, <1>3, <1>5, SumFunctionInt
<1> QED
  BY <1>3, <1>4, <1>6 DEF f

\* A line of positions.txt changes what it says of the present run only.
LEMMA PersistPositionFiles ==
  ASSUME FaultsTypeOK, RunsStartInFiles, PersistPosition, UNCHANGED runs,
         NEW product, NEW book
  PROVE  /\ FiledNow(product, book)' =
              IF product = position.product THEN GetPosition(position.held, book)
              ELSE FiledNow(product, book)
         /\ FiledNow(product, book)' \in Int /\ OnFile(product, book)' \in Int
         /\ OnFile(product, book)' - FiledNow(product, book)'
              = OnFile(product, book) - FiledNow(product, book)
<1> PICK now \in Nat \ {0} : now = Len(runs)
  BY HistoryTypes
<1> DEFINE f == Filings(product, book)
           g == [run \in 1..now |->
                   IF run = now /\ product = position.product
                   THEN GetPosition(position.held, book) ELSE f[run]]
<1>1. DOMAIN runs = 1..now /\ IsPosition(position.held)
  BY HistoryTypes, TypeOKParts DEF PersistPosition, CallsTypeOK, IsPositionLine
<1>2. /\ f \in [1..now -> Int]
      /\ OnFile(product, book) = SumFunction(f)
      /\ FiledNow(product, book) = f[now]
      /\ \A run \in 1..now :
           f[run] = GetPosition(FinalPosition(run, product), book)
  BY <1>1, OnFileTypes DEF FiledNow, Filings
<1>3. GetPosition(position.held, book) \in Int
  BY <1>1, InBookType
<1>4. g \in [1..now -> Int] /\ \A run \in (1..now) \ {now} : g[run] = f[run]
  <2> HIDE DEF f
  <2> QED
    BY <1>2, <1>3
<1>5. \A run \in 1..now : GetPosition(FinalPosition(run, product)', book) = g[run]
  BY <1>1, <1>2, PersistPositionWrites
<1>6. OnFile(product, book)' = SumFunction(g)
  <2>1. OnFile(product, book)' =
          SumFunction([run \in 1..now |->
                         GetPosition(FinalPosition(run, product)', book)])
    BY <1>1 DEF OnFile
  <2>2. g = [run \in 1..now |-> GetPosition(FinalPosition(run, product)', book)]
    <3> HIDE DEF f
    <3> QED
      BY <1>5
  <2> QED
    BY <2>1, <2>2, Zenon
<1>7. FiledNow(product, book)' = g[now]
  BY <1>1, <1>5 DEF FiledNow, Filings
<1>8. g[now] = IF product = position.product THEN GetPosition(position.held, book)
               ELSE f[now]
  OBVIOUS
<1> HIDE DEF f, g
<1>9. /\ SumFunction(g) - g[now] = SumFunction(f) - f[now]
      /\ SumFunction(g) \in Int /\ g[now] \in Int
  <2>1. IsFiniteSet(1..now) /\ now \in 1..now
    BY FS_Interval
  <2> PICK S : S = 1..now
    OBVIOUS
  <2>2. /\ IsFiniteSet(S) /\ now \in S /\ f \in [S -> Int] /\ g \in [S -> Int]
        /\ \A run \in S \ {now} : g[run] = f[run]
    BY <1>2, <1>4, <2>1
  <2>3. SumFunction(g) - g[now] = SumFunction(f) - f[now]
    BY <2>2, SumMoves
  <2>4. SumFunction(g) \in Int /\ g[now] \in Int
    BY <2>2, SumFunctionInt
  <2> QED
    BY <2>3, <2>4
<1> QED
  BY <1>2, <1>6, <1>7, <1>8, <1>9

\* A restart changes nothing of what positions.txt says.
LEMMA RestartFiles ==
  ASSUME FaultsTypeOK, RunsStartInFiles, Restart, NEW product, NEW book
  PROVE  /\ FiledNow(product, book)' = 0
         /\ OnFile(product, book)' = OnFile(product, book)
<1> PICK now \in Nat \ {0} : now = Len(runs)
  BY HistoryTypes
<1> DEFINE f == Filings(product, book)
           g == [run \in 1..(now + 1) |-> IF run = now + 1 THEN 0 ELSE f[run]]
<1>1. /\ DOMAIN runs = 1..now /\ DOMAIN runs' = 1..(now + 1)
      /\ Len(runs') = now + 1
  BY HistoryTypes, RestartStarts
<1>2. /\ f \in [1..now -> Int] /\ OnFile(product, book) = SumFunction(f)
      /\ \A run \in 1..now :
           f[run] = GetPosition(FinalPosition(run, product), book)
  BY <1>1, OnFileTypes DEF Filings
<1>3. GetPosition(EmptyMap, book) = 0
  BY DEF GetPosition, At, EmptyMap
<1>4. \A run \in 1..(now + 1) :
        GetPosition(FinalPosition(run, product)', book) = g[run]
  BY <1>1, <1>2, <1>3, RestartWrites
<1>5. OnFile(product, book)' = SumFunction(g)
  <2>1. OnFile(product, book)' =
          SumFunction([run \in 1..(now + 1) |->
                         GetPosition(FinalPosition(run, product)', book)])
    BY <1>1 DEF OnFile
  <2>2. g = [run \in 1..(now + 1) |->
               GetPosition(FinalPosition(run, product)', book)]
    <3> HIDE DEF f
    <3> QED
      BY <1>4
  <2> QED
    BY <2>1, <2>2, Zenon
<1>6. FiledNow(product, book)' = 0
  <2>1. g[now + 1] = 0 /\ now + 1 \in 1..(now + 1)
    OBVIOUS
  <2> HIDE DEF g
  <2> QED
    BY <1>1, <1>4, <2>1 DEF FiledNow, Filings
<1>7. SumFunction(g) = SumFunction(f)
  <2>1. g \in [1..(now + 1) -> Int] /\ g[now + 1] = 0 /\ now + 1 \in 1..(now + 1)
    <3> HIDE DEF f
    <3> QED
      BY <1>2
  <2>2. \A run \in 1..now : g[run] = f[run]
    <3> HIDE DEF f
    <3> QED
      OBVIOUS
  <2> HIDE DEF f, g
  <2> QED
    BY <1>2, <2>1, <2>2, SumOfOneMore
<1> QED
  BY <1>2, <1>5, <1>6, <1>7, Zenon

\* Faults or not, a step that is not a restart moves what is held and due by as
\* much as it moves what was ordered.
LEMMA FaultsBalance ==
  ASSUME FaultsTypeOK, CallsReturn, Run \/ UNCHANGED <<vars, faultVars>>,
         NEW p \in ProductIds, NEW b \in Books
  PROVE  (Held(p, b)' + QuantityDue(p, b)')
             - (filed'[p][b] + 2 * executed'[p][b])
           = (Held(p, b) + QuantityDue(p, b))
               - (filed[p][b] + 2 * executed[p][b])
<1>0. TypeOK /\ CallsTypeOK
  BY HistoryTypes, TypeOKParts
<1>1. CASE ProgramStep
  BY <1>0, <1>1, OrdersBalance DEF ProgramStep
<1>2. CASE /\ UNCHANGED <<positions, filed, executed>>
           /\ AddTradesDue' = AddTradesDue
           /\ AddTradesDue # 0 => UNCHANGED trade
  <2>1. Held(p, b)' = Held(p, b)
    BY <1>2 DEF Held, PositionOf, GetPosition, At
  <2>2. QuantityDue(p, b)' = QuantityDue(p, b)
    BY <1>2 DEF QuantityDue, SignedQuantity, AddTradesDue
  <2> QED
    BY <1>2, <2>1, <2>2
<1>3. CASE LoseRisk \/ UNCHANGED <<vars, faultVars>>
  BY <1>2, <1>3
     DEF LoseRisk, AddTradesDue, vars, serviceVars, callVars, historyVars
<1>4. CASE LosePosition
  BY <1>0, <1>2, <1>4
     DEF LosePosition, AddTradesDue, CallsTypeOK, serviceVars, historyVars
<1>5. CASE LoseExecution
  BY <1>2, <1>5
     DEF LoseExecution, AddTradesDue, CallsReturn, serviceVars, historyVars
<1> QED
  BY <1>1, <1>3, <1>4, <1>5 DEF Run

\* What positions.txt says of a run moves with what it says of the present one.
LEMMA PastRunsStay ==
  ASSUME FaultsTypeOK, CallsReturn, RunsStartInFiles,
         Run \/ UNCHANGED <<vars, faultVars>>, NEW p, NEW b
  PROVE  /\ OnFile(p, b)' \in Int /\ FiledNow(p, b)' \in Int
         /\ OnFile(p, b)' - FiledNow(p, b)' = OnFile(p, b) - FiledNow(p, b)
<1>1. CASE ProgramStep /\ PersistPosition
  BY <1>1, PersistPositionFiles DEF ProgramStep, faultVars
<1>2. CASE UNCHANGED <<positionsFile, runs>>
  <2>1. OnFile(p, b)' = OnFile(p, b) /\ FiledNow(p, b)' = FiledNow(p, b)
    BY <1>2 DEF OnFile, FiledNow, Filings, FinalPosition, PositionLines
  <2> QED
    BY <2>1, OnFileTypes
<1>3. CASE QuietStep
  BY <1>2, <1>3, QuietSteps
<1>4. CASE LoseRisk \/ LosePosition \/ (ProgramStep /\ PersistRisk)
  BY <1>2, <1>4
     DEF LoseRisk, LosePosition, Lose, ProgramStep, PersistRisk, fileVars,
         faultVars
<1> QED
  BY <1>1, <1>3, <1>4 DEF Run, QuietStep

\* Whatever a program that is not restarted does, it neither forgets more nor
\* remembers.
LEMMA BookedStays ==
  ASSUME FaultsTypeOK, CallsReturn, RunsStartInFiles,
         Run \/ UNCHANGED <<vars, faultVars>>,
         NEW p \in ProductIds, NEW b \in Books
  PROVE  (Booked(p, b) = OrderedByAll(p, b))' <=> Booked(p, b) = OrderedByAll(p, b)
<1>1. FaultsTypeOK' /\ TypeOK' /\ TypeOK
  BY FaultsTypeStep, HistoryTypes DEF FaultsNext, FaultsTypeOK
<1>2. PICK onFile \in Int : onFile = OnFile(p, b) - FiledNow(p, b)
  BY OnFileTypes
<1>3. PICK before \in Int : before = Held(p, b) + QuantityDue(p, b)
  BY <1>1, HeldType, DueType DEF TypeOK
<1>4. PICK total \in Int : total = filed[p][b] + 2 * executed[p][b]
  BY <1>1, TypeOKParts DEF TypeOK, Totals
<1>5. PICK after \in Int : after = Held(p, b)' + QuantityDue(p, b)'
  BY <1>1, BalanceTypesNext
<1>6. PICK moved \in Int : moved = filed'[p][b] + 2 * executed'[p][b]
  BY <1>1, BalanceTypesNext
<1>7. onFile = OnFile(p, b)' - FiledNow(p, b)'
  BY <1>2, PastRunsStay
<1>8. after - moved = before - total
  BY <1>3, <1>4, <1>5, <1>6, FaultsBalance
<1>9. (Booked(p, b) = OrderedByAll(p, b)) <=> onFile + before = total
  BY <1>2, <1>3, <1>4 DEF Booked, OrderedByAll
<1>10. (Booked(p, b) = OrderedByAll(p, b))' <=> onFile + after = moved
  BY <1>5, <1>6, <1>7 DEF Booked, OrderedByAll
<1>11. onFile + after = moved <=> onFile + before = total
  BY <1>8
<1> QED
  BY <1>9, <1>10, <1>11

\* The product and book of the trade on its way.
TradeInFlight == <<trade.product, trade.book>>

\* What a step that is not a restart makes stale it loses a line for.
LEMMA StaleStep ==
  ASSUME FaultsTypeOK, CallsReturn, ArgumentsInFlight, RunsStartInFiles,
         Run \/ UNCHANGED <<vars, faultVars>>
  PROVE  \/ Stale' \in SUBSET Stale
         \/ Lose("positions") /\ Stale' \in SUBSET (Stale \cup {TradeInFlight})
<1> USE DEF Writing
<1>0. CallsTypeOK
  BY HistoryTypes, TypeOKParts
<1>1. CASE AddTrade /\ ProgramStep
  <2>1. /\ pc = "AddTrade" /\ pc' = "AddPosition"
        /\ UNCHANGED <<trade, positionsFile, runs>>
    BY <1>1 DEF AddTrade, ProgramStep, fileVars, faultVars
  <2>2. ASSUME NEW p, NEW b, <<p, b>> # TradeInFlight
        PROVE  Held(p, b)' = Held(p, b) /\ FiledNow(p, b)' = FiledNow(p, b)
    <3>1. FiledNow(p, b)' = FiledNow(p, b)
      BY <2>1 DEF FiledNow, Filings, FinalPosition, PositionLines
    <3> QED
      BY <1>1, <2>2, <3>1, AddTradeMoves DEF TradeInFlight
  <2>3. Stale' \in SUBSET Stale
    <3> SUFFICES ASSUME NEW p \in ProductIds, NEW b \in Books,
                        Held(p, b)' # FiledNow(p, b)',
                        <<p, b>> # TradeInFlight
                 PROVE  <<p, b>> \in Stale
      BY <2>1 DEF Stale, TradeInFlight
    <3> QED
      BY <2>1, <2>2 DEF Stale
  <2> QED
    BY <2>3
<1>2. CASE PersistPosition /\ ProgramStep
  <2>1. /\ pc = "PersistPosition" /\ UNCHANGED <<positions, runs>>
        /\ position.product = trade.product
        /\ position.product \in DOMAIN positions
        /\ position.held = positions[position.product]
    BY <1>2
       DEF PersistPosition, ProgramStep, faultVars, serviceVars,
           ArgumentsInFlight
  <2>2. ASSUME NEW p, NEW b
        PROVE  /\ Held(p, b)' = Held(p, b)
               /\ p = trade.product => FiledNow(p, b)' = Held(p, b)
               /\ p # trade.product => FiledNow(p, b)' = FiledNow(p, b)
    <3>1. Held(p, b)' = Held(p, b)
      BY <2>1 DEF Held, PositionOf, GetPosition, At
    <3>2. p = trade.product => Held(p, b) = GetPosition(position.held, b)
      BY <2>1 DEF Held, PositionOf, At
    <3> QED
      BY <1>2, <2>1, <3>1, <3>2, PersistPositionFiles
  <2>3. Stale' \in SUBSET Stale
    <3> SUFFICES ASSUME NEW p \in ProductIds, NEW b \in Books,
                        Held(p, b)' # FiledNow(p, b)'
                 PROVE  <<p, b>> \in Stale
      BY DEF Stale
    <3>1. p # trade.product /\ Held(p, b) # FiledNow(p, b)
      BY <2>2
    <3> QED
      BY <3>1 DEF Stale
  <2> QED
    BY <2>3
<1>3. CASE LosePosition
  <2>1. /\ Lose("positions") /\ UNCHANGED <<positions, positionsFile, runs>>
    BY <1>3 DEF LosePosition, Lose, fileVars, serviceVars
  <2>2. ASSUME NEW p, NEW b
        PROVE  Held(p, b)' = Held(p, b) /\ FiledNow(p, b)' = FiledNow(p, b)
    BY <2>1
       DEF Held, PositionOf, GetPosition, At, FiledNow, Filings,
           FinalPosition, PositionLines
  <2>3. Stale' \in SUBSET (Stale \cup {TradeInFlight})
    <3> SUFFICES ASSUME NEW p \in ProductIds, NEW b \in Books,
                        Held(p, b)' # FiledNow(p, b)',
                        <<p, b>> # TradeInFlight
                 PROVE  <<p, b>> \in Stale
      BY DEF Stale
    <3> QED
      BY <2>2 DEF Stale, TradeInFlight
  <2> QED
    BY <2>1, <2>3
<1>4. CASE /\ UNCHANGED <<positions, positionsFile, runs>>
           /\ Writing' <=> Writing
           /\ Writing => UNCHANGED trade
  <2>1. ASSUME NEW p, NEW b
        PROVE  Held(p, b)' = Held(p, b) /\ FiledNow(p, b)' = FiledNow(p, b)
    BY <1>4
       DEF Held, PositionOf, GetPosition, At, FiledNow, Filings,
           FinalPosition, PositionLines
  <2>2. Stale' \in SUBSET Stale
    <3>1. ASSUME NEW p \in ProductIds, NEW b \in Books,
                 Held(p, b)' # FiledNow(p, b)',
                 Writing' => <<p, b>> # <<trade'.product, trade'.book>>
          PROVE  <<p, b>> \in Stale
      <4>1. Held(p, b) # FiledNow(p, b)
        BY <2>1, <3>1
      <4>2. Writing => <<p, b>> # <<trade.product, trade.book>>
        BY <1>4, <3>1
      <4> HIDE DEF Writing
      <4> QED
        BY <4>1, <4>2 DEF Stale
    <3> HIDE DEF Writing
    <3> QED
      BY <3>1 DEF Stale
  <2> QED
    BY <2>2
<1>5. CASE QuietStep /\ ~(AddTrade /\ ProgramStep)
  <2>1. CASE ~ AddTrade
    BY <1>4, <1>5, <2>1, QuietSteps
  <2>2. CASE LoseExecution
    BY <1>4, <2>2 DEF LoseExecution, Lose, serviceVars, fileVars
  <2>3. CASE UNCHANGED <<vars, faultVars>>
    BY <1>4, <2>3 DEF vars, serviceVars, fileVars, callVars, faultVars
  <2> QED
    BY <1>5, <2>1, <2>2, <2>3 DEF QuietStep
<1>6. CASE LoseRisk \/ (ProgramStep /\ PersistRisk)
  BY <1>4, <1>6
     DEF LoseRisk, Lose, ProgramStep, PersistRisk, fileVars, serviceVars,
         faultVars
<1> QED
  BY <1>1, <1>2, <1>3, <1>5, <1>6 DEF Run, QuietStep

\* positions.txt is wrong about what is blamed on faults already, and about the
\* product and book of the trade on its way at most.
LEMMA MisstatedPlaces ==
  ASSUME FaultsTypeOK, RunsStartInFiles
  PROVE  /\ Misstated \in SUBSET ((Forgotten \cup Stale) \cup {TradeInFlight})
         /\ pc \notin NotifyCalls /\ ~ BookingExecution =>
              Misstated \in SUBSET (Forgotten \cup Stale)
<1> SUFFICES ASSUME NEW p \in ProductIds, NEW b \in Books,
                    OnFile(p, b) # OrderedByAll(p, b),
                    <<p, b>> \notin Forgotten, <<p, b>> \notin Stale
             PROVE  /\ <<p, b>> = TradeInFlight
                    /\ pc \in NotifyCalls \/ BookingExecution
  BY DEF Misstated
<1>1. TypeOK
  BY HistoryTypes
<1>2. PICK onFile \in Int : onFile = OnFile(p, b)
  BY OnFileTypes
<1>3. PICK filedNow \in Int : filedNow = FiledNow(p, b)
  BY OnFileTypes
<1>4. PICK held \in Int : held = Held(p, b)
  BY <1>1, HeldType DEF TypeOK
<1>5. PICK due \in Int : due = QuantityDue(p, b)
  BY <1>1, DueType
<1>6. onFile - filedNow + (held + due) = OrderedByAll(p, b)
  BY <1>2, <1>3, <1>4, <1>5 DEF Forgotten, Booked
<1>7. ~(held = filedNow /\ due = 0)
  BY <1>2, <1>6
<1>8. CASE held # filedNow
  <2>1. Writing /\ <<p, b>> = <<trade.product, trade.book>>
    BY <1>3, <1>4, <1>8 DEF Stale
  <2> QED
    BY <2>1 DEF Writing, NotifyCalls, TradeInFlight
<1>9. CASE due # 0
  <2>1. AddTradesDue > 0 /\ trade.product = p /\ trade.book = b
    BY <1>5, <1>9 DEF QuantityDue
  <2>2. pc \in NotifyCalls \/ BookingExecution
    BY <2>1 DEF AddTradesDue, NotifyCalls, BookingExecution
  <2> QED
    BY <2>1, <2>2 DEF TradeInFlight
<1> QED
  BY <1>7, <1>8, <1>9

\* A restart forgets what positions.txt is wrong about.
LEMMA RestartForgets ==
  ASSUME FaultsTypeOK, RunsStartInFiles, Restart
  PROVE  (Forgotten \cup Stale)' \in SUBSET Misstated
<1>1. /\ positions' = EmptyMap /\ pc' = "Main" /\ returnTo' = "Main"
      /\ UNCHANGED <<filed, executed>>
  BY DEF Restart, historyVars
<1>2. ASSUME NEW p, NEW b
      PROVE  /\ Held(p, b)' = 0 /\ QuantityDue(p, b)' = 0
             /\ OrderedByAll(p, b)' = OrderedByAll(p, b)
  BY <1>1
     DEF Held, PositionOf, GetPosition, At, EmptyMap, QuantityDue,
         AddTradesDue, OrderedByAll
<1>3. ASSUME NEW p, NEW b
      PROVE  /\ FiledNow(p, b)' = Held(p, b)'
             /\ Booked(p, b)' = OnFile(p, b)
  <2>1. /\ FiledNow(p, b)' = 0 /\ OnFile(p, b)' = OnFile(p, b)
        /\ OnFile(p, b) \in Int
    BY RestartFiles, OnFileTypes
  <2> QED
    BY <1>2, <2>1 DEF Booked
<1>4. Stale' = {}
  BY <1>3 DEF Stale
<1>5. Forgotten' \in SUBSET Misstated
  BY <1>2, <1>3 DEF Forgotten, Misstated
<1> QED
  BY <1>4, <1>5

\* Every step keeps a fault to blame for each place forgotten or stale.
LEMMA ForgottenStep ==
  ASSUME AccountInv, [FaultsNext]_<<vars, faultVars>>
  PROVE  Blamed(Forgotten \cup Stale, {"positions"})'
<1> DEFINE files == {"positions"}
<1>0. /\ FaultsTypeOK /\ CallsReturn /\ RunsStartInFiles /\ ArgumentsInFlight
      /\ FaultsSoFar(files) \in Nat
  BY FaultsCounted DEF AccountInv
<1>1. PICK S : S = Forgotten \cup Stale
  OBVIOUS
<1>2. PICK T : T = (Forgotten \cup Stale)'
  OBVIOUS
<1>3. IsFiniteSet(S) /\ Cardinality(S) <= FaultsSoFar(files)
  BY <1>1 DEF AccountInv, Blamed
<1> HIDE DEF files
<1> DEFINE Enough(n) == IsFiniteSet(T) /\ Cardinality(T) <= n
<1>4. T \in SUBSET S => Enough(FaultsSoFar(files))
  BY <1>0, <1>3, BlameNoMore
<1>5. \A x : T \in SUBSET (S \cup {x}) => Enough(FaultsSoFar(files) + 1)
  BY <1>0, <1>3, BlameOneMore
<1>6. Enough(FaultsSoFar(files)) => Enough(FaultsSoFar(files) + 1)
  <2>1. IsFiniteSet(T) => Cardinality(T) \in Nat
    BY FS_CardinalityType
  <2> QED
    BY <1>0, <2>1
<1>7. SUFFICES Enough(FaultsSoFar(files)')
  BY <1>2 DEF Blamed, files
<1> HIDE DEF Enough
<1>8. CASE Run \/ UNCHANGED <<vars, faultVars>>
  <2>1. Forgotten' = Forgotten
    <3>1. \A p \in ProductIds, b \in Books :
            (Booked(p, b) = OrderedByAll(p, b))' <=> Booked(p, b) = OrderedByAll(p, b)
      BY <1>0, <1>8, BookedStays
    <3> QED
      BY <3>1 DEF Forgotten
  <2>2. FaultsSoFar(files)' \in {FaultsSoFar(files), FaultsSoFar(files) + 1}
    <3>1. UNCHANGED <<runs, lost>> \/ \E file : Lose(file)
      BY <1>8
         DEF Run, ProgramStep, LoseRisk, LosePosition, LoseExecution, faultVars
    <3> QED
      BY <1>0, <3>1, FaultsMove
  <2>3. CASE Stale' \in SUBSET Stale
    <3>1. T \in SUBSET S
      BY <1>1, <1>2, <2>1, <2>3
    <3> QED
      BY <1>4, <1>6, <2>2, <3>1
  <2>4. CASE Lose("positions") /\ Stale' \in SUBSET (Stale \cup {TradeInFlight})
    <3>1. T \in SUBSET (S \cup {TradeInFlight})
      BY <1>1, <1>2, <2>1, <2>4
    <3>2. FaultsSoFar(files)' = FaultsSoFar(files) + 1
      BY <1>0, <2>4, FaultsMove DEF files
    <3> QED
      BY <1>5, <3>1, <3>2
  <2> QED
    BY <1>0, <1>8, <2>3, <2>4, StaleStep
<1>9. CASE Restart
  <2>1. T \in SUBSET (S \cup {TradeInFlight})
    BY <1>0, <1>1, <1>2, <1>9, RestartForgets, MisstatedPlaces
  <2>2. FaultsSoFar(files)' = FaultsSoFar(files) + 1
    BY <1>0, <1>9, FaultsMove
  <2> QED
    BY <1>5, <2>1, <2>2
<1> QED
  BY <1>8, <1>9 DEF FaultsNext

\* The first run starts with nothing held, filed or due.
LEMMA AccountInit == FaultsInit => AccountInv
<1> SUFFICES ASSUME FaultsInit PROVE AccountInv
  OBVIOUS
<1>1. FaultsTypeOK /\ CallsReturn
  BY FaultsInvInit DEF FaultsInv
<1>2. /\ pc = "Main" /\ returnTo = "Main" /\ positions = EmptyMap
      /\ filed = Nothing /\ executed = Nothing
      /\ positionsFile = << >> /\ riskFile = << >>
      /\ runs = <<RunStart(0, 0, 0)>> /\ lost = << >>
  BY DEF FaultsInit, Init, PositionInit, PositionHistory!Init, RiskHistory!Init
<1>3. Len(runs) = 1 /\ DOMAIN runs = {1} /\ runs[1].positions = 0 /\ runs[1].risk = 0
  BY <1>2 DEF RunStart
<1>4. ArgumentsInFlight /\ RunsStartInFiles
  BY <1>2, <1>3 DEF ArgumentsInFlight, Writing, RunsStartInFiles
<1>5. \A product : FinalPosition(1, product) = EmptyMap /\ FinalRisk(1, product) = 0
  <2>1. \A product : PositionLines(1, product) = {} /\ RiskLines(1, product) = {}
    BY <1>2, <1>3 DEF PositionLines, RiskLines, LinesOf
  <2> QED
    BY <2>1 DEF FinalPosition, FinalRisk
<1>6. StayApart = {}
  BY <1>2, <1>3, <1>5, NoBooksNoRisk DEF StayApart, NextFinal
<1>7. ASSUME NEW p \in ProductIds, NEW b \in Books
      PROVE  /\ Held(p, b) = FiledNow(p, b)
             /\ Booked(p, b) = OrderedByAll(p, b)
  <2>1. GetPosition(EmptyMap, b) = 0
    BY DEF GetPosition, At, EmptyMap
  <2>2. Held(p, b) = 0 /\ QuantityDue(p, b) = 0 /\ OrderedByAll(p, b) = 0
    BY <1>2, <2>1
       DEF Held, PositionOf, At, EmptyMap, QuantityDue, AddTradesDue,
           OrderedByAll, Nothing
  <2>3. Filings(p, b) = [run \in {1} |-> 0]
    BY <1>3, <1>5, <2>1 DEF Filings
  <2>4. FiledNow(p, b) = 0
    BY <1>3, <2>3 DEF FiledNow
  <2>5. OnFile(p, b) = 0
    <3>1. OnFile(p, b) = SumFunction([run \in {1} |-> 0])
      BY <2>3 DEF OnFile, Filings
    <3>2. PICK one : one = [run \in {1} |-> 0]
      OBVIOUS
    <3>3. one \in [{1} -> Int] /\ one[1] = 0
      BY <3>2
    <3>4. SumFunction(one) = one[1]
      BY <3>3, SumOfOne
    <3> QED
      BY <3>1, <3>2, <3>3, <3>4
  <2> QED
    BY <2>2, <2>4, <2>5 DEF Booked
<1>8. Forgotten \cup Stale = {}
  BY <1>7 DEF Forgotten, Stale
<1>9. ASSUME NEW files PROVE Blamed({}, files)
  <2>1. IsFiniteSet({}) /\ Cardinality({}) = 0 /\ FaultsSoFar(files) \in Nat
    BY <1>1, FS_EmptySet, FaultsCounted
  <2> QED
    BY <2>1 DEF Blamed
<1> QED
  BY <1>1, <1>4, <1>6, <1>8, <1>9 DEF AccountInv

\* However often the program is stopped and run again, and whichever lines are
\* lost, there is a fault to blame for each place the files are or will be
\* wrong about.
THEOREM AccountInvariant == FaultsSpec => []AccountInv
<1>1. AccountInv /\ [FaultsNext]_<<vars, faultVars>> => AccountInv'
  <2> SUFFICES ASSUME AccountInv, [FaultsNext]_<<vars, faultVars>>
               PROVE  AccountInv'
    OBVIOUS
  <2>1. FaultsTypeOK' /\ CallsReturn' /\ ArgumentsInFlight' /\ RunsStartInFiles'
    BY FaultsTypeStep, FaultsCallsReturnStep, ArgumentsInFlightStep,
       RunsStartInFilesStep DEF AccountInv
  <2> QED
    BY <2>1, StayApartStep, ForgottenStep DEF AccountInv
<1> QED
  BY AccountInit, <1>1, PTL DEF FaultsSpec

\* In each run risk.txt ends with the risk of what positions.txt ends with, but
\* for one product per restart, line lost of either file, and notification on
\* its way.
THEOREM RiskFileFollows == FaultsSpec => []RiskFileFollowsPositionsFile
<1>1. AccountInv => RiskFileFollowsPositionsFile
  <2> SUFFICES ASSUME AccountInv PROVE RiskFileFollowsPositionsFile
    OBVIOUS
  <2> DEFINE files == {"positions", "risk"}
  <2>1. /\ FaultsTypeOK /\ FaultsSoFar(files) \in Nat /\ IsFiniteSet(StayApart)
        /\ Cardinality(StayApart) <= FaultsSoFar(files)
        /\ DOMAIN runs = 1..Len(runs)
    BY FaultsCounted, HistoryTypes DEF AccountInv, Blamed
  <2>2. Faults(files) = FaultsSoFar(files)
          + (IF pc \in NotifyCalls \/ BookingExecution THEN 1 ELSE 0)
    BY DEF Faults, FaultsSoFar
  <2>3. CASE pc # "PersistPosition"
    <3>1. RiskApart \in SUBSET StayApart
      BY <2>3 DEF RiskApart, StayApart, NextFinal
    <3>2. Cardinality(RiskApart) <= FaultsSoFar(files)
      <4> HIDE DEF files
      <4> QED
        BY <2>1, <3>1, BlameNoMore
    <3>3. IsFiniteSet(RiskApart)
      BY <2>1, <3>1, FS_Subset
    <3>4. Cardinality(RiskApart) \in Nat
      BY <3>3, FS_CardinalityType
    <3>5. Cardinality(RiskApart) <= Faults(files)
      <4> HIDE DEF files
      <4> QED
        BY <2>1, <2>2, <3>2, <3>4
    <3> QED
      BY <3>5 DEF RiskFileFollowsPositionsFile
  <2>4. CASE pc = "PersistPosition"
    <3>1. RiskApart \in SUBSET (StayApart \cup {RiskInFlight})
      BY DEF RiskApart, StayApart, NextFinal, RiskInFlight
    <3>2. Cardinality(RiskApart) <= FaultsSoFar(files) + 1
      <4> HIDE DEF files
      <4> QED
        BY <2>1, <3>1, BlameOneMore
    <3>3. Faults(files) = FaultsSoFar(files) + 1
      BY <2>2, <2>4 DEF NotifyCalls
    <3> QED
      BY <3>2, <3>3 DEF RiskFileFollowsPositionsFile
  <2> QED
    BY <2>3, <2>4
<1> QED
  BY <1>1, AccountInvariant, PTL

\* What positions.txt says is what the inputs of all runs ordered, executions
\* counted twice, but for one product and book per restart, line of
\* positions.txt lost, and notification on its way.
THEOREM FilesAccount == FaultsSpec => []FilesAccountForTrades
<1>1. AccountInv => FilesAccountForTrades
  <2> SUFFICES ASSUME AccountInv PROVE FilesAccountForTrades
    OBVIOUS
  <2> DEFINE files == {"positions"}
             places == Forgotten \cup Stale
  <2>1. /\ FaultsTypeOK /\ RunsStartInFiles
        /\ FaultsSoFar(files) \in Nat /\ IsFiniteSet(places)
        /\ Cardinality(places) <= FaultsSoFar(files)
    BY FaultsCounted DEF AccountInv, Blamed
  <2>2. Faults(files) = FaultsSoFar(files)
          + (IF pc \in NotifyCalls \/ BookingExecution THEN 1 ELSE 0)
    BY DEF Faults, FaultsSoFar
  <2>3. /\ Misstated \in SUBSET (places \cup {TradeInFlight})
        /\ pc \notin NotifyCalls /\ ~ BookingExecution =>
             Misstated \in SUBSET places
    BY <2>1, MisstatedPlaces
  <2> HIDE DEF places
  <2>4. CASE pc \in NotifyCalls \/ BookingExecution
    <3>1. Cardinality(Misstated) <= FaultsSoFar(files) + 1
      <4> HIDE DEF files
      <4> QED
        BY <2>1, <2>3, BlameOneMore
    <3> QED
      BY <2>2, <2>4, <3>1 DEF FilesAccountForTrades
  <2>5. CASE pc \notin NotifyCalls /\ ~ BookingExecution
    <3>1. Cardinality(Misstated) <= FaultsSoFar(files)
      <4> HIDE DEF files
      <4> QED
        BY <2>1, <2>3, <2>5, BlameNoMore
    <3>2. Faults(files) = FaultsSoFar(files)
      <4> HIDE DEF files
      <4> QED
        BY <2>1, <2>2, <2>5
    <3> QED
      BY <3>1, <3>2 DEF FilesAccountForTrades
  <2> QED
    BY <2>4, <2>5
<1> QED
  BY <1>1, AccountInvariant, PTL
=============================================================================
