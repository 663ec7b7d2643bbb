------------------------------- MODULE Ledger -------------------------------
(***************************************************************************)
(* What trade booking, positions, risk and their files promise together,   *)
(* with no services, calls or arguments: a ledger with two records that    *)
(* follow it. An entry received is posted the number of times it is due;   *)
(* each posting is put on the risk record, then on the position record,    *)
(* before anything else happens; and what was received is posted and       *)
(* recorded in the end.                                                    *)
(***************************************************************************)
EXTENDS Integers, Functions, StdMap

CONSTANTS
  Accounts,           \* what a balance is kept of
  Books,              \* the books it is divided into
  NoEntry

VARIABLES
  balances,           \* account -> book posted to so far -> balance
  entry,              \* the entry being posted
  due,                \* how many times it is still to be posted
  unrecorded,         \* the records that lack the last posting
  riskRecord,         \* account -> the total last recorded
  positionRecord      \* account -> the balances last recorded

vars == <<balances, entry, due, unrecorded, riskRecord, positionRecord>>

Entries == [account : Accounts, book : Books, quantity : Int]
Records == {"risk", "positions"}

Init ==
  /\ balances = [account \in Accounts |-> EmptyMap]
  /\ entry = NoEntry /\ due = 0 /\ unrecorded = {}
  /\ riskRecord = [account \in Accounts |-> 0]
  /\ positionRecord = [account \in Accounts |-> EmptyMap]

\* An entry of a line of trades.txt is posted once, one of an execution twice.
Receive ==
  /\ due = 0 /\ unrecorded = {}
  /\ entry' \in Entries /\ due' \in {1, 2}
  /\ UNCHANGED <<balances, unrecorded, riskRecord, positionRecord>>

Posted(held) ==
  Put(held, entry.book, At(held, entry.book, 0) + entry.quantity)

Post ==
  /\ due > 0 /\ unrecorded = {}
  /\ balances' = [balances EXCEPT ![entry.account] = Posted(@)]
  /\ due' = due - 1 /\ unrecorded' = Records
  /\ UNCHANGED <<entry, riskRecord, positionRecord>>

RecordRisk ==
  /\ unrecorded = Records
  /\ riskRecord' =
       [riskRecord EXCEPT ![entry.account] = SumFunction(balances[entry.account])]
  /\ unrecorded' = {"positions"}
  /\ UNCHANGED <<balances, entry, due, positionRecord>>

RecordPosition ==
  /\ unrecorded = {"positions"}
  /\ positionRecord' =
       [positionRecord EXCEPT ![entry.account] = balances[entry.account]]
  /\ unrecorded' = {}
  /\ entry' = IF due = 0 THEN NoEntry ELSE entry
  /\ UNCHANGED <<balances, due, riskRecord>>

Settle == Post \/ RecordRisk \/ RecordPosition
Next   == Receive \/ Settle

\* What was received is posted and recorded; nothing need be received.
Spec == Init /\ [][Next]_vars /\ WF_vars(Settle)
=============================================================================
