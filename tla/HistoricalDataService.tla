------------------------ MODULE HistoricalDataService -----------------------
(***************************************************************************)
(* HistoricalDataService<V>: one instance per data type. Each appends the  *)
(* records it is notified of to its own file, one line per record; the     *)
(* service keeps no state of its own (its OnMessage is never called).      *)
(***************************************************************************)
EXTENDS Sequences

VARIABLE file         \* the lines of the service's output file

\* A sequence of records V::ToStrings may be given.
TypeOK(IsLine(_)) ==
  /\ file \in Seq({file[i] : i \in DOMAIN file})
  /\ \A i \in DOMAIN file : IsLine(file[i])

Init == file = << >>

\* Mutant of PersistData: the file is opened without ios::app.
PersistDataTruncating(line) == file' = <<line>>

\* HistoricalDataListener::ProcessAdd: PersistData, then the connector's
\* Publish, which opens the file in append mode, writes one line, closes it.
PersistData(line) == file' = Append(file, line)
=============================================================================
