---------------------------- MODULE InquiryFlow -----------------------------
(***************************************************************************)
(* The flow of inquiries:                                                  *)
(*                                                                         *)
(*   inquiries.txt -> InquiryConnector -> InquiryService                   *)
(*                            ^  `----------<--'  `-> allinquiries.txt     *)
(*                                                                         *)
(* OnMessage publishes a received inquiry to the connector, which marks it *)
(* QUOTED and hands the same object back to OnMessage before the first     *)
(* call of it has returned. Nothing is left to do on the way back.         *)
(***************************************************************************)
EXTENDS InquiryService

CONSTANTS
  Rejectable,         \* identifiers RejectInquiry may be called with: none
                      \*   in the program as main.cpp is
  Quotable,           \* and SendQuote
  MaxInquiries,       \* the most lines inquiries.txt holds
  MaxDue,             \* no quote is sent when this many lines are due
  Null                \* what a local variable holds outside its scope

ASSUME InquiryBoundsAssumption ==
  /\ MaxInquiries \in Nat /\ MaxDue \in Nat
  /\ Rejectable \subseteq InquiryIds /\ Quotable \subseteq InquiryIds

VARIABLES
  inquiriesFile,      \* lines of allinquiries.txt
  stage,              \* whether main is reading inquiries.txt or past it
  pc,                 \* the call about to be made; "Main" between inquiries
  inquiry,            \* its argument
  linesRead,          \* how many lines of inquiries.txt were read
  due                 \* history: what allinquiries.txt owes clients for the
                      \*   lines read and the quotes sent

vars == <<inquiries, inquiriesFile, stage, pc, inquiry, linesRead, due>>

InquiryHistory == INSTANCE HistoricalDataService WITH file <- inquiriesFile

IsInquiryLine(line) == line \in Inquiries

TypeOK ==
  /\ InquiryTypeOK
  /\ InquiryHistory!TypeOK(IsInquiryLine)
  /\ stage \in {"Inquiries", "Ended"}
  /\ pc \in {"Main", "OnMessage", "Publish", "PersistInquiry"}
  /\ pc # "Main" => inquiry \in Inquiries
  /\ linesRead \in 0..MaxInquiries
  /\ due \in Seq(Inquiries)

Init ==
  /\ InquiryInit /\ InquiryHistory!Init
  /\ stage = "Inquiries" /\ pc = "Main" /\ inquiry = Null
  /\ linesRead = 0 /\ due = << >>

-----------------------------------------------------------------------------
\* Whether a line of inquiries.txt is one the service answers, and with what.
IsAnswerable(line) == line.state \in {"RECEIVED", "QUOTED"}
AnswerTo(line) == [InquiryOfLine(line) EXCEPT !.state = "DONE"]

\* One line of inquiries.txt: InquiryConnector::Subscribe.
ReadInquiry ==
  /\ pc = "Main" /\ stage = "Inquiries" /\ linesRead < MaxInquiries
  /\ linesRead' = linesRead + 1
  /\ \E line \in InquiryLines :
       /\ inquiry' = InquiryOfLine(line)
       /\ due' = IF IsAnswerable(line) THEN Append(due, AnswerTo(line)) ELSE due
  /\ pc' = "OnMessage"
  /\ UNCHANGED <<inquiries, inquiriesFile, stage>>

\* The end of inquiries.txt, the last of main's inputs.
EndOfInquiries ==
  /\ pc = "Main" /\ stage = "Inquiries"
  /\ stage' = "Ended"
  /\ UNCHANGED <<inquiries, inquiriesFile, pc, inquiry, linesRead, due>>

\* OnMessage of a RECEIVED inquiry.
ReceiveInquiry ==
  /\ pc = "OnMessage" /\ inquiry.state = "RECEIVED"
  /\ StoreInquiry(inquiry)
  /\ pc' = "Publish"
  /\ UNCHANGED <<inquiriesFile, stage, inquiry, linesRead, due>>

\* Mutant of Publish: a copy is marked, the inquiry is handed back as it is.
PublishCopy ==
  /\ pc = "Publish"
  /\ pc' = "OnMessage"
  /\ UNCHANGED <<inquiries, inquiriesFile, stage, inquiry, linesRead, due>>

\* InquiryConnector::Publish and Subscribe(Inquiry&): the service only
\* publishes a RECEIVED inquiry.
Publish ==
  /\ pc = "Publish" /\ inquiry.state = "RECEIVED"
  /\ inquiry' = [inquiry EXCEPT !.state = "QUOTED"]
  /\ pc' = "OnMessage"
  /\ UNCHANGED <<inquiries, inquiriesFile, stage, linesRead, due>>

\* Mutant of CompleteInquiry: the inquiry is stored as it was quoted.
CompleteInquiryUnstored ==
  /\ pc = "OnMessage" /\ inquiry.state = "QUOTED"
  /\ inquiry' = [inquiry EXCEPT !.state = "DONE"]
  /\ StoreInquiry(inquiry)
  /\ pc' = "PersistInquiry"
  /\ UNCHANGED <<inquiriesFile, stage, linesRead, due>>

\* OnMessage of a QUOTED inquiry.
CompleteInquiry ==
  /\ pc = "OnMessage" /\ inquiry.state = "QUOTED"
  /\ inquiry' = [inquiry EXCEPT !.state = "DONE"]
  /\ StoreInquiry(inquiry')
  /\ pc' = "PersistInquiry"
  /\ UNCHANGED <<inquiriesFile, stage, linesRead, due>>

\* Mutant of IgnoreInquiry: a default case that persists.
IgnoreInquiryPersists ==
  /\ pc = "OnMessage" /\ inquiry.state \notin {"RECEIVED", "QUOTED"}
  /\ pc' = "PersistInquiry"
  /\ UNCHANGED <<inquiries, inquiriesFile, stage, inquiry, linesRead, due>>

\* OnMessage of any other inquiry: no case of its switch.
IgnoreInquiry ==
  /\ pc = "OnMessage" /\ inquiry.state \notin {"RECEIVED", "QUOTED"}
  /\ inquiry' = Null /\ pc' = "Main"
  /\ UNCHANGED <<inquiries, inquiriesFile, stage, linesRead, due>>

\* HistoricalDataService<Inquiry> appends the line; every call returns.
PersistInquiry ==
  /\ pc = "PersistInquiry"
  /\ InquiryHistory!PersistData(inquiry)
  /\ inquiry' = Null /\ pc' = "Main"
  /\ UNCHANGED <<inquiries, stage, linesRead, due>>

\* RejectInquiry, which a user of the service may call between two lines.
RejectInquiry ==
  /\ pc = "Main"
  /\ \E id \in Rejectable : MarkRejected(id)
  /\ UNCHANGED <<inquiriesFile, stage, pc, inquiry, linesRead, due>>

\* Mutant of SendQuote: the listeners are told of the inquiry before its price.
SendQuoteStale ==
  /\ pc = "Main" /\ Len(due) < MaxDue
  /\ \E id \in Quotable, price \in Prices :
       /\ StoreQuote(id, price)
       /\ due' = Append(due, inquiries'[id])
       /\ inquiry' = At(inquiries, id, DefaultInquiry)
  /\ pc' = "PersistInquiry"
  /\ UNCHANGED <<inquiriesFile, stage, linesRead>>

\* SendQuote, which a user of the service may call between two lines. SetPrice
\* returns no value, and none is used.
SendQuote ==
  /\ pc = "Main" /\ Len(due) < MaxDue
  /\ \E id \in Quotable, price \in Prices :
       /\ StoreQuote(id, price)
       /\ due' = Append(due, inquiries'[id])
       /\ inquiry' = inquiries'[id]
  /\ pc' = "PersistInquiry"
  /\ UNCHANGED <<inquiriesFile, stage, linesRead>>

Answering ==
  \/ ReadInquiry \/ EndOfInquiries \/ ReceiveInquiry \/ Publish
  \/ CompleteInquiry \/ IgnoreInquiry \/ PersistInquiry

Next == Answering \/ RejectInquiry \/ SendQuote

\* The only thread is never blocked; nobody has to reject or quote.
Fairness == WF_vars(Answering)

Spec == Init /\ [][Next]_vars /\ Fairness

-----------------------------------------------------------------------------
\* Whether the calls in progress are about to add a line to allinquiries.txt.
IsAnswering ==
  /\ pc # "Main"
  /\ pc = "OnMessage" => inquiry.state \in {"RECEIVED", "QUOTED"}

\* The lines of allinquiries.txt are the answerable lines of inquiries.txt,
\* done, and the quotes sent, in the same order, all but the one in flight:
\* none is answered twice for being handed to OnMessage twice, and no line in
\* another state is answered.
AnsweredInOrder ==
  /\ Len(inquiriesFile) + (IF IsAnswering THEN 1 ELSE 0) = Len(due)
  /\ \A i \in DOMAIN inquiriesFile : inquiriesFile[i] = due[i]

\* Clients are owed a line with the identifier: an answerable line had it.
IsKnown(id) == \E i \in DOMAIN due : due[i].inquiryId = id

\* A record is rejected, or is done and the last line of allinquiries.txt for
\* it, or is the nameless one a quote left for an inquiry that never came.
IsAnswered(id) ==
  \/ inquiries[id].state = "REJECTED"
  \/ /\ inquiries[id].state = "DONE" /\ IsKnown(id)
     /\ \E i \in DOMAIN inquiriesFile :
          /\ inquiriesFile[i] = inquiries[id]
          /\ inquiriesFile[i].inquiryId = id
          /\ \A j \in DOMAIN inquiriesFile :
               j > i => inquiriesFile[j].inquiryId # id
  \/ inquiries[id].inquiryId = NoId /\ ~IsKnown(id)

\* Between two lines nothing the service keeps is half answered.
StoredAreAnswered ==
  pc = "Main" => \A id \in DOMAIN inquiries : IsAnswered(id)

\* Where an inquiry is: in flight it is its object's state that tells, for
\* the map still has an older one. A record that stays RECEIVED is the nameless
\* one of a quote.
PhaseOf(id) ==
  IF IsAnswering /\ inquiry.inquiryId = id THEN inquiry.state
  ELSE IF id \in DOMAIN inquiries /\ inquiries[id].state # "RECEIVED"
       THEN inquiries[id].state
       ELSE "Unknown"

Phases == [id \in InquiryIds |-> PhaseOf(id)]

Lifecycle == INSTANCE InquiryLifecycle WITH Ids <- InquiryIds, phase <- Phases

\* Every inquiry goes through its states in order, one inquiry at a time, and
\* one that is received is quoted and done.
ImplementsLifecycle == Lifecycle!Spec
=============================================================================
