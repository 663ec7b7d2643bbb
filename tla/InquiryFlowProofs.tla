------------------------- MODULE InquiryFlowProofs ---------------------------
(***************************************************************************)
(* Proofs about InquiryFlow, for every value of its constants: types, what *)
(* allinquiries.txt and the service's map say, and that each inquiry goes  *)
(* through the states of InquiryLifecycle in order.                        *)
(***************************************************************************)
EXTENDS InquiryFlow, DataTheorems

-----------------------------------------------------------------------------
(***************************************************************************)
(* The inductive invariant.                                                *)
(***************************************************************************)

\* What a call in progress knows of its argument: it has a name, what it is
\* answered with is the last thing owed, and what is printed is what is kept.
ArgumentKnown ==
  /\ pc \in {"OnMessage", "Publish"} => inquiry.inquiryId \in InquiryIds
  /\ IsAnswering =>
       due[Len(due)] = IF pc = "PersistInquiry" THEN inquiry
                       ELSE [inquiry EXCEPT !.state = "DONE"]
  /\ pc = "PersistInquiry" /\ inquiry.inquiryId # NoId =>
       /\ inquiry.inquiryId \in DOMAIN inquiries
       /\ inquiries[inquiry.inquiryId] = inquiry
       /\ inquiry.state \in {"DONE", "REJECTED"}

\* A record has its own name, or none and then no answer; and it is answered
\* unless its answer is in flight.
RecordsKept ==
  \A id \in DOMAIN inquiries :
    /\ inquiries[id].inquiryId \in {id, NoId}
    /\ inquiries[id].inquiryId = NoId =>
         inquiries[id].state \in {"RECEIVED", "REJECTED"}
    /\ IsAnswered(id) \/ (IsAnswering /\ inquiry.inquiryId = id)

\* An inquiry a line was owed for has a record, or is in flight: no nameless
\* record is ever made for it.
KnownKept ==
  \A id \in InquiryIds :
    IsKnown(id) => \/ id \in DOMAIN inquiries
                   \/ IsAnswering /\ inquiry.inquiryId = id

\* AnsweredInOrder and StoredAreAnswered are not inductive: they rest on the
\* argument in flight, and TypeOK on its having a name.
IInv == TypeOK /\ ArgumentKnown /\ AnsweredInOrder /\ RecordsKept /\ KnownKept

-----------------------------------------------------------------------------
(***************************************************************************)
(* What TypeOK says, and what the actions do to the sequences.             *)
(***************************************************************************)

\* A line of inquiries.txt makes an inquiry with the name of the line, and the
\* answer to it is that inquiry, done.
LEMMA LinesAreInquiries ==
  ASSUME NEW line \in InquiryLines
  PROVE  /\ InquiryOfLine(line) \in Inquiries
         /\ AnswerTo(line) \in Inquiries
         /\ InquiryOfLine(line).inquiryId = line.inquiryId
         /\ InquiryOfLine(line).state = line.state
         /\ line.inquiryId \in InquiryIds
         /\ AnswerTo(line).inquiryId = line.inquiryId
         /\ AnswerTo(line).state = "DONE"
<1>1. /\ line.inquiryId \in InquiryIds /\ line.terms \in Terms
      /\ line.price \in Prices /\ line.state \in InquiryStates
  BY InquiryLinesAssumption
<1>2. GetBond(line.cusip) \in ProductIds
  BY DEF GetBond, ProductIds
<1>3. InquiryOfLine(line) \in Inquiries
  BY <1>1, <1>2 DEF InquiryOfLine, Inquiries
<1> QED
  BY <1>1, <1>3 DEF InquiryOfLine, AnswerTo, Inquiries, InquiryStates

\* The record of a map that has none is a well-typed inquiry.
LEMMA DefaultIsInquiry == DefaultInquiry \in Inquiries
  BY DEF DefaultInquiry, Inquiries, InquiryStates, ProductIds

\* The two sequences are sequences, and the kept inquiries are inquiries.
LEMMA Shapes ==
  ASSUME TypeOK
  PROVE  /\ Len(inquiriesFile) \in Nat
         /\ DOMAIN inquiriesFile = 1..Len(inquiriesFile)
         /\ Len(due) \in Nat /\ DOMAIN due = 1..Len(due)
         /\ \A i \in DOMAIN inquiriesFile : inquiriesFile[i] \in Inquiries
         /\ \A i \in DOMAIN due : due[i] \in Inquiries
         /\ DOMAIN inquiries \subseteq InquiryIds
         /\ \A id \in DOMAIN inquiries : inquiries[id] \in Inquiries
<1>1. IsSequence(inquiriesFile)
  BY DEF TypeOK, InquiryHistory!TypeOK, IsSequence
<1>2. \A i \in DOMAIN inquiriesFile : inquiriesFile[i] \in Inquiries
  BY DEF TypeOK, InquiryHistory!TypeOK, IsInquiryLine
<1>3. due \in Seq(Inquiries)
  BY DEF TypeOK
<1>4. /\ DOMAIN inquiries \subseteq InquiryIds
      /\ \A id \in DOMAIN inquiries : inquiries[id] \in Inquiries
  BY DEF TypeOK, InquiryTypeOK, IsMap
<1> QED
  BY <1>1, <1>2, <1>3, <1>4, AppendFacts

\* What is owed grows at its end, by a well-typed inquiry.
LEMMA DueGrows ==
  ASSUME TypeOK, NEW answer \in Inquiries, due' = Append(due, answer)
  PROVE  /\ due' \in Seq(Inquiries)
         /\ Len(due') = Len(due) + 1 /\ DOMAIN due' = 1..(Len(due) + 1)
         /\ due'[Len(due) + 1] = answer
         /\ \A i \in 1..Len(due) : due'[i] = due[i]
  BY DEF TypeOK

\* PersistInquiry adds its argument at the end of allinquiries.txt.
LEMMA FileGrows ==
  ASSUME TypeOK, PersistInquiry
  PROVE  /\ inquiry \in Inquiries
         /\ IsSequence(inquiriesFile')
         /\ Len(inquiriesFile') = Len(inquiriesFile) + 1
         /\ DOMAIN inquiriesFile' = 1..(Len(inquiriesFile) + 1)
         /\ inquiriesFile'[Len(inquiriesFile) + 1] = inquiry
         /\ \A i \in 1..Len(inquiriesFile) :
              inquiriesFile'[i] = inquiriesFile[i]
<1>1. inquiriesFile' = Append(inquiriesFile, inquiry)
  BY DEF PersistInquiry, InquiryHistory!PersistData
<1>2. IsSequence(inquiriesFile)
  BY DEF TypeOK, InquiryHistory!TypeOK, IsSequence
<1>3. inquiry \in Inquiries
  BY DEF PersistInquiry, TypeOK
<1> QED
  BY <1>1, <1>2, <1>3, AppendFacts

-----------------------------------------------------------------------------
(***************************************************************************)
(* Types.                                                                  *)
(***************************************************************************)

\* Every step keeps TypeOK: what is stored is an inquiry, under a name.
LEMMA TypeOKStep ==
  ASSUME IInv, Next
  PROVE  TypeOK'
<1>0. TypeOK /\ ArgumentKnown
  BY DEF IInv
<1>1. CASE ReadInquiry
  <2>1. PICK line \in InquiryLines :
          /\ inquiry' = InquiryOfLine(line)
          /\ due' = IF IsAnswerable(line) THEN Append(due, AnswerTo(line))
                    ELSE due
    BY <1>1 DEF ReadInquiry
  <2>2. inquiry' \in Inquiries /\ AnswerTo(line) \in Inquiries
    BY <2>1, LinesAreInquiries
  <2>3. due' \in Seq(Inquiries)
    BY <1>0, <2>1, <2>2 DEF TypeOK
  <2>4. linesRead' \in 0..MaxInquiries
    BY <1>0, <1>1, InquiryBoundsAssumption DEF ReadInquiry, TypeOK
  <2> QED
    BY <1>0, <1>1, <2>2, <2>3, <2>4
       DEF ReadInquiry, TypeOK, InquiryTypeOK, InquiryHistory!TypeOK
<1>2. CASE EndOfInquiries
  BY <1>0, <1>2 DEF EndOfInquiries, TypeOK, InquiryTypeOK, InquiryHistory!TypeOK
<1>3. CASE ReceiveInquiry
  <2>1. inquiry \in Inquiries /\ inquiry.inquiryId \in InquiryIds
    BY <1>0, <1>3 DEF ReceiveInquiry, TypeOK, ArgumentKnown
  <2>2. InquiryTypeOK'
    BY <1>0, <1>3, <2>1, PutIsMap
       DEF ReceiveInquiry, StoreInquiry, TypeOK, InquiryTypeOK
  <2> QED
    BY <1>0, <1>3, <2>2 DEF ReceiveInquiry, TypeOK, InquiryHistory!TypeOK
<1>4. CASE Publish
  <2>1. inquiry' \in Inquiries
    BY <1>0, <1>4 DEF Publish, TypeOK, Inquiries, InquiryStates
  <2> QED
    BY <1>0, <1>4, <2>1
       DEF Publish, TypeOK, InquiryTypeOK, InquiryHistory!TypeOK
<1>5. CASE CompleteInquiry
  <2>1. inquiry' \in Inquiries /\ inquiry'.inquiryId \in InquiryIds
    BY <1>0, <1>5
       DEF CompleteInquiry, TypeOK, ArgumentKnown, Inquiries, InquiryStates
  <2>2. InquiryTypeOK'
    BY <1>0, <1>5, <2>1, PutIsMap
       DEF CompleteInquiry, StoreInquiry, TypeOK, InquiryTypeOK
  <2> QED
    BY <1>0, <1>5, <2>1, <2>2
       DEF CompleteInquiry, TypeOK, InquiryHistory!TypeOK
<1>6. CASE IgnoreInquiry
  BY <1>0, <1>6 DEF IgnoreInquiry, TypeOK, InquiryTypeOK, InquiryHistory!TypeOK
<1>7. CASE PersistInquiry
  <2>1. InquiryHistory!TypeOK(IsInquiryLine)'
    <3>1. inquiriesFile' \in Seq({inquiriesFile'[i] : i \in DOMAIN inquiriesFile'})
      BY <1>0, <1>7, FileGrows DEF IsSequence
    <3>2. \A i \in DOMAIN inquiriesFile' : inquiriesFile'[i] \in Inquiries
      <4>1. \A i \in 1..(Len(inquiriesFile) + 1) :
              i = Len(inquiriesFile) + 1 \/ i \in 1..Len(inquiriesFile)
        BY <1>0, Shapes
      <4> QED
        BY <1>0, <1>7, <4>1, FileGrows, Shapes
    <3> QED
      BY <3>1, <3>2 DEF InquiryHistory!TypeOK, IsInquiryLine
  <2> QED
    BY <1>0, <1>7, <2>1 DEF PersistInquiry, TypeOK, InquiryTypeOK
<1>8. CASE RejectInquiry
  <2>1. PICK id \in Rejectable : MarkRejected(id)
    BY <1>8 DEF RejectInquiry
  <2>2. At(inquiries, id, DefaultInquiry) \in Inquiries
    BY <1>0, Shapes, DefaultIsInquiry DEF At
  <2>3. [At(inquiries, id, DefaultInquiry) EXCEPT !.state = "REJECTED"]
          \in Inquiries
    BY <2>2 DEF Inquiries, InquiryStates
  <2>4. InquiryTypeOK'
    BY <1>0, <2>1, <2>3, PutIsMap, InquiryBoundsAssumption
       DEF MarkRejected, TypeOK, InquiryTypeOK
  <2> QED
    BY <1>0, <1>8, <2>4 DEF RejectInquiry, TypeOK, InquiryHistory!TypeOK
<1>9. CASE SendQuote
  <2>1. PICK id \in Quotable, price \in Prices :
          /\ StoreQuote(id, price)
          /\ due' = Append(due, inquiries'[id]) /\ inquiry' = inquiries'[id]
    BY <1>9 DEF SendQuote
  <2> DEFINE quoted == [At(inquiries, id, DefaultInquiry) EXCEPT !.price = price]
  <2>2. At(inquiries, id, DefaultInquiry) \in Inquiries
    BY <1>0, Shapes, DefaultIsInquiry DEF At
  <2>3. quoted \in Inquiries
    BY <2>2 DEF Inquiries
  <2>4. inquiries' = Put(inquiries, id, quoted)
    BY <2>1 DEF StoreQuote
  <2> HIDE DEF quoted
  <2>5. InquiryTypeOK'
    BY <1>0, <2>3, <2>4, PutIsMap, InquiryBoundsAssumption
       DEF TypeOK, InquiryTypeOK
  <2>6. inquiries'[id] = quoted
    BY <2>4 DEF Put
  <2>7. due' \in Seq(Inquiries)
    BY <1>0, <2>1, <2>3, <2>6, DueGrows
  <2> QED
    BY <1>0, <1>9, <2>1, <2>3, <2>5, <2>6, <2>7
       DEF SendQuote, TypeOK, InquiryHistory!TypeOK
<1> QED
  BY <1>1, <1>2, <1>3, <1>4, <1>5, <1>6, <1>7, <1>8, <1>9 DEF Next, Answering

-----------------------------------------------------------------------------
(***************************************************************************)
(* The calls in progress.                                                  *)
(***************************************************************************)

\* Every step keeps ArgumentKnown: the answer owed is fixed when the line is
\* read, and is what CompleteInquiry stores and PersistInquiry prints.
LEMMA ArgumentKnownStep ==
  ASSUME IInv, Next
  PROVE  ArgumentKnown'
<1> USE DEF ArgumentKnown, IsAnswering
<1>0. TypeOK /\ ArgumentKnown /\ RecordsKept
  BY DEF IInv
<1>1. CASE ReadInquiry
  <2>1. PICK line \in InquiryLines :
          /\ inquiry' = InquiryOfLine(line)
          /\ due' = IF IsAnswerable(line) THEN Append(due, AnswerTo(line))
                    ELSE due
    BY <1>1 DEF ReadInquiry
  <2>2. pc' = "OnMessage"
    BY <1>1 DEF ReadInquiry
  <2>3. inquiry'.inquiryId \in InquiryIds /\ inquiry'.state = line.state
    BY <2>1, LinesAreInquiries
  <2>4. ASSUME IsAnswering'
        PROVE  due'[Len(due')] = [inquiry' EXCEPT !.state = "DONE"]
    <3>1. IsAnswerable(line)
      BY <2>2, <2>3, <2>4 DEF IsAnswerable
    <3>2. due'[Len(due')] = AnswerTo(line)
      BY <1>0, <2>1, <3>1, DueGrows, LinesAreInquiries
    <3> QED
      BY <2>1, <3>2 DEF AnswerTo
  <2> QED
    BY <2>2, <2>3, <2>4
<1>2. CASE EndOfInquiries \/ RejectInquiry
  BY <1>0, <1>2 DEF EndOfInquiries, RejectInquiry
<1>3. CASE ReceiveInquiry
  BY <1>0, <1>3 DEF ReceiveInquiry
<1>4. CASE Publish
  <2>1. /\ inquiry \in Inquiries /\ pc = "Publish" /\ pc' = "OnMessage"
        /\ inquiry' = [inquiry EXCEPT !.state = "QUOTED"] /\ due' = due
    BY <1>0, <1>4 DEF Publish, TypeOK
  <2>2. inquiry'.inquiryId = inquiry.inquiryId
    BY <2>1 DEF Inquiries
  <2>3. [inquiry' EXCEPT !.state = "DONE"] = [inquiry EXCEPT !.state = "DONE"]
    BY <2>1 DEF Inquiries
  <2> QED
    BY <1>0, <2>1, <2>2, <2>3
<1>5. CASE CompleteInquiry
  <2>1. /\ inquiry \in Inquiries /\ pc = "OnMessage"
        /\ inquiry.state = "QUOTED" /\ pc' = "PersistInquiry"
        /\ inquiry' = [inquiry EXCEPT !.state = "DONE"] /\ due' = due
        /\ inquiries' = Put(inquiries, inquiry'.inquiryId, inquiry')
    BY <1>0, <1>5 DEF CompleteInquiry, TypeOK, StoreInquiry
  <2>2. inquiry'.state = "DONE"
    BY <2>1 DEF Inquiries
  <2>3. /\ inquiry'.inquiryId \in DOMAIN inquiries'
        /\ inquiries'[inquiry'.inquiryId] = inquiry'
    BY <2>1 DEF Put
  <2> QED
    BY <1>0, <2>1, <2>2, <2>3
<1>6. CASE IgnoreInquiry \/ PersistInquiry
  BY <1>6 DEF IgnoreInquiry, PersistInquiry
<1>7. CASE SendQuote
  <2>1. PICK id \in Quotable, price \in Prices :
          /\ StoreQuote(id, price)
          /\ due' = Append(due, inquiries'[id]) /\ inquiry' = inquiries'[id]
    BY <1>7 DEF SendQuote
  <2>2. pc = "Main" /\ pc' = "PersistInquiry"
    BY <1>7 DEF SendQuote
  <2>3. TypeOK'
    BY TypeOKStep
  <2>4. inquiry' \in Inquiries
    BY <2>2, <2>3 DEF TypeOK
  <2>5. due'[Len(due')] = inquiry'
    BY <1>0, <2>1, <2>4, DueGrows
  <2>6. /\ inquiry' = [At(inquiries, id, DefaultInquiry) EXCEPT !.price = price]
        /\ id \in DOMAIN inquiries'
    BY <2>1 DEF StoreQuote, Put
  <2>7. ASSUME inquiry'.inquiryId # NoId
        PROVE  inquiry'.inquiryId = id /\ inquiry'.state \in {"DONE", "REJECTED"}
    <3>1. id \in DOMAIN inquiries
      BY <2>6, <2>7 DEF At, DefaultInquiry
    <3>2. inquiries[id] \in Inquiries
      BY <1>0, <3>1, Shapes
    <3>3. /\ inquiry'.inquiryId = inquiries[id].inquiryId
          /\ inquiry'.state = inquiries[id].state
      BY <2>6, <3>1, <3>2 DEF At, Inquiries
    <3>4. inquiries[id].inquiryId \in {id, NoId} /\ IsAnswered(id)
      BY <1>0, <2>2, <3>1 DEF RecordsKept
    <3> QED
      BY <2>7, <3>3, <3>4 DEF IsAnswered
  <2> QED
    BY <2>1, <2>2, <2>5, <2>6, <2>7
<1> QED
  BY <1>1, <1>2, <1>3, <1>4, <1>5, <1>6, <1>7 DEF Next, Answering

\* Every step keeps AnsweredInOrder: the line PersistInquiry prints is the one
\* owed next.
LEMMA AnsweredInOrderStep ==
  ASSUME IInv, Next
  PROVE  AnsweredInOrder'
<1> DEFINE n == Len(inquiriesFile)
           m == Len(due)
<1>0. TypeOK /\ ArgumentKnown /\ AnsweredInOrder
  BY DEF IInv
<1>1. /\ n \in Nat /\ m \in Nat /\ n <= m
      /\ IsAnswering => n + 1 = m
      /\ ~IsAnswering => n = m
      /\ DOMAIN inquiriesFile = 1..n
      /\ \A i \in 1..n : inquiriesFile[i] = due[i]
  <2>1. /\ n + (IF IsAnswering THEN 1 ELSE 0) = m
        /\ \A i \in DOMAIN inquiriesFile : inquiriesFile[i] = due[i]
    BY <1>0 DEF AnsweredInOrder
  <2>2. n \in Nat /\ m \in Nat /\ DOMAIN inquiriesFile = 1..n
    BY <1>0, Shapes
  <2> HIDE DEF n, m
  <2>3. CASE IsAnswering
    <3>1. n + 1 = m
      BY <2>1, <2>3
    <3> QED
      BY <2>1, <2>2, <2>3, <3>1
  <2>4. CASE ~IsAnswering
    <3>1. n + 0 = m
      BY <2>1, <2>4
    <3> QED
      BY <2>1, <2>2, <2>4, <3>1
  <2> QED
    BY <2>3, <2>4
<1>2. ASSUME ~IsAnswering, IsAnswering', inquiriesFile' = inquiriesFile,
             NEW answer \in Inquiries, due' = Append(due, answer)
      PROVE  AnsweredInOrder'
  <2>1. Len(due') = m + 1 /\ \A i \in 1..m : due'[i] = due[i]
    BY <1>0, <1>2, DueGrows
  <2> QED
    BY <1>1, <1>2, <2>1 DEF AnsweredInOrder
<1>3. ASSUME UNCHANGED <<inquiriesFile, due>>, IsAnswering' <=> IsAnswering
      PROVE  AnsweredInOrder'
  BY <1>0, <1>3 DEF AnsweredInOrder
<1>4. CASE ReadInquiry
  <2>1. PICK line \in InquiryLines :
          /\ inquiry' = InquiryOfLine(line)
          /\ due' = IF IsAnswerable(line) THEN Append(due, AnswerTo(line))
                    ELSE due
    BY <1>4 DEF ReadInquiry
  <2>2. pc = "Main" /\ pc' = "OnMessage" /\ inquiriesFile' = inquiriesFile
    BY <1>4 DEF ReadInquiry
  <2>3. inquiry'.state = line.state
    BY <2>1, LinesAreInquiries
  <2>4. IsAnswering' <=> IsAnswerable(line)
    BY <2>2, <2>3 DEF IsAnswering, IsAnswerable
  <2>5. ~IsAnswering /\ AnswerTo(line) \in Inquiries
    BY <2>2, LinesAreInquiries DEF IsAnswering
  <2> QED
    BY <1>2, <1>3, <2>1, <2>2, <2>4, <2>5
<1>5. CASE EndOfInquiries \/ RejectInquiry
  BY <1>3, <1>5 DEF EndOfInquiries, RejectInquiry, IsAnswering
<1>6. CASE ReceiveInquiry \/ IgnoreInquiry
  BY <1>3, <1>6 DEF ReceiveInquiry, IgnoreInquiry, IsAnswering
<1>7. CASE Publish
  <2>1. /\ inquiry \in Inquiries /\ pc = "Publish" /\ pc' = "OnMessage"
        /\ inquiry' = [inquiry EXCEPT !.state = "QUOTED"]
        /\ UNCHANGED <<inquiriesFile, due>>
    BY <1>0, <1>7 DEF Publish, TypeOK
  <2>2. inquiry'.state = "QUOTED"
    BY <2>1 DEF Inquiries
  <2> QED
    BY <1>3, <2>1, <2>2 DEF IsAnswering
<1>8. CASE CompleteInquiry
  BY <1>3, <1>8 DEF CompleteInquiry, IsAnswering
<1>9. CASE PersistInquiry
  <2>1. IsAnswering /\ ~IsAnswering' /\ due' = due /\ pc = "PersistInquiry"
    BY <1>9 DEF PersistInquiry, IsAnswering
  <2>2. due[m] = inquiry
    BY <1>0, <2>1 DEF ArgumentKnown
  <2>3. /\ Len(inquiriesFile') = n + 1 /\ DOMAIN inquiriesFile' = 1..(n + 1)
        /\ inquiriesFile'[n + 1] = inquiry
        /\ \A i \in 1..n : inquiriesFile'[i] = inquiriesFile[i]
    BY <1>0, <1>9, FileGrows
  <2> HIDE DEF n, m
  <2>4. \A i \in DOMAIN inquiriesFile' : inquiriesFile'[i] = due'[i]
    BY <1>1, <2>1, <2>2, <2>3
  <2> USE DEF n, m
  <2> QED
    BY <1>1, <2>1, <2>3, <2>4 DEF AnsweredInOrder
<1>10. CASE SendQuote
  <2>1. PICK id \in Quotable :
          due' = Append(due, inquiries'[id]) /\ inquiry' = inquiries'[id]
    BY <1>10 DEF SendQuote
  <2>2. ~IsAnswering /\ IsAnswering' /\ inquiriesFile' = inquiriesFile
    BY <1>10 DEF SendQuote, IsAnswering
  <2>3. inquiry' \in Inquiries
    BY <2>2, TypeOKStep DEF TypeOK, IsAnswering
  <2> QED
    BY <1>2, <2>1, <2>2, <2>3
<1> QED
  BY <1>4, <1>5, <1>6, <1>7, <1>8, <1>9, <1>10 DEF Next, Answering

-----------------------------------------------------------------------------
(***************************************************************************)
(* The records kept.                                                       *)
(***************************************************************************)

\* Only an answer to id makes it known.
LEMMA KnownGrows ==
  ASSUME TypeOK, NEW id, NEW answer \in Inquiries, due' = Append(due, answer)
  PROVE  IsKnown(id)' <=> IsKnown(id) \/ answer.inquiryId = id
<1> DEFINE m == Len(due)
<1>1. /\ m \in Nat /\ DOMAIN due = 1..m /\ DOMAIN due' = 1..(m + 1)
      /\ due'[m + 1] = answer /\ \A i \in 1..m : due'[i] = due[i]
  BY DueGrows, Shapes
<1> HIDE DEF m
<1>2. \A i \in 1..(m + 1) : i = m + 1 \/ i \in 1..m
  BY <1>1
<1> QED
  BY <1>1, <1>2 DEF IsKnown

\* A record that is not touched stays answered while nothing is owed for it
\* that was not.
LEMMA AnsweredKept ==
  ASSUME TypeOK, NEW id, IsAnswered(id), inquiries'[id] = inquiries[id],
         inquiriesFile' = inquiriesFile, IsKnown(id)' <=> IsKnown(id)
  PROVE  IsAnswered(id)'
  BY DEF IsAnswered

\* Every step keeps what RecordsKept says of the names: only a line puts one
\* on a record, its own.
LEMMA NamesKeptStep ==
  ASSUME IInv, Next, NEW id \in DOMAIN inquiries'
  PROVE  /\ inquiries'[id].inquiryId \in {id, NoId}
         /\ inquiries'[id].inquiryId = NoId =>
              inquiries'[id].state \in {"RECEIVED", "REJECTED"}
<1>0. TypeOK /\ ArgumentKnown /\ RecordsKept
  BY DEF IInv
<1>1. \A k \in DOMAIN inquiries :
        /\ inquiries[k].inquiryId \in {k, NoId}
        /\ inquiries[k].inquiryId = NoId =>
             inquiries[k].state \in {"RECEIVED", "REJECTED"}
  BY <1>0 DEF RecordsKept
<1>2. CASE inquiries' = inquiries
  BY <1>1, <1>2
<1>3. ASSUME NEW r \in Inquiries, inquiries' = Put(inquiries, r.inquiryId, r),
             r.inquiryId \in InquiryIds
      PROVE  /\ inquiries'[id].inquiryId \in {id, NoId}
             /\ inquiries'[id].inquiryId = NoId =>
                  inquiries'[id].state \in {"RECEIVED", "REJECTED"}
  BY <1>1, <1>3, InquiryLinesAssumption DEF Put
<1>4. ASSUME NEW k, NEW r, inquiries' = Put(inquiries, k, r),
             r.inquiryId = At(inquiries, k, DefaultInquiry).inquiryId,
             r.state \in {At(inquiries, k, DefaultInquiry).state, "REJECTED"}
      PROVE  /\ inquiries'[id].inquiryId \in {id, NoId}
             /\ inquiries'[id].inquiryId = NoId =>
                  inquiries'[id].state \in {"RECEIVED", "REJECTED"}
  <2>1. CASE id = k
    <3>1. inquiries'[id] = r
      BY <1>4, <2>1 DEF Put
    <3> QED
      BY <1>1, <1>4, <2>1, <3>1 DEF At, DefaultInquiry
  <2>2. CASE id # k
    BY <1>1, <1>4, <2>2 DEF Put
  <2> QED
    BY <2>1, <2>2
<1>5. CASE \/ ReadInquiry \/ EndOfInquiries \/ Publish \/ IgnoreInquiry
           \/ PersistInquiry
  BY <1>2, <1>5
     DEF ReadInquiry, EndOfInquiries, Publish, IgnoreInquiry, PersistInquiry
<1>6. CASE ReceiveInquiry
  BY <1>0, <1>3, <1>6
     DEF ReceiveInquiry, StoreInquiry, TypeOK, ArgumentKnown
<1>7. CASE CompleteInquiry
  <2>1. inquiry' \in Inquiries
    BY <1>7, TypeOKStep DEF CompleteInquiry, TypeOK
  <2>2. inquiry'.inquiryId \in InquiryIds
    BY <1>0, <1>7 DEF CompleteInquiry, TypeOK, ArgumentKnown, Inquiries
  <2> QED
    BY <1>3, <1>7, <2>1, <2>2 DEF CompleteInquiry, StoreInquiry
<1>8. CASE RejectInquiry
  <2>1. PICK k \in Rejectable : MarkRejected(k)
    BY <1>8 DEF RejectInquiry
  <2>2. At(inquiries, k, DefaultInquiry) \in Inquiries
    BY <1>0, Shapes, DefaultIsInquiry DEF At
  <2> QED
    BY <1>4, <2>1, <2>2 DEF MarkRejected, Inquiries
<1>9. CASE SendQuote
  <2>1. PICK k \in Quotable, price \in Prices : StoreQuote(k, price)
    BY <1>9 DEF SendQuote
  <2>2. At(inquiries, k, DefaultInquiry) \in Inquiries
    BY <1>0, Shapes, DefaultIsInquiry DEF At
  <2> QED
    BY <1>4, <2>1, <2>2 DEF StoreQuote, Inquiries
<1> QED
  BY <1>5, <1>6, <1>7, <1>8, <1>9 DEF Next, Answering

\* Every step keeps what RecordsKept says of the answers. A record that was in
\* flight is answered when its line is on file, the last one of its inquiry;
\* the answer to another inquiry changes nothing for it.
LEMMA AnswersKeptStep ==
  ASSUME IInv, Next, NEW id \in DOMAIN inquiries'
  PROVE  IsAnswered(id)' \/ (IsAnswering' /\ inquiry'.inquiryId = id)
<1>0. TypeOK /\ ArgumentKnown /\ RecordsKept /\ KnownKept /\ AnsweredInOrder
  BY DEF IInv
<1>1. id \in DOMAIN inquiries =>
        IsAnswered(id) \/ (IsAnswering /\ inquiry.inquiryId = id)
  BY <1>0 DEF RecordsKept
<1>2. ASSUME id \in DOMAIN inquiries, inquiries'[id] = inquiries[id],
             inquiriesFile' = inquiriesFile, IsKnown(id)' <=> IsKnown(id),
             IsAnswering /\ inquiry.inquiryId = id
               => IsAnswering' /\ inquiry'.inquiryId = id
      PROVE  IsAnswered(id)' \/ (IsAnswering' /\ inquiry'.inquiryId = id)
  BY <1>0, <1>1, <1>2, AnsweredKept
<1>3. id # NoId
  <2>1. DOMAIN inquiries' \subseteq InquiryIds
    BY TypeOKStep DEF TypeOK, InquiryTypeOK, IsMap
  <2> QED
    BY <2>1, InquiryLinesAssumption
<1>4. CASE ReadInquiry
  <2>1. PICK line \in InquiryLines :
          /\ inquiry' = InquiryOfLine(line)
          /\ due' = IF IsAnswerable(line) THEN Append(due, AnswerTo(line))
                    ELSE due
    BY <1>4 DEF ReadInquiry
  <2>2. /\ pc = "Main" /\ pc' = "OnMessage"
        /\ UNCHANGED <<inquiries, inquiriesFile>>
    BY <1>4 DEF ReadInquiry
  <2>3. /\ inquiry'.state = line.state /\ inquiry'.inquiryId = line.inquiryId
        /\ AnswerTo(line) \in Inquiries
        /\ AnswerTo(line).inquiryId = line.inquiryId
    BY <2>1, LinesAreInquiries
  <2>4. ~IsAnswering /\ (IsAnswering' <=> IsAnswerable(line))
    BY <2>2, <2>3 DEF IsAnswering, IsAnswerable
  <2>5. CASE IsAnswerable(line) /\ line.inquiryId = id
    BY <2>3, <2>4, <2>5
  <2>6. CASE ~(IsAnswerable(line) /\ line.inquiryId = id)
    <3>1. IsKnown(id)' <=> IsKnown(id)
      <4>1. CASE IsAnswerable(line)
        BY <1>0, <2>1, <2>3, <2>6, <4>1, KnownGrows
      <4>2. CASE ~IsAnswerable(line)
        BY <2>1, <4>2 DEF IsKnown
      <4> QED
        BY <4>1, <4>2
    <3> QED
      BY <1>2, <2>2, <2>4, <3>1
  <2> QED
    BY <2>5, <2>6
<1>5. CASE EndOfInquiries
  BY <1>2, <1>5 DEF EndOfInquiries, IsAnswering, IsKnown
<1>6. CASE ReceiveInquiry
  <2>1. /\ inquiries' = Put(inquiries, inquiry.inquiryId, inquiry)
        /\ IsAnswering' /\ UNCHANGED <<inquiriesFile, inquiry, due>>
    BY <1>6 DEF ReceiveInquiry, StoreInquiry, IsAnswering
  <2>2. CASE id = inquiry.inquiryId
    BY <2>1, <2>2
  <2>3. CASE id # inquiry.inquiryId
    <3>1. id \in DOMAIN inquiries /\ inquiries'[id] = inquiries[id]
      BY <2>1, <2>3 DEF Put
    <3> QED
      BY <1>2, <2>1, <3>1 DEF IsKnown
  <2> QED
    BY <2>2, <2>3
<1>7. CASE Publish
  <2>1. /\ inquiry \in Inquiries /\ pc' = "OnMessage"
        /\ inquiry' = [inquiry EXCEPT !.state = "QUOTED"]
        /\ UNCHANGED <<inquiries, inquiriesFile, due>>
    BY <1>0, <1>7 DEF Publish, TypeOK
  <2>2. inquiry'.state = "QUOTED" /\ inquiry'.inquiryId = inquiry.inquiryId
    BY <2>1 DEF Inquiries
  <2> QED
    BY <1>2, <2>1, <2>2 DEF IsAnswering, IsKnown
<1>8. CASE CompleteInquiry
  <2>1. /\ inquiries' = Put(inquiries, inquiry'.inquiryId, inquiry')
        /\ IsAnswering' /\ UNCHANGED <<inquiriesFile, due>>
        /\ inquiry'.inquiryId = inquiry.inquiryId
    BY <1>0, <1>8
       DEF CompleteInquiry, StoreInquiry, IsAnswering, TypeOK, Inquiries
  <2>2. CASE id = inquiry.inquiryId
    BY <2>1, <2>2
  <2>3. CASE id # inquiry.inquiryId
    <3>1. id \in DOMAIN inquiries /\ inquiries'[id] = inquiries[id]
      BY <2>1, <2>3 DEF Put
    <3> QED
      BY <1>2, <2>1, <3>1 DEF IsKnown
  <2> QED
    BY <2>2, <2>3
<1>9. CASE IgnoreInquiry
  BY <1>2, <1>9 DEF IgnoreInquiry, IsAnswering, IsKnown
<1>10. CASE PersistInquiry
  <2> DEFINE n == Len(inquiriesFile)
             m == Len(due)
  <2>1. /\ IsAnswering /\ pc = "PersistInquiry" /\ UNCHANGED <<inquiries, due>>
    BY <1>10 DEF PersistInquiry, IsAnswering
  <2>2. /\ DOMAIN inquiriesFile' = 1..(n + 1) /\ inquiriesFile'[n + 1] = inquiry
        /\ \A i \in 1..n : inquiriesFile'[i] = inquiriesFile[i]
        /\ n \in Nat /\ DOMAIN inquiriesFile = 1..n
    BY <1>0, <1>10, FileGrows, Shapes
  <2>3. /\ DOMAIN due = 1..m /\ m \in Nat /\ due[m] = inquiry
        /\ n + (IF IsAnswering THEN 1 ELSE 0) = m
    BY <1>0, <2>1, Shapes DEF ArgumentKnown, AnsweredInOrder
  <2> HIDE DEF n, m
  <2>4. n + 1 = m
    BY <2>1, <2>3
  <2>5. CASE inquiry.inquiryId = id
    <3>1. inquiries[id] = inquiry /\ inquiry.state \in {"DONE", "REJECTED"}
      BY <1>0, <1>3, <2>1, <2>5 DEF ArgumentKnown
    <3>2. IsKnown(id)'
      BY <2>1, <2>2, <2>3, <2>4, <2>5 DEF IsKnown
    <3>3. /\ n + 1 \in DOMAIN inquiriesFile'
          /\ \A j \in DOMAIN inquiriesFile' : ~(j > n + 1)
      BY <2>2
    <3> QED
      BY <2>1, <2>2, <2>5, <3>1, <3>2, <3>3 DEF IsAnswered
  <2>6. CASE inquiry.inquiryId # id
    <3>1. IsAnswered(id)
      BY <1>1, <2>1, <2>6
    <3>2. IsKnown(id)' <=> IsKnown(id)
      BY <2>1 DEF IsKnown
    <3>3. CASE inquiries[id].state = "REJECTED" \/ inquiries[id].inquiryId = NoId
      BY <2>1, <3>1, <3>2, <3>3, <1>0 DEF IsAnswered, RecordsKept
    <3>4. CASE /\ inquiries[id].state # "REJECTED"
               /\ inquiries[id].inquiryId # NoId
      <4>1. PICK i \in DOMAIN inquiriesFile :
              /\ inquiriesFile[i] = inquiries[id]
              /\ inquiriesFile[i].inquiryId = id
              /\ \A j \in DOMAIN inquiriesFile :
                   j > i => inquiriesFile[j].inquiryId # id
        BY <3>1, <3>4 DEF IsAnswered
      <4>2. /\ i \in DOMAIN inquiriesFile'
            /\ inquiriesFile'[i] = inquiriesFile[i]
            /\ \A j \in DOMAIN inquiriesFile' :
                 j > i => inquiriesFile'[j].inquiryId # id
        BY <2>2, <2>6, <4>1
      <4> QED
        BY <2>1, <3>1, <3>2, <3>4, <4>1, <4>2 DEF IsAnswered
    <3> QED
      BY <3>3, <3>4
  <2> QED
    BY <2>5, <2>6
<1>11. CASE RejectInquiry
  <2>1. PICK k \in Rejectable : MarkRejected(k)
    BY <1>11 DEF RejectInquiry
  <2>2. UNCHANGED <<inquiriesFile, due, inquiry, pc>>
    BY <1>11 DEF RejectInquiry
  <2>3. CASE id = k
    <3>1. At(inquiries, k, DefaultInquiry) \in Inquiries
      BY <1>0, Shapes, DefaultIsInquiry DEF At
    <3>2. inquiries'[id].state = "REJECTED"
      BY <2>1, <2>3, <3>1 DEF MarkRejected, Put, Inquiries
    <3> QED
      BY <3>2 DEF IsAnswered
  <2>4. CASE id # k
    <3>1. id \in DOMAIN inquiries /\ inquiries'[id] = inquiries[id]
      BY <2>1, <2>4 DEF MarkRejected, Put
    <3> QED
      BY <1>2, <2>2, <3>1 DEF IsAnswering, IsKnown
  <2> QED
    BY <2>3, <2>4
<1>12. CASE SendQuote
  <2>1. PICK k \in Quotable, price \in Prices :
          /\ StoreQuote(k, price)
          /\ due' = Append(due, inquiries'[k]) /\ inquiry' = inquiries'[k]
    BY <1>12 DEF SendQuote
  <2>2. /\ pc = "Main" /\ pc' = "PersistInquiry" /\ ~IsAnswering /\ IsAnswering'
        /\ inquiriesFile' = inquiriesFile
    BY <1>12 DEF SendQuote, IsAnswering
  <2>3. k \in DOMAIN inquiries' /\ inquiry' \in Inquiries
    BY <2>1, <2>2, TypeOKStep DEF TypeOK, StoreQuote, Put
  <2>4. /\ inquiry'.inquiryId \in {k, NoId}
        /\ inquiry'.inquiryId = NoId => inquiry'.state # "DONE"
    BY <2>1, <2>3, NamesKeptStep
  <2>5. IsKnown(id)' <=> IsKnown(id) \/ inquiry'.inquiryId = id
    BY <1>0, <2>1, <2>3, KnownGrows
  <2>6. CASE inquiry'.inquiryId = id
    BY <2>2, <2>6
  <2>7. CASE inquiry'.inquiryId # id /\ id # k
    <3>1. id \in DOMAIN inquiries /\ inquiries'[id] = inquiries[id]
      BY <2>1, <2>7 DEF StoreQuote, Put
    <3> QED
      BY <1>2, <2>2, <2>5, <2>7, <3>1
  <2>8. CASE inquiry'.inquiryId # id /\ id = k
    <3>1. inquiry'.inquiryId = NoId /\ inquiries'[id] = inquiry'
      BY <2>1, <2>4, <2>8
    <3>2. CASE id \in DOMAIN inquiries
      <4>1. IsAnswered(id) /\ inquiries[id] \in Inquiries
        BY <1>0, <1>1, <2>2, <3>2, Shapes
      <4>2. /\ inquiry'.state = inquiries[id].state
            /\ inquiry'.inquiryId = inquiries[id].inquiryId
        <5>1. inquiry' = [inquiries[id] EXCEPT !.price = price]
          BY <2>1, <2>8, <3>2 DEF StoreQuote, Put, At
        <5> QED
          BY <4>1, <5>1 DEF Inquiries
      <4> QED
        BY <2>4, <2>5, <2>8, <3>1, <4>1, <4>2 DEF IsAnswered
    <3>3. CASE id \notin DOMAIN inquiries
      <4>1. id \in InquiryIds
        BY TypeOKStep DEF TypeOK, InquiryTypeOK, IsMap
      <4>2. ~IsKnown(id)
        BY <1>0, <2>2, <3>3, <4>1 DEF KnownKept
      <4> QED
        BY <2>5, <2>8, <3>1, <4>2 DEF IsAnswered
    <3> QED
      BY <3>2, <3>3
  <2> QED
    BY <2>6, <2>7, <2>8
<1> QED
  BY <1>4, <1>5, <1>6, <1>7, <1>8, <1>9, <1>10, <1>11, <1>12
     DEF Next, Answering

\* Every step keeps KnownKept: an answer that is owed is stored before its
\* line is on file.
LEMMA KnownKeptStep ==
  ASSUME IInv, Next
  PROVE  KnownKept'
<1>0. TypeOK /\ ArgumentKnown /\ KnownKept
  BY DEF IInv
<1> SUFFICES ASSUME NEW id \in InquiryIds, IsKnown(id)'
             PROVE  id \in DOMAIN inquiries' \/ (IsAnswering' /\ inquiry'.inquiryId = id)
  BY DEF KnownKept
<1>1. IsKnown(id) => id \in DOMAIN inquiries \/ (IsAnswering /\ inquiry.inquiryId = id)
  BY <1>0 DEF KnownKept
<1>2. id # NoId
  BY InquiryLinesAssumption
<1>3. ASSUME due' = due, DOMAIN inquiries \subseteq DOMAIN inquiries',
             IsAnswering /\ inquiry.inquiryId = id
               => id \in DOMAIN inquiries' \/ (IsAnswering' /\ inquiry'.inquiryId = id)
      PROVE  id \in DOMAIN inquiries' \/ (IsAnswering' /\ inquiry'.inquiryId = id)
  BY <1>1, <1>3 DEF IsKnown
<1>4. CASE ReadInquiry
  <2>1. PICK line \in InquiryLines :
          /\ inquiry' = InquiryOfLine(line)
          /\ due' = IF IsAnswerable(line) THEN Append(due, AnswerTo(line))
                    ELSE due
    BY <1>4 DEF ReadInquiry
  <2>2. pc = "Main" /\ pc' = "OnMessage" /\ inquiries' = inquiries
    BY <1>4 DEF ReadInquiry
  <2>3. /\ inquiry'.state = line.state /\ inquiry'.inquiryId = line.inquiryId
        /\ AnswerTo(line) \in Inquiries
        /\ AnswerTo(line).inquiryId = line.inquiryId
    BY <2>1, LinesAreInquiries
  <2>4. ~IsAnswering /\ (IsAnswering' <=> IsAnswerable(line))
    BY <2>2, <2>3 DEF IsAnswering, IsAnswerable
  <2>5. CASE IsAnswerable(line)
    BY <1>0, <1>1, <2>1, <2>2, <2>3, <2>4, <2>5, KnownGrows
  <2>6. CASE ~IsAnswerable(line)
    BY <1>3, <2>1, <2>2, <2>4, <2>6
  <2> QED
    BY <2>5, <2>6
<1>5. CASE EndOfInquiries \/ IgnoreInquiry
  BY <1>3, <1>5 DEF EndOfInquiries, IgnoreInquiry, IsAnswering
<1>6. CASE ReceiveInquiry
  BY <1>3, <1>6 DEF ReceiveInquiry, StoreInquiry, Put, IsAnswering
<1>7. CASE Publish
  <2>1. /\ inquiry \in Inquiries /\ pc' = "OnMessage"
        /\ inquiry' = [inquiry EXCEPT !.state = "QUOTED"]
        /\ UNCHANGED <<inquiries, due>>
    BY <1>0, <1>7 DEF Publish, TypeOK
  <2>2. inquiry'.state = "QUOTED" /\ inquiry'.inquiryId = inquiry.inquiryId
    BY <2>1 DEF Inquiries
  <2> QED
    BY <1>3, <2>1, <2>2 DEF IsAnswering
<1>8. CASE CompleteInquiry
  <2>1. /\ inquiries' = Put(inquiries, inquiry'.inquiryId, inquiry')
        /\ due' = due /\ IsAnswering' /\ inquiry'.inquiryId = inquiry.inquiryId
    BY <1>0, <1>8
       DEF CompleteInquiry, StoreInquiry, IsAnswering, TypeOK, Inquiries
  <2> QED
    BY <1>3, <2>1 DEF Put
<1>9. CASE PersistInquiry
  <2>1. /\ pc = "PersistInquiry" /\ UNCHANGED <<inquiries, due>>
    BY <1>9 DEF PersistInquiry
  <2> QED
    BY <1>0, <1>2, <1>3, <2>1 DEF ArgumentKnown
<1>10. CASE RejectInquiry
  <2>1. DOMAIN inquiries \subseteq DOMAIN inquiries'
    BY <1>10 DEF RejectInquiry, MarkRejected, Put
  <2> QED
    BY <1>3, <1>10, <2>1 DEF RejectInquiry, IsAnswering
<1>11. CASE SendQuote
  <2>1. PICK k \in Quotable, price \in Prices :
          /\ StoreQuote(k, price)
          /\ due' = Append(due, inquiries'[k]) /\ inquiry' = inquiries'[k]
    BY <1>11 DEF SendQuote
  <2>2. ~IsAnswering /\ IsAnswering' /\ pc' = "PersistInquiry"
    BY <1>11 DEF SendQuote, IsAnswering
  <2>3. /\ inquiry' \in Inquiries /\ DOMAIN inquiries \subseteq DOMAIN inquiries'
    BY <2>1, <2>2, TypeOKStep DEF TypeOK, StoreQuote, Put
  <2> QED
    BY <1>0, <1>1, <2>1, <2>2, <2>3, KnownGrows
<1> QED
  BY <1>4, <1>5, <1>6, <1>7, <1>8, <1>9, <1>10, <1>11 DEF Next, Answering

-----------------------------------------------------------------------------
(***************************************************************************)
(* The theorems.                                                           *)
(***************************************************************************)

\* The program starts with nothing kept, owed or on file.
LEMMA InitInvariant ==
  ASSUME Init
  PROVE  IInv
<1>1. /\ inquiries = EmptyMap /\ inquiriesFile = << >> /\ due = << >>
      /\ pc = "Main" /\ stage = "Inquiries" /\ linesRead = 0
  BY DEF Init, InquiryInit, InquiryHistory!Init
<1>2. DOMAIN inquiries = {}
  BY <1>1 DEF EmptyMap
<1>3. /\ Len(due) = 0 /\ Len(inquiriesFile) = 0
      /\ DOMAIN due = {} /\ DOMAIN inquiriesFile = {}
  BY <1>1
<1>4. InquiryTypeOK
  BY <1>1, EmptyIsMap DEF InquiryTypeOK
<1>5. due \in Seq(Inquiries) /\ InquiryHistory!TypeOK(IsInquiryLine)
  BY <1>1, <1>3 DEF InquiryHistory!TypeOK
<1>6. TypeOK
  BY <1>1, <1>4, <1>5, InquiryBoundsAssumption DEF TypeOK
<1>7. ~IsAnswering
  BY <1>1 DEF IsAnswering
<1>8. AnsweredInOrder
  BY <1>3, <1>7 DEF AnsweredInOrder
<1> QED
  BY <1>1, <1>2, <1>3, <1>6, <1>7, <1>8
     DEF IInv, ArgumentKnown, RecordsKept, KnownKept, IsKnown

\* IInv is an invariant of the flow of inquiries.
THEOREM Invariant == Spec => []IInv
<1>1. ASSUME IInv, Next PROVE IInv'
  <2>1. RecordsKept'
    BY <1>1, NamesKeptStep, AnswersKeptStep DEF RecordsKept
  <2> QED
    BY <1>1, <2>1, TypeOKStep, ArgumentKnownStep, AnsweredInOrderStep,
       KnownKeptStep DEF IInv
<1>2. ASSUME IInv, UNCHANGED vars PROVE IInv'
  BY <1>2
     DEF IInv, vars, TypeOK, InquiryTypeOK, InquiryHistory!TypeOK,
         ArgumentKnown, AnsweredInOrder, RecordsKept, KnownKept, IsAnswering,
         IsAnswered, IsKnown
<1> QED
  BY InitInvariant, <1>1, <1>2, PTL DEF Spec

\* The service's map, its file and the calls in progress hold what their types
\* allow.
THEOREM TypeCorrect == Spec => []TypeOK
<1>1. IInv => TypeOK
  BY DEF IInv
<1> QED
  BY <1>1, Invariant, PTL

\* allinquiries.txt answers the lines of inquiries.txt once each and in order,
\* however the service and its connector call each other.
THEOREM AnswersCorrect == Spec => []AnsweredInOrder
<1>1. IInv => AnsweredInOrder
  BY DEF IInv
<1> QED
  BY <1>1, Invariant, PTL

\* Between two lines every record is answered, and the last line of its inquiry
\* on file is what the map holds.
THEOREM RecordsCorrect == Spec => []StoredAreAnswered
<1>1. IInv => StoredAreAnswered
  BY DEF IInv, RecordsKept, StoredAreAnswered, IsAnswering
<1> QED
  BY <1>1, Invariant, PTL

-----------------------------------------------------------------------------
(***************************************************************************)
(* The flow implements InquiryLifecycle.                                   *)
(***************************************************************************)

\* Where the map has the inquiry of id.
KeptPhase(id) ==
  IF id \in DOMAIN inquiries /\ inquiries[id].state # "RECEIVED"
  THEN inquiries[id].state
  ELSE "Unknown"

\* An inquiry that is not in flight is not open, and once it is done its object
\* and its record are in the same state.
LEMMA PhaseFacts ==
  ASSUME IInv, NEW id \in InquiryIds
  PROVE  /\ IsAnswering /\ inquiry.inquiryId = id
              => PhaseOf(id) = inquiry.state
         /\ ~(IsAnswering /\ inquiry.inquiryId = id)
              => PhaseOf(id) = KeptPhase(id) /\ ~Lifecycle!Open(id)
         /\ pc \in {"Main", "PersistInquiry"} => PhaseOf(id) = KeptPhase(id)
<1>0. ArgumentKnown /\ RecordsKept
  BY DEF IInv
<1>1. IsAnswering /\ inquiry.inquiryId = id => PhaseOf(id) = inquiry.state
  BY DEF PhaseOf
<1>2. ASSUME ~(IsAnswering /\ inquiry.inquiryId = id)
      PROVE  PhaseOf(id) = KeptPhase(id) /\ ~Lifecycle!Open(id)
  <2>1. PhaseOf(id) = KeptPhase(id)
    BY <1>2 DEF PhaseOf, KeptPhase
  <2>2. KeptPhase(id) \in {"Unknown", "DONE", "REJECTED"}
    BY <1>0, <1>2 DEF KeptPhase, RecordsKept, IsAnswered
  <2>3. Phases[id] = PhaseOf(id)
    BY DEF Phases
  <2> QED
    BY <2>1, <2>2, <2>3 DEF Lifecycle!Open
<1>3. ASSUME pc \in {"Main", "PersistInquiry"}, IsAnswering,
             inquiry.inquiryId = id
      PROVE  PhaseOf(id) = KeptPhase(id)
  <2>1. pc = "PersistInquiry" /\ id # NoId
    BY <1>3, InquiryLinesAssumption DEF IsAnswering
  <2> QED
    BY <1>0, <1>1, <1>3, <2>1 DEF ArgumentKnown, KeptPhase
<1> QED
  BY <1>1, <1>2, <1>3

\* Between two lines no inquiry is open.
LEMMA NoneOpenAtMain ==
  ASSUME IInv, pc = "Main"
  PROVE  Lifecycle!NoneOpen
<1>1. ~IsAnswering
  BY DEF IsAnswering
<1> QED
  BY <1>1, PhaseFacts DEF Lifecycle!NoneOpen

\* A step that moves one inquiry updates one place of the abstract map.
LEMMA OnePhaseMoves ==
  ASSUME NEW id \in InquiryIds, NEW p, PhaseOf(id)' = p,
         \A k \in InquiryIds : k # id => PhaseOf(k)' = PhaseOf(k)
  PROVE  Phases' = [Phases EXCEPT ![id] = p]
<1>1. Phases' = [k \in InquiryIds |-> PhaseOf(k)']
  BY DEF Phases
<1>2. \A k \in InquiryIds : PhaseOf(k)' = IF k = id THEN p ELSE PhaseOf(k)
  OBVIOUS
<1> QED
  BY <1>1, <1>2 DEF Phases

\* A step that moves no inquiry is a stutter of the abstract specification.
LEMMA NoPhaseMoves ==
  ASSUME \A k \in InquiryIds : PhaseOf(k)' = PhaseOf(k)
  PROVE  Phases' = Phases
  BY DEF Phases

\* Reading a line to answer is Arrive; any other line changes nothing.
LEMMA ReadRefines ==
  ASSUME IInv, IInv', ReadInquiry
  PROVE  Lifecycle!Next \/ Phases' = Phases
<1>1. PICK line \in InquiryLines : inquiry' = InquiryOfLine(line)
  BY DEF ReadInquiry
<1>2. pc = "Main" /\ pc' = "OnMessage" /\ inquiries' = inquiries
  BY DEF ReadInquiry
<1>3. /\ inquiry'.inquiryId = line.inquiryId /\ inquiry'.state = line.state
      /\ line.inquiryId \in InquiryIds
  BY <1>1, LinesAreInquiries
<1>4. ~IsAnswering /\ (IsAnswering' <=> IsAnswerable(line))
  BY <1>2, <1>3 DEF IsAnswering, IsAnswerable
<1>5. \A k \in InquiryIds :
        ~(IsAnswering' /\ line.inquiryId = k) => PhaseOf(k)' = PhaseOf(k)
  BY <1>2, <1>3, <1>4 DEF PhaseOf
<1>6. CASE IsAnswerable(line)
  <2>1. PhaseOf(line.inquiryId)' = line.state
    BY <1>3, <1>4, <1>6 DEF PhaseOf
  <2>2. Phases' = [Phases EXCEPT ![line.inquiryId] = line.state]
    BY <1>3, <1>5, <2>1, OnePhaseMoves
  <2>3. Lifecycle!NoneOpen
    BY <1>2, NoneOpenAtMain
  <2>4. line.state \in {"RECEIVED", "QUOTED"}
    BY <1>6 DEF IsAnswerable
  <2>5. Lifecycle!Arrive(line.inquiryId)
    BY <2>2, <2>3, <2>4 DEF Lifecycle!Arrive
  <2> QED
    BY <1>3, <2>5 DEF Lifecycle!Next
<1>7. CASE ~IsAnswerable(line)
  BY <1>4, <1>5, <1>7, NoPhaseMoves
<1> QED
  BY <1>6, <1>7

\* Publish is Quote, CompleteInquiry is Complete.
LEMMA AnswerRefines ==
  ASSUME IInv, IInv', Publish \/ CompleteInquiry
  PROVE  Lifecycle!Next
<1>0. /\ inquiry \in Inquiries /\ inquiry.inquiryId \in InquiryIds
      /\ IsAnswering
  BY DEF Publish, CompleteInquiry, IInv, TypeOK, ArgumentKnown, IsAnswering
<1>1. PICK id \in InquiryIds : id = inquiry.inquiryId
  BY <1>0
<1>2. PhaseOf(id) = inquiry.state /\ Phases[id] = inquiry.state
  BY <1>0, <1>1 DEF PhaseOf, Phases
<1>3. CASE Publish
  <2>1. inquiry'.inquiryId = id /\ inquiry'.state = "QUOTED" /\ IsAnswering'
    BY <1>0, <1>1, <1>3 DEF Publish, Inquiries, IsAnswering
  <2>2. inquiries' = inquiries /\ inquiry.state = "RECEIVED"
    BY <1>3 DEF Publish
  <2>3. PhaseOf(id)' = "QUOTED"
    BY <2>1 DEF PhaseOf
  <2>4. \A k \in InquiryIds : k # id => PhaseOf(k)' = PhaseOf(k)
    BY <1>1, <2>1, <2>2 DEF PhaseOf
  <2>5. Phases' = [Phases EXCEPT ![id] = "QUOTED"]
    BY <1>1, <2>3, <2>4, OnePhaseMoves
  <2>6. Lifecycle!Quote(id)
    BY <1>2, <2>2, <2>5 DEF Lifecycle!Quote
  <2> QED
    BY <1>1, <2>6 DEF Lifecycle!Next
<1>4. CASE CompleteInquiry
  <2>1. inquiry'.inquiryId = id /\ inquiry'.state = "DONE" /\ IsAnswering'
    BY <1>0, <1>1, <1>4 DEF CompleteInquiry, Inquiries, IsAnswering
  <2>2. inquiries' = Put(inquiries, id, inquiry') /\ inquiry.state = "QUOTED"
    BY <1>4, <2>1 DEF CompleteInquiry, StoreInquiry
  <2>3. PhaseOf(id)' = "DONE"
    BY <2>1 DEF PhaseOf
  <2>4. \A k \in InquiryIds : k # id => PhaseOf(k)' = PhaseOf(k)
    BY <1>1, <2>1, <2>2 DEF PhaseOf, Put
  <2>5. Phases' = [Phases EXCEPT ![id] = "DONE"]
    BY <1>1, <2>3, <2>4, OnePhaseMoves
  <2>6. Lifecycle!Complete(id)
    BY <1>2, <2>2, <2>5 DEF Lifecycle!Complete
  <2> QED
    BY <1>1, <2>6 DEF Lifecycle!Next
<1> QED
  BY <1>3, <1>4

\* RejectInquiry is Reject.
LEMMA RejectRefines ==
  ASSUME IInv, IInv', RejectInquiry
  PROVE  Lifecycle!Next
<1>1. PICK id \in Rejectable : MarkRejected(id)
  BY DEF RejectInquiry
<1>2. id \in InquiryIds
  BY InquiryBoundsAssumption
<1>3. pc = "Main" /\ UNCHANGED <<pc, inquiry>> /\ ~IsAnswering /\ ~IsAnswering'
  BY DEF RejectInquiry, IsAnswering
<1>4. At(inquiries, id, DefaultInquiry) \in Inquiries
  BY Shapes, DefaultIsInquiry DEF At, IInv
<1>5. id \in DOMAIN inquiries' /\ inquiries'[id].state = "REJECTED"
  BY <1>1, <1>4 DEF MarkRejected, Put, Inquiries
<1>6. PhaseOf(id)' = "REJECTED"
  BY <1>3, <1>5 DEF PhaseOf
<1>7. \A k \in InquiryIds : k # id => PhaseOf(k)' = PhaseOf(k)
  BY <1>1, <1>3 DEF PhaseOf, MarkRejected, Put
<1>8. Lifecycle!Reject(id)
  BY <1>2, <1>3, <1>6, <1>7, NoneOpenAtMain, OnePhaseMoves DEF Lifecycle!Reject
<1> QED
  BY <1>2, <1>8 DEF Lifecycle!Next

\* SendQuote moves no inquiry: it tells the listeners of a record as it is.
LEMMA SendQuoteRefines ==
  ASSUME IInv, IInv', SendQuote
  PROVE  Phases' = Phases
<1>1. PICK id \in Quotable, price \in Prices : StoreQuote(id, price)
  BY DEF SendQuote
<1>2. pc = "Main" /\ pc' = "PersistInquiry"
  BY DEF SendQuote
<1>3. At(inquiries, id, DefaultInquiry) \in Inquiries
  BY Shapes, DefaultIsInquiry DEF At, IInv
<1>4. \A k \in InquiryIds : KeptPhase(k)' = KeptPhase(k)
  <2> SUFFICES ASSUME NEW k \in InquiryIds
               PROVE  KeptPhase(k)' = KeptPhase(k)
    OBVIOUS
  <2>1. CASE k = id
    <3>1. /\ id \in DOMAIN inquiries'
          /\ inquiries'[id].state = At(inquiries, id, DefaultInquiry).state
      BY <1>1, <1>3 DEF StoreQuote, Put, Inquiries
    <3> QED
      BY <2>1, <3>1 DEF KeptPhase, At, DefaultInquiry
  <2>2. CASE k # id
    BY <1>1, <2>2 DEF KeptPhase, StoreQuote, Put
  <2> QED
    BY <2>1, <2>2
<1>5. \A k \in InquiryIds : PhaseOf(k) = KeptPhase(k)
  BY <1>2, PhaseFacts
<1>6. \A k \in InquiryIds : PhaseOf(k)' = KeptPhase(k)'
  <2> SUFFICES ASSUME NEW k \in InquiryIds
               PROVE  PhaseOf(k)' = KeptPhase(k)'
    OBVIOUS
  <2>1. CASE inquiry'.inquiryId = k
    <3>1. /\ k \in DOMAIN inquiries' /\ inquiries'[k] = inquiry'
          /\ inquiry'.state \in {"DONE", "REJECTED"}
      BY <1>2, <2>1, InquiryLinesAssumption DEF IInv, ArgumentKnown
    <3> QED
      BY <2>1, <3>1 DEF PhaseOf, KeptPhase
  <2>2. CASE inquiry'.inquiryId # k
    BY <2>2 DEF PhaseOf, KeptPhase
  <2> QED
    BY <2>1, <2>2
<1> QED
  BY <1>4, <1>5, <1>6, NoPhaseMoves

\* Every step of the flow is a step of InquiryLifecycle or a stutter.
LEMMA StepRefines ==
  ASSUME IInv, IInv', [Next]_vars
  PROVE  [Lifecycle!Next]_Phases
<1>1. CASE ReceiveInquiry
  <2>1. /\ inquiries' = Put(inquiries, inquiry.inquiryId, inquiry)
        /\ inquiry' = inquiry /\ IsAnswering /\ IsAnswering'
    BY <1>1 DEF ReceiveInquiry, StoreInquiry, IsAnswering
  <2>2. \A k \in InquiryIds : PhaseOf(k)' = PhaseOf(k)
    BY <2>1 DEF PhaseOf, Put
  <2> QED
    BY <2>2, NoPhaseMoves
<1>2. CASE PersistInquiry
  <2>1. pc = "PersistInquiry" /\ pc' = "Main" /\ inquiries' = inquiries
    BY <1>2 DEF PersistInquiry
  <2>2. \A k \in InquiryIds : PhaseOf(k) = KeptPhase(k)
    BY <2>1, PhaseFacts
  <2>3. \A k \in InquiryIds : PhaseOf(k)' = KeptPhase(k)'
    BY <2>1 DEF PhaseOf, KeptPhase, IsAnswering
  <2>4. \A k \in InquiryIds : KeptPhase(k)' = KeptPhase(k)
    BY <2>1 DEF KeptPhase
  <2> QED
    BY <2>2, <2>3, <2>4, NoPhaseMoves
<1>3. CASE EndOfInquiries \/ IgnoreInquiry \/ UNCHANGED vars
  <2>1. \A k \in InquiryIds : PhaseOf(k)' = PhaseOf(k)
    BY <1>3
       DEF EndOfInquiries, IgnoreInquiry, vars, PhaseOf, IsAnswering
  <2> QED
    BY <2>1, NoPhaseMoves
<1> QED
  BY <1>1, <1>2, <1>3, ReadRefines, AnswerRefines, RejectRefines,
     SendQuoteRefines DEF Next, Answering

\* Each inquiry is received, quoted and done in this order, one inquiry at a
\* time, and rejected only between two: the safety half of ImplementsLifecycle.
THEOREM LifecycleImplemented ==
  Spec => Lifecycle!Init /\ [][Lifecycle!Next]_Phases
<1>1. Init => Lifecycle!Init
  <2> SUFFICES ASSUME Init PROVE Lifecycle!Init
    OBVIOUS
  <2>1. \A k \in InquiryIds : PhaseOf(k) = "Unknown"
    BY DEF Init, InquiryInit, EmptyMap, PhaseOf, IsAnswering
  <2> QED
    BY <2>1 DEF Lifecycle!Init, Phases
<1> QED
  BY <1>1, Invariant, StepRefines, PTL DEF Spec
-----------------------------------------------------------------------------
(***************************************************************************)
(* The end. OnMessage and the connector's Publish call each other; that    *)
(* they do so once per inquiry, and that no run answers for longer than    *)
(* its input allows, are safety properties.                                *)
(***************************************************************************)

\* The calls between the next one and the return to main.
CallsLeft ==
  CASE pc = "Main" -> 0
    [] pc = "OnMessage" -> (CASE inquiry.state = "RECEIVED" -> 4
                              [] inquiry.state = "QUOTED" -> 2
                              [] OTHER -> 1)
    [] pc = "Publish" -> 3
    [] pc = "PersistInquiry" -> 1

\* The most steps of Answering left: five for a line of inquiries.txt and one
\* for its end.
StepsLeft ==
  5 * (MaxInquiries - linesRead) + (IF stage = "Inquiries" THEN 1 ELSE 0)
    + CallsLeft

\* Answering leaves fewer steps, a rejection as many, and a quote one more:
\* the line it adds.
LEMMA StepsLeftStep ==
  ASSUME TypeOK
  PROVE  /\ StepsLeft \in Nat
         /\ Answering => StepsLeft' < StepsLeft
         /\ RejectInquiry => StepsLeft' = StepsLeft
         /\ SendQuote => StepsLeft' = StepsLeft + 1
<1>0. /\ \A b, k, c, n \in Nat : n < c => b + k + n < b + k + c
      /\ \A b, k \in Nat, n \in 0..4 : (b - 5) + k + n < b + k + 0
  OBVIOUS
<1> DEFINE mark == IF stage = "Inquiries" THEN 1 ELSE 0
<1>1. PICK calls \in Nat, m \in Nat : calls = CallsLeft /\ m = mark
  BY DEF TypeOK, CallsLeft
<1>2. PICK l \in Nat : l = MaxInquiries - linesRead
  BY InquiryBoundsAssumption DEF TypeOK
<1>3. PICK base \in Nat : base = 5 * l /\ StepsLeft = base + m + calls
  <2>1. 5 * l \in Nat /\ StepsLeft = 5 * l + m + calls
    BY <1>1, <1>2 DEF StepsLeft
  <2> QED
    BY <2>1
<1>4. calls \in Nat /\ m \in Nat /\ base \in Nat
  BY <1>1, <1>3
<1>5. ASSUME linesRead' = linesRead PROVE StepsLeft' = base + mark' + CallsLeft'
  BY <1>2, <1>3, <1>5 DEF StepsLeft
<1>6. linesRead \in Int /\ MaxInquiries \in Int
  BY InquiryBoundsAssumption DEF TypeOK
<1>7. ReadInquiry => StepsLeft' < StepsLeft
  <2> SUFFICES ASSUME ReadInquiry PROVE StepsLeft' < StepsLeft
    OBVIOUS
  <2>1. linesRead' = linesRead + 1 /\ mark' = mark /\ CallsLeft = 0
    BY DEF ReadInquiry, CallsLeft
  <2>2. PICK next \in 0..4 : next = CallsLeft'
    BY DEF ReadInquiry, CallsLeft
  <2>3. MaxInquiries - linesRead' = l - 1
    BY <1>2, <1>6, <2>1
  <2>4. 5 * (MaxInquiries - linesRead') = base - 5
    BY <1>2, <1>3, <2>3
  <2>5. StepsLeft' = (base - 5) + m + next
    BY <1>1, <2>1, <2>2, <2>4 DEF StepsLeft
  <2>6. calls = 0
    BY <1>1, <2>1
  <2>7. (base - 5) + m + next < base + m + calls
    BY <1>0, <1>4, <2>2, <2>6, Zenon
  <2> QED
    BY <1>3, <2>5, <2>7, Zenon
<1>8. EndOfInquiries => StepsLeft' < StepsLeft
  <2> SUFFICES ASSUME EndOfInquiries PROVE StepsLeft' < StepsLeft
    OBVIOUS
  <2>1. linesRead' = linesRead /\ mark' = 0 /\ m = 1
    BY <1>1 DEF EndOfInquiries
  <2>2. CallsLeft' = calls
    BY <1>1 DEF EndOfInquiries, CallsLeft
  <2>3. StepsLeft' = base + 0 + calls
    BY <1>5, <2>1, <2>2
  <2>4. base + 0 + calls < base + m + calls
    BY <1>4, <2>1
  <2> QED
    BY <1>3, <2>3, <2>4, Zenon
<1>9. (\/ ReceiveInquiry \/ Publish \/ CompleteInquiry
       \/ IgnoreInquiry \/ PersistInquiry)
        => CallsLeft' < CallsLeft /\ CallsLeft' \in Nat
  <2>1. ReceiveInquiry => CallsLeft' < CallsLeft /\ CallsLeft' \in Nat
    BY DEF ReceiveInquiry, CallsLeft
  <2>2. Publish => CallsLeft' < CallsLeft /\ CallsLeft' \in Nat
    <3> SUFFICES ASSUME Publish PROVE CallsLeft' = 2 /\ CallsLeft = 3
      OBVIOUS
    <3>1. inquiry \in Inquiries /\ inquiry' = [inquiry EXCEPT !.state = "QUOTED"]
      BY DEF Publish, TypeOK
    <3>2. inquiry'.state = "QUOTED"
      BY <3>1 DEF Inquiries
    <3> QED
      BY <3>2 DEF Publish, CallsLeft
  <2>3. CompleteInquiry => CallsLeft' < CallsLeft /\ CallsLeft' \in Nat
    BY DEF CompleteInquiry, CallsLeft
  <2>4. IgnoreInquiry => CallsLeft' < CallsLeft /\ CallsLeft' \in Nat
    BY DEF IgnoreInquiry, CallsLeft
  <2>5. PersistInquiry => CallsLeft' < CallsLeft /\ CallsLeft' \in Nat
    BY DEF PersistInquiry, CallsLeft
  <2> QED
    BY <2>1, <2>2, <2>3, <2>4, <2>5
<1>10. (\/ ReceiveInquiry \/ Publish \/ CompleteInquiry
        \/ IgnoreInquiry \/ PersistInquiry)
        => linesRead' = linesRead /\ mark' = mark
  BY DEF ReceiveInquiry, Publish, CompleteInquiry, IgnoreInquiry,
         PersistInquiry
<1>11. RejectInquiry => /\ linesRead' = linesRead /\ mark' = mark
                        /\ CallsLeft' = CallsLeft
  BY DEF RejectInquiry, CallsLeft
<1>12. SendQuote => /\ linesRead' = linesRead /\ mark' = mark
                    /\ CallsLeft' = CallsLeft + 1
  BY DEF SendQuote, CallsLeft
<1> HIDE DEF mark
<1>13. StepsLeft \in Nat
  BY <1>1, <1>2, <1>3
<1>14. Answering => StepsLeft' < StepsLeft
  <2> SUFFICES ASSUME Answering PROVE StepsLeft' < StepsLeft
    OBVIOUS
  <2>1. CASE ReadInquiry \/ EndOfInquiries
    BY <1>7, <1>8, <2>1
  <2>2. CASE linesRead' = linesRead /\ mark' = mark
             /\ CallsLeft' < CallsLeft /\ CallsLeft' \in Nat
    <3>1. PICK next \in Nat : next = CallsLeft' /\ next < calls
      BY <1>1, <2>2
    <3>2. StepsLeft' = base + m + next
      BY <1>1, <1>5, <2>2, <3>1
    <3>3. base + m + next < base + m + calls
      BY <1>0, <1>4, <3>1, Zenon
    <3> QED
      BY <1>3, <3>2, <3>3, Zenon
  <2>3. CASE \/ ReceiveInquiry \/ Publish \/ CompleteInquiry
             \/ IgnoreInquiry \/ PersistInquiry
    BY <1>9, <1>10, <2>2, <2>3, Zenon
  <2> QED
    BY <2>1, <2>3, Zenon DEF Answering
<1>15. RejectInquiry => StepsLeft' = StepsLeft
  BY <1>1, <1>3, <1>5, <1>11
<1>16. SendQuote => StepsLeft' = StepsLeft + 1
  <2> SUFFICES ASSUME SendQuote PROVE StepsLeft' = StepsLeft + 1
    OBVIOUS
  <2>1. StepsLeft' = base + m + (calls + 1)
    BY <1>1, <1>5, <1>12
  <2>2. base + m + (calls + 1) = (base + m + calls) + 1
    BY <1>4
  <2> QED
    BY <1>3, <2>1, <2>2, Zenon
<1> QED
  BY <1>13, <1>14, <1>15, <1>16

\* The service and its connector call each other once per inquiry: answering
\* always leaves less to do, a number that starts at five per line and one, and
\* that only a quote sent raises, by the line it writes.
THEOREM RunsAreBounded ==
  Spec => /\ [](StepsLeft \in Nat)
          /\ [][Answering => StepsLeft' < StepsLeft]_vars
          /\ [][RejectInquiry => StepsLeft' = StepsLeft]_vars
          /\ [][SendQuote => StepsLeft' = StepsLeft + 1]_vars
<1>1. IInv => StepsLeft \in Nat
  BY StepsLeftStep DEF IInv
<1>2. IInv /\ [Next]_vars
        => /\ [Answering => StepsLeft' < StepsLeft]_vars
           /\ [RejectInquiry => StepsLeft' = StepsLeft]_vars
           /\ [SendQuote => StepsLeft' = StepsLeft + 1]_vars
  BY StepsLeftStep DEF IInv
<1> QED
  BY <1>1, <1>2, Invariant, PTL DEF Spec
=============================================================================
