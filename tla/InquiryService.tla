--------------------------- MODULE InquiryService ---------------------------
(***************************************************************************)
(* InquiryService: the inquiries of clients, by inquiry identifier. Side   *)
(* and quantity of an inquiry never change: they are its terms.            *)
(***************************************************************************)
EXTENDS Products, StdMap, Sequences, Integers

CONSTANTS
  InquiryIds, Terms,
  Prices,
  DefaultTerms,       \* the terms of Inquiry(),
  DefaultPrice,       \*   its price, and
  NoId,               \*   its identifier, the empty string
  InquiryLines        \* the lines inquiries.txt may hold

InquiryStates == {"RECEIVED", "QUOTED", "DONE", "REJECTED",
                  "CUSTOMER_REJECTED"}

ASSUME InquiryLinesAssumption ==
  /\ InquiryLines \subseteq [inquiryId : InquiryIds, cusip : Cusips,
                             terms : Terms, price : Prices,
                             state : InquiryStates]
  /\ NoId \notin InquiryIds

VARIABLE inquiries    \* map<string, Inquiry>: identifier -> inquiry

\* class Inquiry.
Inquiries ==
  [inquiryId : InquiryIds \cup {NoId}, product : ProductIds,
   terms : Terms \cup {DefaultTerms}, price : Prices \cup {DefaultPrice},
   state : InquiryStates]

\* Inquiry(), what the map gives for an identifier it does not have.
DefaultInquiry ==
  [inquiryId |-> NoId, product |-> NoBond, terms |-> DefaultTerms,
   price |-> DefaultPrice, state |-> "RECEIVED"]

\* A line of inquiries.txt as InquiryConnector::Subscribe decodes it.
InquiryOfLine(line) ==
  [inquiryId |-> line.inquiryId, product |-> GetBond(line.cusip),
   terms |-> line.terms, price |-> line.price, state |-> line.state]

-----------------------------------------------------------------------------
InquiryTypeOK == IsMap(inquiries, InquiryIds, Inquiries)

InquiryInit == inquiries = EmptyMap

\* OnMessage, up to the call of the connector or of the listeners.
StoreInquiry(inquiry) ==
  inquiries' = Put(inquiries, inquiry.inquiryId, inquiry)

\* Mutant of MarkRejected: the rejection is made on a copy.
MarkRejectedCopy(id) ==
  inquiries' = Put(inquiries, id, At(inquiries, id, DefaultInquiry))

\* RejectInquiry(id): an identifier not received yet gets a record.
MarkRejected(id) ==
  inquiries' = Put(inquiries, id,
    [At(inquiries, id, DefaultInquiry) EXCEPT !.state = "REJECTED"])

\* SendQuote(id, price), up to the call of the listeners: whatever the state
\* of the inquiry, and of an identifier not received yet.
StoreQuote(id, price) ==
  inquiries' = Put(inquiries, id,
    [At(inquiries, id, DefaultInquiry) EXCEPT !.price = price])
=============================================================================
