--------------------------- MODULE MCInquiryFlow ----------------------------
(***************************************************************************)
(* Values for the constants of InquiryFlow: every state a line may have,   *)
(* identifiers sent twice, and one that only RejectInquiry and SendQuote   *)
(* are called with.                                                        *)
(***************************************************************************)
EXTENDS InquiryFlow

MCBonds  == {"2Y"}
MCCusips == MCBonds \cup {"other"}

MCInquiryIds == {"i", "j", "k"}
MCTerms      == {"buy", "sell"}
MCPrices     == {"asked", "quoted"}

Line(id, cusip, terms, state) ==
  [inquiryId |-> id, cusip |-> cusip, terms |-> terms,
   price |-> "asked", state |-> state]

MCInquiryLines ==
  {Line("i", "2Y", "buy", "RECEIVED"), Line("i", "other", "sell", "RECEIVED"),
   Line("j", "2Y", "sell", "QUOTED"), Line("j", "2Y", "sell", "DONE"),
   Line("i", "2Y", "buy", "REJECTED"),
   Line("i", "2Y", "buy", "CUSTOMER_REJECTED")}

MCRejectable == {"i", "k"}
MCQuotable   == {"j", "k"}
=============================================================================
