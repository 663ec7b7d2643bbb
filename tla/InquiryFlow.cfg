SPECIFICATION Spec
CONSTANTS
  Bonds <- MCBonds
  Cusips <- MCCusips
  InquiryIds <- MCInquiryIds
  Terms <- MCTerms
  Prices <- MCPrices
  DefaultTerms = DefaultTerms
  DefaultPrice = DefaultPrice
  NoId = NoId
  InquiryLines <- MCInquiryLines
  Rejectable <- MCRejectable
  Quotable <- MCQuotable
  MaxInquiries = 4
  MaxDue = 3
  Null = Null
INVARIANTS
  TypeOK
  AnsweredInOrder
  StoredAreAnswered
PROPERTIES
  ImplementsLifecycle
CHECK_DEADLOCK FALSE
