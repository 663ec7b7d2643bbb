SPECIFICATION Spec
CONSTANTS
  Bonds <- MCBonds
  Cusips <- MCCusips
  Quotes <- MCQuotes
  MaxPrices = 4
  Starts <- MCStarts
  Delays <- MCDelays
  Throttle = 3
  Second = 10
  Null = Null
PROPERTIES
  GuiNotifiedEachInterval
CHECK_DEADLOCK FALSE
