SPECIFICATION Spec
CONSTANTS
  Milliseconds <- MCMilliseconds
  Times <- MCTimes
INVARIANTS
  TypeOK
  IdsTellMillisecondsApart
  FirstLetterIsFixed
PROPERTIES
  DrawsAreProducts
CHECK_DEADLOCK FALSE
