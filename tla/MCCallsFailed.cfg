SPECIFICATION Spec
CONSTANTS
  Calls = {c1, c2}
  NoCore = NoCore
  MaxWork = 2
PROPERTY FailedCallsAreNotPlaced
CHECK_DEADLOCK FALSE
