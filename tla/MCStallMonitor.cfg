SPECIFICATION Spec
CONSTANTS
  Threshold = 1
  Recapture = 1
  CaptureInterval = 3
  MaxCaptures = 2
  SymboliseInterval = 5
  DumpThreshold = 1
  DumpInterval = 2
  MaxDumps = 2
  PrewarmDelay = 5
  StoresInOrder = TRUE
  Horizon = 6
INVARIANT TypeOK
INVARIANT CapturesDoNotFlood
INVARIANT LongHoldIsTheLast
INVARIANT StartIsNotAStall
INVARIANT DumpsAreFew
PROPERTY StallsEnd
PROPERTY WatchdogIsJoined
CHECK_DEADLOCK FALSE
