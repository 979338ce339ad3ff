SPECIFICATION Spec
CONSTANTS
  Calls = {c1, c2}
  NoCore = NoCore
  MaxWork = 2
INVARIANT TypeOK
INVARIANT CurrentIsListed
INVARIANT CallsListedOnce
INVARIANT QuietListIsTrue
INVARIANT QuietCurrentRuns
PROPERTY DialsArePlaced
PROPERTY HeldCallIsResumed
CHECK_DEADLOCK FALSE
