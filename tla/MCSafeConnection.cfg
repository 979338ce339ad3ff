CONSTANTS
  MaxInvocations = 3
SPECIFICATION FairSpec
INVARIANT TypeOK
INVARIANT CountIsExact
INVARIANT ClosureKeepsPairAlive
PROPERTY NoClosureDropped
PROPERTY ImplementsLease
PROPERTY ReleasedIsDeleted
CHECK_DEADLOCK FALSE
