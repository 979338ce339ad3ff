CONSTANTS
  Rows <- FiveRows
  Filters <- Searches
  Initials <- SomeInitials
  Steps = {1, 2}
  Limits <- SomeLimits
SPECIFICATION Spec
INVARIANT TypeOK
INVARIANT CeilingHolds
PROPERTY StaysInStep
PROPERTY ArrivalsPushNothingOff
PROPERTY PagingShowsMore
CHECK_DEADLOCK FALSE
