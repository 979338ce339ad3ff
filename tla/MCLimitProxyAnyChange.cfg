CONSTANTS
  Rows <- FiveRows
  Filters <- Searches
  Initials <- SomeInitials
  Steps = {1, 2}
  Limits <- SomeLimits
SPECIFICATION Spec
PROPERTY AnyChangeStaysInStep
CHECK_DEADLOCK FALSE
