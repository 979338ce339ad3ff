SPECIFICATION FairSpec
CONSTANTS
  Lists = {l1, l2}
  Contents = {"none", "ann"}
  Empty = "none"
  Hashed <- NamesOnly
  Batches = {1, 2}
  MaxWork = 1
  MaxAgents = 2
  Nothing = Nothing
INVARIANT TypeOK
INVARIANT SpinnersAreWatched
INVARIANT FetchingIsTrue
INVARIANT SettledListIsCurrent
PROPERTY EmptyStateDoesNotFlash
PROPERTY SpinnersStop
