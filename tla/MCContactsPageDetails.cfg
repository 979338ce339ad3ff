SPECIFICATION Spec
CONSTANTS
  Lists = {l1}
  Contents = {"none", "ann", "ann moved"}
  Empty = "none"
  Hashed <- NamesOnly
  Batches = {1}
  MaxWork = 1
  MaxAgents = 2
  Nothing = Nothing
INVARIANT AnyChangeIsShown
