SPECIFICATION Spec
CONSTANTS
  Lists = {l1, l2}
  Contents = {"none", "ann"}
  Empty = "none"
  Hashed <- NamesOnly
  Batches = {1, 2}
  MaxWork = 1
  MaxAgents = 2
  Nothing = Nothing
PROPERTY LateEndsAreIgnored
