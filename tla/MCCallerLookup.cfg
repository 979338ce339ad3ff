CONSTANTS
  Friends <- SomeFriends
  Lists = {l1}
  Addresses = {"07@ip", "07@dom"}
  Numbers = {"07", "+447"}
  Cards <- SomeCards
  Accounts <- TwoAccounts
  Plans = {"uk", "none"}
  Domains = {"dom", "away"}
  Number <- SomeNumber
  Normal <- SomeNormal
  Rebased <- SomeRebased
  Nothing = Nothing
SPECIFICATION Spec
INVARIANT TypeOK
INVARIANT LocalMissesAreRight
INVARIANT IndexAnswersAsScan
INVARIANT KnownAreCurrent
INVARIANT KnownAnswer
CHECK_DEADLOCK FALSE
