SPECIFICATION Spec
CONSTANTS
  CardsOf <- TheCards
  Order <- TheOrder
  Addresses <- TheAddresses
  Matching <- TheMatching
  NoText = NoText
  NoCard = NoCard
  NoHash = NoHash
  MaxWork = 2
INVARIANT SearchesRebuild
CHECK_DEADLOCK FALSE
