SPECIFICATION Spec
CONSTANTS
  MaxPath = 3
  Walks <- MCWalks
  GuestPairs <- MCGuestPairs
  OptionSets <- MCOptionSets
INVARIANTS
  ReportIsTheDifference
  NothingIsMissed
  DiffFollowsItsLine
CHECK_DEADLOCK FALSE
