\* Two instances, two revisions.
CONSTANTS
  Instance = {1, 2}
  MaxRevision = 2
  Junk = Junk
  Partial = Partial
  Absent = Absent
  Setups <- MCSetups
SPECIFICATION FairSpec
INVARIANTS NoPartialInCache UsedWasVerified
PROPERTIES EndsCleanly NotKilledSucceeds
CHECK_DEADLOCK FALSE
