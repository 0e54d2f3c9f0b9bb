SPECIFICATION FairSpec
CONSTANTS
  MaxSize = 2
  MaxGeneration = 2
  TailSize = 1
  Setups <- MCSetups
INVARIANTS
  EndIsShown
  LoopHandleIsOpen
  OutputIsUnderItsBanner
  AppendsShownOnce
PROPERTY TailEnds
CHECK_DEADLOCK FALSE
