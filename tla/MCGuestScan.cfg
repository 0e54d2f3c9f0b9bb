SPECIFICATION Spec
CONSTANTS
  Domains <- MCDomains
  Nobody = Nobody
  MaxThreads = 2
  Setups <- MCSetups
INVARIANTS
  ExitStatusIsOfTheWorst
  SuccessIsComplete
PROPERTY ScanEnds
CHECK_DEADLOCK FALSE
