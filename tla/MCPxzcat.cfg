\* Two threads; every content, every old output file of at most one
\* position, every set of blocks with damaged data.
CONSTANTS
  NrThreads = 2
  NrBlocks = 3
  Total = 4
  Offset <- MCOffset
  Size <- MCSize
  BufferSize = 2
  Byte <- MCByte
  Zero = 0
  MaxOld = 1
  Faults = {"none", "data"}
SPECIFICATION FairSpec
INVARIANTS SuccessIsExact BlocksNotShared NoWorkerOutlivesCall
PROPERTIES FailureIsReported ImplementsXzOutput Terminates
CHECK_DEADLOCK FALSE
