SPECIFICATION Spec
CONSTANTS
  Contents <- MCContents
  ChunkSize = 1000
  PipeSize = 1
  CommandLines <- MCCommandLines
INVARIANTS
  OutputIsCompleteOrGone
  SizedFromTheWholeInput
PROPERTY BothEnd
CHECK_DEADLOCK FALSE
