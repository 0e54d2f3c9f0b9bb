\* Disks of up to 17 sectors, one or two partitions, which fill the table.
CONSTANTS
  SectSize = 2
  Sector512 = 2
  Alignment = 2
  GptSects = 2
  BootSector = 1
  TableBytes = 2
  LoaderStart = 2
  BackupSects = 1
  MaxBootLoader = 4
  EnoughAligned = 4
  MinExtra = 4
  MaxPrimary = 2
  Attempts = 1
  Sources <- MCSources
  InSizes <- MCInSizes
  OutSizes <- MCOutSizes
  NewSizes <- MCNewSizes
SPECIFICATION Spec
INVARIANTS PartitionsFit ContentPreserved TableIntact  AdjustedExactly
CHECK_DEADLOCK FALSE
