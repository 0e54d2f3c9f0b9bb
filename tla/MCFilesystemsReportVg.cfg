SPECIFICATION ReportSpec
CONSTANTS
  Guests <- MCGuests
  CommandLines <- MCCommandLines
INVARIANT VgParentsAreItsPvs
CHECK_DEADLOCK FALSE
