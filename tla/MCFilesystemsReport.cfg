SPECIFICATION ReportSpec
CONSTANTS
  Guests <- MCGuests
  CommandLines <- MCCommandLines
INVARIANTS
  ReportIsComplete
  CsvReadsBack
CHECK_DEADLOCK FALSE
