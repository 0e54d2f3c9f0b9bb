SPECIFICATION FormatSpec
CONSTANTS
  MaxDisks = 2
  CommandLines <- MCCommandLines
INVARIANTS
  SuccessIsAsRequested
  BuiltOnFreshView
CHECK_DEADLOCK FALSE
PROPERTY FormatEnds
