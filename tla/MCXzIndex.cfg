CONSTANTS
  MaxStreams = 2
  MaxBlocks = 1
  MaxIndex = 2
  MaxPadding = 2
SPECIFICATION FairParseSpec
INVARIANTS ReturnedIndexIsExact SingleStreamIsParsed
PROPERTY ParsingEnds
CHECK_DEADLOCK FALSE
