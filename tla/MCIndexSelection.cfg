\* Every index of at most three entries.
CONSTANTS
  Name = {n1, n2}
  Alias = {a1}
  Arch <- MCArch
  Normal <- MCNormal
  Rev <- MCRev
  MaxLength = 3
SPECIFICATION SelectionSpec
INVARIANTS EachTemplateOnce EarlierSourceWins OfferedIsFound
CHECK_DEADLOCK FALSE
