\* Words of 16 values; the checksum field is the second word.
CONSTANTS
  OctetBase = 4
  SumSpace = 256
  Lengths = {4, 5, 6, 7}
  FieldAt = 3
SPECIFICATION Spec
INVARIANTS MatchesReference VerdictRight FoldsAtMostTwice
