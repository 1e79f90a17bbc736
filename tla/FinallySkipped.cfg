SPECIFICATION Spec
CONSTANTS
  MaxLoop = 3
  Programs <- FinallyPrograms
  Drafts = {}
  Declarations = {}
  Outlines = {}
  Alphabet <- MemberAlphabet
  Capitals <- MemberCapitals
  Edited <- EditPrograms
  NewNames = {"n", "y"}
  LongNames = {}
INVARIANT FinallyAlwaysRuns
CHECK_DEADLOCK FALSE
