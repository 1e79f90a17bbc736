SPECIFICATION Spec
CONSTANTS
  MaxLoop = 3
  Programs <- SmallPrograms
  Drafts <- SmallDrafts
  Declarations <- SmallDeclarations
  Outlines <- SmallOutlines
  Alphabet <- MemberAlphabet
  Capitals <- MemberCapitals
  Edited <- EditPrograms
  NewNames = {"n", "y"}
  LongNames = {"long1", "long2", "long3"}
INVARIANTS
  MethodsResolve
  CallsAnswered
  Agree
  AcceptedSound
  ChainWhole
  FormatReads
  FormatKeeps
  FormatResolves
  RenameKeeps
  FixKeeps
CHECK_DEADLOCK FALSE
