SPECIFICATION PkgSpec
CONSTANTS
  a = a
  b = b
  p = p
  ua = ua
  ub = ub
  a1 = a1
  a2 = a2
  b1 = b1
  b2 = b2
  here = here
  Nothing = Nothing
  NoRef = NoRef
  Branch = Branch
  Name <- Names
  Url <- Urls
  History <- Commits2
  Pack <- Packs
  Dir <- Dirs
  Local <- Locals
  Addable <- Adds
  DevNames <- Tests
  MaxCommands = 3
INVARIANTS LockClosed ImportIsLocked InstallSatisfies
PROPERTIES InstallKeepsLock CommandsEnd
CHECK_DEADLOCK FALSE
