SPECIFICATION ToolSpec
CONSTANTS
  e = e
  m = m
  c = c
  d = d
  p = p
  x = x
  pe = pe
  pm = pm
  pc = pc
  pd = pd
  pp = pp
  pn = pn
  C = C
  D = D
  ClassFile <- ClassFiles
  Script <- Scripts
  Package <- Packages
  Entry = e
  Class <- Classes
  Files <- FilesIn
  Siblings <- BesideEntry
  Path <- Paths
  Beside <- Local
  Elsewhere <- Library
  Parts <- PartsOf
  Base <- BaseOf
  Programs <- SomePrograms
  Taken <- NamesTaken
  Plain = Plain
  Missing = Missing
  b1 = b1
  b2 = b2
  one = one
  other = other
  BuiltPrograms <- OneBuilt
  Build = {b1, b2}
  ProgramOf <- TwoBuilds
  SourceCount = 2
  Content = {0, 1}
  FirstContent = 0
  None = None
  Blank = Blank
  Garbled = Garbled
  MaxBegun = 3
  MaxMeddles = 2
CHECK_DEADLOCK FALSE
INVARIANTS CycleFound WellFormed CacheHolds AloneBuilds
