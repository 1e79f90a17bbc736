SPECIFICATION TaskSpec
CONSTANTS
  a = a
  b = b
  c = c
  x = x
  Task <- ThreeTasks
  Undefined <- OneUnknown
  Selected = a
  Graphs <- SomeGraphs
  Commands <- OneOrTwo
  Parallel <- OnlyC
  MaxEdits = 2
  Unknown = Unknown
CHECK_DEADLOCK FALSE
INVARIANTS GraphVerdict DepsFirst ExitTellsAll
PROPERTIES EditsRun
