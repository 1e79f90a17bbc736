SPECIFICATION FairSpec
CONSTANTS
  Main = Main
  None = None
  a1 = a1
  a2 = a2
  b1 = b1
  Cancels <- AllCancel
  Raises <- AllRaise
  Task <- ThreeTasks
  Awaits <- FlatAwaits
  MaxTime = 1
INVARIANTS OnePlace AwaitersLinked
PROPERTIES AwaitReturnsDone MainAwaitReturnsDone TasksGoOn
