SPECIFICATION Spec
CONSTANTS
  Main = Main
  None = None
  a1 = a1
  a2 = a2
  b1 = b1
  Cancels <- AllCancel
  Raises <- AllRaise
  Task <- ThreeTasks
  Awaits <- ChainAwaits
  MaxTime = 0
PROPERTY AwaitReturnsDone
