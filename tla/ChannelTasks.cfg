SPECIFICATION ChanFairSpec
CONSTANTS
  Main = Main
  None = None
  a1 = a1
  a2 = a2
  b1 = b1
  c1 = c1
  c2 = c2
  Cancels <- Nobody
  Raises <- Nobody
  Awaits <- NoAwaits
  Task <- ThreeTasks
  Chan <- OneChan
  Capacity <- CapOne
  Uses <- TasksUse
  MaxTime = 0
  MaxSend = 3
INVARIANTS NobodyStranded
PROPERTIES ReceiveNilMeansClosed QueueSpec CloseWakes
