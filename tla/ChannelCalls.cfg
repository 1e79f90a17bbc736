SPECIFICATION ChanSpec
CONSTANTS
  Main = Main
  None = None
  a1 = a1
  a2 = a2
  b1 = b1
  c1 = c1
  c2 = c2
  Cancels <- Nobody
  Raises <- Nobody
  Awaits <- NoAwaits
  Task <- OneTask
  Chan <- TwoChans
  Capacity <- CapOne
  Uses <- AllUse
  MaxTime = 1
  MaxSend = 2
INVARIANTS ChanOnePlace Accounted
