SPECIFICATION ScopesSpec
CONSTANTS
  Main = Main
  None = None
  a1 = a1
  a2 = a2
  b1 = b1
  s1 = s1
  s2 = s2
  Cancels <- Nobody
  Raises <- AllRaise
  Task <- TwoTasks
  Awaits <- FlatAwaits
  Scope <- TwoScopes
  Scoped <- MainAlone
  Returns <- MainAlone
  MaxTime = 1
INVARIANTS ChainLive BodyRaiseCancels
PROPERTIES ScopeJoins ScopeReraises
