SPECIFICATION GateSpec
CONSTANTS
  MaxTime = 8
  Keys = {k1, k2}
  Window = 2
  MaxAttempts = 2
  Block = 3
  MaxKeys = 1
  Second = 2
  Browsers = {w1, w2}
  MaxStates = 2
  StateLife = 2
  MaxLogins = 3
  Units = 2
  MaxAge = 1
  Stamps <- MCStamps
  Numbers = {q1}
  Tabs = {t1, t2}
  FormLife = 2
  MaxTokens = 4
  LogWindow = 2
  MaxEvents = 2
  MaxWall = 4
  MaxRaised = 4
  Bridges = {b1, b2}
  Others = {o1}
INVARIANT WindowRespected
INVARIANT DenialsHold
INVARIANT StateServesItsLoginOnce
INVARIANT SignedInIsServed
INVARIANT AssertionOnce
PROPERTY TabsShareTheLogin
PROPERTY DiagnosticsAccounted
INVARIANT OthersStayWrapped
CHECK_DEADLOCK FALSE
