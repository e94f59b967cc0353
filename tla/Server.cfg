SPECIFICATION ServerSpec
CONSTANTS
  r1 = r1  r2 = r2  r3 = r3  p1 = p1  p2 = p2  None = None
  Procs = {r1, r2, r3}
  Streams = {p1}
  Limit = 2
  MaxChanges = 2
  n1 = n1  a1 = a1  a2 = a2
  Nets = {n1}
  Loop = Loop
  Answers = {a1, a2}
  MaxTicks = 1
  Nobody = Nobody
  x1 = x1  x2 = x2  x3 = x3  x4 = x4  x5 = x5  x6 = x6
  Certs = {x1, x2, x3, x4, x5, x6}
  Old = {x1, x2}
  NoCert = NoCert
  Asks = {a1}
  MaxBreaks = 3
  d1 = d1  d2 = d2
  Ops = {p1, p2}
  First = p1
  Displays = {d1, d2}
  NoRow = None
  NoDisplay = None
  MaxRows = 1
  MaxLapses = 1
  MaxLosses = 1
  Submits = {a1, a2}
  NoSubmit = None
  MaxMissed = 1
INVARIANTS RelayServes ListensWhereAllowed ReportIsServed EndedIsOver SessionsAreHeld
PROPERTIES ServerSettles RegeneratedIsNew
CHECK_DEADLOCK FALSE
