SPECIFICATION RelayedSpec
CONSTANTS
  s1 = s1  s2 = s2  p1 = p1  p2 = p2  c1 = c1  c2 = c2  k1 = k1  k2 = k2  None = None
  Sessions = {s1}
  Streams = {p1}
  Sources = {c1}
  Keys = {k1}
  Changing = {k1}
  SessionOf <- OneViewer
  KeyOf <- SomePlan
  MaxSources = 1
  PerSession = 1
  o1 = o1  o2 = o2  r1 = r1  r2 = r2  g1 = g1  g2 = g2
  Origins = {o1, o2}
  Regs = {r1, r2}
  NoReg = NoReg
  GroupOf <- Group
  HintOf <- Hint
  MaxRegs = 2
  MaxPins = 1
  HintLane = 1
  PerSource = 1
  Total = 1
  Expires = 1
  PinIdle = 2
  MaxRoams = 3
  v1 = v1
  Viewers = {v1}
  Leaving = {v1}
  KeyCodes = {k1}
  NoViewer = NoViewer
  MaxTyped = 1
  MaxSent = 2
  MaxLines = 2
  q1 = q1  q2 = q2  q3 = q3
  Commands = {q1}
  Regenerations = {q2}
  Edits = {q3}
  MaxLaunches = 2
  MaxAsked = 2
INVARIANTS RelayFollowsStreams
PROPERTIES RequestsSettle UsedIsPinned RelayRoutes
CHECK_DEADLOCK FALSE
