SPECIFICATION LimitsSpec
CONSTANTS
  s1 = s1  s2 = s2  p1 = p1  p2 = p2  c1 = c1  c2 = c2  k1 = k1  k2 = k2  None = None
  Sessions = {s1}
  Streams = {p1, p2}
  Sources = {c1, c2}
  Keys = {k1}
  Changing = {}
  SessionOf <- OneDevice
  KeyOf <- OnePlan
  MaxSources = 2
  PerSession = 2
  v1 = v1  v2 = v2
  Viewers = {v1, v2}
  Leaving = {v1}
  KeyCodes = {k1}
  NoViewer = NoViewer
  MaxTyped = 1
  MaxSent = 1
  MaxLines = 1
  f1 = f1  f2 = f2
  Caps = {f1, f2}
  NoCaps = NoCaps
  QueueBudget = 3
  KeySize = 2
  PipeSize = 1
  Second = 10
  Rate = 3
  Drift = 8
  Chunks = {1, 2, 3}
  Horizon = 20
SYMMETRY AnySource
INVARIANTS SourcesAreBounded HostBudgetHolds RelayFollowsStreams BrokerKeeps FramesDecode NeverWanders
CHECK_DEADLOCK FALSE
