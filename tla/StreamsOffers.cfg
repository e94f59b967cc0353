SPECIFICATION PartsSpec
CONSTANTS
  s1 = s1  s2 = s2  p1 = p1  p2 = p2  c1 = c1  c2 = c2  k1 = k1  k2 = k2  None = None
  Sessions = {s1}
  Streams = {p1, p2}
  Sources = {c1}
  Keys = {k1}
  Changing = {}
  SessionOf <- OneDevice
  KeyOf <- OnePlan
  MaxSources = 1
  PerSession = 2
  Watched = {p1}
  NoStream = NoStream  NoMeasure = NoMeasure
  MaxMade = 2
  MaxLost = 1
  Kept = 1
INVARIANT ResultsAreOwn
PROPERTIES WaitsEnd
CHECK_DEADLOCK FALSE
