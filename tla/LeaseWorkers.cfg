SPECIFICATION WorkersSpec
CONSTANTS
  s1 = s1  s2 = s2  p1 = p1  p2 = p2  p3 = p3  c1 = c1  c2 = c2  None = None
  Modes = {"view-only", "approval", "available"}
  Sessions = {s1, s2}
  Streams = {p1, p2, p3}
  Sources = {c1, c2}
  SessionOf <- ThreeStreams
  SourceOf <- TwoWorkers
  MaxWaiting = 0
  Failing = {p1}
CONSTRAINT Within
INVARIANTS AtMostOnePermitted
PROPERTIES HandOver HostGrantStays
CHECK_DEADLOCK FALSE
