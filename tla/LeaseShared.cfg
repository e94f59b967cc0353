SPECIFICATION WatchingSpec
CONSTANTS
  s1 = s1  s2 = s2  p1 = p1  p2 = p2  c1 = c1  c2 = c2  None = None
  Modes = {"view-only", "available"}
  Sessions = {s1, s2}
  Streams = {p1, p2}
  Sources = {c1}
  SessionOf <- TwoViewers
  SourceOf <- SharedSource
  MaxWaiting = 1
  Failing = {}
SYMMETRY Swap
CONSTRAINT ShortPipes
INVARIANTS TypeOK PermittedIsAccounted RevokedCannotHold
PROPERTIES RequestNeverTakes
CHECK_DEADLOCK FALSE
