SPECIFICATION FairWatchingSpec
CONSTANTS
  s1 = s1  s2 = s2  p1 = p1  p2 = p2  c1 = c1  c2 = c2  None = None
  Modes = {"available"}
  Sessions = {s1}
  Streams = {p1, p2}
  Sources = {c1}
  SessionOf <- OneMover
  SourceOf <- SharedSource
  MaxWaiting = 0
  Failing = {p1}
PROPERTIES ClosingEnds DeadOwnerDropped
CHECK_DEADLOCK FALSE
