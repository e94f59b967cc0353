SPECIFICATION Spec
CONSTANTS
  r1 = r1  r2 = r2  r3 = r3  p1 = p1  p2 = p2  None = None
  Procs = {r1, r2, r3}
  Streams = {p1}
  Limit = 3
  MaxChanges = 2
INVARIANT OneRelay
CHECK_DEADLOCK FALSE
