SPECIFICATION Spec
CONSTANTS
  d1 = d1  d2 = d2  q1 = q1  q2 = q2  q3 = q3  t1 = t1  t2 = t2  t3 = t3  a1 = a1  a2 = a2  m1 = m1  m2 = m2  None = None
  Clients = {d1, d2}
  Stored = {d1}
  Requests = {q1}
  Tickets = {t1}
  SignIns = {a1, a2}
  Commands = {m1, m2}
  Permissions = {"default", "view-only"}
  MaxPending = 2
  MaxSessions = 2
  MaxRestarts = 0
INVARIANT RejectedGetNoSecret
CHECK_DEADLOCK FALSE
