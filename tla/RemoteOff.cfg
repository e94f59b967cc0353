SPECIFICATION AccessSpec
CONSTANTS
  r1 = r1  r2 = r2  c1 = c1  c2 = c2  t1 = t1  t2 = t2  None = None
  Requests = {r1, r2}
  Callers = {c1, c2}
  Network <- Networks
  Tokens = {t1, t2}
  MaxConnected = 1
  TlsOff = FALSE
INVARIANTS NoInternetSessionWhenOff
CHECK_DEADLOCK FALSE
