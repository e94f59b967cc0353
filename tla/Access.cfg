SPECIFICATION AllSpec
CONSTANTS
  Attempts = {a1, a2}
  Peers = {q1, q2}
  KeyLimit = 2
  PeerLimit = 1
  MaxPeers = 1
  MaxKeys = 2
  e1 = e1  e2 = e2  srv = srv  t1 = t1  d1 = d1  d2 = d2  Free = Free  Stranded = Stranded  NoPeer = NoPeer  NoSession = NoSession
  Edits = {e1, e2}
  Server = srv
  Tools = {t1}
  Devices = {d1}
  MaxOpens = 2
  o1 = o1  o2 = o2  Automatic = Automatic  Unset = Unset
  phone = phone  desktop = desktop
  Ids = {phone, desktop}
  PhoneId = phone
  DesktopId = desktop
  MaxProfiles = 2
  Shapes <- Sizes
  Displays = {d1, d2}
  Primary = d1
  Persistent = {d1, d2}
  Screen <- Screens
  Options = {o1, o2}
  r1 = r1  r2 = r2  c1 = c1  c2 = c2  t2 = t2  None = None
  Requests = {r1, r2}
  Callers = {c1, c2}
  Network <- Networks
  Tokens = {t1, t2}
  MaxConnected = 1
  TlsOff = FALSE
  Parts = 3
  Width = 2
  Mask = 2
  Unread = Unread  NotFinite = NotFinite
  Contrast = 48
  Contrasts <- Levels
  Lumas = {0, 90, 255}
  MaxMs = 120
  MaxTimings = 2
  Timings <- Timed
  FirstTimes <- Clocks
  LastTime <- AfterWrap
  Skews <- Apart
  MaxOffset = 24
  Trips = {0, 3}
  Pointers <- Crossing
CONSTRAINT OneReplaced
INVARIANTS BudgetKeeps AppliedGovernsAll AutoAlwaysResolves SizeKeepsShape AnswersOnlyLive CodesHold
PROPERTIES NoLostEdit
CHECK_DEADLOCK FALSE
