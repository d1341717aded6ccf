CONSTANTS
  None = None
  Threads = {t1, t2}
  Pendings = {p1}
  Sessions = {s1}
  Clients = {c1, c2}
  Slots = {d1}
  MaxPending = 1
  MaxSessions = 1
  MaxDrafts = 1
  PendingTTL = 1
  SessionTTL = 2
  RefreshSkew = 0
  TokenExpiries = {0}
  Requests = {"login", "callback", "view", "logout"}
  MaxClock = 3
SPECIFICATION Spec
PROPERTIES
  ExpiryDestroysState
