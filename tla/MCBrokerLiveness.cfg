CONSTANTS
  None = None
  Threads = {t1, t2}
  Pendings = {p1, p2}
  Sessions = {s1, s2}
  Clients = {c1, c2}
  Slots = {d1}
  MaxPending = 1
  MaxSessions = 1
  MaxDrafts = 1
  PendingTTL = 1
  SessionTTL = 1
  RefreshSkew = 0
  TokenExpiries = {1}
  Requests = {"login", "callback", "work", "logout"}
  MaxClock = 1
SPECIFICATION Spec
PROPERTIES
  RequestsFinish
  ImplementsLifecycle
