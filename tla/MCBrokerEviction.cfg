CONSTANTS
  None = None
  Threads = {t1, t2}
  Pendings = {p1, p2, p3}
  Sessions = {s1, s2, s3}
  Clients = {c1, c2, c3}
  Slots = {d1}
  MaxPending = 2
  MaxSessions = 2
  MaxDrafts = 1
  PendingTTL = 1
  SessionTTL = 2
  RefreshSkew = 0
  TokenExpiries = {0}
  Requests = {"login", "callback"}
  MaxClock = 3
INIT Init
NEXT Next
SYMMETRY Symmetry
PROPERTIES
  EvictionSparesLive
