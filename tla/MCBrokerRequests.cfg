CONSTANTS
  None = None
  Threads = {t1, t2}
  Pendings = {p1, p2}
  Sessions = {s1, s2}
  Clients = {c1, c2, c3}
  Slots = {d1, d2}
  MaxPending = 1
  MaxSessions = 1
  MaxDrafts = 1
  PendingTTL = 1
  SessionTTL = 2
  RefreshSkew = 0
  TokenExpiries = {0, 1}
  Requests = {"login", "callback", "view", "work", "switch", "logout", "draft"}
  MaxClock = 2
INIT Init
NEXT Next
SYMMETRY Symmetry
INVARIANTS
  TypeOK
  NobodyForgotten
  SingleUseState
  WithinBounds
  SwitchLeavesFirst
  ClientOwnership
  SingleFlightRefresh
  WorkOnOwnClient
PROPERTIES
  TeardownIsFinal
