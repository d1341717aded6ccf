CONSTANTS
  None = None
  Tabs = {t1, t2}
  Sessions = {s1, s2}
  Pendings = {p1, p2}
  MaxSessions = 2
SPECIFICATION Spec
INVARIANTS
  TypeOK
  FormsActWhereShown
  SessionFromOwnChoice
PROPERTIES
  DeadCookiesHeal
