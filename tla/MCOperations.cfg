CONSTANTS
  None = None
  Entities = {"orders"}
  Users = {"admin", "bob"}
  Roles = {"root", "clerk"}
  SystemRoles = {"root"}
  Details = {"d1", "d2"}
  Keys = {k1, k2}
  SeedEntity = "orders"
  SeedUser = "admin"
  Tabs = {t1, t2}
  Sessions = {s1, s2}
  Forms <- OperationForms
  MaxDrafts = 2
SPECIFICATION Spec
VIEW Read
SYMMETRY Symmetry
INVARIANTS
  TypeOK
  DoneMeansStored
  RefusedMeansUntouched
  FormsApplyOnce
  ConflictShowsCurrent
  AuditTellsVersions
PROPERTIES
  FailuresKeepTheKey
CHECK_DEADLOCK FALSE
