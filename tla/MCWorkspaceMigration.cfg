CONSTANTS
  None = None
  Entities = {"orders"}
  Users = {"admin"}
  Roles = {"admin"}
  SystemRoles = {"admin"}
  Details = {"d1", "d2"}
  Keys = {k1, k2, k3}
  SeedEntity = "orders"
  SeedUser = "admin"
  Tabs = {t1, t2}
  Sessions = {s1}
  References = {r1}
  Forms <- MigrationForms
  MaxDrafts = 3
SPECIFICATION Spec
INVARIANTS
  StableApplyKey
CHECK_DEADLOCK FALSE
