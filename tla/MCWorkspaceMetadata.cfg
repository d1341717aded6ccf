CONSTANTS
  None = None
  Entities = {"orders"}
  Users = {"admin"}
  Roles = {"admin"}
  SystemRoles = {"admin"}
  Details = {"d1", "d2"}
  Keys = {k1, k2, k3}
  SeedEntity = "orders"
  SeedUser = "admin"
  Tabs = {t1, t2}
  Sessions = {s1, s2}
  References = {r1}
  Forms <- MetadataForms
  MaxDrafts = 3
INIT Init
NEXT Next
SYMMETRY Symmetry
INVARIANTS
  TypeOK
  ChangesFollowReview
  PagesTellTruth
CHECK_DEADLOCK FALSE
