CONSTANTS
  None = None
  Entities = {"orders"}
  Users = {"admin"}
  Roles = {"admin"}
  SystemRoles = {"admin"}
  Details = {"d1", "d2"}
  Keys = {"k1", "k2"}
  SeedEntity = "orders"
  SeedUser = "admin"
  Callers = {c1, c2}
  Processes = {p1}
  Requests <- AuditRequests
  PageLimit = 2
SPECIFICATION Spec
INVARIANTS
  PagesBounded
