CONSTANTS
  None = None
  Entities = {"orders", "drafts"}
  Users = {"admin"}
  Roles = {"admin"}
  SystemRoles = {"admin"}
  Details = {"d1", "d2"}
  Keys = {"k1", "k2", "k3"}
  SeedEntity = "orders"
  SeedUser = "admin"
  Callers = {c1, c2}
  Processes = {p1, p2}
  Requests <- EditRequests
  PageLimit = 2
SPECIFICATION Spec
INVARIANTS
  TypeOK
  AppliedOnce
  TruthfulAnswers
  NoLostUpdate
PROPERTIES
  ResultsAreDurable
  RequestsFinish
  ImplementsAtomicProvider
