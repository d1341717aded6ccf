CONSTANTS
  Artifacts = {"openapi.json", "client.ts"}
  OpenAPI = "openapi.json"
  Extra = "other"
  Contents <- Repositories
  Blank = ""
  Irregular = "link"
  OperationsOf <- TwoVersions
  Commits = {"p1", "p2"}
  Gates = {"contract", "vet", "codeql"}
  Dimensions = {"fidelity", "safety"}
  MaxEdits = 2
SPECIFICATION Spec
INVARIANTS
  GatesSucceeded
  ArtifactsPinned
  OperationsScored
CHECK_DEADLOCK FALSE
