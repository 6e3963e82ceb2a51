SPECIFICATION Spec
CONSTANTS
  Clients = {c1, c2}
  Names = {n1}
  MaxIds = 1
  MaxPids = 2
  MaxCrashes = 1
  Ops = {"start", "stop", "remove", "disable", "enable", "wait", "health", "update"}
  AutoRestart = FALSE
  HealthURL = FALSE
  ClientsCancel = TRUE
  StopMayFail = FALSE
SYMMETRY Symm
INVARIANTS
  OneInstancePerId
