SPECIFICATION Spec
CONSTANTS
  Clients = {c1}
  Names = {n1}
  MaxIds = 1
  MaxPids = 3
  MaxCrashes = 0
  Ops = {"start", "remove", "watch"}
  AutoRestart = TRUE
  HealthURL = TRUE
  ClientsCancel = FALSE
  StopMayFail = FALSE
SYMMETRY Symm
PROPERTIES
  DriverContract
