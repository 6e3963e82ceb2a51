SPECIFICATION Spec
CONSTANTS
  Clients = {c1}
  Names = {n1}
  MaxIds = 1
  MaxPids = 2
  MaxCrashes = 0
  Ops = {"start", "stop"}
  AutoRestart = TRUE
  HealthURL = FALSE
  ClientsCancel = FALSE
  StopMayFail = FALSE
SYMMETRY Symm
PROPERTIES
  StoppedStaysStopped
