SPECIFICATION Spec
CONSTANTS
  Clients = {c1, c2}
  Names = {n1}
  MaxIds = 3
  MaxPids = 3
  MaxCrashes = 0
  Ops = {"start", "run", "stop", "restart", "remove"}
  AutoRestart = FALSE
  HealthURL = FALSE
  ClientsCancel = FALSE
  StopMayFail = FALSE
SYMMETRY Symm
INVARIANTS
  NoOrphan
  OneLivePerName
  RowsSound
