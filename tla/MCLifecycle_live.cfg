SPECIFICATION FairSpec
CONSTANTS
  Clients = {c1, c2}
  Names = {n1}
  MaxIds = 1
  MaxPids = 2
  MaxCrashes = 1
  Ops = {"start", "stop", "disable", "wait"}
  AutoRestart = FALSE
  HealthURL = FALSE
  ClientsCancel = TRUE
  StopMayFail = TRUE
PROPERTIES
  DaemonAnswers
