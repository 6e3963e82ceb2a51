SPECIFICATION FairSpec
CONSTANTS
  Ids = {i1}
  Procs = {p1, p2}
  Pids = {k1}
  Callers = {c1, c2}
  Stuck = {p2}
  AssignResults = {"none"}
  NoProc = NoProc
  NoPid = NoPid
PROPERTIES
  StopEnds
