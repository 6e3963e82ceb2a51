SPECIFICATION Spec
CONSTANTS
  Ids = {i1}
  Procs = {p1, p2}
  Pids = {k1, k2}
  Callers = {c1, c2}
  Stuck = {}
  AssignResults = {"none", "job", "error"}
  NoProc = NoProc
  NoPid = NoPid
SYMMETRY Symm
INVARIANTS
  TypeOK
  NoLostChild
  StopMeansDead
PROPERTY
  RefinesManager
