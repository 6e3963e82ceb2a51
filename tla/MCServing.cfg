SPECIFICATION Spec
CONSTANTS
  Handlers = {h1, h2}
  Loops = {l1}
  Paths = {"dir", "file"}
  Dirs = {"dir"}
  Names = {"n"}
  Debounce = 2
  MaxWait = 3
  BufCap = 1
  MaxEdits = 3
  Daemons = {d1, d2}
  Callers = {c1}
  Versions <- VersionsDef
  MaxBinds = 3
INVARIANTS
  NoUseAfterClose
  EndpointHeld
PROPERTIES
  ShutdownEnds
  ChangeReported
CHECK_DEADLOCK FALSE
