SPECIFICATION Spec
CONSTANTS
  Harness = {h}
  Ids = {s1, s2}
  Reqs = {r1, r2}
  Procs = {p1, p2}
  Members <- MembersDef
  DependsOn <- Payloads
  Calls = {g1}
  Services <- ServicesDef
  Appliers = {a1, a2}
  ProfileIds = {"i", "j"}
  ProfileNames = {"default", "dev"}
  Projects_ = {"p", "q"}
  Tags = {"v"}
  UseSessions = {"u"}
  MaxEdits = 5
  Slots <- SlotsDef
  Files <- FilesDef
  Envs <- EnvsDef
  FlagSets <- FlagSetsDef
  Paths_ = {""}
  MaxConfigEdits = 1
  Requests = {q1}
  Principals <- PrincipalsDef
  MaxProcs = 2
  MaxGrants = 1
  Targets = {"", "off"}
  Boxes = {"b"}
  Home <- HomeDef
  Temps <- TempsDef
  Roots <- RootsDef
  SystemRO <- SystemRODef
  Sockets <- SocketsDef
  Later <- LaterDef
  HostFiles <- HostFilesDef
  Rows = {1, 2, 3}
  Readers = {c1}
  Limits = {1, 2}
SYMMETRY Symmetry
INVARIANTS SessionIndex SodSettled DependenciesFirst AppliedMeansPresent FoundByKey
           TargetsAuthorised RelaxedByRight SandboxHolds PagesComplete
CHECK_DEADLOCK FALSE
