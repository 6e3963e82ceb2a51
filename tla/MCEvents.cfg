SPECIFICATION Spec
CONSTANTS
  Types = {t1, t2}
  Procs = {q1, q2}
  AnyProc = AnyProc
  HookIds = {h1}
  Filters = {{t1}}
  Reqs = {r1}
  Streams = {s1}
  MaxKeep = 2
  SincePage = 1
  SeedPage = 1
  TailPage = 2
  MaxAttempts = 2
  MaxEvents = 3
  MaxOps = 2
  MaxFaults = 1
  MaxDown = 1
  Urls <- UrlsDef
  Names = {"hooks.example", "localhost", "other.example"}
  Blocked_ = {"localhost"}
  Answers <- AnswersDef
  MaxHops = 2
  MaxMoves = 2
INVARIANTS
  DialsAdmitted
  HookOrder
  NoEventSkipped
PROPERTIES
  StreamFaithful
  EveryRowIsPassed
