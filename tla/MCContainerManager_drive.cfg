SPECIFICATION MCSpec
CONSTANTS
  Ids = {i1}
  Containers = {k1, k2}
  Callers = {c1, c2}
  EngineMayFail = TRUE
  NoContainer = NoContainer
  Supervised = {"a"}
  Policies <- PoliciesDef
  MaxNow = 10
  Asking = {"c1", "c2"}
  Audited = {"p"}
  AuditPage = 1
  MaxAge = 1
  MaxNow_ = 2
  MaxAsked = 2
  MaxDbErrors = 1
INVARIANTS
  AuditTells
  EntriesSound
  WithinBudget
PROPERTIES
  RefinesManager
  WaitersWake
