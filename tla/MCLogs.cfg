SPECIFICATION Spec
CONSTANTS
  Cap = 2
  MaxFiles = 2
  ReadMax = 1
  TailLines = 1
  MaxTok = 7
  MaxOpens = 2
  MaxReads = 1
  MaxFaults = 1
  Kinds <- KindsDef
  MaxLine = 5
  MaxOutput = 5
  Marker = 1
  GrepMatches = 2
  DefaultLines = 2
  Asks <- AsksDef
  MaxWritten = 3
  EnvKeys = {"k1", "k2"}
  Refs <- RefsDef
  Values_ <- SecretsDef
  EnvFiles <- EnvFilesDef
  Asked <- AskedDef
  MinLen = 2
  MaxPartial = 5
  MaxSets = 1
  MaxStarts = 2
  MaxMessages = 2
INVARIANTS
  NoPlainSecret
  ArchivesInOrder
  OnlyOldestDropped
  ReadersFaithful
  ReadersAgree
PROPERTY
  FollowerCatchesUp
CHECK_DEADLOCK FALSE
