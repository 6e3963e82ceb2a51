------------------------------- MODULE Config -------------------------------
(* Loading and reloading the daemon's configuration (internal/config/config.go  *)
(* and the handler doDaemonReload): which file is read, which source gives each *)
(* setting its value, when a load is refused, and what a reload takes over.     *)
(*                                                                             *)
(* A source gives each key a value or "" (unset).  A file is a source that may  *)
(* not parse, or may hold a key the program does not know.                      *)
EXTENDS Naturals, Sequences, FiniteSets, SequencesExt

CONSTANTS Slots,     \* the candidate files, in search order
          Files,     \* contents a file may have: [src, parses, known]
          Envs,      \* environments the daemon may run in: sources
          FlagSets,  \* command lines it may be started with: [src, path]
          Paths_,    \* values of PMMCP_CONFIG ("" is unset)
          MaxConfigEdits \* bound: edits of configuration files

VARIABLES file,     \* file[s]: content of candidate s, or NoFile
          confEnv,  \* [src, path]: environment of the running daemon
          conf,     \* its settings
          confEdits

confVars == <<file, confEnv, conf, confEdits>>

Keys_ == {"sandbox", "level", "endpoint", "state", "token", "ipctoken"}
Unset == [k \in Keys_ |-> ""]
NoFile == [src |-> Unset, parses |-> FALSE, known |-> FALSE]
NoConf == Unset

\* The platform's own value of a key nobody set.
Default == [sandbox |-> "strict", level |-> "info", endpoint |-> "runtime/pmmcpd.sock",
            state |-> "state/pmmcp", token |-> "", ipctoken |-> ""]
SandboxNames == {"strict", "standard", "permissive", "off"}

\* An explicit path is taken as it is; else the first candidate that exists.
DefaultPath(path) ==
  IF path # "" THEN path
  ELSE LET there == {n \in DOMAIN Slots : file[Slots[n]] # NoFile}
       IN  IF there = {} THEN "" ELSE Slots[CHOOSE n \in there : \A m \in there : n <= m]

Readable(path) == path = "" \/ (file[path] # NoFile /\ file[path].parses /\ file[path].known)

FirstSet(q) == LET s == SelectSeq(q, LAMBDA v : v # "") IN IF s = <<>> THEN "" ELSE Head(s)
Overlay(fl, env, src, k) == FirstSet(<<fl[k], env[k], src[k], Default[k]>>)

\* [ipc].token_file beats token_file, and its flag, unless the environment names one.
TokenFile(c, env) == IF c.ipctoken # "" /\ env.token = "" THEN c.ipctoken ELSE c.token

Settings(fl, path) ==
  LET src == IF path = "" THEN Unset ELSE file[path].src
      c == [k \in Keys_ |-> Overlay(fl, confEnv.src, src, k)]
  IN  [c EXCEPT !.token = TokenFile(c, confEnv.src)]

Valid_(c) == c.sandbox \in SandboxNames

\* Load: NoConf when the file cannot be read or the result is refused.
Load(fl, explicit) ==
  LET path == DefaultPath(explicit)
  IN  IF Readable(path) /\ Valid_(Settings(fl, path)) THEN Settings(fl, path) ELSE NoConf

-----------------------------------------------------------------------------
EditFile(s) ==
  /\ confEdits < MaxConfigEdits /\ confEdits' = confEdits + 1
  /\ \E c \in Files \cup {NoFile} : c # file[s] /\ file' = [file EXCEPT ![s] = c]
  /\ UNCHANGED <<confEnv, conf>>

\* runDaemon: the daemon starts with the flags, the environment and the files of
\* that moment; --config beats PMMCP_CONFIG, and a load that fails ends it.
Boot(fl) ==
  LET new == Load(fl.src, FirstSet(<<fl.path, confEnv.path>>))
  IN  /\ conf = NoConf /\ new # NoConf
      /\ conf' = new
      /\ UNCHANGED <<file, confEnv, confEdits>>

\* doDaemonReload reads the files again, without the flags (--config included), and takes over the
\* log level and the default sandbox; an error changes nothing.
Reload_ ==
  LET new == Load(Unset, confEnv.path)
  IN  /\ conf # NoConf
      /\ conf' = IF new = NoConf THEN conf
                 ELSE [conf EXCEPT !.sandbox = new.sandbox, !.level = new.level]
      /\ UNCHANGED <<file, confEnv, confEdits>>

ConfInit ==
  /\ file \in [ToSet(Slots) -> Files \cup {NoFile}]
  /\ confEnv \in [src : Envs, path : Paths_]
  /\ conf = NoConf /\ confEdits = 0

ConfNext ==
  \/ \E s \in ToSet(Slots) : EditFile(s)
  \/ \E fl \in FlagSets : Boot(fl)
=============================================================================
