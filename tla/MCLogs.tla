------------------------------- MODULE MCLogs -------------------------------
(***************************************************************************)
(* Log capture, log reading and redaction in one run.  Reading starts from *)
(* the lines of the active files whatever a rotation did to them, and a    *)
(* redacted line is a line like any other, so a behaviour is one of three: *)
(* a writer with its followers and exports, a child that writes lines and  *)
(* a client that asks for some of them, or a child started with secrets.   *)
(***************************************************************************)
EXTENDS LogCapture, LogRead, Secrets

\* What the theorem about redaction asks of the values holds of those below.
ASSUME ValuesApart == Apart

VARIABLE part

\* An empty line; an error with a JSON level and the pattern; one over the limit
\* whose pattern is cut off.
KindsDef == {
  [len |-> 0, hit |-> 0, err |-> 0, json |-> 0,  marks |-> {}],
  [len |-> 1, hit |-> 1, err |-> 1, json |-> 20, marks |-> {50}],
  [len |-> 6, hit |-> 6, err |-> 6, json |-> 20, marks |-> {20, 40}]}

Request(mode, stream, level, lines, context) ==
  [mode |-> mode, stream |-> stream, pattern |-> TRUE, level |-> level, lines |-> lines, context |-> context]
AsksDef == {Request("tail", "", 0, 1, 0), Request("tail", "stderr", 0, 0, 0),
            Request("tail", "syslog", 0, 0, 0)}
      \cup {Request("grep", "both", 0, 0, c) : c \in {0, 1}}
      \cup {Request("errors", "both", 0, 1, 0), Request("tail", "both", 40, 1, 0)}
      \cup {Request("grep", "", 35, 0, 0), [Request("grep", "", 0, 0, 0) EXCEPT !.pattern = FALSE]}

\* A keyring value, one in a file of the project that begins like it, and a path
\* that leads outside.
Reference(scheme, path, inside) ==
  [scheme |-> scheme, path |-> path, ok |-> TRUE, inside |-> inside]
Token == Reference("keyring", "token", FALSE)
Password == Reference("file", "password", TRUE)
Stray == Reference("file", "stray", FALSE)
RefsDef == {Token, Password, Stray}
Short == <<<<"a", 1>>, <<"a", 2>>>>
SecretsDef == {Short, Append(Short, <<"b", 1>>)}

Env(a, b) == [k \in EnvKeys |-> IF k = "k1" THEN a ELSE b]
EnvFilesDef == {NoEnv, Env(NoEntry, RefTo(Password))}
AskedDef == {Env(RefTo(Token), NoEntry), Env(RefTo(Stray), TextOf(<<Plain("v")>>))}

Init ==
  /\ part \in {"capture", "read", "secrets"}
  /\ CaptureInit /\ LogReadInit
  /\ SecretsInit
  /\ part = "secrets" \/ source = [r \in Refs |-> Short]

Next ==
  /\ UNCHANGED part
  /\ \/ part = "capture" /\ CaptureNext /\ UNCHANGED <<logReadVars, secretVars>>
     \/ part = "read" /\ LogReadNext /\ UNCHANGED <<vars, secretVars>>
     \/ part = "secrets" /\ SecretsNext /\ UNCHANGED <<vars, logReadVars>>

Spec == /\ Init /\ [][Next]_<<vars, logReadVars, secretVars, part>>
        /\ WF_vars(part = "capture" /\ (FollowStat \/ FollowRead) /\ UNCHANGED <<logReadVars, secretVars, part>>)
=============================================================================
