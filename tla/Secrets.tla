------------------------------ MODULE Secrets ------------------------------
(* Secret values from their source to the log: references in a process's env   *)
(* are resolved, their values registered, the child started with them and its  *)
(* output redacted line by line (internal/secret, the writers of                *)
(* internal/logcap, and doStart, doUpdate, doSecretSet of internal/daemon).     *)
(*                                                                             *)
(* Text is a sequence of characters.  A character of a secret is a pair, so    *)
(* what is left of one in the log can be told from everything else.            *)
EXTENDS Integers, Sequences, FiniteSets, SequencesExt, FiniteSetsExt

CONSTANTS EnvKeys,    \* names of environment variables
          Refs,       \* secret:// references: [scheme, path, ok, inside]
          Values_,    \* values a source may hold: sequences of characters
          EnvFiles,   \* what an env file may hold: maps from EnvKeys
          Asked,      \* the envs a request may carry
          MinLen,     \* minRegisteredValueLen
          MaxPartial, \* maxPartialBytes
          MaxSets,    \* bound: changes of a source
          MaxStarts,  \* bound: starts and restarts
          MaxMessages \* bound: lines the child prints

\* The mark of a character: 0 for what is no secret.  A value is of marked
\* characters, and one that the redactor cannot mask (too short, or of several
\* lines) shares none with those it can; requests and env files have no values.
NL == <<"newline", 0>>
Marked_ == STRING \X (Nat \ {0})
Maskable == {v \in Values_ : Len(v) >= MinLen /\ NL \notin ToSet(v)}
SecretChars == UNION {ToSet(v) : v \in Maskable}
NoRef == [scheme |-> "", path |-> "", ok |-> FALSE, inside |-> FALSE]

ASSUME SecretsAssumption ==
  /\ MinLen \in Nat \ {0} /\ {MaxPartial, MaxSets, MaxStarts, MaxMessages} \subseteq Nat
  /\ Values_ \subseteq Seq(Marked_ \cup {NL}) /\ Values_ # {}
  /\ \A v \in Values_ \ Maskable : ToSet(v) \cap SecretChars = {}
  /\ IsFiniteSet(EnvKeys) /\ NoRef \notin Refs
  /\ Asked \cup EnvFiles \subseteq
       [EnvKeys -> [ref : Refs \cup {NoRef}, text : Seq(STRING \X {0})]]

VARIABLES source,   \* source[r]: what reference r leads to, or Missing_ (no source is empty)
          known,    \* names in the secret index: references set by doSecretSet
          registry, \* registered values, longest first
          starting, \* the start in progress
          procEnv,  \* the env a restart uses
          childEnv, \* the env of the running child; NoEnv: no child
          unsent,   \* what the child has still to write
          buffer,   \* the writer's partial line
          tornLine, \* whether the line being written was flushed before its end
          logged,   \* what the last Write or Close put in the file: [text, torn]
          budget    \* [sets, starts, messages] so far

secretVars == <<source, known, registry, starting, procEnv, childEnv, unsent, buffer,
                tornLine, logged, budget>>

Plain(c) == <<c, 0>>
Placeholder == Plain("***REDACTED***")

\* The value of a variable: a reference, a text, or nothing.
NoEntry == [ref |-> NoRef, text |-> <<>>]
RefTo(r) == [NoEntry EXCEPT !.ref = r]
TextOf(v) == [NoEntry EXCEPT !.text = v]
Missing_ == <<>>
NoEnv == [k \in EnvKeys |-> NoEntry]
NotStarting == [step |-> "none", env |-> NoEnv, resolved |-> NoEnv, left |-> {}]
Spend(what) == budget' = [budget EXCEPT ![what] = @ + 1]

-----------------------------------------------------------------------------
(* Resolving and registering                                                  *)

IsRef(e) == e.ref # NoRef

\* ParseRef refuses a malformed reference, and a keyring name that is a path;
\* resolvePath one that leads outside the project; the rest is in the source.
Accepted_(r) == r.ok /\ (r.scheme \in {"file", "sops"} => r.inside)
Resolve_(r) == IF Accepted_(r) THEN source[r] ELSE Missing_

\* LoadEnvFileMaybeSOPS and the request's own env, which wins.
Merge(envFile, env) == [k \in EnvKeys |-> IF env[k] # NoEntry THEN env[k] ELSE envFile[k]]

ResolveEnvMap(env) ==
  [k \in EnvKeys |-> IF IsRef(env[k]) THEN TextOf(Resolve_(env[k].ref)) ELSE env[k]]
ResolveFails(env) == \E k \in EnvKeys : IsRef(env[k]) /\ Resolve_(env[k].ref) = Missing_

\* The list is sorted by length after each insertion; a short value and one that
\* is there already are ignored.
Register_Last(reg, v) == IF Len(v) < MinLen \/ v \in ToSet(reg) THEN reg ELSE Append(reg, v)
Register(reg, v) ==
  IF Len(v) < MinLen \/ v \in ToSet(reg) THEN reg
  ELSE InsertAt(reg, 1 + Cardinality({n \in DOMAIN reg : Len(reg[n]) >= Len(v)}), v)

\* strings.ReplaceAll: leftmost occurrences that do not overlap.
Occurs(v, line, i) ==
  i + Len(v) - 1 <= Len(line) /\ \A k \in DOMAIN v : line[i + k - 1] = v[k]
ReplaceValue(v, line) ==
  LET scan[i \in 0..Len(line)] ==
        IF i = 0 THEN [out |-> <<>>, upto |-> 0]
        ELSE LET a == scan[i - 1]
             IN  IF i <= a.upto THEN a
                 ELSE IF Occurs(v, line, i)
                 THEN [out |-> Append(a.out, Placeholder), upto |-> i + Len(v) - 1]
                 ELSE [a EXCEPT !.out = Append(@, line[i])]
  IN  scan[Len(line)].out
RedactLine(line) ==
  LET after[n \in 0..Len(registry)] ==
        IF n = 0 THEN line ELSE ReplaceValue(registry[n], after[n - 1])
  IN  after[Len(registry)]

Chunk(line, torn) == [text |-> RedactLine(line), torn |-> torn]

-----------------------------------------------------------------------------
(* Sources and starts                                                         *)

\* doSecretSet for a keyring reference, refused when its name is a path; an edit
\* by hand for the others.
SecretSet(r, v) ==
  /\ budget.sets < MaxSets /\ Spend("sets") /\ source[r] # v
  /\ r.scheme = "keyring" => r.ok
  /\ source' = [source EXCEPT ![r] = v]
  /\ known' = IF r.scheme = "keyring" THEN known \cup {r} ELSE known
  /\ UNCHANGED <<registry, starting, procEnv, childEnv, unsent, buffer, tornLine, logged>>

StartReads(env) ==
  /\ starting = NotStarting /\ childEnv = NoEnv
  /\ budget.starts < MaxStarts /\ Spend("starts")
  /\ starting' = [NotStarting EXCEPT !.step = "resolve", !.env = env]
  /\ UNCHANGED <<source, known, registry, procEnv, childEnv, unsent, buffer, tornLine, logged>>

\* A reference that does not resolve fails the start.
StartResolves ==
  /\ starting.step = "resolve"
  /\ starting' = IF ResolveFails(starting.env) THEN NotStarting
       ELSE [starting EXCEPT !.step = "register", !.resolved = ResolveEnvMap(starting.env),
                             !.left = {k \in EnvKeys : IsRef(starting.env[k])}]
  /\ UNCHANGED <<source, known, registry, procEnv, childEnv, unsent, buffer, tornLine, logged, budget>>

\* Map iteration: the keys come in any order.
StartRegisters(k) ==
  /\ starting.step = "register" /\ k \in starting.left
  /\ registry' = Register(registry, starting.resolved[k].text)
  /\ starting' = [starting EXCEPT !.left = @ \ {k}]
  /\ UNCHANGED <<source, known, procEnv, childEnv, unsent, buffer, tornLine, logged, budget>>

StartLaunches ==
  /\ starting.step = "register" /\ starting.left = {}
  /\ childEnv' = starting.resolved /\ procEnv' = starting.resolved /\ starting' = NotStarting
  /\ tornLine' = FALSE /\ logged' = <<>>
  /\ UNCHANGED <<source, known, registry, unsent, buffer, budget>>

\* doUpdate stores the request's env as it is: references are not resolved.
UpdateEnv(env) ==
  /\ childEnv # NoEnv
  /\ procEnv' = env
  /\ UNCHANGED <<source, known, registry, starting, childEnv, unsent, buffer, tornLine, logged, budget>>

\* The child ends, perhaps in the middle of a line; Close flushes the partial line
\* through the redactor.
ChildEnds ==
  /\ childEnv # NoEnv /\ childEnv' = NoEnv /\ unsent' = <<>>
  /\ logged' = IF buffer = <<>> THEN <<>> ELSE <<Chunk(buffer, tornLine \/ unsent # <<>>)>>
  /\ buffer' = <<>>
  /\ UNCHANGED <<source, known, registry, starting, procEnv, tornLine, budget>>

\* doRestart and the auto-restart loop start a child with procEnv and a new writer.
RestartChild ==
  /\ childEnv = NoEnv /\ procEnv # NoEnv /\ starting = NotStarting
  /\ budget.starts < MaxStarts /\ Spend("starts")
  /\ childEnv' = procEnv /\ tornLine' = FALSE /\ logged' = <<>>
  /\ UNCHANGED <<source, known, registry, starting, procEnv, unsent, buffer>>

\* A daemon that comes back has an empty registry and no procEnv; what it
\* relaunches gets no env.
DaemonRestarts ==
  /\ registry # <<>> /\ registry' = <<>>
  /\ procEnv' = NoEnv /\ childEnv' = NoEnv /\ starting' = NotStarting
  /\ unsent' = <<>> /\ buffer' = <<>> /\ logged' = <<>> /\ tornLine' = FALSE
  /\ UNCHANGED <<source, known, budget>>

-----------------------------------------------------------------------------
(* The child's output and the writer                                          *)

Shown_(e) == IF IsRef(e) THEN <<Plain("secret://")>> ELSE e.text
Message(ks, end) ==
  LET upto[n \in 0..Len(ks)] ==
        IF n = 0 THEN <<Plain("x")>> ELSE upto[n - 1] \o Shown_(childEnv[ks[n]])
  IN  upto[Len(ks)] \o end
Prints(ks, end) ==
  /\ childEnv # NoEnv /\ unsent = <<>>
  /\ budget.messages < MaxMessages /\ Spend("messages")
  /\ \A n \in DOMAIN ks : childEnv[ks[n]] # NoEntry
  /\ unsent' = Message(ks, end)
  /\ UNCHANGED <<source, known, registry, starting, procEnv, childEnv, buffer, tornLine, logged>>

\* Write: the buffered part and the new bytes, cut at newlines; what is left is
\* buffered again, or flushed when it is over the limit.
Cut_(data) ==
  LET upto[n \in 0..Len(data)] ==
        IF n = 0 THEN [lines |-> <<>>, rest |-> <<>>]
        ELSE LET a == upto[n - 1]
             IN  IF data[n] = NL THEN [lines |-> Append(a.lines, a.rest), rest |-> <<>>]
                 ELSE [a EXCEPT !.rest = Append(@, data[n])]
  IN  upto[Len(data)]
PipeWrite(n) ==
  LET cut == Cut_(buffer \o SubSeq(unsent, 1, n))
      over == Len(cut.rest) > MaxPartial
  IN  [lines |-> IF over THEN Append(cut.lines, cut.rest) ELSE cut.lines,
       rest |-> IF over THEN <<>> ELSE cut.rest, over |-> over]
ChildWrites(n) ==
  LET w == PipeWrite(n)
      ends == NL \in ToSet(SubSeq(unsent, 1, n))
  IN  /\ n \in 1..Len(unsent) /\ unsent' = SubSeq(unsent, n + 1, Len(unsent))
      /\ buffer' = w.rest
      /\ logged' = [m \in DOMAIN w.lines |->
                     Chunk(w.lines[m], (m = 1 /\ tornLine) \/ (m = Len(w.lines) /\ w.over))]
      /\ tornLine' = (w.over \/ (tornLine /\ ~ends))
      /\ UNCHANGED <<source, known, registry, starting, procEnv, childEnv, budget>>

-----------------------------------------------------------------------------
SecretsInit ==
  /\ source \in [Refs -> Values_ \cup {Missing_}]
  /\ \A r \in Refs : Accepted_(r) \/ source[r] = CHOOSE v \in Values_ : TRUE
  /\ known = {}
  /\ registry = <<>> /\ starting = NotStarting /\ procEnv = NoEnv /\ childEnv = NoEnv
  /\ unsent = <<>> /\ buffer = <<>> /\ tornLine = FALSE /\ logged = <<>>
  /\ budget = [sets |-> 0, starts |-> 0, messages |-> 0]

SecretsNext ==
  \/ \E r \in Refs, v \in Values_ : SecretSet(r, v)
  \/ \E e \in {Merge(file, env) : file \in EnvFiles, env \in Asked} : StartReads(e)
  \/ StartResolves \/ StartLaunches \/ ChildEnds \/ RestartChild \/ DaemonRestarts
  \/ \E k \in EnvKeys : StartRegisters(k)
  \/ \E env \in Asked : UpdateEnv(env)
  \/ \E ks \in SetToSeqs(EnvKeys) \cup {<<k>> : k \in EnvKeys}, end \in {<<>>, <<NL>>} : Prints(ks, end)
  \/ \E n \in 1..Len(unsent) : ChildWrites(n)

SecretsSpec == SecretsInit /\ [][SecretsNext]_secretVars

\* Values are masked one after the other, the longest first, so one that can be read
\* across the seam of two others takes its part of both and leaves the rest.  There
\* is none when no v begins with an end of w and goes on as x does, nor the same from
\* the other side.
Apart ==
  \A v, w, x \in Maskable : Len(w) <= Len(v) => \A n \in 1..Len(w) - 1 :
    /\ \/ \E k \in 1..n : w[Len(w) - n + k] # v[k]
       \/ \E k \in DOMAIN x : n + k <= Len(v) /\ v[n + k] # x[k]
    /\ \/ \E k \in 1..n : v[Len(v) - n + k] # w[k]
       \/ \E k \in DOMAIN x : n + k <= Len(v) /\ v[Len(v) - n - k + 1] # x[Len(x) - k + 1]

\* Nothing of a value that came from a reference reaches the log, although the
\* child may write it in several pieces, beside other values or one that begins
\* like it, after the source has changed and after restarts; only a line over the
\* limit, flushed in pieces, or one the child did not finish may show a torn value
\* (writer.go: Write, Close; redact.go: RegisterNamedValue, RedactLine; server.go:
\* doStart).
NoPlainSecret ==
  \A n \in DOMAIN logged : ~logged[n].torn => ToSet(logged[n].text) \cap SecretChars = {}
=============================================================================
