------------------------------- MODULE Access -------------------------------
(* Who may do what to a process (internal/authz and the handlers of            *)
(* internal/daemon that start, stop, restart, remove and share): role packs,   *)
(* ownership by session, grants, and the right to a looser sandbox.            *)
(*                                                                             *)
(* A request that names a process is checked, finds it and is authorised, and   *)
(* acts in separate steps; other requests, exits and reloads come in between.  *)
EXTENDS Config, FiniteSetsExt

CONSTANTS Requests,   \* requests that may be in progress together
          Principals, \* [role, session] a client may state
          MaxProcs,   \* bound: processes started
          MaxGrants,  \* bound: grants in the book
          Targets     \* sandboxes a start may ask for ("" asks for the default)

ASSUME AccessAssumption ==
  MaxProcs \in Nat /\ Principals \subseteq [role : STRING, session : STRING]

VARIABLES proc,    \* proc[i]: the row of process i and whether its child runs
          shares,  \* the share book
          pending,     \* pending[r]: the request in slot r
          loosest, \* history: the loosest sandbox default so far
          did      \* history: what the last step did to a process for a request

accessVars == <<proc, shares, pending, loosest, did>>
accessFileVars == <<accessVars, confVars>>

Procs_ == 1..MaxProcs
NoRow == [owner |-> "", live |-> FALSE, sandbox |-> "", entitled |-> FALSE, there |-> FALSE]
Gone(row) == [row EXCEPT !.there = FALSE, !.live = FALSE]
NoRequest == [op |-> "idle", by |-> [role |-> "", session |-> ""], id |-> 0, box |-> "",
         live |-> FALSE, step |-> "", seen |-> {}]
NoEffect == [op |-> "none", id |-> 0, owner |-> "", by |-> NoRequest.by, seen |-> {}]

-----------------------------------------------------------------------------
(* authz                                                                      *)

capsReadonly == {"process:list", "process:read", "events:read", "daemon:info", "session:end"}
capsLogs == capsReadonly \cup {"logs:read"}
capsAgent == capsLogs \cup
  {"process:start", "process:stop", "process:restart", "process:remove", "declare:apply",
   "group:manage", "profile:manage", "watch:set", "audit:read"}
capsOperator == capsAgent \cup
  {"logs:export", "sandbox:relax", "daemon:configure", "webhooks:manage", "secrets:write",
   "session:share"}
capsFull == capsOperator \cup {"secrets:read_values"}

\* An unknown role has no capability.
Caps(role) ==
  CASE role = "full" -> capsFull       [] role = "operator" -> capsOperator
    [] role = "agent" -> capsAgent     [] role = "logs" -> capsLogs
    [] role = "readonly" -> capsReadonly [] OTHER -> {}

\* A request that states no role gets all of them.
principal(p) == IF p.role = "" THEN [p EXCEPT !.role = "full"] ELSE p
Require(p, c) == c \in Caps(p.role)

Grant(i, c, to) == [target |-> i, cap |-> c, to |-> to]
Allowed_AnyCap(i, to, c) == \E g \in shares : g.target = i /\ g.to = to
Allowed(i, to, c) == Grant(i, c, to) \in shares

\* authorizeTarget: the row's own session, operator and full, or a grant.
AuthorizeTarget(p, c, i, row) ==
  \/ row.owner \in {"", p.session}
  \/ p.role \in {"full", "operator"}
  \/ Allowed(i, p.session, c)

Rank(box) == CASE box = "standard" -> 1 [] box = "permissive" -> 2 [] box = "off" -> 3 [] OTHER -> 0
SandboxIsRelaxation_Tie(default, box) == Rank(box) > Rank(default) + 1
SandboxIsRelaxation(default, box) == Rank(box) > Rank(default)

CapOf == [start |-> "process:start", stop |-> "process:stop", restart |-> "process:restart",
          remove |-> "process:remove", update |-> "process:restart", disable |-> "process:stop",
          share |-> "session:share", unshare |-> "session:share", reload |-> "daemon:configure"]
Guarded == {"stop", "restart", "remove"}

-----------------------------------------------------------------------------
(* Effects                                                                    *)

Effect(r, op, i) ==
  did' = [op |-> op, id |-> i, owner |-> proc[i].owner, by |-> pending[r].by, seen |-> pending[r].seen]
Done(r) == pending' = [pending EXCEPT ![r] = NoRequest]
At(r, op, step) == pending[r].op = op /\ pending[r].step = step
Go(r, step) == pending' = [pending EXCEPT ![r].step = step]
Fresh == {i \in Procs_ : \A j \in Procs_ : j >= i => proc[j] = NoRow /\ \A r \in Requests : pending[r].id # j}
NewId == CHOOSE i \in Fresh : \A j \in Fresh : i <= j

\* The grants a request could rest on.
Mine(p, op, book) == {g \in book : g.to = p.session /\ op # "start" /\ g.cap = CapOf[op]}

\* handle: after the version (module Endpoint) the role's capability comes first.
Admitted(p, op) == Require(principal(p), CapOf[op])
Begin(r, p, op) ==
  /\ pending[r] = NoRequest /\ Admitted(p, op)
  /\ pending' = [pending EXCEPT ![r] = [NoRequest EXCEPT !.op = op, !.by = principal(p), !.seen = Mine(p, op, shares),
               !.step = IF op = "start" THEN "sandbox" ELSE "resolve"]]
  /\ did' = NoEffect /\ UNCHANGED <<proc, shares, loosest>>

\* resolveID finds the process by id, or the live one of a name, and copies its
\* row; authorizeTarget follows at once in the handlers that call it.
ResolveTarget(r) ==
  /\ pending[r].step = "resolve"
  /\ \/ Done(r)
     \/ \E i \in Procs_ :
          /\ proc[i].there
          /\ IF pending[r].op \in Guarded => AuthorizeTarget(pending[r].by, CapOf[pending[r].op], i, proc[i])
             THEN pending' = [pending EXCEPT ![r].id = i, ![r].live = proc[i].live, ![r].step = "act"]
             ELSE Done(r)
  /\ did' = NoEffect /\ UNCHANGED <<proc, shares, loosest>>

\* doStop, and doEnable(false), which asks for no grant; the row is written back
\* from the copy.
DoStop(r) ==
  /\ pending[r].op \in {"stop", "disable"} /\ pending[r].step = "act"
  /\ LET i == pending[r].id
     IN  IF pending[r].op = "stop" /\ ~pending[r].live THEN did' = NoEffect /\ UNCHANGED proc
         ELSE /\ proc' = [proc EXCEPT ![i].live = FALSE]
              /\ Effect(r, pending[r].op, i)
  /\ Done(r) /\ UNCHANGED <<shares, loosest>>

DoRemove(r) ==
  /\ At(r, "remove", "act")
  /\ IF proc[pending[r].id].there
     THEN /\ proc' = [proc EXCEPT ![pending[r].id] = Gone(@)]
          /\ Effect(r, "remove", pending[r].id)
     ELSE did' = NoEffect /\ UNCHANGED proc
  /\ Done(r) /\ UNCHANGED <<shares, loosest>>

\* doRestart: the predecessor ends, its successor belongs to the caller's session
\* and keeps the sandbox.  Grants are on ids, so they stay with the predecessor.
DoRestart(r) ==
  /\ At(r, "restart", "act") /\ Fresh # {}
  /\ LET i == pending[r].id
     IN  /\ proc' = [proc EXCEPT ![i].live = FALSE,
                       ![NewId] = [proc[i] EXCEPT !.there = TRUE, !.owner = pending[r].by.session, !.live = TRUE]]
         /\ Effect(r, "restart", i)
  /\ Done(r) /\ UNCHANGED <<shares, loosest>>

\* doUpdate asks for no grant; with "restart" it goes on as a restart, which does.
DoUpdate(r) ==
  /\ At(r, "update", "act")
  /\ Effect(r, "update", pending[r].id)
  /\ \/ Done(r)
     \/ pending' = [pending EXCEPT ![r].op = "restart", ![r].step = "resolve"]
  /\ UNCHANGED <<proc, shares, loosest>>

\* The default sandbox is read once for the profile and once for the check.
StartSandbox(r) ==
  /\ At(r, "start", "sandbox")
  /\ \E box \in Targets :
       pending' = [pending EXCEPT ![r].box = IF box = "" THEN conf.sandbox ELSE box, ![r].step = "check"]
  /\ did' = NoEffect /\ UNCHANGED <<proc, shares, loosest>>
StartCheck(r) ==
  /\ At(r, "start", "check")
  /\ IF SandboxIsRelaxation(conf.sandbox, pending[r].box) /\ ~Require(pending[r].by, "sandbox:relax")
     THEN Done(r) ELSE Go(r, "act")
  /\ did' = NoEffect /\ UNCHANGED <<proc, shares, loosest>>

\* The rest of doStart: a live process of the name is refused or, with replace,
\* stopped and deleted; DefaultPolicy refuses an unknown sandbox after that.
AccessLaunch(r) ==
  /\ At(r, "start", "act")
  /\ \/ Done(r) /\ did' = NoEffect /\ UNCHANGED proc
     \/ \E gone \in {{}} \cup {{i} : i \in {j \in Procs_ : proc[j].live}} :
          LET cleared == [i \in Procs_ |-> IF i \in gone THEN Gone(proc[i]) ELSE proc[i]]
              new == [owner |-> pending[r].by.session, live |-> TRUE, sandbox |-> pending[r].box, there |-> TRUE,
                      entitled |-> Require(pending[r].by, "sandbox:relax")]
              known == pending[r].box \in SandboxNames
          IN  /\ known => Fresh # {}
              /\ proc' = IF known THEN [cleared EXCEPT ![NewId] = new] ELSE cleared
              /\ IF gone = {} THEN did' = NoEffect
                 ELSE Effect(r, "replace", CHOOSE i \in gone : TRUE)
              /\ Done(r)
  /\ UNCHANGED <<shares, loosest>>

\* doShare checks neither the target nor the session; an empty capability is a
\* grant nothing asks for, and removes every grant of the pair.
Sessions_ == {p.session : p \in Principals} \ {""}
DoShare(p) ==
  /\ Admitted(p, "share") /\ Cardinality(shares) < MaxGrants
  /\ \E i \in Procs_, to \in Sessions_, c \in {"", "process:stop"} :
       /\ shares' = shares \cup {Grant(i, c, to)}
       /\ pending' = [q \in Requests |-> IF pending[q] = NoRequest THEN NoRequest ELSE [pending[q] EXCEPT !.seen = @ \cup Mine(pending[q].by, pending[q].op, shares')]]
  /\ did' = NoEffect /\ UNCHANGED <<proc, loosest>>
DoUnshare(p) ==
  /\ Admitted(p, "unshare")
  /\ \E i \in Procs_, to \in Sessions_, c \in {"", "process:stop"} :
       shares' = {g \in shares : ~(g.target = i /\ g.to = to /\ (c = "" \/ g.cap = c))}
  /\ did' = NoEffect /\ UNCHANGED <<proc, pending, loosest>>

ReloadHandler(p) ==
  /\ Admitted(p, "reload") /\ Reload_
  /\ loosest' = Max({loosest, Rank(conf'.sandbox)})
  /\ did' = NoEffect /\ UNCHANGED <<proc, shares, pending>>

Exit_(i) ==
  /\ proc[i].live /\ proc' = [proc EXCEPT ![i].live = FALSE]
  /\ did' = NoEffect /\ UNCHANGED <<shares, pending, loosest>>

AccessInit ==
  /\ ConfInit
  /\ proc = [i \in Procs_ |-> NoRow] /\ shares = {} /\ did = NoEffect
  /\ pending = [r \in Requests |-> NoRequest] /\ loosest = 0

Handlers_(r) ==
  \/ \E p \in Principals, op \in DOMAIN CapOf \ {"share", "unshare", "reload"} : Begin(r, p, op)
  \/ ResolveTarget(r) \/ DoStop(r) \/ DoRemove(r) \/ DoRestart(r)
  \/ DoUpdate(r) \/ StartSandbox(r) \/ StartCheck(r) \/ AccessLaunch(r)

AccessNext ==
  \/ /\ ConfNext /\ loosest' = Max({loosest, Rank(conf'.sandbox)})
     /\ did' = NoEffect /\ UNCHANGED <<proc, shares, pending>>
  \/ \E p \in Principals : ReloadHandler(p)
  \/ /\ conf # NoConf /\ UNCHANGED confVars
     /\ (\E r \in Requests : Handlers_(r)) \/ (\E p \in Principals : DoShare(p) \/ DoUnshare(p))
  \/ UNCHANGED confVars /\ \E i \in Procs_ : Exit_(i)

AccessSpec == AccessInit /\ [][AccessNext]_accessFileVars

-----------------------------------------------------------------------------
\* Stop, restart and remove touch a process of another session only for an
\* operator, for full, or under a grant for that very capability on that very
\* process which stood at some moment of the request; a grant that was taken back
\* before, one for another capability or one on a predecessor is not enough
\* (server.go: authorizeTarget; share.go).
TargetsAuthorised ==
  did.op \in Guarded =>
    \/ did.owner \in {"", did.by.session}
    \/ did.by.role \in {"full", "operator"}
    \/ Grant(did.id, CapOf[did.op], did.by.session) \in did.seen

\* A child runs in a looser sandbox than every default the daemon has had only if
\* the start it descends from came from a principal with sandbox:relax, whatever
\* reloads and restarts came in between (server.go: sandboxIsRelaxation).
RelaxedByRight ==
  \A i \in Procs_ : proc[i].there /\ Rank(proc[i].sandbox) > loosest => proc[i].entitled
=============================================================================
