------------------------------ MODULE Lifecycle ------------------------------
(***************************************************************************)
(* The daemon's process lifecycle (internal/daemon/server.go, the handlers *)
(* of handlers_ext.go, supervise_loops.go): RPC handlers, the auto-restart *)
(* loop, the file watchers and boot relaunch, all working on the SQLite    *)
(* inventory, the driver's handles and the in-memory maps of Server.       *)
(*                                                                         *)
(* Only the maps are under s.mu; nothing holds a lock across two of the    *)
(* store, the driver and the maps.  So each store call, each driver call   *)
(* and each critical section of s.mu is one step, a handler keeps the      *)
(* record it read in its thread, and Update writes the whole row back.     *)
(*                                                                         *)
(* The driver behaves as ManagerSpec says: its handle for an id is derived *)
(* from the instance it last launched.  Start is one step where nobody     *)
(* else can know the id (a fresh one, and boot, which runs alone); the     *)
(* loop and a watcher may start one id at once, and for them it is the two *)
(* critical sections of local.Manager.Start with the spawn between them.   *)
(* A crash loses threads, handles and maps; the store and the children     *)
(* survive (Setpgid).                                                      *)
(***************************************************************************)
EXTENDS Naturals, FiniteSets

CONSTANTS
  Clients,       \* RPC handlers in flight at the same time
  Names,         \* name scopes (project, name); one profile
  MaxIds,        \* bound: process ids handed out by id.New
  MaxPids,       \* bound: children ever spawned (OS PIDs, never recycled here)
  MaxCrashes,    \* bound: daemon deaths
  Ops,           \* the methods clients call
  AutoRestart,   \* TRUE: a start may set auto_restart
  HealthURL,     \* TRUE: a start may set a health URL
  ClientsCancel, \* TRUE: a client may hang up or time out during a call
  StopMayFail    \* TRUE: some children survive SIGKILL past forceKillTimeout

ASSUME LifecycleAssumption ==
  /\ MaxIds \in Nat \ {0}
  /\ MaxPids \in Nat \ {0}
  /\ MaxCrashes \in Nat
  /\ {AutoRestart, HealthURL, ClientsCancel, StopMayFail} \subseteq BOOLEAN
  /\ Clients \cap {"loop", "watch", "boot"} = {}

VARIABLES
  store,     \* processes table: id -> row, NoRec when there is none
  live,      \* kernel: children not yet reaped
  owner,     \* kernel: the id each child was spawned for
  hpid,      \* driver: id -> the child it last launched, 0 when unknown
  stopping,  \* driver: ids whose running child a Stop has marked
  byName,    \* s.byName: name -> id or 0
  auto,      \* s.autoRestart
  url,       \* ids with an entry in s.healthURL
  watchers,  \* s.watchers
  loopIds,   \* ids the current tick of the auto-restart loop has yet to visit
  phase,     \* "up" while serving, "down" after a crash, "boot" in RelaunchEligible
  bootIds,   \* ids RelaunchEligible has yet to visit
  thr,       \* what each thread is doing
  lastId, lastPid, crashes

diskVars == <<store>>
kernelVars == <<live, owner, lastPid>>
driverVars == <<hpid, stopping>>
mapVars == <<byName, auto, url, watchers>>
daemonVars == <<phase, bootIds, loopIds, crashes, lastId>>
vars == <<diskVars, kernelVars, driverVars, mapVars, daemonVars, thr>>

-----------------------------------------------------------------------------
(* Rows, threads and types. *)

Ids == 1..MaxIds
Pids == 1..MaxPids
Threads == Clients \cup {"loop", "watch", "boot"}

NoRec == [name |-> "none"]
RowStatuses == {"running", "stopping", "unhealthy", "exited", "failed"}
Terminal == {"exited", "failed"}
Rows == [name: Names, st: RowStatuses, desired: {"running", "stopped"},
         pid: 0..MaxPids, succ: 0..MaxIds]

Steps == {"idle", "getname", "unname", "scan", "claim", "repldel", "replmaps",
          "launch", "create", "publish", "runget", "runput", "reget",
          "mstop", "mwait", "stopinsp", "stopput",
          "rlaunch", "rlink", "rcreate", "rpublish", "rmdel", "rmmaps",
          "enput", "disput", "disinsp", "disend", "wlook", "wwait", "uwait",
          "waitput", "hprobe", "hput", "upput", "lpget", "lpput",
          "rbget", "rblaunch", "rbspawn", "rbreg", "rbkill", "rbput",
          "bootlaunch", "bootput", "bootfail"}

\* rec is the row the handler read and edits, id the process it targets, new
\* the process it launches, pid the child it launched or waits for, ret where
\* it goes on after the driver's Stop.
ThreadStates == [pc: Steps, op: Ops \cup {"none"}, id: 0..MaxIds, new: 0..MaxIds,
                 rec: Rows \cup {NoRec}, pid: 0..MaxPids, ret: Steps,
                 name: Names \cup {"none"}, replace: BOOLEAN,
                 auto: BOOLEAN, url: BOOLEAN, cancelled: BOOLEAN]

Idle == [pc |-> "idle", op |-> "none", id |-> 0, new |-> 0, rec |-> NoRec,
         pid |-> 0, ret |-> "idle", name |-> "none", replace |-> FALSE,
         auto |-> FALSE, url |-> FALSE, cancelled |-> FALSE]

\* Steps at which a handler edits the row it has read.
Editing == {"runput", "stopinsp", "stopput", "rlink", "enput", "disput", "disinsp", "disend",
            "wlook", "wwait", "uwait", "waitput", "hprobe", "hput", "upput", "lpput",
            "rbspawn", "rbreg", "rbput", "bootput", "bootfail"}

\* Types, and no nil dereference: a handler that edits a row has read one.
TypeOK ==
  /\ store \in [Ids -> Rows \cup {NoRec}]
  /\ live \subseteq Pids
  /\ owner \in [Pids -> 0..MaxIds]
  /\ hpid \in [Ids -> 0..MaxPids]
  /\ stopping \subseteq Ids
  /\ byName \in [Names -> 0..MaxIds]
  /\ auto \subseteq Ids /\ url \subseteq Ids /\ watchers \subseteq Ids
  /\ loopIds \subseteq Ids /\ bootIds \subseteq Ids
  /\ phase \in {"up", "down", "boot"}
  /\ thr \in [Threads -> ThreadStates]
  /\ \A t \in Threads : thr[t].pc \in Editing => thr[t].rec \in Rows
  /\ lastId \in 0..MaxIds /\ lastPid \in 0..MaxPids /\ crashes \in 0..MaxCrashes

Init ==
  /\ store = [i \in Ids |-> NoRec]
  /\ live = {} /\ owner = [p \in Pids |-> 0]
  /\ hpid = [i \in Ids |-> 0] /\ stopping = {}
  /\ byName = [n \in Names |-> 0]
  /\ auto = {} /\ url = {} /\ watchers = {}
  /\ loopIds = {} /\ bootIds = {} /\ phase = "up"
  /\ thr = [t \in Threads |-> Idle]
  /\ lastId = 0 /\ lastPid = 0 /\ crashes = 0

Done(t) == thr' = [thr EXCEPT ![t] = Idle]
Goto(t, step) == thr' = [thr EXCEPT ![t].pc = step]
\* The thread ends when the step to return to is "idle".
Resume(t, step) == IF step = "idle" THEN Done(t) ELSE Goto(t, step)

-----------------------------------------------------------------------------
(* The store.  A call on a cancelled context fails without effect. *)

Stored(i) == store[i] # NoRec
Reach(t, i) == Stored(i) /\ ~thr[t].cancelled

\* Mutant of LiveNameTaken: the unique index is gone.
LiveNameTaken_NoIndex(i, row) == FALSE
\* The index processes_live_name: another row of this name without successor.
LiveNameTaken(i, row) ==
  /\ row.succ = 0
  /\ \E j \in Ids \ {i} : Stored(j) /\ store[j].name = row.name /\ store[j].succ = 0

\* Update replaces the whole row; without the row or against the index it fails.
UpdateOK(t, row) == Reach(t, thr[t].id) /\ ~LiveNameTaken(thr[t].id, row)
Update(t, row) ==
  store' = IF UpdateOK(t, row) THEN [store EXCEPT ![thr[t].id] = row] ELSE store

\* Create of a running row for the child just launched.
CreateOK(t, row) == ~thr[t].cancelled /\ ~LiveNameTaken(thr[t].new, row)
FreshRow(t) == [name |-> thr[t].name, st |-> "running", desired |-> "running",
                pid |-> thr[t].pid, succ |-> 0]

-----------------------------------------------------------------------------
(* The driver, as seen through process.Manager. *)

Status(i) == CASE hpid[i] = 0 -> "absent"
               [] hpid[i] # 0 /\ hpid[i] \notin live -> "exited"
               [] hpid[i] \in live /\ i \in stopping -> "stopping"
               [] OTHER -> "running"

\* A child ends by itself or by a signal, and the driver's reaper notices; nobody
\* reaps a child that Start has not registered yet.
Exit(p) ==
  /\ p \in live
  /\ ~\E t \in {"loop", "watch"} : thr[t].pc = "rbreg" /\ thr[t].pid = p
  /\ live' = live \ {p}
  /\ stopping' = stopping \ {i \in Ids : hpid[i] = p}
  /\ UNCHANGED <<diskVars, owner, lastPid, hpid, mapVars, daemonVars, thr>>

\* Stop failed: doStop reports it, every other caller ignores it.
StopError(t) == IF thr[t].op = "stop" THEN Done(t) ELSE Resume(t, thr[t].ret)

\* mgr.Stop: unknown ids and finished children answer at once.
MgrStop(t) ==
  LET i == thr[t].id IN
  /\ thr[t].pc = "mstop"
  /\ \/ /\ Status(i) = "absent" \/ thr[t].cancelled
        /\ StopError(t)
        /\ UNCHANGED stopping
     \/ /\ Status(i) = "exited" /\ ~thr[t].cancelled
        /\ Resume(t, thr[t].ret)
        /\ UNCHANGED stopping
     \/ /\ Status(i) \in {"running", "stopping"} /\ ~thr[t].cancelled
        /\ stopping' = stopping \cup {i}
        /\ thr' = [thr EXCEPT ![t].pc = "mwait", ![t].pid = hpid[i]]
  /\ UNCHANGED <<diskVars, kernelVars, hpid, mapVars, daemonVars>>

\* Mutant of ChildGone: the driver's Stop does not wait for the child.
ChildGone_Unwaited(p) == TRUE
ChildGone(p) == p \notin live

\* ... the child it signalled is gone, or the wait ended without that.
MgrStopReturn(t) ==
  /\ thr[t].pc = "mwait"
  /\ \/ ChildGone(thr[t].pid) /\ Resume(t, thr[t].ret)
     \/ thr[t].pid \in live /\ (StopMayFail \/ thr[t].cancelled) /\ StopError(t)
  /\ UNCHANGED <<diskVars, kernelVars, driverVars, mapVars, daemonVars>>

\* The kernel starts a child for id i.
NewChild(i) ==
  /\ lastPid < MaxPids
  /\ lastPid' = lastPid + 1
  /\ live' = live \cup {lastPid'}
  /\ owner' = [owner EXCEPT ![lastPid'] = i]

\* The driver's handle of id i is of child p from now on.
Register(i, p) ==
  /\ hpid' = [hpid EXCEPT ![i] = p]
  /\ stopping' = stopping \ {i}

\* mgr.Start of an id that nobody else starts.
Spawn(i) == NewChild(i) /\ Register(i, lastPid')

-----------------------------------------------------------------------------
(* Requests: decoding, resolveID and the row it returns. *)

Begin(c, op) == phase = "up" /\ op \in Ops /\ thr[c].pc = "idle"

\* resolveID finds a row by id or by name; the handler works on its copy.
Target(c, op, i, step, ret) ==
  /\ Begin(c, op)
  /\ Stored(i)
  /\ thr' = [thr EXCEPT ![c] = [Idle EXCEPT !.pc = step, !.op = op, !.id = i,
                                !.rec = store[i], !.name = store[i].name, !.ret = ret]]
  /\ UNCHANGED <<diskVars, kernelVars, driverVars, mapVars, daemonVars>>

\* The client hangs up or its deadline passes: the call's context is cancelled.
Cancel(c) ==
  /\ ClientsCancel
  /\ thr[c].pc # "idle" /\ ~thr[c].cancelled
  /\ thr' = [thr EXCEPT ![c].cancelled = TRUE]
  /\ UNCHANGED <<diskVars, kernelVars, driverVars, mapVars, daemonVars>>

-----------------------------------------------------------------------------
(* doStart, and doRun which calls it. *)

\* First look at the name: the map, under s.mu.
StartLookup(c, op, n, replace) ==
  /\ Begin(c, op)
  /\ thr' = [thr EXCEPT ![c] =
       [Idle EXCEPT !.pc = IF byName[n] = 0 THEN "scan" ELSE "getname", !.op = op,
                    !.id = byName[n], !.name = n, !.replace = replace]]
  /\ UNCHANGED <<diskVars, kernelVars, driverVars, mapVars, daemonVars>>

\* The mapped row: a terminal one frees the name, a missing one does not.
StartGetName(c) ==
  /\ thr[c].pc = "getname"
  /\ IF Reach(c, thr[c].id) /\ store[thr[c].id].st \in Terminal
       THEN Goto(c, "unname") ELSE Goto(c, "claim")
  /\ UNCHANGED <<diskVars, kernelVars, driverVars, mapVars, daemonVars>>

StartUnname(c) ==
  /\ thr[c].pc = "unname"
  /\ byName' = [byName EXCEPT ![thr[c].name] = 0]
  /\ Goto(c, "scan")
  /\ UNCHANGED <<diskVars, kernelVars, driverVars, auto, url, watchers, daemonVars>>

\* Second look: some non-terminal row of this name in the store.
NameHolders(c) == {i \in Ids : /\ Reach(c, i)
                               /\ store[i].name = thr[c].name
                               /\ store[i].st \notin Terminal}
StartScan(c) ==
  /\ thr[c].pc = "scan"
  /\ \/ /\ NameHolders(c) = {}
        /\ Goto(c, "launch")
     \/ \E i \in NameHolders(c) :
          thr' = [thr EXCEPT ![c].pc = "claim", ![c].id = i]
  /\ UNCHANGED <<diskVars, kernelVars, driverVars, mapVars, daemonVars>>

\* The name is in use: refused, or replace stops and deletes the holder.
StartClaim(c) ==
  /\ thr[c].pc = "claim"
  /\ IF thr[c].replace
       THEN thr' = [thr EXCEPT ![c].pc = "mstop", ![c].ret = "repldel"]
       ELSE Done(c)
  /\ UNCHANGED <<diskVars, kernelVars, driverVars, mapVars, daemonVars>>

ReplaceDelete(c) ==
  /\ thr[c].pc = "repldel"
  /\ store' = IF Reach(c, thr[c].id) THEN [store EXCEPT ![thr[c].id] = NoRec] ELSE store
  /\ Goto(c, "replmaps")
  /\ UNCHANGED <<kernelVars, driverVars, mapVars, daemonVars>>

ReplaceMaps(c) ==
  /\ thr[c].pc = "replmaps"
  /\ byName' = [byName EXCEPT ![thr[c].name] = 0]
  /\ auto' = auto \ {thr[c].id}
  /\ url' = url \ {thr[c].id}
  /\ Goto(c, "launch")
  /\ UNCHANGED <<diskVars, kernelVars, driverVars, watchers, daemonVars>>

\* A new id and its child (doRestart: with the flags of the predecessor).
LaunchNew(t, step, a, u) ==
  /\ lastId < MaxIds
  /\ ~thr[t].cancelled
  /\ lastId' = lastId + 1
  /\ Spawn(lastId')
  /\ thr' = [thr EXCEPT ![t].pc = step, ![t].new = lastId', ![t].pid = lastPid',
                        ![t].auto = a, ![t].url = u]
  /\ UNCHANGED <<diskVars, mapVars, phase, bootIds, loopIds, crashes>>

\* The request's auto_restart and health_url are fixed with the launch.
StartLaunch(c) ==
  /\ thr[c].pc = "launch"
  /\ \E a \in {FALSE, AutoRestart}, u \in {FALSE, HealthURL} :
       LaunchNew(c, "create", a, u)

\* Sandbox, env, secret or driver error, or a cancelled context: nothing ran.
LaunchNewFails(c) ==
  /\ thr[c].pc \in {"launch", "rlaunch"}
  /\ Done(c)
  /\ UNCHANGED <<diskVars, kernelVars, driverVars, mapVars, daemonVars>>

\* Mutant of UndoLaunch: a failed Create just reports the error.
UndoLaunch_Forgotten(c) == Done(c)
\* Create failed: the child of the new id is stopped.
UndoLaunch(c) ==
  thr' = [thr EXCEPT ![c].pc = "mstop", ![c].id = thr[c].new, ![c].ret = "idle"]

StartCreate(c) ==
  /\ thr[c].pc = "create"
  /\ IF CreateOK(c, FreshRow(c))
       THEN /\ store' = [store EXCEPT ![thr[c].new] = FreshRow(c)]
            /\ Goto(c, "publish")
       ELSE UndoLaunch(c) /\ UNCHANGED store
  /\ UNCHANGED <<kernelVars, driverVars, mapVars, daemonVars>>

With(S, i, b) == IF b THEN S \cup {i} ELSE S

StartPublish(c) ==
  LET i == thr[c].new IN
  /\ thr[c].pc = "publish"
  /\ byName' = [byName EXCEPT ![thr[c].name] = i]
  /\ auto' = With(auto, i, thr[c].auto)
  /\ url' = With(url, i, thr[c].url)
  /\ IF thr[c].op = "run"
       THEN thr' = [thr EXCEPT ![c].pc = "runget", ![c].id = i]
       ELSE Done(c)
  /\ UNCHANGED <<diskVars, kernelVars, driverVars, watchers, daemonVars>>

\* doRun reads the row back and marks it desired=stopped ...
RunGet(c) ==
  /\ thr[c].pc = "runget"
  /\ IF Reach(c, thr[c].id)
       THEN thr' = [thr EXCEPT ![c].pc = "runput", ![c].rec = store[thr[c].id]]
       ELSE Done(c)
  /\ UNCHANGED <<diskVars, kernelVars, driverVars, mapVars, daemonVars>>

\* ... and returns, or goes on as doWait.
RunPut(c) ==
  /\ thr[c].pc = "runput"
  /\ Update(c, [thr[c].rec EXCEPT !.desired = "stopped"])
  /\ Done(c) \/ Goto(c, "reget")
  /\ UNCHANGED <<kernelVars, driverVars, mapVars, daemonVars>>

\* doWait and doRestart called by another handler resolve the id again.
Reget(c) ==
  /\ thr[c].pc = "reget"
  /\ IF Reach(c, thr[c].id)
       THEN thr' = [thr EXCEPT ![c].pc = IF thr[c].op = "run" THEN "wlook" ELSE "mstop",
                               ![c].rec = store[thr[c].id]]
       ELSE Done(c)
  /\ UNCHANGED <<diskVars, kernelVars, driverVars, mapVars, daemonVars>>

-----------------------------------------------------------------------------
(* doStop, doRestart, doRemove *)

StopBegin(c, i) ==
  /\ Stored(i) /\ store[i].st \notin Terminal
  /\ Target(c, "stop", i, "mstop", "stopinsp")

\* What Inspect shows after Stop becomes the row's status.
StopInspect(c) ==
  LET s == Status(thr[c].id) IN
  /\ thr[c].pc = "stopinsp"
  /\ thr' = [thr EXCEPT ![c].pc = "stopput", ![c].rec.desired = "stopped",
                        ![c].rec.st = IF s = "absent" THEN "exited" ELSE s]
  /\ UNCHANGED <<diskVars, kernelVars, driverVars, mapVars, daemonVars>>

\* The last Update of a handler, whose outcome it ignores or just reports.
PutAndReturn(t, step, row) ==
  /\ thr[t].pc = step
  /\ Update(t, row)
  /\ Done(t)
  /\ UNCHANGED <<kernelVars, driverVars, mapVars, daemonVars>>

StopPut(c) == PutAndReturn(c, "stopput", thr[c].rec)

RestartBegin(c, i) == Target(c, "restart", i, "mstop", "rlaunch")

RestartLaunch(c) ==
  /\ thr[c].pc = "rlaunch"
  /\ LaunchNew(c, "rlink", thr[c].id \in auto, thr[c].id \in url)

\* The predecessor becomes terminal and linked, so that it frees the name.
RestartLink(c) ==
  LET row == [thr[c].rec EXCEPT !.st = "exited", !.desired = "stopped",
                                !.succ = thr[c].new] IN
  /\ thr[c].pc = "rlink"
  /\ Update(c, row)
  /\ Goto(c, "rcreate")
  /\ UNCHANGED <<kernelVars, driverVars, mapVars, daemonVars>>

RestartCreate(c) ==
  /\ thr[c].pc = "rcreate"
  /\ IF CreateOK(c, FreshRow(c))
       THEN /\ store' = [store EXCEPT ![thr[c].new] = FreshRow(c)]
            /\ Goto(c, "rpublish")
       ELSE UndoLaunch(c) /\ UNCHANGED store
  /\ UNCHANGED <<kernelVars, driverVars, mapVars, daemonVars>>

\* The maps move to the successor; the watcher stays with the predecessor.
RestartPublish(c) ==
  /\ thr[c].pc = "rpublish"
  /\ byName' = [byName EXCEPT ![thr[c].name] = thr[c].new]
  /\ auto' = With(auto, thr[c].new, thr[c].auto) \ {thr[c].id}
  /\ url' = With(url, thr[c].new, thr[c].url) \ {thr[c].id}
  /\ Done(c)
  /\ UNCHANGED <<diskVars, kernelVars, driverVars, watchers, daemonVars>>

RemoveBegin(c, i) == Target(c, "remove", i, "mstop", "rmdel")

RemoveDelete(c) ==
  /\ thr[c].pc = "rmdel"
  /\ IF Reach(c, thr[c].id)
       THEN store' = [store EXCEPT ![thr[c].id] = NoRec] /\ Goto(c, "rmmaps")
       ELSE Done(c) /\ UNCHANGED store
  /\ UNCHANGED <<kernelVars, driverVars, mapVars, daemonVars>>

RemoveMaps(c) ==
  /\ thr[c].pc = "rmmaps"
  /\ byName' = [byName EXCEPT ![thr[c].name] = 0]
  /\ auto' = auto \ {thr[c].id}
  /\ url' = url \ {thr[c].id}
  /\ Done(c)
  /\ UNCHANGED <<diskVars, kernelVars, driverVars, watchers, daemonVars>>

-----------------------------------------------------------------------------
(* doEnable, doWait, doHealthCheck, doUpdate, doWatchSet *)

EnableBegin(c, i) == Target(c, "enable", i, "enput", "idle")
EnablePut(c) == PutAndReturn(c, "enput", [thr[c].rec EXCEPT !.desired = "running"])

DisableBegin(c, i) == Target(c, "disable", i, "disput", "disend")

DisablePut(c) ==
  LET row == [thr[c].rec EXCEPT !.desired = "stopped"] IN
  /\ thr[c].pc = "disput"
  /\ Update(c, row)
  /\ IF UpdateOK(c, row)
       THEN thr' = [thr EXCEPT ![c].pc = "disinsp", ![c].rec = row]
       ELSE Done(c)
  /\ UNCHANGED <<kernelVars, driverVars, mapVars, daemonVars>>

\* "Stop if still running": a child that is already stopping is left alone.
DisableInspect(c) ==
  /\ thr[c].pc = "disinsp"
  /\ IF Status(thr[c].id) = "running" /\ ~thr[c].cancelled
       THEN Goto(c, "mstop") ELSE Done(c)
  /\ UNCHANGED <<diskVars, kernelVars, driverVars, mapVars, daemonVars>>

DisableEnd(c) == PutAndReturn(c, "disend", [thr[c].rec EXCEPT !.st = "exited"])

WaitBegin(c, i) == Target(c, "wait", i, "wlook", "idle")

\* mgr.Wait looks the id up and waits for the child it finds, for timeout_sec
\* ("wwait") or, without one, as long as the call's context lives ("uwait").
WaitLook(c) ==
  /\ thr[c].pc = "wlook"
  /\ IF Status(thr[c].id) = "absent" \/ thr[c].cancelled
       THEN Done(c)
       ELSE \E s \in {"wwait", "uwait"} :
              thr' = [thr EXCEPT ![c].pc = s, ![c].pid = hpid[thr[c].id]]
  /\ UNCHANGED <<diskVars, kernelVars, driverVars, mapVars, daemonVars>>

\* The child is gone, or the request's timeout or its client gave up first.
WaitReturn(c) ==
  /\ thr[c].pc \in {"wwait", "uwait"}
  /\ \/ thr[c].pid \notin live /\ Goto(c, "waitput")
     \/ /\ thr[c].pid \in live
        /\ thr[c].pc = "wwait" \/ thr[c].cancelled
        /\ Done(c)
  /\ UNCHANGED <<diskVars, kernelVars, driverVars, mapVars, daemonVars>>

WaitPut(c) ==
  PutAndReturn(c, "waitput", [thr[c].rec EXCEPT !.st = "exited", !.pid = thr[c].pid])

HealthBegin(c, i) == Target(c, "health", i, "hprobe", "idle")

\* The URL if there is one, else the driver's handle.
HealthProbe(c) ==
  LET i == thr[c].id
      ok == IF i \in url THEN {TRUE, FALSE} ELSE {Status(i) = "running"}
  IN
  /\ thr[c].pc = "hprobe"
  /\ \E healthy \in ok :
       thr' = [thr EXCEPT ![c].pc = "hput",
                 ![c].rec.pid = IF i \notin url /\ healthy THEN hpid[i] ELSE @,
                 ![c].rec.st = IF ~healthy THEN "unhealthy"
                               ELSE IF i \notin url \/ @ = "unhealthy" THEN "running"
                               ELSE @]
  /\ UNCHANGED <<diskVars, kernelVars, driverVars, mapVars, daemonVars>>

HealthPut(c) == PutAndReturn(c, "hput", thr[c].rec)

UpdateBegin(c, i) == Target(c, "update", i, "upput", "rlaunch")

\* New command, cwd or env (not represented); then doRestart if asked for.
UpdatePut(c) ==
  /\ thr[c].pc = "upput"
  /\ Update(c, thr[c].rec)
  /\ Done(c) \/ (UpdateOK(c, thr[c].rec) /\ Goto(c, "reget"))
  /\ UNCHANGED <<kernelVars, driverVars, mapVars, daemonVars>>

WatchSet(c, i) ==
  /\ Begin(c, "watch")
  /\ Stored(i)
  /\ watchers' = watchers \cup {i}
  /\ UNCHANGED <<diskVars, kernelVars, driverVars, byName, auto, url, daemonVars, thr>>

-----------------------------------------------------------------------------
(* The auto-restart loop and the watchers, which share restartByID. *)

LoopTick ==
  /\ phase = "up" /\ loopIds = {} /\ thr["loop"].pc = "idle"
  /\ auto # {}
  /\ loopIds' = auto
  /\ UNCHANGED <<diskVars, kernelVars, driverVars, mapVars, phase, bootIds,
                 crashes, lastId, thr>>

\* probeRunningHealthy, then restartByID unless the restart budget is spent
\* (module Supervise); a failed probe first rewrites the row as unhealthy.
LoopVisit(i) ==
  LET goto(step) == thr' = [thr EXCEPT !["loop"] = [Idle EXCEPT !.pc = step, !.id = i]]
  IN
  /\ thr["loop"].pc = "idle" /\ i \in loopIds
  /\ loopIds' = loopIds \ {i}
  /\ \/ UNCHANGED thr
     \/ Status(i) # "running" /\ goto("rbget")
     \/ Status(i) = "running" /\ i \in url /\ goto("lpget")
  /\ UNCHANGED <<diskVars, kernelVars, driverVars, mapVars, phase, bootIds,
                 crashes, lastId>>

LoopUnhealthyGet ==
  /\ thr["loop"].pc = "lpget"
  /\ IF Stored(thr["loop"].id)
       THEN thr' = [thr EXCEPT !["loop"].pc = "lpput", !["loop"].rec = store[thr["loop"].id]]
       ELSE Goto("loop", "rbget")
  /\ UNCHANGED <<diskVars, kernelVars, driverVars, mapVars, daemonVars>>

LoopUnhealthyPut ==
  /\ thr["loop"].pc = "lpput"
  /\ Update("loop", [thr["loop"].rec EXCEPT !.st = "unhealthy"])
  /\ Goto("loop", "rbget") \/ Done("loop")
  /\ UNCHANGED <<kernelVars, driverVars, mapVars, daemonVars>>

\* A watched file changed.
WatchEvent(i) ==
  /\ phase = "up" /\ i \in watchers /\ thr["watch"].pc = "idle"
  /\ thr' = [thr EXCEPT !["watch"] = [Idle EXCEPT !.pc = "rbget", !.id = i]]
  /\ UNCHANGED <<diskVars, kernelVars, driverVars, mapVars, daemonVars>>

\* restartByID: read the row, stop the child, start the same id again.
RebootGet(t) ==
  /\ thr[t].pc = "rbget"
  /\ IF Stored(thr[t].id)
       THEN thr' = [thr EXCEPT ![t].pc = "mstop", ![t].ret = "rblaunch",
                               ![t].rec = store[thr[t].id]]
       ELSE Done(t)
  /\ UNCHANGED <<diskVars, kernelVars, driverVars, mapVars, daemonVars>>

Launchable(i) == Status(i) \in {"absent", "exited"}

\* mgr.Start of an id that may be known, under m.mu: refused unless its child has
\* exited, and then the finished handle is dropped ...
RebootLookup(t) ==
  /\ thr[t].pc = "rblaunch"
  /\ IF Launchable(thr[t].id)
       THEN hpid' = [hpid EXCEPT ![thr[t].id] = 0] /\ Goto(t, "rbspawn")
       ELSE UNCHANGED hpid /\ Done(t)
  /\ UNCHANGED <<diskVars, kernelVars, stopping, mapVars, daemonVars>>

\* ... then the child is started, with m.mu free ...
RebootSpawn(t) ==
  /\ thr[t].pc = "rbspawn"
  /\ NewChild(thr[t].id)
  /\ thr' = [thr EXCEPT ![t].pc = "rbreg", ![t].pid = lastPid']
  /\ UNCHANGED <<diskVars, driverVars, mapVars, daemonVars>>

\* ... or cannot be: sandbox, log files or the command.
RebootSpawnFails(t) ==
  /\ thr[t].pc = "rbspawn"
  /\ Done(t)
  /\ UNCHANGED <<diskVars, kernelVars, driverVars, mapVars, daemonVars>>

\* Mutant of RebootRegister: the driver does not look again before it registers.
RebootRegister_Unchecked(t) ==
  /\ thr[t].pc = "rbreg"
  /\ Register(thr[t].id, thr[t].pid) /\ Goto(t, "rbput")
  /\ UNCHANGED <<diskVars, kernelVars, mapVars, daemonVars>>
\* ... and registered under m.mu, unless another Start of the id came first: then
\* this child is killed.
RebootRegister(t) ==
  /\ thr[t].pc = "rbreg"
  /\ IF Launchable(thr[t].id)
       THEN Register(thr[t].id, thr[t].pid) /\ Goto(t, "rbput")
       ELSE UNCHANGED driverVars /\ Goto(t, "rbkill")
  /\ UNCHANGED <<diskVars, kernelVars, mapVars, daemonVars>>

\* SIGKILL and Process.Wait, then ErrAlreadyExists.
RebootKilled(t) ==
  /\ thr[t].pc = "rbkill" /\ thr[t].pid \notin live
  /\ Done(t)
  /\ UNCHANGED <<diskVars, kernelVars, driverVars, mapVars, daemonVars>>

RebootPut(t) ==
  PutAndReturn(t, "rbput", [thr[t].rec EXCEPT !.st = "running", !.desired = "running",
                                             !.pid = thr[t].pid])

-----------------------------------------------------------------------------
(* Death of the daemon and boot relaunch, which ends before serving starts. *)

Crash ==
  /\ phase # "down" /\ crashes < MaxCrashes
  /\ crashes' = crashes + 1
  /\ phase' = "down"
  /\ hpid' = [i \in Ids |-> 0] /\ stopping' = {}
  /\ byName' = [n \in Names |-> 0] /\ auto' = {} /\ url' = {} /\ watchers' = {}
  /\ loopIds' = {} /\ bootIds' = {}
  /\ thr' = [t \in Threads |-> Idle]
  /\ UNCHANGED <<diskVars, kernelVars, lastId>>

BootList ==
  /\ phase = "down"
  /\ phase' = "boot"
  /\ bootIds' = {i \in Ids : Stored(i) /\ store[i].desired = "running"}
  /\ UNCHANGED <<diskVars, kernelVars, driverVars, mapVars, loopIds, crashes, lastId, thr>>

\* Mutant of pidAlive: the probe always says dead.
pidAlive_Never(p) == FALSE
pidAlive(p) == p \in live

\* One record: its name is mapped; a live persisted PID is adopted.
BootVisit(i) ==
  /\ thr["boot"].pc = "idle" /\ i \in bootIds
  /\ bootIds' = bootIds \ {i}
  /\ byName' = [byName EXCEPT ![store[i].name] = i]
  /\ IF pidAlive(store[i].pid)
       THEN UNCHANGED thr
       ELSE thr' = [thr EXCEPT !["boot"] = [Idle EXCEPT !.pc = "bootlaunch", !.id = i,
                                                        !.rec = store[i]]]
  /\ UNCHANGED <<diskVars, kernelVars, driverVars, auto, url, watchers, phase, loopIds,
                 crashes, lastId>>

\* Boot runs alone, so that no Start of the same id can come between.
BootLaunch ==
  /\ thr["boot"].pc = "bootlaunch"
  /\ Launchable(thr["boot"].id)
  /\ Spawn(thr["boot"].id)
  /\ thr' = [thr EXCEPT !["boot"].pc = "bootput", !["boot"].pid = lastPid']
  /\ UNCHANGED <<diskVars, mapVars, daemonVars>>

BootLaunchFails ==
  /\ thr["boot"].pc = "bootlaunch"
  /\ Goto("boot", "bootfail")
  /\ UNCHANGED <<diskVars, kernelVars, driverVars, mapVars, daemonVars>>

BootPut == PutAndReturn("boot", "bootput", [thr["boot"].rec EXCEPT !.st = "running",
                                                          !.pid = thr["boot"].pid])
\* Mutant of BootFailed: the launch is tried again until it works.
BootFailed_Retry ==
  /\ thr["boot"].pc = "bootfail"
  /\ Goto("boot", "bootlaunch")
  /\ UNCHANGED <<diskVars, kernelVars, driverVars, mapVars, daemonVars>>
\* The row becomes failed, and the next one is visited.
BootFailed == PutAndReturn("boot", "bootfail", [thr["boot"].rec EXCEPT !.st = "failed"])

BootServe ==
  /\ phase = "boot" /\ bootIds = {} /\ thr["boot"].pc = "idle"
  /\ phase' = "up"
  /\ UNCHANGED <<diskVars, kernelVars, driverVars, mapVars, bootIds, loopIds, crashes,
                 lastId, thr>>

-----------------------------------------------------------------------------
(* Specification *)

Request(c) ==
  \/ \E op \in {"start", "run"}, n \in Names, r \in BOOLEAN : StartLookup(c, op, n, r)
  \/ \E i \in Ids : \/ StopBegin(c, i) \/ RestartBegin(c, i) \/ RemoveBegin(c, i)
                    \/ EnableBegin(c, i) \/ DisableBegin(c, i) \/ WaitBegin(c, i)
                    \/ HealthBegin(c, i) \/ UpdateBegin(c, i) \/ WatchSet(c, i)

DriverStep(t) == MgrStop(t) \/ MgrStopReturn(t)

HandlerStep(c) ==
  \/ DriverStep(c)
  \/ StartGetName(c) \/ StartUnname(c) \/ StartScan(c) \/ StartClaim(c)
  \/ ReplaceDelete(c) \/ ReplaceMaps(c) \/ StartLaunch(c) \/ LaunchNewFails(c)
  \/ StartCreate(c) \/ StartPublish(c) \/ RunGet(c) \/ RunPut(c) \/ Reget(c)
  \/ StopInspect(c) \/ StopPut(c)
  \/ RestartLaunch(c) \/ RestartLink(c) \/ RestartCreate(c) \/ RestartPublish(c)
  \/ RemoveDelete(c) \/ RemoveMaps(c)
  \/ EnablePut(c) \/ DisablePut(c) \/ DisableInspect(c) \/ DisableEnd(c)
  \/ WaitLook(c) \/ WaitReturn(c) \/ WaitPut(c)
  \/ HealthProbe(c) \/ HealthPut(c) \/ UpdatePut(c)

RebootStep(t) ==
  \/ DriverStep(t) \/ RebootGet(t)
  \/ RebootLookup(t) \/ RebootSpawn(t) \/ RebootSpawnFails(t) \/ RebootRegister(t)
  \/ RebootKilled(t) \/ RebootPut(t)

LoopStep == LoopTick \/ (\E i \in Ids : LoopVisit(i)) \/ LoopUnhealthyGet
            \/ LoopUnhealthyPut \/ RebootStep("loop")
WatchStep == (\E i \in Ids : WatchEvent(i)) \/ RebootStep("watch")
BootStep == BootList \/ (\E i \in Ids : BootVisit(i)) \/ BootLaunch \/ BootLaunchFails
            \/ BootPut \/ BootFailed \/ BootServe

Next ==
  \/ \E c \in Clients : Request(c) \/ Cancel(c) \/ HandlerStep(c)
  \/ LoopStep \/ WatchStep \/ BootStep \/ Crash
  \/ \E p \in Pids : Exit(p)

Spec == Init /\ [][Next]_vars

\* Handlers and boot run to their end (Go schedules every goroutine, the driver's
\* Stop has a timeout), and a call that only its context ends has a deadline
\* (Client.Call, ipc/client.go: 60 s when the caller gave none).  Children owe
\* nothing, nor do clients otherwise.
Deadline(c) == thr[c].pc = "uwait" /\ Cancel(c)
Fairness ==
  /\ \A c \in Clients : WF_vars(HandlerStep(c)) /\ WF_vars(Deadline(c))
  /\ WF_vars(BootStep)

FairSpec == Spec /\ Fairness

-----------------------------------------------------------------------------
(* Safety *)

\* Some thread still answers for this child.
InCharge(p) == \E t \in Threads : thr[t].pc # "idle" /\ thr[t].pid = p

\* Every running child can be found and stopped: it has a row, or the call that
\* launched it is still at work ("An agent that can start work must also be
\* able to see it, stop it", README.md).
NoOrphan == \A p \in live : Stored(owner[p]) \/ InCharge(p)

\* The inventory never shows two running children under one name: "exactly one
\* live process per (project_id, name)" (sqlite.go, migration 3).
OneLivePerName ==
  \A p, q \in live :
    /\ Stored(owner[p]) /\ Stored(owner[q])
    /\ store[owner[p]].name = store[owner[q]].name
    => p = q

\* A row that says exited or failed has no running child.
TerminalIsDead ==
  \A p \in live : Stored(owner[p]) => store[owner[p]].st \notin Terminal

\* The rows are sound: types, every handler that edits a row has read one, and
\* what a row says of the end of its child is true (server.go, doStop).
RowsSound == TypeOK /\ TerminalIsDead

\* Boot relaunch adopts a child that survived the daemon rather than start a
\* second instance of the same process (server.go, RelaunchEligible).
OneInstancePerId == \A p, q \in live : owner[p] = owner[q] => p = q

\* A restart has started this child and the driver does not know it: not yet, or
\* never, because another restart of the same id came first.
Unregistered(p) == \E t \in {"loop", "watch"} : /\ thr[t].pc \in {"rbreg", "rbkill"}
                                               /\ thr[t].pid = p

\* Of the running children of an id the driver knows one; while two restarts race
\* there may be more, each in the hands of a restart that registers or kills it
\* ("Re-check under lock in case of concurrent Start with same ID", local.go).
OneInService == \A p \in live : hpid[owner[p]] = p \/ Unregistered(p)

-----------------------------------------------------------------------------
(* Action properties *)

\* No process whose row says desired=stopped is launched: "intentional stops
\* must not trigger restarts" (supervise/loop.go).
StoppedStaysStopped ==
  [][\A i \in Ids : /\ hpid'[i] \notin {0, hpid[i]}
                    /\ Stored(i)
                    => store[i].desired = "running"]_vars

-----------------------------------------------------------------------------
(* What the daemon assumes of its driver *)

handle == [i \in Ids |-> Status(i)]
Driver == INSTANCE ManagerSpec WITH Instances <- Pids, NoInstance <- 0, inst <- hpid

\* While the daemon lives, its driver steps are the ones the drivers are shown
\* to offer (LocalManager refines the same contract), two restarts of one id
\* included: a running child is never replaced or forgotten, and none runs beside
\* the one the driver knows, but in the hands of a restart.
DriverContract == Driver!Spec /\ [][OneInService']_vars

-----------------------------------------------------------------------------
(* Liveness *)

\* Every request comes to an end, even when the child it stops never dies.
RequestsFinish == \A c \in Clients : []<>(thr[c].pc = "idle")

\* After a crash the daemon serves again, however many relaunches fail.
BootCompletes == phase # "up" ~> phase = "up"

\* The daemon always comes back to serve, and always answers.
DaemonAnswers == RequestsFinish /\ BootCompletes
=============================================================================
