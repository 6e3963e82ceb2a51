-------------------------- MODULE ContainerManager --------------------------
(***************************************************************************)
(* The container driver behind the router (internal/process/router.go,     *)
(* internal/process/container/container.go) and what internal/engine/cli.go *)
(* makes of the podman or docker CLI.                                      *)
(*                                                                         *)
(* drivers.Open makes a new container.Manager for every Start, and only    *)
(* the first Start of an id carries an image (restarts and relaunches pass *)
(* none and are refused), so an id has at most one manager with one entry. *)
(* A critical section of m.mu is one step; an engine command runs outside  *)
(* the lock and takes effect in a step of its own, so what it answered may *)
(* be stale when the next critical section uses it.                        *)
(***************************************************************************)
EXTENDS Naturals, FiniteSets

CONSTANTS
  Ids,            \* process ids
  Containers,     \* engine container ids, never reused
  Callers,        \* goroutines calling the router
  EngineMayFail,  \* TRUE: a CLI command may fail for a reason of its own
  NoContainer

ASSUME ContainerAssumption ==
  /\ NoContainer \notin Containers
  /\ EngineMayFail \in BOOLEAN

VARIABLES
  byID,      \* router: ids routed to their container manager
  cid,       \* e.containerID, NoContainer while m.procs has no entry
  status,    \* e.status
  exitCode,  \* e.exitCode: "nil", "zero" or "nonzero"
  closes,    \* how often close(e.done) ran
  state,     \* engine: "none", "running", "exited", "removed"
  outcome,   \* engine: "up" and healthy, "sick", or how it ended
  call       \* per caller: op, id, container, engine answer, pc, result

vars == <<byID, cid, status, exitCode, closes, state, outcome, call>>
entryVars == <<cid, status, exitCode, closes>>
engineVars == <<state, outcome>>

Statuses == {"absent", "running", "unhealthy", "stopping", "exited", "crashed"}
Ends == {"clean", "oom", "error"}      \* exit 0, exit 0 after an OOM kill, exit # 0
Replies == {"none", "failed", "up", "sick"} \cup Ends
StopSteps == {"engstop", "final"}
InspectSteps == {"query", "apply"}
Steps == {"idle", "run", "register", "route", "wait"} \cup StopSteps \cup InspectSteps
Calls == [op: {"none", "start", "stop", "wait", "inspect"}, id: Ids,
          cid: Containers \cup {NoContainer}, reply: Replies,
          pc: Steps, res: Statuses \cup {"none", "ok", "failed", "notfound", "cancelled"}]

\* Types; close(e.done) a second time would panic.
TypeOK ==
  /\ byID \subseteq Ids
  /\ cid \in [Ids -> Containers \cup {NoContainer}]
  /\ status \in [Ids -> Statuses]
  /\ exitCode \in [Ids -> {"nil", "zero", "nonzero"}]
  /\ closes \in [Ids -> 0..1]
  /\ state \in [Containers -> {"none", "running", "exited", "removed"}]
  /\ outcome \in [Containers -> {"up", "sick"} \cup Ends]
  /\ call \in [Callers -> Calls]

isTerminal(s) == s \in {"exited", "crashed"}

Init ==
  /\ byID = {}
  /\ cid = [i \in Ids |-> NoContainer]
  /\ status = [i \in Ids |-> "absent"]
  /\ exitCode = [i \in Ids |-> "nil"]
  /\ closes = [i \in Ids |-> 0]
  /\ state = [k \in Containers |-> "none"]
  /\ outcome = [k \in Containers |-> "up"]
  /\ call \in {[c \in Callers |-> [op |-> "none", id |-> i, cid |-> NoContainer,
                 reply |-> "none", pc |-> "idle", res |-> "none"]] : i \in Ids}

Goto(c, step) == call' = [call EXCEPT ![c].pc = step]
Return(c, r) == call' = [call EXCEPT ![c].pc = "idle", ![c].res = r]
Begin(c, op, i, step, r) ==
  call' = [call EXCEPT ![c] = [op |-> op, id |-> i, cid |-> cid[i], reply |-> "none",
                               pc |-> step, res |-> r]]

\* Mutant of closeOnce: the select is gone.
closeOnce_Unguarded(n) == n + 1
\* The select that guards every close of e.done.
closeOnce(n) == IF n = 0 THEN 1 ELSE n

-----------------------------------------------------------------------------
(* Engine *)

\* The main process ends by itself.
ContainerEnds(k) ==
  /\ state[k] = "running"
  /\ state' = [state EXCEPT ![k] = "exited"]
  /\ \E how \in Ends : outcome' = [outcome EXCEPT ![k] = how]
  /\ UNCHANGED <<byID, entryVars, call>>

\* buildRunSpec never sets NoRemove, so runArgs passes --rm: the engine deletes
\* the container some time after it ended.
AutoRemove(k) ==
  /\ state[k] = "exited"
  /\ state' = [state EXCEPT ![k] = "removed"]
  /\ UNCHANGED <<byID, entryVars, outcome, call>>

HealthFlips(k) ==
  /\ state[k] = "running"
  /\ outcome' = [outcome EXCEPT ![k] = IF @ = "up" THEN "sick" ELSE "up"]
  /\ UNCHANGED <<byID, entryVars, state, call>>

-----------------------------------------------------------------------------
(* Start *)

\* The one Start of an id that carries an image: pick, drivers.Open, validation.
\* An id whose Start failed was never published, and so stands for a fresh one.
Start(c, i) ==
  /\ call[c].pc = "idle"
  /\ status[i] = "absent"
  /\ \A d \in Callers : call[d].id = i => call[d].pc \notin {"run", "register", "route"}
  /\ Begin(c, "start", i, "run", "none")
  /\ UNCHANGED <<byID, entryVars, engineVars>>

\* A Start without an image (doRestart, restartByID): refused.
StartNoImage(c, i) ==
  /\ call[c].pc = "idle" /\ i \in byID
  /\ Begin(c, "start", i, "idle", "failed")
  /\ UNCHANGED <<byID, entryVars, engineVars>>

RunContainer(c) ==
  /\ call[c].pc = "run"
  /\ \E k \in Containers :
       /\ state[k] = "none"
       /\ state' = [state EXCEPT ![k] = "running"]
       /\ call' = [call EXCEPT ![c].cid = k, ![c].pc = "register"]
  /\ UNCHANGED <<byID, entryVars, outcome>>

\* Run failed; when the CLI was killed half way the container may run all the same.
RunFails(c) ==
  /\ EngineMayFail
  /\ call[c].pc = "run"
  /\ \E K \in {{}} \cup {{k} : k \in Containers} :
       /\ \A k \in K : state[k] = "none"
       /\ state' = [k \in Containers |-> IF k \in K THEN "running" ELSE state[k]]
  /\ Return(c, "failed")
  /\ UNCHANGED <<byID, entryVars, outcome>>

\* m.procs[spec.ID] = e; the manager is new, so the id is never taken.
StartRegister(c) ==
  /\ call[c].pc = "register"
  /\ LET i == call[c].id IN
       /\ cid' = [cid EXCEPT ![i] = call[c].cid]
       /\ status' = [status EXCEPT ![i] = "running"]
  /\ Goto(c, "route")
  /\ UNCHANGED <<byID, exitCode, closes, engineVars>>

\* r.byID[spec.ID] = m: from here on the id reaches the manager.
StartRoute(c) ==
  /\ call[c].pc = "route"
  /\ byID' = byID \cup {call[c].id}
  /\ Return(c, "ok")
  /\ UNCHANGED <<entryVars, engineVars>>

\* Router.mgr falls back to the local driver, which does not know the id.
NotRouted(c, i) ==
  /\ call[c].pc = "idle" /\ i \notin byID
  /\ \E op \in {"stop", "wait", "inspect"} : Begin(c, op, i, "idle", "notfound")
  /\ UNCHANGED <<byID, entryVars, engineVars>>

-----------------------------------------------------------------------------
(* Stop *)

AlreadyStopped(i) == isTerminal(status[i])

StopLock(c, i) ==
  /\ call[c].pc = "idle" /\ i \in byID
  /\ IF AlreadyStopped(i)
       THEN Begin(c, "stop", i, "idle", "ok") /\ UNCHANGED status
       ELSE /\ Begin(c, "stop", i, "engstop", "none")
            /\ status' = [status EXCEPT ![i] = "stopping"]
  /\ UNCHANGED <<byID, cid, exitCode, closes, engineVars>>

\* `stop` succeeds on a running or an exited container.
EngineStops(c) ==
  /\ call[c].pc = "engstop"
  /\ state[call[c].cid] \in {"running", "exited"}
  /\ IF state[call[c].cid] = "running"
       THEN /\ state' = [state EXCEPT ![call[c].cid] = "exited"]
            /\ \E how \in Ends : outcome' = [outcome EXCEPT ![call[c].cid] = how]
       ELSE UNCHANGED engineVars
  /\ Goto(c, "final")
  /\ UNCHANGED <<byID, entryVars>>

\* It fails on a removed one, or for a reason of its own.  The entry stays stopping.
StopError(c) == Return(c, "failed") /\ UNCHANGED entryVars

EngineStopFails(c) ==
  /\ call[c].pc = "engstop"
  /\ EngineMayFail \/ state[call[c].cid] = "removed"
  /\ StopError(c)
  /\ UNCHANGED <<byID, engineVars>>

StopFinal(c) ==
  /\ call[c].pc = "final"
  /\ LET i == call[c].id IN
       /\ exitCode' = [exitCode EXCEPT ![i] = "zero"]
       /\ status' = [status EXCEPT ![i] = "exited"]
       /\ closes' = [closes EXCEPT ![i] = closeOnce(@)]
  /\ Return(c, "ok")
  /\ UNCHANGED <<byID, cid, engineVars>>

-----------------------------------------------------------------------------
(* Wait *)

WaitLock(c, i) ==
  /\ call[c].pc = "idle" /\ i \in byID
  /\ IF isTerminal(status[i]) THEN Begin(c, "wait", i, "idle", status[i])
                              ELSE Begin(c, "wait", i, "wait", "none")
  /\ UNCHANGED <<byID, entryVars, engineVars>>

WaitDone(c) ==
  /\ call[c].pc = "wait" /\ closes[call[c].id] > 0
  /\ Return(c, status[call[c].id])
  /\ UNCHANGED <<byID, entryVars, engineVars>>

WaitCancelled(c) ==
  /\ call[c].pc = "wait"
  /\ Return(c, "cancelled")
  /\ UNCHANGED <<byID, entryVars, engineVars>>

-----------------------------------------------------------------------------
(* Inspect *)

InspectLock(c, i) ==
  /\ call[c].pc = "idle" /\ i \in byID
  /\ call' = [call EXCEPT ![c] =
       [op |-> "inspect", id |-> i, cid |-> cid[i], reply |-> "none",
        pc |-> IF isTerminal(status[i]) THEN "idle" ELSE "query",
        res |-> IF isTerminal(status[i]) THEN status[i] ELSE "none"]]
  /\ UNCHANGED <<byID, entryVars, engineVars>>

\* `inspect` answers, or fails for a reason of its own or because of --rm.
InspectQuery(c) ==
  /\ call[c].pc = "query"
  /\ \E r \in (IF state[call[c].cid] = "removed" THEN {} ELSE {outcome[call[c].cid]})
              \cup (IF EngineMayFail \/ state[call[c].cid] = "removed" THEN {"failed"} ELSE {}) :
       call' = [call EXCEPT ![c].reply = r, ![c].pc = "apply"]
  /\ UNCHANGED <<byID, entryVars, engineVars>>

\* Mutant of Refreshable: the re-check under the lock is gone.
Refreshable_NoRecheck(s) == s # "absent"
\* A concurrent Stop may have taken the entry over while the engine answered.
Refreshable(s) == s \in {"running", "unhealthy"}

exitStatus(how) == IF how = "clean" THEN "exited" ELSE "crashed"

\* Mutant of SeeExit: e.done is closed by Stop only.
SeeExit_KeepsDone(i, how) ==
  /\ status' = [status EXCEPT ![i] = exitStatus(how)]
  /\ exitCode' = [exitCode EXCEPT ![i] = IF how = "error" THEN "nonzero" ELSE "zero"]
  /\ UNCHANGED closes
\* The status, exit code and number of closes an answer gives the entry.
SeeExit(i, how) ==
  /\ status' = [status EXCEPT ![i] = exitStatus(how)]
  /\ exitCode' = [exitCode EXCEPT ![i] = IF how = "error" THEN "nonzero" ELSE "zero"]
  /\ closes' = [closes EXCEPT ![i] = closeOnce(@)]

SeeHealth(i, health) ==
  /\ status' = [status EXCEPT ![i] = IF health = "sick" THEN "unhealthy" ELSE "running"]
  /\ UNCHANGED <<exitCode, closes>>

InspectApply(c) ==
  /\ call[c].pc = "apply"
  /\ LET i == call[c].id
         r == call[c].reply
     IN CASE r # "failed" /\ Refreshable(status[i]) /\ r \in Ends -> SeeExit(i, r)
          [] r # "failed" /\ Refreshable(status[i]) /\ r \notin Ends -> SeeHealth(i, r)
          [] OTHER -> UNCHANGED <<status, exitCode, closes>>
  /\ Return(c, status'[call[c].id])
  /\ UNCHANGED <<byID, cid, engineVars>>

-----------------------------------------------------------------------------
(* Specification *)

StartStep(c) == RunContainer(c) \/ RunFails(c) \/ StartRegister(c) \/ StartRoute(c)
StopStep(c) == EngineStops(c) \/ EngineStopFails(c) \/ StopFinal(c)
InspectStep(c) == InspectQuery(c) \/ InspectApply(c)

NewCall(c) ==
  \E i \in Ids : Start(c, i) \/ StartNoImage(c, i) \/ NotRouted(c, i)
                 \/ StopLock(c, i) \/ WaitLock(c, i) \/ InspectLock(c, i)

Engine(k) == ContainerEnds(k) \/ AutoRemove(k) \/ HealthFlips(k)

Next ==
  \/ \E c \in Callers : \/ NewCall(c) \/ StartStep(c) \/ StopStep(c) \/ InspectStep(c)
                        \/ WaitDone(c) \/ WaitCancelled(c)
  \/ \E k \in Containers : Engine(k)

Spec == Init /\ [][Next]_vars

\* A goroutine whose channel is closed is scheduled; nothing else is owed.
FairSpec == Spec /\ \A c \in Callers : WF_vars(WaitDone(c))

-----------------------------------------------------------------------------
(* Properties *)

\* An entry that says exited or crashed has no running container behind it,
\* whichever of Stop and Inspect wrote it and whatever the engine answered.
TerminalMeansGone ==
  \A i \in Ids : isTerminal(status[i]) => state[cid[i]] \in {"exited", "removed"}

\* The entries are sound: types, no done channel closed twice (Go would panic),
\* and a recorded end that is true of the engine.
EntriesSound == TypeOK /\ TerminalMeansGone

\* Every Wait on an entry that has finished returns, also when Inspect rather
\* than Stop noticed the end ("Wait blocks until the process is stopped").
WaitersWake ==
  \A c \in Callers :
    (call[c].pc = "wait" /\ isTerminal(status[call[c].id])) ~> (call[c].pc # "wait")

\* The router with the container driver is a process.Manager like any other.
handle == [i \in Ids |-> CASE status[i] = "unhealthy" -> "running"
                           [] status[i] = "crashed" -> "exited"
                           [] OTHER -> status[i]]
Contract == INSTANCE ManagerSpec
  WITH Instances <- Containers, NoInstance <- NoContainer, inst <- cid
RefinesManager == Contract!Spec
=============================================================================
