---------------------------- MODULE LocalManager ----------------------------
(***************************************************************************)
(* The local process driver (internal/process/local/local.go): a map from  *)
(* process ids to child structs under one mutex m.mu, one reaper goroutine *)
(* per registered child, and any number of goroutines inside Start, Stop,  *)
(* Wait or Signal.  A critical section of m.mu is one step; everything the *)
(* code does outside the mutex (spawning, signalling, waiting, the atomic  *)
(* reaped flag) is a step of its own.                                      *)
(*                                                                         *)
(* A call keeps its result and the struct it worked on after it returns,   *)
(* so that properties can relate what was answered to what is true.        *)
(***************************************************************************)
EXTENDS Naturals, FiniteSets

CONSTANTS
  Ids,        \* process ids (StartSpec.ID)
  Procs,      \* child structs (*proc), one per spawned child, never reused
  Pids,       \* PIDs (= PGIDs, Setpgid) the kernel hands out and recycles
  Callers,    \* goroutines calling the Manager
  Stuck,      \* children a SIGKILL does not end (uninterruptible sleep), or whose
              \* output pipe a detached descendant keeps open
  AssignResults, \* what assignJobFn may return: "none" is the nil handle it
              \* returns off Windows, "job" a Job Object, "error" a failure
  NoProc, NoPid

ASSUME ManagerAssumption ==
  /\ NoProc \notin Procs
  /\ NoPid \notin Pids
  /\ Stuck \subseteq Procs
  /\ AssignResults \subseteq {"none", "job", "error"}

VARIABLES
  procs,   \* m.procs: id -> struct or NoProc
  status,  \* p.status; "unborn" before the spawn
  idOf,    \* p.id
  pidOf,   \* p.pid
  job,     \* p.job # nil
  reaped,  \* p.reaped
  reaper,  \* program counter of go m.reap(p)
  child,   \* kernel: "none", "alive", "zombie" or "gone" (reaped, PID freed)
  doomed,  \* kernel: SIGKILL delivered
  holder,  \* kernel: which child's group has this PID
  call     \* per caller: op, id, struct, strict profile, program counter, result

vars == <<procs, status, idOf, pidOf, job, reaped, reaper, child, doomed,
          holder, call>>

kernelVars == <<child, doomed, holder>>
structVars == <<status, idOf, pidOf, job, reaped, reaper>>

-----------------------------------------------------------------------------
(* States of the structs, the reapers and the calls. *)

Statuses == {"unborn", "running", "stopping", "exited"}
ReaperStates == {"none", "waiting", "waited", "flagged", "finished"}
ChildStates == {"none", "alive", "zombie", "gone"}
StartSteps == {"spawn", "assign", "register", "abort", "discard"}
StopSteps == {"termcheck", "term", "grace", "killcheck", "kill", "killwait"}
CallSteps == {"idle", "wait", "sigcheck", "signal"} \cup StartSteps \cup StopSteps
Ops == {"none", "start", "stop", "wait", "signal"}
Results == {"none", "ok", "exists", "failed", "notfound", "notrunning",
            "timeout", "cancelled"}
CallRecords == [op: Ops, id: Ids, p: Procs \cup {NoProc}, strict: BOOLEAN,
                cancelled: BOOLEAN, pc: CallSteps, res: Results]

\* Types, and no nil dereference: a call past its lookup has a struct.
TypeOK ==
  /\ procs \in [Ids -> Procs \cup {NoProc}]
  /\ status \in [Procs -> Statuses]
  /\ idOf \in [Procs -> Ids]
  /\ pidOf \in [Procs -> Pids \cup {NoPid}]
  /\ job \in [Procs -> BOOLEAN]
  /\ reaped \in [Procs -> BOOLEAN]
  /\ reaper \in [Procs -> ReaperStates]
  /\ child \in [Procs -> ChildStates]
  /\ doomed \in [Procs -> BOOLEAN]
  /\ holder \in [Pids -> Procs \cup {NoProc}]
  /\ call \in [Callers -> CallRecords]
  /\ \A c \in Callers : call[c].pc \notin {"idle", "spawn"} => call[c].p \in Procs

\* isTerminal: only "exited" occurs among the terminal statuses here (the
\* driver never writes failed or crashed).
isTerminal(s) == s = "exited"

\* The id is taken by a struct that has not finished.
Occupied(id) == procs[id] # NoProc /\ ~isTerminal(status[procs[id]])

Init ==
  /\ procs = [i \in Ids |-> NoProc]
  /\ status = [p \in Procs |-> "unborn"]
  /\ idOf \in {[p \in Procs |-> i] : i \in Ids}
  /\ pidOf = [p \in Procs |-> NoPid]
  /\ job = [p \in Procs |-> FALSE]
  /\ reaped = [p \in Procs |-> FALSE]
  /\ reaper = [p \in Procs |-> "none"]
  /\ child = [p \in Procs |-> "none"]
  /\ doomed = [p \in Procs |-> FALSE]
  /\ holder = [k \in Pids |-> NoProc]
  /\ call \in {[c \in Callers |-> [op |-> "none", id |-> i, p |-> NoProc,
                 strict |-> TRUE, cancelled |-> FALSE, pc |-> "idle",
                 res |-> "none"]] : i \in Ids}

Goto(c, step) == call' = [call EXCEPT ![c].pc = step]
Return(c, r) == call' = [call EXCEPT ![c].pc = "idle", ![c].res = r]
Begin(c, op, id, p, strict, step, r) ==
  call' = [call EXCEPT ![c] = [op |-> op, id |-> id, p |-> p, strict |-> strict,
                               cancelled |-> FALSE, pc |-> step, res |-> r]]

-----------------------------------------------------------------------------
(* Kernel: exit, reaping and signals. *)

\* cmd.Wait / Process.Wait returned: the child is reaped and its PID is free.
Reclaim(p) ==
  /\ child' = [child EXCEPT ![p] = "gone"]
  /\ holder' = [k \in Pids |-> IF holder[k] = p THEN NoProc ELSE holder[k]]

\* killTree(pid, sig): the signal reaches whichever group has the PID now.
killTree(p, fatal) ==
  LET q == holder[pidOf[p]]
  IN doomed' = IF /\ fatal /\ pidOf[p] # NoPid
                  /\ q # NoProc /\ child[q] = "alive"
                 THEN [doomed EXCEPT ![q] = TRUE] ELSE doomed

\* A child exits by itself or because of a signal; a zombie keeps its PID.
ChildExit(p) ==
  /\ child[p] = "alive"
  /\ child' = [child EXCEPT ![p] = "zombie"]
  /\ UNCHANGED <<procs, structVars, doomed, holder, call>>

-----------------------------------------------------------------------------
(* Start *)

\* First critical section: refuse a taken id, forget a finished struct.
StartCheck(c, id, strict) ==
  /\ call[c].pc = "idle"
  /\ IF Occupied(id)
       THEN /\ Begin(c, "start", id, NoProc, strict, "idle", "exists")
            /\ UNCHANGED procs
       ELSE /\ Begin(c, "start", id, NoProc, strict, "spawn", "none")
            /\ procs' = [procs EXCEPT ![id] = NoProc]
  /\ UNCHANGED <<structVars, kernelVars>>

\* Sandbox wrapping, log capture or cmd.Start failed: nothing was spawned.
StartFail(c) ==
  /\ call[c].pc = "spawn"
  /\ Return(c, "failed")
  /\ UNCHANGED <<procs, structVars, kernelVars>>

\* cmd.Start: a new child in its own process group, and its struct.
StartSpawn(c) ==
  /\ call[c].pc = "spawn"
  /\ \E p \in Procs, k \in Pids :
       /\ status[p] = "unborn"
       /\ holder[k] = NoProc
       /\ status' = [status EXCEPT ![p] = "running"]
       /\ idOf' = [idOf EXCEPT ![p] = call[c].id]
       /\ pidOf' = [pidOf EXCEPT ![p] = k]
       /\ child' = [child EXCEPT ![p] = "alive"]
       /\ holder' = [holder EXCEPT ![k] = p]
       /\ call' = [call EXCEPT ![c].p = p, ![c].pc = "assign"]
  /\ UNCHANGED <<procs, job, reaped, reaper, doomed>>

\* assignJobFn succeeded.
StartAssign(c) ==
  /\ call[c].pc = "assign"
  /\ \E r \in AssignResults \ {"error"} : job' = [job EXCEPT ![call[c].p] = (r = "job")]
  /\ Goto(c, "register")
  /\ UNCHANGED <<procs, status, idOf, pidOf, reaped, reaper, kernelVars>>

\* assignJobFn failed: the child is killed and waited for in "discard".
StartAssignFailed(c) ==
  /\ call[c].pc = "assign"
  /\ "error" \in AssignResults
  /\ killTree(call[c].p, TRUE)
  /\ Goto(c, "discard")
  /\ UNCHANGED <<procs, structVars, child, holder>>

\* ... then strict and standard fail closed, the other profiles go on to
\* register the struct of the child that was just killed.
StartDiscard(c) ==
  /\ call[c].pc = "discard"
  /\ child[call[c].p] = "zombie"
  /\ Reclaim(call[c].p)
  /\ IF call[c].strict THEN Return(c, "failed") ELSE Goto(c, "register")
  /\ UNCHANGED <<procs, structVars, doomed>>

\* Mutant of LostRace: the second critical section no longer re-checks.
LostRace_NoRecheck(id) == FALSE
LostRace(id) == Occupied(id)

\* Second critical section: a concurrent Start of the same id may have won.
StartRegister(c) ==
  LET p == call[c].p
      id == call[c].id
  IN /\ call[c].pc = "register"
     /\ ~LostRace(id)
     /\ procs' = [procs EXCEPT ![id] = p]
     /\ reaper' = [reaper EXCEPT ![p] = "waiting"]
     /\ Return(c, "ok")
     /\ UNCHANGED <<status, idOf, pidOf, job, reaped, kernelVars>>

\* The loser terminates its job, kills its child and waits for it.
StartLose(c) ==
  LET p == call[c].p
  IN /\ call[c].pc = "register"
     /\ LostRace(call[c].id)
     /\ job' = [job EXCEPT ![p] = FALSE]
     /\ killTree(p, TRUE)
     /\ Goto(c, "abort")
     /\ UNCHANGED <<procs, status, idOf, pidOf, reaped, reaper, child, holder>>

\* Process.Wait of the loser.  A child whose discard already reaped it has
\* nothing left to wait for.
StartAbort(c) ==
  /\ call[c].pc = "abort"
  /\ child[call[c].p] \in {"zombie", "gone"}
  /\ Reclaim(call[c].p)
  /\ Return(c, "exists")
  /\ UNCHANGED <<procs, structVars, doomed>>

-----------------------------------------------------------------------------
(* reap: the goroutine Start leaves behind. *)

\* The child is waited for, which frees its PID, inside cmd.Wait (at once, with
\* an error, when discard has waited before).
ReapWait(p) ==
  /\ reaper[p] = "waiting"
  /\ child[p] \in {"zombie", "gone"}
  /\ Reclaim(p)
  /\ reaper' = [reaper EXCEPT ![p] = "waited"]
  /\ UNCHANGED <<procs, status, idOf, pidOf, job, reaped, doomed, call>>

\* cmd.Wait has also drained the output pipes and returns: p.reaped.Store(true).
ReapFlag(p) ==
  /\ reaper[p] = "waited"
  /\ reaped' = [reaped EXCEPT ![p] = TRUE]
  /\ reaper' = [reaper EXCEPT ![p] = "flagged"]
  /\ UNCHANGED <<procs, status, idOf, pidOf, job, kernelVars, call>>

\* Mutant of reapedStatus: a struct that Stop marked "stopping" stays so.
reapedStatus_OnlyRunning(s) == IF s = "running" THEN "exited" ELSE s
reapedStatus(s) == IF s \in {"stopping", "running"} THEN "exited" ELSE s

\* The final critical section: terminal status, job and logs closed, done
\* closed.  done is closed exactly when the status becomes terminal, so a wait
\* on done is a wait for isTerminal.
ReapFinish(p) ==
  /\ reaper[p] = "flagged"
  /\ status' = [status EXCEPT ![p] = reapedStatus(@)]
  /\ job' = [job EXCEPT ![p] = FALSE]
  /\ reaper' = [reaper EXCEPT ![p] = "finished"]
  /\ UNCHANGED <<procs, idOf, pidOf, reaped, kernelVars, call>>

-----------------------------------------------------------------------------
(* Stop and forceKill *)

\* Mutant of AlreadyStopped: Stop marks a finished struct "stopping" again.
AlreadyStopped_NotChecked(p) == FALSE
AlreadyStopped(p) == isTerminal(status[p])

\* Critical section of Stop; force is the very short timeout.
StopLock(c, id, force) ==
  LET p == procs[id]
  IN /\ call[c].pc = "idle"
     /\ IF p = NoProc
          THEN /\ Begin(c, "stop", id, p, TRUE, "idle", "notfound")
               /\ UNCHANGED status
          ELSE IF AlreadyStopped(p)
          THEN /\ Begin(c, "stop", id, p, TRUE, "idle", "ok")
               /\ UNCHANGED status
          ELSE /\ Begin(c, "stop", id, p, TRUE,
                        IF force THEN "killcheck" ELSE "termcheck", "none")
               /\ status' = [status EXCEPT ![p] = "stopping"]
     /\ UNCHANGED <<procs, idOf, pidOf, job, reaped, reaper, kernelVars>>

\* if !p.reaped.Load() ...
StopTermCheck(c) ==
  /\ call[c].pc = "termcheck"
  /\ Goto(c, IF reaped[call[c].p] THEN "grace" ELSE "term")
  /\ UNCHANGED <<procs, structVars, kernelVars>>

\* ... killTree(pid, SIGTERM), which the child may ignore.
StopTerm(c) ==
  /\ call[c].pc = "term"
  /\ killTree(call[c].p, FALSE)
  /\ Goto(c, "grace")
  /\ UNCHANGED <<procs, structVars, child, holder>>

\* Mutant of GraceOver: the grace timer counts as a successful stop.
GraceOver_TimerIsSuccess(c) == TRUE
\* <-done
GraceOver(c) == isTerminal(status[call[c].p])

StopGraceDone(c) ==
  /\ call[c].pc = "grace"
  /\ GraceOver(c)
  /\ Return(c, "ok")
  /\ UNCHANGED <<procs, structVars, kernelVars>>

\* The timer or the caller's context ends the grace period: force kill.
StopGraceEnds(c) ==
  /\ call[c].pc = "grace"
  /\ \E cancelled \in BOOLEAN :
       call' = [call EXCEPT ![c].pc = "killcheck", ![c].cancelled = cancelled]
  /\ UNCHANGED <<procs, structVars, kernelVars>>

\* After forceKill: a cancelled grace period returns at once.
KillSent(c) ==
  IF call[c].cancelled THEN Return(c, "cancelled") ELSE Goto(c, "killwait")

\* forceKill: the Job Object is a kernel object and needs no PID; otherwise a
\* reaped child is left alone.  (A job closed since StopLock has a reaped child.)
StopKillCheck(c) ==
  LET p == call[c].p
  IN /\ call[c].pc = "killcheck"
     /\ IF job[p]
          THEN /\ doomed' = [doomed EXCEPT ![p] = (@ \/ child[p] = "alive")]
               /\ KillSent(c)
          ELSE /\ UNCHANGED doomed
               /\ IF reaped[p] THEN KillSent(c) ELSE Goto(c, "kill")
     /\ UNCHANGED <<procs, structVars, child, holder>>

\* killTree(pid, SIGKILL)
StopKill(c) ==
  /\ call[c].pc = "kill"
  /\ killTree(call[c].p, TRUE)
  /\ KillSent(c)
  /\ UNCHANGED <<procs, structVars, child, holder>>

StopKillDone(c) ==
  /\ call[c].pc = "killwait"
  /\ isTerminal(status[call[c].p])
  /\ Return(c, "ok")
  /\ UNCHANGED <<procs, structVars, kernelVars>>

\* The child outlived the SIGKILL and time.After(m.forceKillTimeout) fired (or the
\* caller's context ended).
StopKillTimeout(c) ==
  /\ call[c].pc = "killwait"
  /\ \E r \in {"timeout", "cancelled"} : Return(c, r)
  /\ UNCHANGED <<procs, structVars, kernelVars>>

-----------------------------------------------------------------------------
(* Wait and Signal *)

\* Mutant of WaitLock: waits without looking at what the map holds.
WaitLock_Unchecked(c, id) ==
  /\ call[c].pc = "idle"
  /\ Begin(c, "wait", id, procs[id], TRUE, "wait", "none")
  /\ UNCHANGED <<procs, structVars, kernelVars>>

WaitLock(c, id) ==
  LET p == procs[id]
  IN /\ call[c].pc = "idle"
     /\ IF p = NoProc THEN Begin(c, "wait", id, p, TRUE, "idle", "notfound")
        ELSE IF isTerminal(status[p]) THEN Begin(c, "wait", id, p, TRUE, "idle", "ok")
        ELSE Begin(c, "wait", id, p, TRUE, "wait", "none")
     /\ UNCHANGED <<procs, structVars, kernelVars>>

WaitDone(c) ==
  /\ call[c].pc = "wait"
  /\ isTerminal(status[call[c].p])
  /\ Return(c, "ok")
  /\ UNCHANGED <<procs, structVars, kernelVars>>

WaitCancelled(c) ==
  /\ call[c].pc = "wait"
  /\ Return(c, "cancelled")
  /\ UNCHANGED <<procs, structVars, kernelVars>>

SignalLock(c, id) ==
  LET p == procs[id]
  IN /\ call[c].pc = "idle"
     /\ IF p = NoProc THEN Begin(c, "signal", id, p, TRUE, "idle", "notfound")
        ELSE IF isTerminal(status[p])
        THEN Begin(c, "signal", id, p, TRUE, "idle", "notrunning")
        ELSE Begin(c, "signal", id, p, TRUE, "sigcheck", "none")
     /\ UNCHANGED <<procs, structVars, kernelVars>>

SignalCheck(c) ==
  /\ call[c].pc = "sigcheck"
  /\ IF reaped[call[c].p] THEN Return(c, "notrunning") ELSE Goto(c, "signal")
  /\ UNCHANGED <<procs, structVars, kernelVars>>

\* Any signal; the caller may have asked for SIGKILL.  No group: ESRCH.
SignalSend(c) ==
  /\ call[c].pc = "signal"
  /\ \E fatal \in BOOLEAN : killTree(call[c].p, fatal)
  /\ Return(c, IF holder[pidOf[call[c].p]] = NoProc THEN "notrunning" ELSE "ok")
  /\ UNCHANGED <<procs, structVars, child, holder>>

-----------------------------------------------------------------------------

StartStep(c) ==
  \/ StartFail(c) \/ StartSpawn(c) \/ StartAssign(c) \/ StartAssignFailed(c)
  \/ StartDiscard(c) \/ StartRegister(c) \/ StartLose(c) \/ StartAbort(c)

StopStep(c) ==
  \/ StopTermCheck(c) \/ StopTerm(c) \/ StopGraceDone(c) \/ StopGraceEnds(c)
  \/ StopKillCheck(c) \/ StopKill(c) \/ StopKillDone(c) \/ StopKillTimeout(c)

ReaperStep(p) == ReapWait(p) \/ ReapFlag(p) \/ ReapFinish(p)

NewCall(c) ==
  \E id \in Ids :
    \/ \E strict \in (IF "error" \in AssignResults THEN BOOLEAN ELSE {TRUE}) : StartCheck(c, id, strict)
    \/ \E force \in BOOLEAN : StopLock(c, id, force)
    \/ WaitLock(c, id)
    \/ SignalLock(c, id)

OtherStep(c) == WaitDone(c) \/ WaitCancelled(c) \/ SignalCheck(c) \/ SignalSend(c)

Next ==
  \/ \E c \in Callers : NewCall(c) \/ StartStep(c) \/ StopStep(c) \/ OtherStep(c)
  \/ \E p \in Procs : ReaperStep(p) \/ ChildExit(p)

Spec == Init /\ [][Next]_vars

\* Goroutines inside Start and Stop and the reapers keep running, timers fire,
\* and SIGKILL ends every child that is not stuck and closes its pipes.  Nobody has to make a call,
\* a child need not exit on its own, and a cancellable Wait may go on for ever.
Fairness ==
  /\ \A c \in Callers : WF_vars(StartStep(c)) /\ WF_vars(StopStep(c))
  /\ \A p \in Procs \ Stuck : /\ WF_vars(ReaperStep(p))
                              /\ WF_vars(doomed[p] /\ ChildExit(p))

FairSpec == Spec /\ Fairness

-----------------------------------------------------------------------------
(* Properties *)

\* The handle Inspect would show, and the contract seen through it.
handle == [i \in Ids |-> IF procs[i] = NoProc THEN "absent" ELSE status[procs[i]]]

Contract == INSTANCE ManagerSpec
  WITH Instances <- Procs, NoInstance <- NoProc, inst <- procs

\* Start, Stop and the reaper together implement the driver contract: a live
\* instance is never replaced by a racing Start, and no finished one comes back.
RefinesManager == Contract!Spec

HasChild(p) == child[p] \in {"alive", "zombie"}

\* The steps of Start between the spawn and its end, or the registration.
Holding == {"assign", "register", "abort", "discard"}

\* Some Start call still holds the child and will register or abandon it.
HeldByStart(p) ==
  \E c \in Callers : call[c].p = p /\ call[c].pc \in Holding

\* No child is lost: a child that exists is either the one its id maps to, with
\* a reaper waiting for it, or still in the hands of the Start that spawned it.
\* This is what the re-check under the second lock of Start is for; without it
\* two racing Starts of one id leave a running child nobody can stop.
NoLostChild ==
  \A p \in Procs :
    HasChild(p) => \/ procs[idOf[p]] = p /\ reaper[p] = "waiting"
                   \/ HeldByStart(p)

AnswerOK(c) ==
  call[c].op = "stop" /\ call[c].pc = "idle" /\ call[c].res = "ok"
    => call[c].p \in Procs /\ child[call[c].p] = "gone"

\* A nil error from Stop means the child it stopped is dead and reaped, on all
\* four ways out of Stop that return nil, whatever Starts and Signals race it.
StopMeansDead == \A c \in Callers : AnswerOK(c)

-----------------------------------------------------------------------------
(* The inductive invariant behind NoLostChild, StopMeansDead and the contract *)

\* The stages of a struct: spawned and unregistered (no reaper), registered with
\* a reaper on its way, finished.  Registration survives until the reaper is done.
StagesInv ==
  \A p \in Procs :
    /\ status[p] = "unborn" => child[p] = "none"
    /\ reaper[p] = "none" => status[p] \in {"unborn", "running"}
    /\ reaper[p] \in {"waiting", "waited", "flagged"}
         => status[p] \in {"running", "stopping"} /\ procs[idOf[p]] = p
    /\ reaper[p] = "finished" <=> status[p] = "exited"
    /\ reaper[p] \in {"waited", "flagged", "finished"} => child[p] = "gone"

\* A Start between its spawn and its second critical section owns its struct.
HeldInv ==
  \A c \in Callers :
    call[c].pc \in Holding =>
      /\ status[call[c].p] = "running"
      /\ reaper[call[c].p] = "none"
      /\ idOf[call[c].p] = call[c].id
      /\ \A d \in Callers \ {c} : call[d].pc \in Holding => call[d].p # call[c].p

RegisteredInv ==
  \A i \in Ids :
    procs[i] # NoProc => idOf[procs[i]] = i /\ reaper[procs[i]] # "none"

\* Each step belongs to its operation, and Stop works on a registered struct.
CallOK(c) ==
  /\ call[c].pc \in StartSteps => call[c].op = "start"
  /\ call[c].pc = "wait" => call[c].op = "wait"
  /\ call[c].pc \in {"sigcheck", "signal"} => call[c].op = "signal"
  /\ call[c].pc \in StopSteps =>
       call[c].op = "stop" /\ reaper[call[c].p] # "none"

CallInv == \A c \in Callers : CallOK(c)

Inv ==
  /\ TypeOK
  /\ StagesInv
  /\ HeldInv
  /\ RegisteredInv
  /\ CallInv
  /\ NoLostChild
  /\ StopMeansDead

-----------------------------------------------------------------------------
(* Liveness *)

\* Stop returns, whatever the child does: also when it survives SIGKILL.
StopReturns ==
  \A c \in Callers : (call[c].pc \in StopSteps) ~> (call[c].pc \notin StopSteps)

\* A registered child that got SIGKILL and can die is finalised: its struct
\* becomes terminal, which frees its id.
KilledIsFinalised ==
  \A p \in Procs \ Stuck :
    (doomed[p] /\ procs[idOf[p]] = p /\ reaper[p] = "waiting") ~> (status[p] = "exited")

\* A Stop comes to its end on both sides: for its caller, and for the child it killed.
StopEnds == StopReturns /\ KilledIsFinalised
=============================================================================
