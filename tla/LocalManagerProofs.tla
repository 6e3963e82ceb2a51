------------------------- MODULE LocalManagerProofs -------------------------
(***************************************************************************)
(* Proofs about LocalManager for every set of ids, structs, PIDs and       *)
(* callers: Inv is inductive, so no child is lost, a successful Stop means *)
(* a dead child, and the driver implements ManagerSpec.                    *)
(***************************************************************************)
EXTENDS LocalManager, TLAPS

(* How the three ways of updating a call record change it. *)

\* Goto moves one call to another step and keeps the rest of it.
LEMMA GotoFacts ==
  ASSUME call \in [Callers -> CallRecords], NEW c \in Callers,
         NEW s \in CallSteps, Goto(c, s)
  PROVE  /\ call' \in [Callers -> CallRecords]
         /\ call'[c].pc = s
         /\ call'[c].op = call[c].op /\ call'[c].id = call[c].id
         /\ call'[c].p = call[c].p /\ call'[c].res = call[c].res
         /\ \A d \in Callers \ {c} : call'[d] = call[d]
  BY DEF Goto, CallRecords

\* Return ends one call with a result.
LEMMA ReturnFacts ==
  ASSUME call \in [Callers -> CallRecords], NEW c \in Callers,
         NEW r \in Results, Return(c, r)
  PROVE  /\ call' \in [Callers -> CallRecords]
         /\ call'[c].pc = "idle" /\ call'[c].res = r
         /\ call'[c].op = call[c].op /\ call'[c].id = call[c].id
         /\ call'[c].p = call[c].p
         /\ \A d \in Callers \ {c} : call'[d] = call[d]
<1>1. "idle" \in CallSteps
  BY DEF CallSteps
<1> QED
  BY <1>1 DEF Return, CallRecords

\* Begin overwrites the record of an idle caller.
LEMMA BeginFacts ==
  ASSUME call \in [Callers -> CallRecords], NEW c \in Callers, NEW op \in Ops,
         NEW i \in Ids, NEW p \in Procs \cup {NoProc}, NEW b \in BOOLEAN,
         NEW s \in CallSteps, NEW r \in Results, Begin(c, op, i, p, b, s, r)
  PROVE  /\ call' \in [Callers -> CallRecords]
         /\ call'[c].pc = s /\ call'[c].op = op /\ call'[c].id = i
         /\ call'[c].p = p /\ call'[c].res = r
         /\ \A d \in Callers \ {c} : call'[d] = call[d]
  BY DEF Begin, CallRecords

\* A signal changes kernel state of the right type only.
LEMMA KillTreeType ==
  ASSUME TypeOK, NEW p \in Procs, NEW f \in BOOLEAN, killTree(p, f)
  PROVE  doomed' \in [Procs -> BOOLEAN]
<1> DEFINE q == holder[pidOf[p]]
           hit == f /\ pidOf[p] # NoPid /\ q # NoProc /\ child[q] = "alive"
<1>1. doomed' = IF hit THEN [doomed EXCEPT ![q] = TRUE] ELSE doomed
  BY DEF killTree
<1> QED
  BY <1>1 DEF TypeOK

-----------------------------------------------------------------------------
(* Most steps move one call and touch neither the map nor a struct's stage. *)

\* A step that leaves map, structs, reapers and children alone preserves Inv if
\* the call that moved neither takes nor drops a child and keeps its own part.
LEMMA QuietInv ==
  ASSUME Inv, NEW c \in Callers,
         UNCHANGED <<procs, status, idOf, pidOf, reaped, reaper, child, holder>>,
         job' \in [Procs -> BOOLEAN], doomed' \in [Procs -> BOOLEAN],
         call' \in [Callers -> CallRecords],
         \A d \in Callers \ {c} : call'[d] = call[d],
         call'[c].pc \notin {"idle", "spawn"} => call'[c].p \in Procs,
         call[c].pc \in Holding \/ call'[c].pc \in Holding =>
           /\ call[c].pc \in Holding /\ call'[c].pc \in Holding
           /\ call'[c].p = call[c].p /\ call'[c].id = call[c].id,
         CallOK(c)', AnswerOK(c)'
  PROVE  Inv'
<1>1. TypeOK'
  BY DEF Inv, TypeOK
<1>2. StagesInv' /\ RegisteredInv'
  BY DEF Inv, StagesInv, RegisteredInv
<1>3. HeldInv'
  BY DEF Inv, HeldInv
<1>4. CallInv'
  BY DEF Inv, CallInv, CallOK
<1>5. StopMeansDead'
  BY DEF Inv, StopMeansDead, AnswerOK
<1>6. \A p \in Procs : HeldByStart(p) => HeldByStart(p)'
  BY DEF HeldByStart
<1>7. NoLostChild'
  BY <1>6 DEF Inv, NoLostChild, HasChild
<1> QED
  BY <1>1, <1>2, <1>3, <1>4, <1>5, <1>7 DEF Inv

\* The steps of Start that only move the call preserve Inv.
LEMMA StartQuietInv ==
  ASSUME Inv, NEW c \in Callers,
         StartFail(c) \/ StartAssign(c) \/ StartAssignFailed(c) \/ StartLose(c)
  PROVE  Inv'
<1> DEFINE p == call[c].p
<1> USE DEF Holding, StartSteps, StopSteps
<1>0. TypeOK /\ CallOK(c) /\ call \in [Callers -> CallRecords]
  BY DEF Inv, CallInv, TypeOK
<1>1. CASE StartFail(c)
  <2>1. Return(c, "failed") /\ "failed" \in Results
    BY <1>1 DEF StartFail, Results
  <2> QED
    BY <1>0, <1>1, <2>1, ReturnFacts, QuietInv
    DEF StartFail, structVars, kernelVars, TypeOK, CallOK, AnswerOK
<1>2. CASE StartAssign(c)
  <2>1. Goto(c, "register") /\ "register" \in CallSteps
    BY <1>2 DEF StartAssign, CallSteps
  <2>2. job' \in [Procs -> BOOLEAN]
    BY <1>0, <1>2, ManagerAssumption DEF StartAssign, TypeOK
  <2> QED
    BY <1>0, <1>2, <2>1, <2>2, GotoFacts, QuietInv
    DEF StartAssign, kernelVars, TypeOK, CallOK, AnswerOK
<1>3. CASE StartAssignFailed(c)
  <2>1. Goto(c, "discard") /\ "discard" \in CallSteps
    BY <1>3 DEF StartAssignFailed, CallSteps
  <2>2. doomed' \in [Procs -> BOOLEAN]
    BY <1>0, <1>3, KillTreeType DEF StartAssignFailed, TypeOK
  <2> QED
    BY <1>0, <1>3, <2>1, <2>2, GotoFacts, QuietInv
    DEF StartAssignFailed, structVars, TypeOK, CallOK, AnswerOK
<1>4. CASE StartLose(c)
  <2>1. Goto(c, "abort") /\ "abort" \in CallSteps
    BY <1>4 DEF StartLose, CallSteps
  <2>2. doomed' \in [Procs -> BOOLEAN]
    BY <1>0, <1>4, KillTreeType DEF StartLose, TypeOK
  <2>3. job' \in [Procs -> BOOLEAN]
    BY <1>0, <1>4 DEF StartLose, TypeOK
  <2> QED
    BY <1>0, <1>4, <2>1, <2>2, <2>3, GotoFacts, QuietInv
    DEF StartLose, TypeOK, CallOK, AnswerOK
<1> QED
  BY <1>1, <1>2, <1>3, <1>4

\* The steps of Stop and forceKill preserve Inv.
LEMMA StopStepInv == ASSUME Inv, NEW c \in Callers, StopStep(c) PROVE Inv'
<1> USE DEF Holding, StartSteps, StopSteps
<1>0. TypeOK /\ CallOK(c) /\ call \in [Callers -> CallRecords]
  BY DEF Inv, CallInv, TypeOK
<1>1. CASE StopTermCheck(c)
  <2>1. PICK s \in {"grace", "term"} : Goto(c, s)
    BY <1>1 DEF StopTermCheck
  <2>2. s \in CallSteps
    BY DEF CallSteps
  <2> QED
    BY <1>0, <1>1, <2>1, <2>2, GotoFacts, QuietInv
    DEF StopTermCheck, structVars, kernelVars, TypeOK, CallOK, AnswerOK
<1>2. CASE StopTerm(c)
  <2>1. Goto(c, "grace") /\ "grace" \in CallSteps
    BY <1>2 DEF StopTerm, CallSteps
  <2>2. doomed' \in [Procs -> BOOLEAN]
    BY <1>0, <1>2, KillTreeType DEF StopTerm, TypeOK
  <2> QED
    BY <1>0, <1>2, <2>1, <2>2, GotoFacts, QuietInv
    DEF StopTerm, structVars, TypeOK, CallOK, AnswerOK
<1>3. CASE StopGraceDone(c) \/ StopKillDone(c)
  <2>1. Return(c, "ok") /\ "ok" \in Results
    BY <1>3 DEF StopGraceDone, StopKillDone, Results
  <2>2. call[c].p \in Procs /\ child[call[c].p] = "gone"
    BY <1>0, <1>3
    DEF StopGraceDone, StopKillDone, GraceOver, isTerminal, Inv, StagesInv, TypeOK
  <2> QED
    BY <1>0, <1>3, <2>1, <2>2, ReturnFacts, QuietInv
    DEF StopGraceDone, StopKillDone, structVars, kernelVars, TypeOK, CallOK, AnswerOK
<1>4. CASE StopGraceEnds(c)
  <2>1. PICK b \in BOOLEAN :
          call' = [call EXCEPT ![c].pc = "killcheck", ![c].cancelled = b]
    BY <1>4 DEF StopGraceEnds
  <2>2. "killcheck" \in CallSteps
    BY DEF CallSteps
  <2>3. /\ call' \in [Callers -> CallRecords]
        /\ call'[c].pc = "killcheck"
        /\ call'[c].op = call[c].op /\ call'[c].p = call[c].p
        /\ \A d \in Callers \ {c} : call'[d] = call[d]
    BY <1>0, <2>1, <2>2 DEF CallRecords
  <2> QED
    BY <1>0, <1>4, <2>3, QuietInv
    DEF StopGraceEnds, structVars, kernelVars, TypeOK, CallOK, AnswerOK
<1>5. CASE StopKillCheck(c)
  <2>1. doomed' \in [Procs -> BOOLEAN]
    BY <1>0, <1>5 DEF StopKillCheck, TypeOK
  <2>2. Return(c, "cancelled") \/ (\E s \in {"killwait", "kill"} : Goto(c, s))
    BY <1>5 DEF StopKillCheck, KillSent
  <2> QED
    BY <1>0, <1>5, <2>1, <2>2, GotoFacts, ReturnFacts, QuietInv
    DEF StopKillCheck, structVars, TypeOK, CallOK, AnswerOK, Results, CallSteps
<1>6. CASE StopKill(c)
  <2>1. doomed' \in [Procs -> BOOLEAN]
    BY <1>0, <1>6, KillTreeType DEF StopKill, TypeOK
  <2>2. Return(c, "cancelled") \/ Goto(c, "killwait")
    BY <1>6 DEF StopKill, KillSent
  <2> QED
    BY <1>0, <1>6, <2>1, <2>2, GotoFacts, ReturnFacts, QuietInv
    DEF StopKill, structVars, TypeOK, CallOK, AnswerOK, Results, CallSteps
<1>7. CASE StopKillTimeout(c)
  <2>1. PICK r \in {"timeout", "cancelled"} : Return(c, r)
    BY <1>7 DEF StopKillTimeout
  <2>2. r \in Results
    BY DEF Results
  <2> QED
    BY <1>0, <1>7, <2>1, <2>2, ReturnFacts, QuietInv
    DEF StopKillTimeout, structVars, kernelVars, TypeOK, CallOK, AnswerOK
<1> QED
  BY <1>1, <1>2, <1>3, <1>4, <1>5, <1>6, <1>7 DEF StopStep

\* The steps of Wait and Signal preserve Inv.
LEMMA OtherStepInv == ASSUME Inv, NEW c \in Callers, OtherStep(c) PROVE Inv'
<1> USE DEF Holding, StartSteps, StopSteps
<1>0. TypeOK /\ CallOK(c) /\ call \in [Callers -> CallRecords]
  BY DEF Inv, CallInv, TypeOK
<1>1. CASE WaitDone(c) \/ WaitCancelled(c)
  <2>1. PICK r \in {"ok", "cancelled"} : Return(c, r)
    BY <1>1 DEF WaitDone, WaitCancelled
  <2>2. r \in Results
    BY DEF Results
  <2> QED
    BY <1>0, <1>1, <2>1, <2>2, ReturnFacts, QuietInv
    DEF WaitDone, WaitCancelled, structVars, kernelVars, TypeOK, CallOK, AnswerOK
<1>2. CASE SignalCheck(c)
  <2>1. Return(c, "notrunning") \/ Goto(c, "signal")
    BY <1>2 DEF SignalCheck
  <2> QED
    BY <1>0, <1>2, <2>1, GotoFacts, ReturnFacts, QuietInv
    DEF SignalCheck, structVars, kernelVars, TypeOK, CallOK, AnswerOK, Results, CallSteps
<1>3. CASE SignalSend(c)
  <2>1. doomed' \in [Procs -> BOOLEAN]
    BY <1>0, <1>3, KillTreeType DEF SignalSend, TypeOK
  <2>2. PICK r \in {"ok", "notrunning"} : Return(c, r)
    BY <1>3 DEF SignalSend
  <2>3. r \in Results
    BY DEF Results
  <2> QED
    BY <1>0, <1>3, <2>1, <2>2, <2>3, ReturnFacts, QuietInv
    DEF SignalSend, structVars, TypeOK, CallOK, AnswerOK
<1> QED
  BY <1>1, <1>2, <1>3 DEF OtherStep

\* Wait and Signal looking an id up preserve Inv.
LEMMA LookupInv ==
  ASSUME Inv, NEW c \in Callers, NEW i \in Ids, WaitLock(c, i) \/ SignalLock(c, i)
  PROVE  Inv'
<1> USE DEF Holding, StartSteps, StopSteps
<1>0. TypeOK /\ call \in [Callers -> CallRecords] /\ procs[i] \in Procs \cup {NoProc}
  BY DEF Inv, TypeOK
<1>1. PICK op \in {"wait", "signal"}, s \in {"idle", "wait", "sigcheck"},
           r \in {"none", "ok", "notfound", "notrunning"} :
        /\ Begin(c, op, i, procs[i], TRUE, s, r)
        /\ s # "idle" => procs[i] # NoProc
        /\ s = "wait" => op = "wait"
        /\ s = "sigcheck" => op = "signal"
  BY DEF WaitLock, SignalLock
<1>2. op \in Ops /\ s \in CallSteps /\ r \in Results
  BY DEF Ops, CallSteps, Results
<1>3. /\ call' \in [Callers -> CallRecords]
      /\ call'[c].pc = s /\ call'[c].op = op /\ call'[c].p = procs[i]
      /\ \A d \in Callers \ {c} : call'[d] = call[d]
  BY <1>0, <1>1, <1>2 DEF Begin, CallRecords
<1>4. call[c].pc = "idle" /\ UNCHANGED <<procs, structVars, kernelVars>>
  BY DEF WaitLock, SignalLock
<1>5. CallOK(c)' /\ AnswerOK(c)'
  BY <1>1, <1>3 DEF CallOK, AnswerOK
<1> QED
  BY <1>0, <1>1, <1>3, <1>4, <1>5, QuietInv DEF structVars, kernelVars, TypeOK

-----------------------------------------------------------------------------
(* The steps that move a struct to its next stage. *)

\* The first critical section of Start preserves Inv.
LEMMA StartCheckInv ==
  ASSUME Inv, NEW c \in Callers, NEW i \in Ids, NEW b \in BOOLEAN,
         StartCheck(c, i, b)
  PROVE  Inv'
<1> USE DEF Holding, StartSteps, StopSteps
<1>0. TypeOK /\ call \in [Callers -> CallRecords] /\ call[c].pc = "idle"
  BY DEF Inv, TypeOK, StartCheck
<1>1. CASE Occupied(i)
  <2>1. Begin(c, "start", i, NoProc, b, "idle", "exists") /\ procs' = procs
    BY <1>1 DEF StartCheck
  <2>2. "start" \in Ops /\ "idle" \in CallSteps /\ "exists" \in Results
    BY DEF Ops, CallSteps, Results
  <2>3. /\ call' \in [Callers -> CallRecords]
        /\ call'[c].pc = "idle" /\ call'[c].op = "start"
        /\ \A d \in Callers \ {c} : call'[d] = call[d]
    BY <1>0, <2>1, <2>2, BeginFacts
  <2> QED
    BY <1>0, <2>1, <2>3, QuietInv
    DEF StartCheck, structVars, kernelVars, TypeOK, CallOK, AnswerOK
<1>2. CASE ~Occupied(i)
  <2>1. /\ Begin(c, "start", i, NoProc, b, "spawn", "none")
        /\ procs' = [procs EXCEPT ![i] = NoProc]
        /\ UNCHANGED <<structVars, kernelVars>>
    BY <1>2 DEF StartCheck
  <2>2. "start" \in Ops /\ "spawn" \in CallSteps /\ "none" \in Results
    BY DEF Ops, CallSteps, Results
  <2>3. /\ call' \in [Callers -> CallRecords]
        /\ call'[c].pc = "spawn" /\ call'[c].op = "start"
        /\ \A d \in Callers \ {c} : call'[d] = call[d]
    BY <1>0, <2>1, <2>2, BeginFacts
  <2>4. \A p \in Procs : reaper[p] \in {"waiting", "waited", "flagged"} => procs[i] # p
    BY <1>2, ManagerAssumption DEF Occupied, isTerminal, Inv, StagesInv
  <2> USE DEF structVars, kernelVars
  <2>5. TypeOK'
    BY <1>0, <2>1, <2>3, ManagerAssumption DEF TypeOK
  <2>6. StagesInv'
    BY <1>0, <2>1, <2>4 DEF Inv, StagesInv, TypeOK
  <2>7. HeldInv'
    BY <1>0, <2>1, <2>3 DEF Inv, HeldInv
  <2>8. RegisteredInv'
    BY <1>0, <2>1 DEF Inv, RegisteredInv, TypeOK
  <2>9. CallInv'
    BY <1>0, <2>1, <2>3 DEF Inv, CallInv, CallOK
  <2>10. \A p \in Procs : HeldByStart(p) => HeldByStart(p)'
    BY <1>0, <2>3 DEF HeldByStart
  <2>11. NoLostChild'
    BY <1>0, <2>1, <2>4, <2>10 DEF Inv, NoLostChild, HasChild, TypeOK
  <2>12. StopMeansDead'
    BY <2>1, <2>3 DEF Inv, StopMeansDead, AnswerOK
  <2> QED
    BY <2>5, <2>6, <2>7, <2>8, <2>9, <2>11, <2>12 DEF Inv
<1> QED
  BY <1>1, <1>2

\* cmd.Start preserves Inv: the new child is in the hands of its Start.
LEMMA StartSpawnInv == ASSUME Inv, NEW c \in Callers, StartSpawn(c) PROVE Inv'
<1> USE ManagerAssumption
<1>1. TypeOK'
  BY DEF Inv, TypeOK, StartSpawn, Statuses, ChildStates, CallRecords, CallSteps, StartSteps
<1>2. StagesInv'
  BY DEF Inv, TypeOK, StartSpawn, StagesInv, ChildStates
<1>3. HeldInv'
  BY DEF Inv, TypeOK, StartSpawn, HeldInv, StagesInv, CallRecords, Holding
<1>4. RegisteredInv'
  <2>1. \A p \in Procs : status[p] = "unborn" => reaper[p] = "none"
    BY DEF Inv, TypeOK, StagesInv, ReaperStates
  <2> QED
    BY <2>1 DEF Inv, TypeOK, StartSpawn, RegisteredInv
<1>5. CallInv'
  BY DEF Inv, TypeOK, StartSpawn, CallInv, CallOK, StartSteps, StopSteps, CallRecords
<1>6. NoLostChild'
  BY DEF Inv, TypeOK, StartSpawn, NoLostChild, HasChild, HeldByStart, Holding, CallRecords
<1>7. StopMeansDead'
  BY DEF Inv, TypeOK, StartSpawn, StopMeansDead, AnswerOK, StagesInv, CallRecords
<1> QED
  BY <1>1, <1>2, <1>3, <1>4, <1>5, <1>6, <1>7 DEF Inv

\* A child that is waited for is gone, which no part of Inv minds.
LEMMA ReclaimFacts ==
  ASSUME TypeOK, NEW p \in Procs, Reclaim(p)
  PROVE  /\ child' \in [Procs -> ChildStates] /\ holder' \in [Pids -> Procs \cup {NoProc}]
         /\ child'[p] = "gone"
         /\ \A q \in Procs : q # p => child'[q] = child[q]
  BY DEF Reclaim, TypeOK, ChildStates

\* Waiting for a child in Start (discard and abort) preserves Inv.
LEMMA StartWaitInv ==
  ASSUME Inv, NEW c \in Callers, StartDiscard(c) \/ StartAbort(c)
  PROVE  Inv'
<1> DEFINE p == call[c].p
<1> USE DEF Holding, StartSteps, StopSteps
<1>0. /\ TypeOK /\ CallOK(c) /\ call \in [Callers -> CallRecords]
      /\ p \in Procs /\ call[c].pc \in {"discard", "abort"}
      /\ status[p] = "running" /\ reaper[p] = "none"
  BY DEF Inv, CallInv, TypeOK, HeldInv, StartDiscard, StartAbort
<1>1. /\ UNCHANGED <<procs, structVars, doomed>>
      /\ Reclaim(p)
      /\ \/ Goto(c, "register")
         \/ \E r \in {"failed", "exists"} : Return(c, r)
  BY DEF StartDiscard, StartAbort
<1>2. /\ call' \in [Callers -> CallRecords]
      /\ call'[c].pc \in {"register", "idle"} /\ call'[c].op = "start"
      /\ call'[c].p = p /\ call'[c].id = call[c].id
      /\ \A d \in Callers \ {c} : call'[d] = call[d]
  <2>1. CASE Goto(c, "register")
    BY <1>0, <2>1, GotoFacts DEF CallSteps, CallOK
  <2>2. CASE \E r \in {"failed", "exists"} : Return(c, r)
    BY <1>0, <2>2, ReturnFacts DEF Results, CallOK
  <2> QED
    BY <1>1, <2>1, <2>2
<1>3. /\ child' \in [Procs -> ChildStates] /\ holder' \in [Pids -> Procs \cup {NoProc}]
      /\ child'[p] = "gone"
      /\ \A q \in Procs : q # p => child'[q] = child[q]
  BY <1>0, <1>1, ReclaimFacts
<1> USE DEF structVars
<1>4. TypeOK'
  BY <1>0, <1>1, <1>2, <1>3 DEF TypeOK
<1>5. StagesInv'
  BY <1>0, <1>1, <1>3 DEF Inv, StagesInv
<1>6. HeldInv'
  BY <1>0, <1>1, <1>2 DEF Inv, HeldInv
<1>7. RegisteredInv'
  BY <1>1 DEF Inv, RegisteredInv
<1>8. CallInv'
  BY <1>1, <1>2 DEF Inv, CallInv, CallOK
<1>9. \A q \in Procs : q # p /\ HeldByStart(q) => HeldByStart(q)'
  BY <1>2 DEF HeldByStart
<1>10. NoLostChild'
  BY <1>1, <1>3, <1>9 DEF Inv, NoLostChild, HasChild
<1>11. StopMeansDead'
  BY <1>2, <1>3 DEF Inv, StopMeansDead, AnswerOK
<1> QED
  BY <1>4, <1>5, <1>6, <1>7, <1>8, <1>10, <1>11 DEF Inv

\* The second critical section of Start, when the id is still free, preserves Inv.
LEMMA StartRegisterInv == ASSUME Inv, NEW c \in Callers, StartRegister(c) PROVE Inv'
<1> DEFINE p == call[c].p
           i == call[c].id
<1> USE DEF Holding, StartSteps, StopSteps
<1>0. /\ TypeOK /\ CallOK(c) /\ call \in [Callers -> CallRecords]
      /\ p \in Procs /\ i \in Ids /\ call[c].pc = "register"
      /\ status[p] = "running" /\ reaper[p] = "none" /\ idOf[p] = i
  BY DEF Inv, CallInv, TypeOK, HeldInv, StartRegister, CallRecords
<1>1. /\ procs' = [procs EXCEPT ![i] = p]
      /\ reaper' = [reaper EXCEPT ![p] = "waiting"]
      /\ Return(c, "ok")
      /\ UNCHANGED <<status, idOf, pidOf, job, reaped, kernelVars>>
      /\ ~Occupied(i)
  BY DEF StartRegister, LostRace
<1>2. /\ call' \in [Callers -> CallRecords]
      /\ call'[c].pc = "idle" /\ call'[c].op = "start"
      /\ \A d \in Callers \ {c} : call'[d] = call[d]
  BY <1>0, <1>1, ReturnFacts DEF Results, CallOK
<1>3. \A q \in Procs : reaper[q] \in {"waiting", "waited", "flagged"} => procs[i] # q
  BY <1>0, <1>1, ManagerAssumption DEF Occupied, isTerminal, Inv, StagesInv
<1> USE DEF kernelVars
<1>4. TypeOK'
  BY <1>0, <1>1, <1>2 DEF TypeOK, ReaperStates
<1>5. StagesInv'
  <2>1. \A q \in Procs : q # p => reaper'[q] = reaper[q]
    BY <1>0, <1>1 DEF TypeOK
  <2>2. \A q \in Procs : q # p /\ reaper[q] \in {"waiting", "waited", "flagged"}
           => procs'[idOf[q]] = q
    BY <1>0, <1>1, <1>3 DEF TypeOK, Inv, StagesInv
  <2>3. reaper'[p] = "waiting" /\ procs'[idOf[p]] = p
    BY <1>0, <1>1 DEF TypeOK
  <2> QED
    BY <1>0, <1>1, <2>1, <2>2, <2>3 DEF Inv, StagesInv
<1>6. HeldInv'
  BY <1>0, <1>1, <1>2 DEF Inv, HeldInv, TypeOK
<1>7. RegisteredInv'
  BY <1>0, <1>1 DEF Inv, RegisteredInv, TypeOK
<1>8. CallInv'
  BY <1>0, <1>1, <1>2 DEF Inv, CallInv, CallOK, TypeOK
<1>9. \A q \in Procs : q # p /\ HeldByStart(q) => HeldByStart(q)'
  BY <1>2 DEF HeldByStart
<1>10. NoLostChild'
  BY <1>0, <1>1, <1>3, <1>9 DEF Inv, NoLostChild, HasChild, TypeOK
<1>11. StopMeansDead'
  BY <1>1, <1>2 DEF Inv, StopMeansDead, AnswerOK
<1> QED
  BY <1>4, <1>5, <1>6, <1>7, <1>8, <1>10, <1>11 DEF Inv

\* The critical section of Stop preserves Inv.
LEMMA StopLockInv ==
  ASSUME Inv, NEW c \in Callers, NEW i \in Ids, NEW b \in BOOLEAN, StopLock(c, i, b)
  PROVE  Inv'
<1> DEFINE p == procs[i]
<1> USE DEF Holding, StartSteps, StopSteps
<1>0. /\ TypeOK /\ call \in [Callers -> CallRecords] /\ p \in Procs \cup {NoProc}
      /\ call[c].pc = "idle" /\ UNCHANGED <<procs, idOf, pidOf, job, reaped, reaper, kernelVars>>
  BY DEF Inv, TypeOK, StopLock
<1>1. CASE p = NoProc \/ (p # NoProc /\ AlreadyStopped(p))
  <2>1. PICK r \in {"notfound", "ok"} :
          /\ Begin(c, "stop", i, p, TRUE, "idle", r) /\ status' = status
          /\ r = "ok" => p # NoProc /\ isTerminal(status[p])
    BY <1>1 DEF StopLock, AlreadyStopped
  <2>2. r \in Results /\ "stop" \in Ops /\ "idle" \in CallSteps
    BY DEF Results, Ops, CallSteps
  <2>3. /\ call' \in [Callers -> CallRecords]
        /\ call'[c].pc = "idle" /\ call'[c].op = "stop"
        /\ call'[c].p = p /\ call'[c].res = r
        /\ \A d \in Callers \ {c} : call'[d] = call[d]
    BY <1>0, <2>1, <2>2 DEF Begin, CallRecords
  <2>4. CallOK(c)' /\ AnswerOK(c)'
    BY <1>0, <2>1, <2>3 DEF CallOK, AnswerOK, Inv, StagesInv, isTerminal, kernelVars
  <2> QED
    BY <1>0, <2>1, <2>3, <2>4, QuietInv DEF kernelVars, TypeOK
<1>2. CASE p # NoProc /\ ~AlreadyStopped(p)
  <2>1. PICK s \in {"killcheck", "termcheck"} :
          /\ Begin(c, "stop", i, p, TRUE, s, "none")
          /\ status' = [status EXCEPT ![p] = "stopping"]
    BY <1>2 DEF StopLock
  <2>2. s \in CallSteps /\ "stop" \in Ops /\ "none" \in Results
    BY DEF Results, Ops, CallSteps
  <2>3. /\ call' \in [Callers -> CallRecords]
        /\ call'[c].pc = s /\ call'[c].op = "stop" /\ call'[c].p = p
        /\ \A d \in Callers \ {c} : call'[d] = call[d]
    BY <1>0, <2>1, <2>2 DEF Begin, CallRecords
  <2>4. /\ p \in Procs /\ reaper[p] \in {"waiting", "waited", "flagged"}
        /\ status[p] # "exited"
    BY <1>0, <1>2
    DEF AlreadyStopped, isTerminal, Inv, StagesInv, RegisteredInv, TypeOK, ReaperStates
  <2> USE DEF kernelVars
  <2>5. TypeOK'
    BY <1>0, <2>1, <2>3, <2>4 DEF TypeOK, Statuses
  <2>6. StagesInv'
    BY <1>0, <2>1, <2>4 DEF Inv, StagesInv, TypeOK
  <2>7. HeldInv'
    BY <1>0, <2>1, <2>3, <2>4 DEF Inv, HeldInv, TypeOK
  <2>8. RegisteredInv'
    BY <1>0 DEF Inv, RegisteredInv
  <2>9. CallInv'
    BY <1>0, <2>3, <2>4 DEF Inv, CallInv, CallOK
  <2>10. \A q \in Procs : HeldByStart(q) => HeldByStart(q)'
    BY <1>0, <2>3 DEF HeldByStart
  <2>11. NoLostChild'
    BY <1>0, <2>10 DEF Inv, NoLostChild, HasChild
  <2>12. StopMeansDead'
    BY <1>0, <2>3 DEF Inv, StopMeansDead, AnswerOK
  <2> QED
    BY <2>5, <2>6, <2>7, <2>8, <2>9, <2>11, <2>12 DEF Inv
<1> QED
  BY <1>1, <1>2

\* The reaper and the exit of a child preserve Inv.
LEMMA ReaperInv ==
  ASSUME Inv, NEW p \in Procs, ReaperStep(p) \/ ChildExit(p)
  PROVE  Inv'
<1> USE DEF Holding, StartSteps, StopSteps
<1>0. TypeOK
  BY DEF Inv
<1>1. \A q \in Procs : (call' = call /\ HeldByStart(q)) => HeldByStart(q)'
  BY DEF HeldByStart
<1>2. CASE ReapWait(p)
  <2>1. /\ child' \in [Procs -> ChildStates] /\ holder' \in [Pids -> Procs \cup {NoProc}]
        /\ child'[p] = "gone"
        /\ \A q \in Procs : q # p => child'[q] = child[q]
    BY <1>0, <1>2, ReclaimFacts DEF ReapWait
  <2>2. TypeOK'
    BY <1>0, <1>2, <2>1 DEF ReapWait, TypeOK, ReaperStates
  <2>3. StagesInv'
    BY <1>0, <1>2, <2>1 DEF ReapWait, TypeOK, Inv, StagesInv
  <2>4. RegisteredInv'
    BY <1>0, <1>2 DEF ReapWait, TypeOK, Inv, RegisteredInv
  <2>5. HeldInv' /\ CallInv' /\ StopMeansDead'
    BY <1>0, <1>2, <2>1
    DEF ReapWait, TypeOK, Inv, HeldInv, CallInv, CallOK, StopMeansDead, AnswerOK
  <2>6. NoLostChild'
    BY <1>0, <1>1, <1>2, <2>1 DEF ReapWait, Inv, NoLostChild, HasChild, TypeOK
  <2> QED
    BY <2>2, <2>3, <2>4, <2>5, <2>6 DEF Inv
<1>3. CASE ReapFlag(p)
  <2> USE DEF kernelVars
  <2>1. TypeOK' /\ StagesInv' /\ RegisteredInv'
    BY <1>0, <1>3 DEF ReapFlag, TypeOK, Inv, StagesInv, RegisteredInv, ReaperStates
  <2>2. HeldInv' /\ CallInv' /\ StopMeansDead'
    BY <1>0, <1>3
    DEF ReapFlag, TypeOK, Inv, HeldInv, CallInv, CallOK, StopMeansDead, AnswerOK
  <2>3. NoLostChild'
    BY <1>0, <1>1, <1>3 DEF ReapFlag, Inv, NoLostChild, HasChild, TypeOK, StagesInv
  <2> QED
    BY <2>1, <2>2, <2>3 DEF Inv
<1>4. CASE ReapFinish(p)
  <2> USE DEF kernelVars
  <2>1. status' = [status EXCEPT ![p] = "exited"]
    BY <1>0, <1>4 DEF ReapFinish, reapedStatus, Inv, StagesInv
  <2>2. TypeOK'
    BY <1>0, <1>4, <2>1 DEF ReapFinish, TypeOK, ReaperStates, Statuses
  <2>3. StagesInv' /\ RegisteredInv'
    BY <1>0, <1>4, <2>1 DEF ReapFinish, TypeOK, Inv, StagesInv, RegisteredInv
  <2>4. HeldInv' /\ CallInv' /\ StopMeansDead'
    BY <1>0, <1>4, <2>1
    DEF ReapFinish, TypeOK, Inv, HeldInv, CallInv, CallOK, StopMeansDead, AnswerOK
  <2>5. NoLostChild'
    BY <1>0, <1>1, <1>4 DEF ReapFinish, Inv, NoLostChild, HasChild, TypeOK, StagesInv
  <2> QED
    BY <2>2, <2>3, <2>4, <2>5 DEF Inv
<1>5. CASE ChildExit(p)
  <2> USE DEF structVars
  <2>1. TypeOK' /\ StagesInv' /\ RegisteredInv'
    BY <1>0, <1>5 DEF ChildExit, TypeOK, Inv, StagesInv, RegisteredInv, ChildStates
  <2>2. HeldInv' /\ CallInv' /\ StopMeansDead'
    BY <1>0, <1>5
    DEF ChildExit, TypeOK, Inv, HeldInv, CallInv, CallOK, StopMeansDead, AnswerOK
  <2>3. NoLostChild'
    BY <1>0, <1>1, <1>5 DEF ChildExit, Inv, NoLostChild, HasChild, TypeOK
  <2> QED
    BY <2>1, <2>2, <2>3 DEF Inv
<1> QED
  BY <1>2, <1>3, <1>4, <1>5 DEF ReaperStep

-----------------------------------------------------------------------------

\* The initial state satisfies the inductive invariant.
LEMMA InitInv == Init => Inv
<1> SUFFICES ASSUME Init PROVE Inv
  OBVIOUS
<1>1. PICK i \in Ids : call = [c \in Callers |->
         [op |-> "none", id |-> i, p |-> NoProc, strict |-> TRUE,
          cancelled |-> FALSE, pc |-> "idle", res |-> "none"]]
  BY DEF Init
<1>2. PICK j \in Ids : idOf = [p \in Procs |-> j]
  BY DEF Init
<1>3. TypeOK
  BY <1>1, <1>2 DEF Init, TypeOK, Statuses, ReaperStates, ChildStates,
     CallRecords, Ops, CallSteps, Results
<1>4. StagesInv /\ NoLostChild
  BY DEF Init, StagesInv, NoLostChild, HasChild
<1>5. HeldInv /\ RegisteredInv /\ CallInv /\ StopMeansDead
  BY <1>1 DEF Init, HeldInv, RegisteredInv, CallInv, CallOK, StopMeansDead,
     AnswerOK, Holding, StartSteps, StopSteps
<1> QED
  BY <1>3, <1>4, <1>5 DEF Inv

\* Every step of the driver preserves the inductive invariant.
LEMMA NextInv == Inv /\ [Next]_vars => Inv'
<1> SUFFICES ASSUME Inv, [Next]_vars PROVE Inv'
  OBVIOUS
<1>1. ASSUME NEW c \in Callers, NewCall(c) PROVE Inv'
  <2>1. PICK i \in Ids :
          \/ \E b \in BOOLEAN : StartCheck(c, i, b)
          \/ \E b \in BOOLEAN : StopLock(c, i, b)
          \/ WaitLock(c, i) \/ SignalLock(c, i)
    BY <1>1 DEF NewCall
  <2> QED
    BY <2>1, StartCheckInv, StopLockInv, LookupInv
<1>2. ASSUME NEW c \in Callers, StartStep(c) PROVE Inv'
  BY <1>2, StartQuietInv, StartSpawnInv, StartWaitInv, StartRegisterInv DEF StartStep
<1>3. CASE UNCHANGED vars
  <2>1. TypeOK' /\ StagesInv' /\ RegisteredInv'
    BY <1>3 DEF vars, TypeOK, Inv, StagesInv, RegisteredInv
  <2>2. HeldInv' /\ CallInv' /\ StopMeansDead'
    BY <1>3 DEF vars, Inv, HeldInv, CallInv, CallOK, StopMeansDead, AnswerOK
  <2>3. NoLostChild'
    BY <1>3 DEF vars, Inv, NoLostChild, HasChild, HeldByStart
  <2> QED
    BY <2>1, <2>2, <2>3 DEF Inv
<1> QED
  BY <1>1, <1>2, <1>3, StopStepInv, OtherStepInv, ReaperInv DEF Next

\* The inductive invariant holds in every reachable state.
LEMMA Inductive == Spec => []Inv
  BY InitInv, NextInv, PTL DEF Spec

\* Type correctness, and no call past its lookup works on a nil struct.
THEOREM TypeCorrect == Spec => []TypeOK
  BY Inductive, PTL DEF Inv

\* However many Starts race, every child is registered with a waiting reaper or
\* in the hands of the Start that spawned it.
THEOREM ChildrenAreKept == Spec => []NoLostChild
  BY Inductive, PTL DEF Inv

\* A nil error from Stop is only ever given for a dead and reaped child.
THEOREM StoppedIsDead == Spec => []StopMeansDead
  BY Inductive, PTL DEF Inv

-----------------------------------------------------------------------------
(* The driver implements its contract. *)

\* A step that changes neither the map nor a status is no step of the contract.
LEMMA HandleUnchanged ==
  ASSUME UNCHANGED <<procs, status>> PROVE UNCHANGED <<procs, handle>>
  BY DEF handle

\* Every step of the driver is a step of the contract or invisible to it.
LEMMA StepRefines == Inv /\ [Next]_vars => [Contract!Next]_<<procs, handle>>
<1> SUFFICES ASSUME Inv, [Next]_vars PROVE [Contract!Next]_<<procs, handle>>
  OBVIOUS
<1>0. TypeOK
  BY DEF Inv
<1>1. ASSUME NEW c \in Callers, NEW i \in Ids, NEW b \in BOOLEAN, StartCheck(c, i, b)
      PROVE  Contract!Forget(i) \/ UNCHANGED <<procs, handle>>
  <2>1. CASE Occupied(i) \/ procs[i] = NoProc
    <3>1. procs' = procs
      BY <1>0, <1>1, <2>1 DEF StartCheck, TypeOK, Occupied
    <3> QED
      BY <1>1, <3>1, HandleUnchanged DEF StartCheck, structVars
  <2>2. CASE ~Occupied(i) /\ procs[i] # NoProc
    <3>1. procs' = [procs EXCEPT ![i] = NoProc] /\ status' = status
      BY <1>1, <2>2 DEF StartCheck, structVars
    <3>2. handle[i] = "exited"
      BY <2>2 DEF Occupied, isTerminal, handle
    <3>3. handle' = [handle EXCEPT ![i] = "absent"]
      BY <1>0, <3>1 DEF handle, TypeOK
    <3> QED
      BY <3>1, <3>2, <3>3 DEF Contract!Forget
  <2> QED
    BY <2>1, <2>2
<1>2. ASSUME NEW c \in Callers, StartRegister(c)
      PROVE  \E i \in Ids, x \in Procs : Contract!Launch(i, x)
  <2> DEFINE p == call[c].p
             i == call[c].id
  <2>1. /\ p \in Procs /\ i \in Ids /\ status[p] = "running" /\ reaper[p] = "none"
        /\ procs' = [procs EXCEPT ![i] = p] /\ status' = status /\ ~Occupied(i)
    BY <1>0, <1>2 DEF StartRegister, LostRace, Inv, HeldInv, Holding, TypeOK, CallRecords
  <2>2. \A j \in Ids : procs[j] # p
    BY <2>1, ManagerAssumption DEF Inv, RegisteredInv
  <2>3. handle[i] \in {"absent", "exited"}
    BY <2>1 DEF Occupied, isTerminal, handle
  <2>4. handle' = [handle EXCEPT ![i] = "running"]
    BY <1>0, <2>1, ManagerAssumption DEF handle, TypeOK
  <2> QED
    BY <2>1, <2>2, <2>3, <2>4 DEF Contract!Launch
<1>3. ASSUME NEW c \in Callers, NEW i \in Ids, NEW b \in BOOLEAN, StopLock(c, i, b)
      PROVE  Contract!BeginStop(i) \/ UNCHANGED <<procs, handle>>
  <2> DEFINE p == procs[i]
  <2>1. procs' = procs
    BY <1>3 DEF StopLock
  <2>2. CASE status' = status
    BY <2>1, <2>2, HandleUnchanged
  <2>3. CASE status' # status
    <3>1. /\ p \in Procs /\ status[p] # "exited"
          /\ status' = [status EXCEPT ![p] = "stopping"]
      BY <1>0, <1>3, <2>3 DEF StopLock, AlreadyStopped, isTerminal, TypeOK
    <3>2. status[p] \in {"running", "stopping"} /\ idOf[p] = i
      BY <3>1, ManagerAssumption
      DEF Inv, TypeOK, RegisteredInv, StagesInv, ReaperStates
    <3>3. status[p] = "running"
      BY <1>0, <2>3, <3>1, <3>2 DEF TypeOK
    <3>4. \A j \in Ids : procs[j] = p => j = i
      BY <3>1, <3>2, ManagerAssumption DEF Inv, RegisteredInv
    <3>5. handle' = [handle EXCEPT ![i] = "stopping"]
      BY <1>0, <2>1, <3>1, <3>4, ManagerAssumption DEF handle, TypeOK
    <3>6. handle[i] = "running"
      BY <3>1, <3>3, ManagerAssumption DEF handle
    <3> QED
      BY <2>1, <3>5, <3>6 DEF Contract!BeginStop
  <2> QED
    BY <2>2, <2>3
<1>4. ASSUME NEW p \in Procs, ReapFinish(p) PROVE Contract!Finish(idOf[p])
  <2> DEFINE i == idOf[p]
  <2>1. /\ i \in Ids /\ procs[i] = p /\ status[p] \in {"running", "stopping"}
        /\ procs' = procs /\ status' = [status EXCEPT ![p] = "exited"]
    BY <1>0, <1>4 DEF ReapFinish, reapedStatus, Inv, StagesInv, TypeOK
  <2>2. \A j \in Ids : procs[j] = p => j = i
    BY <2>1, ManagerAssumption DEF Inv, RegisteredInv
  <2>3. handle' = [handle EXCEPT ![i] = "exited"]
    BY <1>0, <2>1, <2>2, ManagerAssumption DEF handle, TypeOK
  <2>4. handle[i] \in {"running", "stopping"}
    BY <2>1, ManagerAssumption DEF handle
  <2> QED
    BY <2>1, <2>3, <2>4 DEF Contract!Finish
<1>5. ASSUME NEW c \in Callers, StartSpawn(c) PROVE UNCHANGED <<procs, handle>>
  <2>1. PICK p \in Procs : /\ status[p] = "unborn" /\ procs' = procs
                           /\ status' = [status EXCEPT ![p] = "running"]
    BY <1>5 DEF StartSpawn
  <2>2. \A j \in Ids : procs[j] # p
    BY <1>0, <2>1, ManagerAssumption DEF Inv, RegisteredInv, StagesInv, TypeOK, ReaperStates
  <2> QED
    BY <1>0, <2>1, <2>2, ManagerAssumption DEF handle, TypeOK
<1>6. ASSUME NEW c \in Callers,
             \/ StartFail(c) \/ StartAssign(c) \/ StartAssignFailed(c)
             \/ StartDiscard(c) \/ StartLose(c) \/ StartAbort(c)
             \/ StopStep(c) \/ OtherStep(c)
             \/ \E i \in Ids : WaitLock(c, i) \/ SignalLock(c, i)
      PROVE  UNCHANGED <<procs, status>>
  BY <1>6
  DEF StartFail, StartAssign, StartAssignFailed, StartDiscard, StartLose, StartAbort,
      StopStep, StopTermCheck, StopTerm, StopGraceDone, StopGraceEnds, StopKillCheck,
      StopKill, StopKillDone, StopKillTimeout, OtherStep, WaitDone, WaitCancelled,
      SignalCheck, SignalSend, WaitLock, SignalLock, structVars
<1>7. ASSUME NEW p \in Procs, ReapWait(p) \/ ReapFlag(p) \/ ChildExit(p)
      PROVE  UNCHANGED <<procs, status>>
  BY <1>7 DEF ReapWait, ReapFlag, ChildExit, structVars
<1>8. CASE UNCHANGED vars
  BY <1>8, HandleUnchanged DEF vars
<1>9. ASSUME NEW c \in Callers, NewCall(c)
      PROVE  [Contract!Next]_<<procs, handle>>
  <2>1. PICK i \in Ids :
          \/ \E b \in BOOLEAN : StartCheck(c, i, b)
          \/ \E b \in BOOLEAN : StopLock(c, i, b)
          \/ WaitLock(c, i) \/ SignalLock(c, i)
    BY <1>9 DEF NewCall
  <2> QED
    BY <2>1, <1>1, <1>3, <1>6, HandleUnchanged DEF Contract!Next
<1>10. ASSUME NEW c \in Callers, StartStep(c) \/ StopStep(c) \/ OtherStep(c)
       PROVE  [Contract!Next]_<<procs, handle>>
  BY <1>10, <1>2, <1>5, <1>6, HandleUnchanged DEF StartStep, Contract!Next
<1>11. ASSUME NEW p \in Procs, ReaperStep(p) \/ ChildExit(p)
       PROVE  [Contract!Next]_<<procs, handle>>
  <2>1. idOf[p] \in Ids
    BY <1>0 DEF TypeOK
  <2> QED
    BY <1>11, <2>1, <1>4, <1>7, HandleUnchanged DEF ReaperStep, Contract!Next
<1> QED
  BY <1>8, <1>9, <1>10, <1>11 DEF Next

\* The local driver implements the contract the daemon relies on.
THEOREM Refinement == Spec => RefinesManager
<1>1. Init => Contract!Init
  BY DEF Init, Contract!Init, handle
<1> QED
  BY <1>1, Inductive, StepRefines, PTL DEF Spec, RefinesManager, Contract!Spec
=============================================================================
