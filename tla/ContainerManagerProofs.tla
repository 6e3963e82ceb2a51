----------------------- MODULE ContainerManagerProofs -----------------------
(***************************************************************************)
(* Proofs about ContainerManager for every set of ids, containers and      *)
(* callers: an entry's recorded end is true of the engine whatever late    *)
(* answers are applied to it, and router and driver together implement     *)
(* ManagerSpec.                                                            *)
(***************************************************************************)
EXTENDS ContainerManager, TLAPS

Ended == {"exited", "removed"}  \* engine states of a container that ended
Starting == {"run", "register", "route"}

-----------------------------------------------------------------------------
(* The inductive invariant                                                    *)

\* The engine's answer about a container changes with its state only.
EngineInv ==
  \A k \in Containers : state[k] \in Ended <=> outcome[k] \in Ends

\* An entry has a container of its own, which was run.
EntryInv ==
  \A i \in Ids :
    /\ status[i] = "absent" <=> cid[i] = NoContainer
    /\ i \in byID => status[i] # "absent"
    /\ cid[i] \in Containers => state[cid[i]] # "none"
    /\ \A j \in Ids : cid[i] \in Containers /\ cid[i] = cid[j] => i = j

\* A Start holds a container nobody else has, for an id without an entry.
StartOK(c) ==
  /\ call[c].pc \in {"run", "register"} => status[call[c].id] = "absent"
  /\ call[c].pc = "register" =>
       /\ call[c].cid \in Containers /\ state[call[c].cid] # "none"
       /\ \A i \in Ids : cid[i] # call[c].cid
  /\ call[c].pc = "route" => status[call[c].id] # "absent"
Apart(c, d) ==
  /\ call[c].pc \in Starting /\ call[d].pc \in Starting => call[c].id # call[d].id
  /\ call[c].pc = "register" /\ call[d].pc = "register" => call[c].cid # call[d].cid
StartInv ==
  /\ \A c \in Callers : StartOK(c)
  /\ \A c, d \in Callers : c # d => Apart(c, d)

\* A Stop or Inspect works on the entry's container, and an end it is about to
\* write down has happened.
StepOK(c) ==
  /\ call[c].pc \in StopSteps \cup InspectSteps =>
       status[call[c].id] # "absent" /\ call[c].cid = cid[call[c].id]
  /\ call[c].pc = "final" => state[call[c].cid] \in Ended
  /\ call[c].pc = "apply" =>
       call[c].reply # "none" /\ (call[c].reply \in Ends => state[call[c].cid] \in Ended)
StepInv == \A c \in Callers : StepOK(c)

Inv == TypeOK /\ TerminalMeansGone /\ EngineInv /\ EntryInv /\ StartInv /\ StepInv

-----------------------------------------------------------------------------
(* How a step moves one call                                                  *)

Results == Statuses \cup {"none", "ok", "failed", "notfound", "cancelled"}

\* Goto moves one call to another step and keeps the rest of it.
LEMMA GotoFacts ==
  ASSUME call \in [Callers -> Calls], NEW c \in Callers, NEW s \in Steps, Goto(c, s)
  PROVE  /\ call' \in [Callers -> Calls]
         /\ call'[c].pc = s
         /\ call'[c].id = call[c].id /\ call'[c].cid = call[c].cid
         /\ call'[c].reply = call[c].reply
         /\ \A d \in Callers \ {c} : call'[d] = call[d]
  BY DEF Goto, Calls

\* Return ends one call with a result.
LEMMA ReturnFacts ==
  ASSUME call \in [Callers -> Calls], NEW c \in Callers, NEW r \in Results, Return(c, r)
  PROVE  /\ call' \in [Callers -> Calls]
         /\ call'[c].pc = "idle"
         /\ \A d \in Callers \ {c} : call'[d] = call[d]
<1>1. "idle" \in Steps
  BY DEF Steps
<1> QED
  BY <1>1 DEF Return, Calls, Results

\* Begin overwrites the record of an idle caller.
LEMMA BeginFacts ==
  ASSUME TypeOK, NEW c \in Callers, NEW op \in {"none", "start", "stop", "wait", "inspect"},
         NEW i \in Ids, NEW s \in Steps, NEW r \in Results, Begin(c, op, i, s, r)
  PROVE  /\ call' \in [Callers -> Calls]
         /\ call'[c].pc = s /\ call'[c].id = i /\ call'[c].cid = cid[i]
         /\ call'[c].reply = "none" /\ call'[c].res = r
         /\ \A d \in Callers \ {c} : call'[d] = call[d]
  BY DEF Begin, Calls, TypeOK, Results, Replies

\* A step that leaves entries and engine alone keeps Inv if the call that moved keeps
\* its own part of it and does not begin a Start.
LEMMA CallStepInv ==
  ASSUME Inv, NEW c \in Callers, UNCHANGED <<byID, entryVars, engineVars>>,
         call' \in [Callers -> Calls],
         \A d \in Callers \ {c} : call'[d] = call[d],
         call'[c].pc \notin Starting,
         StepOK(c)'
  PROVE  Inv'
<1> USE DEF Starting, entryVars, engineVars
<1>1. TypeOK' /\ TerminalMeansGone' /\ EngineInv' /\ EntryInv'
  BY DEF Inv, TypeOK, TerminalMeansGone, EngineInv, EntryInv
<1>2. StartInv'
  BY DEF Inv, StartInv, StartOK, Apart
<1>3. StepInv'
  BY DEF Inv, StepInv, StepOK
<1> QED
  BY <1>1, <1>2, <1>3 DEF Inv

-----------------------------------------------------------------------------
(* Every step keeps the invariant                                             *)

\* The steps of Start.
LEMMA StartStepInv == ASSUME Inv, NEW c \in Callers, StartStep(c) PROVE Inv'
<1> USE ContainerAssumption DEF Starting, Ended, StopSteps, InspectSteps, entryVars, engineVars
<1>0. TypeOK /\ call \in [Callers -> Calls]
  BY DEF Inv, TypeOK
<1>1. CASE RunContainer(c)
  <2>1. PICK k \in Containers : /\ state[k] = "none"
                                /\ state' = [state EXCEPT ![k] = "running"]
                                /\ call' = [call EXCEPT ![c].cid = k, ![c].pc = "register"]
    BY <1>1 DEF RunContainer
  <2>2. TypeOK'
    BY <1>0, <1>1, <2>1 DEF RunContainer, TypeOK, Calls, Steps
  <2>3. EngineInv' /\ EntryInv' /\ TerminalMeansGone'
    BY <1>0, <1>1, <2>1 DEF RunContainer, Inv, EngineInv, EntryInv, TerminalMeansGone, TypeOK, isTerminal
  <2>4. StartInv'
    BY <1>0, <1>1, <2>1 DEF RunContainer, Inv, StartInv, StartOK, Apart, EntryInv, TypeOK, Calls
  <2>5. StepInv'
    BY <1>0, <1>1, <2>1 DEF RunContainer, Inv, StepInv, StepOK, EntryInv, TypeOK, Calls
  <2> QED
    BY <2>2, <2>3, <2>4, <2>5 DEF Inv
<1>2. CASE RunFails(c)
  <2>1. PICK K \in {{}} \cup {{k} : k \in Containers} :
          /\ \A k \in K : state[k] = "none"
          /\ state' = [k \in Containers |-> IF k \in K THEN "running" ELSE state[k]]
    BY <1>2 DEF RunFails
  <2>2. /\ call' \in [Callers -> Calls] /\ call'[c].pc = "idle"
        /\ \A d \in Callers \ {c} : call'[d] = call[d]
    <3>1. Return(c, "failed") /\ "failed" \in Results
      BY <1>2 DEF RunFails, Results
    <3> QED
      BY <1>0, <3>1, ReturnFacts
  <2>3. \A k \in Containers : state[k] # "none" => state'[k] = state[k]
    BY <2>1
  <2>4. TypeOK'
    BY <1>0, <1>2, <2>1, <2>2 DEF RunFails, TypeOK
  <2>5. EngineInv' /\ EntryInv' /\ TerminalMeansGone'
    BY <1>0, <1>2, <2>1, <2>3 DEF RunFails, Inv, EngineInv, EntryInv, TerminalMeansGone, TypeOK, isTerminal
  <2>6. StartInv'
    <3>1. ASSUME NEW d \in Callers PROVE StartOK(d)'
      BY <1>2, <2>2, <2>3 DEF RunFails, Inv, StartInv, StartOK
    <3>2. \A d, e \in Callers : d # e => Apart(d, e)'
      BY <2>2 DEF Inv, StartInv, Apart
    <3> QED
      BY <3>1, <3>2 DEF StartInv
  <2>7. StepInv'
    BY <1>0, <1>2, <2>2, <2>3 DEF RunFails, Inv, StepInv, StepOK, EntryInv, TypeOK, Calls
  <2> QED
    BY <2>4, <2>5, <2>6, <2>7 DEF Inv
<1>3. CASE StartRegister(c)
  <2> DEFINE i == call[c].id
  <2>1. /\ call[c].pc = "register" /\ i \in Ids /\ status[i] = "absent" /\ call[c].cid \in Containers
        /\ state[call[c].cid] # "none" /\ \A j \in Ids : cid[j] # call[c].cid
        /\ cid' = [cid EXCEPT ![i] = call[c].cid] /\ status' = [status EXCEPT ![i] = "running"]
    BY <1>0, <1>3 DEF StartRegister, Inv, StartInv, StartOK, Calls
  <2>2. /\ call' \in [Callers -> Calls] /\ call'[c].pc = "route" /\ call'[c].id = i
        /\ \A d \in Callers \ {c} : call'[d] = call[d]
    <3>1. Goto(c, "route") /\ "route" \in Steps
      BY <1>3 DEF StartRegister, Steps
    <3> QED
      BY <1>0, <3>1, GotoFacts
  <2>3. TypeOK'
    BY <1>0, <1>3, <2>1, <2>2 DEF StartRegister, TypeOK, Statuses
  <2>4. EngineInv' /\ EntryInv'
    BY <1>0, <1>3, <2>1 DEF StartRegister, Inv, EngineInv, EntryInv, TypeOK
  <2>5. TerminalMeansGone'
    BY <1>0, <1>3, <2>1 DEF StartRegister, Inv, TerminalMeansGone, TypeOK, isTerminal
  <2>6. StartInv'
    <3>1. ASSUME NEW d \in Callers, d # c, call[d].pc \in Starting
          PROVE  call[d].id # i /\ (call[d].pc = "register" => call[d].cid # call[c].cid)
      BY <2>1, <3>1 DEF Inv, StartInv, Apart
    <3>2. StartOK(c)'
      BY <1>0, <2>1, <2>2 DEF StartOK, TypeOK
    <3>3. ASSUME NEW d \in Callers, d # c PROVE StartOK(d)'
      <4>1. StartOK(d) /\ call'[d] = call[d] /\ call[d].id \in Ids
        BY <1>0, <2>2, <3>3 DEF Inv, StartInv, Calls
      <4> QED
        BY <1>0, <1>3, <2>1, <3>1, <3>3, <4>1 DEF StartOK, TypeOK, StartRegister
    <3>4. \A d, e \in Callers : d # e => Apart(d, e)'
      BY <2>1, <2>2 DEF Inv, StartInv, Apart
    <3> QED
      BY <3>2, <3>3, <3>4 DEF StartInv
  <2>7. StepInv'
    BY <1>0, <1>3, <2>1, <2>2 DEF StartRegister, Inv, StepInv, StepOK, EntryInv, TypeOK, Calls
  <2> QED
    BY <2>3, <2>4, <2>5, <2>6, <2>7 DEF Inv
<1>4. CASE StartRoute(c)
  <2>1. /\ call' \in [Callers -> Calls] /\ call'[c].pc = "idle"
        /\ \A d \in Callers \ {c} : call'[d] = call[d]
    <3>1. Return(c, "ok") /\ "ok" \in Results
      BY <1>4 DEF StartRoute, Results
    <3> QED
      BY <1>0, <3>1, ReturnFacts
  <2>2. TypeOK' /\ TerminalMeansGone' /\ EngineInv'
    BY <1>0, <1>4, <2>1 DEF StartRoute, Inv, TypeOK, TerminalMeansGone, EngineInv, Calls
  <2>3. EntryInv'
    BY <1>0, <1>4 DEF StartRoute, Inv, EntryInv, StartInv, StartOK
  <2>4. StartInv' /\ StepInv'
    BY <1>0, <1>4, <2>1 DEF StartRoute, Inv, StartInv, StartOK, Apart, StepInv, StepOK
  <2> QED
    BY <2>2, <2>3, <2>4 DEF Inv
<1> QED
  BY <1>1, <1>2, <1>3, <1>4 DEF StartStep

\* Changes of an entry that has a container: an Inspect's answer, or a Stop.
LEMMA EntryStepInv ==
  ASSUME Inv, NEW c \in Callers, NEW i \in Ids, status[i] # "absent",
         UNCHANGED <<byID, cid, engineVars>>,
         status' \in [Ids -> Statuses], \A j \in Ids \ {i} : status'[j] = status[j],
         status'[i] # "absent", isTerminal(status'[i]) => state[cid[i]] \in Ended,
         exitCode' \in [Ids -> {"nil", "zero", "nonzero"}], closes' \in [Ids -> 0..1],
         call' \in [Callers -> Calls],
         \A d \in Callers \ {c} : call'[d] = call[d],
         call'[c].pc \notin Starting, StepOK(c)'
  PROVE  Inv'
<1> USE ContainerAssumption DEF Starting, Ended, engineVars
<1>1. TypeOK' /\ EngineInv'
  BY DEF Inv, TypeOK, EngineInv
<1>2. TerminalMeansGone' /\ EntryInv'
  BY DEF Inv, TerminalMeansGone, EntryInv, TypeOK
<1>3. \A d \in Callers : call[d].id \in Ids
  BY DEF Inv, TypeOK, Calls
<1>4. StartInv'
  BY <1>3 DEF Inv, StartInv, StartOK, Apart
<1>5. StepInv'
  BY <1>3 DEF Inv, StepInv, StepOK
<1> QED
  BY <1>1, <1>2, <1>4, <1>5 DEF Inv

\* A call that begins on an id whose entry is there.
LEMMA NewCallInv == ASSUME Inv, NEW c \in Callers, NewCall(c) PROVE Inv'
<1> USE ContainerAssumption DEF Starting, Ended, StopSteps, InspectSteps, entryVars, engineVars
<1>0. TypeOK /\ call \in [Callers -> Calls]
  BY DEF Inv, TypeOK
<1>1. PICK i \in Ids : \/ Start(c, i) \/ StartNoImage(c, i) \/ NotRouted(c, i)
                       \/ StopLock(c, i) \/ WaitLock(c, i) \/ InspectLock(c, i)
  BY DEF NewCall
<1>2. CASE Start(c, i)
  <2>1. Begin(c, "start", i, "run", "none") /\ "run" \in Steps /\ "none" \in Results
    BY <1>2 DEF Start, Steps, Results
  <2>2. /\ call' \in [Callers -> Calls] /\ call'[c].pc = "run" /\ call'[c].id = i
        /\ \A d \in Callers \ {c} : call'[d] = call[d]
    BY <1>0, <2>1, BeginFacts
  <2>3. TypeOK' /\ TerminalMeansGone' /\ EngineInv' /\ EntryInv'
    BY <1>2, <2>2 DEF Start, Inv, TypeOK, TerminalMeansGone, EngineInv, EntryInv
  <2>4. StartInv'
    BY <1>2, <2>2 DEF Start, Inv, StartInv, StartOK, Apart
  <2>5. StepInv'
    BY <1>2, <2>2 DEF Start, Inv, StepInv, StepOK
  <2> QED
    BY <2>3, <2>4, <2>5 DEF Inv
<1>3. CASE StartNoImage(c, i)
  <2>1. Begin(c, "start", i, "idle", "failed") /\ "idle" \in Steps /\ "failed" \in Results
    BY <1>3 DEF StartNoImage, Steps, Results
  <2>2. call' \in [Callers -> Calls] /\ call'[c].pc = "idle" /\ \A d \in Callers \ {c} : call'[d] = call[d]
    BY <1>0, <2>1, BeginFacts
  <2> QED
    BY <1>3, <2>2, CallStepInv DEF StartNoImage, StepOK
<1>4. CASE NotRouted(c, i)
  <2>1. PICK op \in {"stop", "wait", "inspect"} : Begin(c, op, i, "idle", "notfound")
    BY <1>4 DEF NotRouted
  <2>2. "idle" \in Steps /\ "notfound" \in Results
    BY DEF Steps, Results
  <2>3. call' \in [Callers -> Calls] /\ call'[c].pc = "idle" /\ \A d \in Callers \ {c} : call'[d] = call[d]
    BY <1>0, <2>1, <2>2, BeginFacts
  <2> QED
    BY <1>4, <2>3, CallStepInv DEF NotRouted, StepOK
<1>5. CASE StopLock(c, i)
  <2>0. i \in byID /\ status[i] # "absent"
    BY <1>5 DEF StopLock, Inv, EntryInv
  <2>1. CASE AlreadyStopped(i)
    <3>1. Begin(c, "stop", i, "idle", "ok") /\ "idle" \in Steps /\ "ok" \in Results
      BY <1>5, <2>1 DEF StopLock, Steps, Results
    <3>2. call' \in [Callers -> Calls] /\ call'[c].pc = "idle" /\ \A d \in Callers \ {c} : call'[d] = call[d]
      BY <1>0, <3>1, BeginFacts
    <3> QED
      BY <1>5, <2>1, <3>2, CallStepInv DEF StopLock, StepOK
  <2>2. CASE ~AlreadyStopped(i)
    <3>1. /\ Begin(c, "stop", i, "engstop", "none") /\ status' = [status EXCEPT ![i] = "stopping"]
          /\ "engstop" \in Steps /\ "none" \in Results
      BY <1>5, <2>2 DEF StopLock, Steps, Results
    <3>2. /\ call' \in [Callers -> Calls] /\ call'[c].pc = "engstop"
          /\ call'[c].id = i /\ call'[c].cid = cid[i]
          /\ \A d \in Callers \ {c} : call'[d] = call[d]
      BY <1>0, <3>1, BeginFacts
    <3>3. /\ status' \in [Ids -> Statuses] /\ status'[i] = "stopping"
          /\ \A j \in Ids \ {i} : status'[j] = status[j]
      BY <1>0, <3>1 DEF TypeOK, Statuses
    <3>4. StepOK(c)'
      BY <1>5, <3>2, <3>3 DEF StopLock, StepOK
    <3> QED
      BY <1>0, <1>5, <2>0, <3>2, <3>3, <3>4, EntryStepInv DEF StopLock, isTerminal, TypeOK
  <2> QED
    BY <2>1, <2>2
<1>6. CASE WaitLock(c, i)
  <2>1. /\ {"idle", "wait"} \subseteq Steps /\ {status[i], "none"} \subseteq Results
        /\ \/ Begin(c, "wait", i, "idle", status[i])
           \/ Begin(c, "wait", i, "wait", "none")
    BY <1>0, <1>6 DEF WaitLock, Steps, Results, TypeOK
  <2>2. /\ call' \in [Callers -> Calls] /\ call'[c].pc \in {"idle", "wait"}
        /\ \A d \in Callers \ {c} : call'[d] = call[d]
    BY <1>0, <2>1, BeginFacts
  <2> QED
    BY <1>6, <2>2, CallStepInv DEF WaitLock, StepOK
<1>7. CASE InspectLock(c, i)
  <2>1. /\ call' \in [Callers -> Calls] /\ call'[c].pc \in {"idle", "query"}
        /\ call'[c].id = i /\ call'[c].cid = cid[i]
        /\ \A d \in Callers \ {c} : call'[d] = call[d]
    BY <1>0, <1>7 DEF InspectLock, TypeOK, Calls, Steps, Replies
  <2>2. StepOK(c)'
    BY <1>7, <2>1 DEF InspectLock, Inv, EntryInv, StepOK
  <2> QED
    BY <1>7, <2>1, <2>2, CallStepInv DEF InspectLock
<1> QED
  BY <1>1, <1>2, <1>3, <1>4, <1>5, <1>6, <1>7

\* The steps of Stop once it holds the entry's container.
LEMMA StopStepInv == ASSUME Inv, NEW c \in Callers, StopStep(c) PROVE Inv'
<1> USE ContainerAssumption DEF Starting, Ended, StopSteps, InspectSteps, entryVars, engineVars
<1> DEFINE i == call[c].id
           k == call[c].cid
<1>0. /\ TypeOK /\ call \in [Callers -> Calls] /\ i \in Ids
      /\ call[c].pc \in {"engstop", "final"} => status[i] # "absent" /\ k = cid[i] /\ k \in Containers
  BY DEF Inv, TypeOK, Calls, StepInv, StepOK, EntryInv
<1>1. CASE EngineStops(c)
  <2>1. /\ call' \in [Callers -> Calls] /\ call'[c].pc = "final" /\ call'[c].id = i /\ call'[c].cid = k
        /\ \A d \in Callers \ {c} : call'[d] = call[d]
    <3>1. Goto(c, "final") /\ "final" \in Steps
      BY <1>1 DEF EngineStops, Steps
    <3> QED
      BY <1>0, <3>1, GotoFacts
  <2>2. /\ \A m \in Containers \ {k} : state'[m] = state[m] /\ outcome'[m] = outcome[m]
        /\ state'[k] \in Ended /\ outcome'[k] \in Ends
        /\ state' \in [Containers -> {"none", "running", "exited", "removed"}]
        /\ outcome' \in [Containers -> {"up", "sick"} \cup Ends]
    BY <1>0, <1>1 DEF EngineStops, Inv, EngineInv, TypeOK
  <2>3. \A m \in Containers : /\ state[m] \in Ended => state'[m] \in Ended
                              /\ state[m] # "none" => state'[m] # "none"
    BY <1>0, <1>1, <2>2
  <2>4. TypeOK'
    BY <1>0, <1>1, <2>1, <2>2 DEF EngineStops, TypeOK
  <2>5. EngineInv'
    BY <2>2 DEF Inv, EngineInv
  <2>6. TerminalMeansGone'
    BY <1>0, <1>1, <2>3 DEF EngineStops, Inv, TerminalMeansGone, EntryInv, TypeOK, isTerminal
  <2>7. EntryInv'
    BY <1>1, <2>3 DEF EngineStops, Inv, EntryInv
  <2>8. StartInv'
    <3>1. ASSUME NEW d \in Callers PROVE StartOK(d)'
      BY <1>1, <2>1, <2>3 DEF EngineStops, Inv, StartInv, StartOK
    <3>2. \A d, e \in Callers : d # e => Apart(d, e)'
      BY <2>1 DEF Inv, StartInv, Apart
    <3> QED
      BY <3>1, <3>2 DEF StartInv
  <2>9. StepInv'
    <3>1. StepOK(c)'
      BY <1>0, <1>1, <2>1, <2>2 DEF EngineStops, StepOK
    <3>2. ASSUME NEW d \in Callers, d # c PROVE StepOK(d)'
      <4>1. /\ StepOK(d) /\ call'[d] = call[d] /\ call[d].id \in Ids
            /\ call[d].pc \in {"final", "apply"} => call[d].cid \in Containers
        BY <1>0, <2>1, <3>2 DEF Inv, StepInv, StepOK, EntryInv, Calls, TypeOK
      <4> QED
        BY <1>1, <2>3, <4>1 DEF EngineStops, StepOK
    <3> QED
      BY <3>1, <3>2 DEF StepInv
  <2> QED
    BY <2>4, <2>5, <2>6, <2>7, <2>8, <2>9 DEF Inv
<1>2. CASE EngineStopFails(c)
  <2>1. Return(c, "failed") /\ "failed" \in Results
    BY <1>2 DEF EngineStopFails, StopError, Results
  <2>2. call' \in [Callers -> Calls] /\ call'[c].pc = "idle" /\ \A d \in Callers \ {c} : call'[d] = call[d]
    BY <1>0, <2>1, ReturnFacts
  <2> QED
    BY <1>2, <2>2, CallStepInv DEF EngineStopFails, StopError, StepOK
<1>3. CASE StopFinal(c)
  <2>1. Return(c, "ok") /\ "ok" \in Results
    BY <1>3 DEF StopFinal, Results
  <2>2. call' \in [Callers -> Calls] /\ call'[c].pc = "idle" /\ \A d \in Callers \ {c} : call'[d] = call[d]
    BY <1>0, <2>1, ReturnFacts
  <2>3. state[cid[i]] \in Ended
    BY <1>0, <1>3 DEF StopFinal, Inv, StepInv, StepOK
  <2>4. /\ status' \in [Ids -> Statuses] /\ status'[i] = "exited"
        /\ \A j \in Ids \ {i} : status'[j] = status[j]
        /\ exitCode' \in [Ids -> {"nil", "zero", "nonzero"}] /\ closes' \in [Ids -> 0..1]
    BY <1>0, <1>3 DEF StopFinal, closeOnce, TypeOK, Statuses
  <2>5. StepOK(c)'
    BY <2>2 DEF StepOK
  <2>6. status[i] # "absent" /\ UNCHANGED <<byID, cid, engineVars>>
    BY <1>0, <1>3 DEF StopFinal
  <2> QED
    BY <1>0, <2>2, <2>3, <2>4, <2>5, <2>6, EntryStepInv
<1> QED
  BY <1>1, <1>2, <1>3 DEF StopStep

\* Inspect's answer is applied only to an entry it may still change.
LEMMA InspectStepInv == ASSUME Inv, NEW c \in Callers, InspectStep(c) PROVE Inv'
<1> USE ContainerAssumption DEF Starting, Ended, StopSteps, InspectSteps, entryVars, engineVars
<1> DEFINE i == call[c].id
           r == call[c].reply
<1>0. /\ TypeOK /\ call \in [Callers -> Calls] /\ i \in Ids /\ r \in Replies
      /\ call[c].pc \in {"query", "apply"} =>
           status[i] # "absent" /\ call[c].cid = cid[i] /\ cid[i] \in Containers
  BY DEF Inv, TypeOK, Calls, StepInv, StepOK, EntryInv
<1>1. CASE InspectQuery(c)
  <2>1. PICK a \in (IF state[call[c].cid] = "removed" THEN {} ELSE {outcome[call[c].cid]})
                   \cup (IF EngineMayFail \/ state[call[c].cid] = "removed" THEN {"failed"} ELSE {}) :
          call' = [call EXCEPT ![c].reply = a, ![c].pc = "apply"]
    BY <1>1 DEF InspectQuery
  <2>2. /\ a \in Replies /\ a # "none" /\ (a \in Ends => state[call[c].cid] \in Ended)
        /\ call[c].pc = "query"
    BY <1>0, <1>1, <2>1 DEF InspectQuery, Inv, EngineInv, TypeOK, Replies, Ends
  <2>3. /\ call' \in [Callers -> Calls] /\ call'[c].pc = "apply" /\ call'[c].reply = a
        /\ call'[c].id = i /\ call'[c].cid = call[c].cid
        /\ \A d \in Callers \ {c} : call'[d] = call[d]
    BY <1>0, <2>1, <2>2 DEF Calls, Steps
  <2>4. StepOK(c)'
    BY <1>0, <1>1, <2>2, <2>3 DEF InspectQuery, StepOK
  <2> QED
    BY <1>1, <2>3, <2>4, CallStepInv DEF InspectQuery
<1>2. CASE InspectApply(c)
  <2>0. call[c].pc = "apply" /\ UNCHANGED <<byID, cid, engineVars>>
    BY <1>2 DEF InspectApply
  <2>1. /\ status' \in [Ids -> Statuses] /\ \A j \in Ids \ {i} : status'[j] = status[j]
        /\ exitCode' \in [Ids -> {"nil", "zero", "nonzero"}] /\ closes' \in [Ids -> 0..1]
        /\ \/ status'[i] = status[i]
           \/ status'[i] \in {"exited", "crashed"} /\ r \in Ends
           \/ status'[i] \in {"running", "unhealthy"}
    BY <1>0, <1>2 DEF InspectApply, SeeExit, SeeHealth, exitStatus, closeOnce, TypeOK, Statuses
  <2>2. /\ call' \in [Callers -> Calls] /\ call'[c].pc = "idle"
        /\ \A d \in Callers \ {c} : call'[d] = call[d]
    <3>1. Return(c, status'[i]) /\ status'[i] \in Results
      BY <1>0, <1>2, <2>1 DEF InspectApply, Results
    <3> QED
      BY <1>0, <3>1, ReturnFacts
  <2>3. /\ status[i] # "absent" /\ status'[i] # "absent"
        /\ isTerminal(status'[i]) => state[cid[i]] \in Ended
    <3>1. r \in Ends => state[cid[i]] \in Ended
      BY <1>0, <2>0 DEF Inv, StepInv, StepOK
    <3>2. status[i] # "absent" /\ (isTerminal(status[i]) => state[cid[i]] \in Ended)
      BY <1>0, <2>0 DEF Inv, TerminalMeansGone
    <3> QED
      BY <2>1, <3>1, <3>2 DEF isTerminal
  <2>4. StepOK(c)'
    BY <2>2 DEF StepOK
  <2> QED
    BY <1>0, <2>0, <2>1, <2>2, <2>3, <2>4, EntryStepInv
<1> QED
  BY <1>1, <1>2 DEF InspectStep

\* Wait only reads; the engine only moves containers forward.
LEMMA WaitInv == ASSUME Inv, NEW c \in Callers, WaitDone(c) \/ WaitCancelled(c) PROVE Inv'
<1>0. call \in [Callers -> Calls] /\ call[c].id \in Ids /\ TypeOK
  BY DEF Inv, TypeOK, Calls
<1>1. /\ \E r \in Results : Return(c, r)
      /\ UNCHANGED <<byID, entryVars, engineVars>>
  BY <1>0 DEF WaitDone, WaitCancelled, Results, TypeOK
<1>2. call' \in [Callers -> Calls] /\ call'[c].pc = "idle" /\ \A d \in Callers \ {c} : call'[d] = call[d]
  BY <1>0, <1>1, ReturnFacts
<1> QED
  BY <1>1, <1>2, CallStepInv DEF StepOK, Starting, StopSteps, InspectSteps

LEMMA EngineStepInv == ASSUME Inv, NEW k \in Containers, Engine(k) PROVE Inv'
<1> USE ContainerAssumption DEF Starting, Ended, StopSteps, InspectSteps, entryVars, engineVars
<1>1. /\ UNCHANGED <<byID, entryVars, call>>
      /\ state' \in [Containers -> {"none", "running", "exited", "removed"}]
      /\ outcome' \in [Containers -> {"up", "sick"} \cup Ends]
      /\ \A m \in Containers : /\ state[m] \in Ended => state'[m] \in Ended
                               /\ state[m] # "none" => state'[m] # "none"
      /\ TypeOK
  BY DEF Engine, ContainerEnds, AutoRemove, HealthFlips, Inv, TypeOK
<1>2. EngineInv'
  BY <1>1 DEF Engine, ContainerEnds, AutoRemove, HealthFlips, Inv, TypeOK, EngineInv, Ends
<1>3. TypeOK' /\ TerminalMeansGone' /\ EntryInv'
  BY <1>1 DEF Inv, TypeOK, TerminalMeansGone, EntryInv, isTerminal
<1>4. StartInv'
  BY <1>1 DEF Inv, StartInv, StartOK, Apart
<1>5. StepInv'
  BY <1>1 DEF Inv, StepInv, StepOK, EntryInv, TypeOK, Calls
<1> QED
  BY <1>2, <1>3, <1>4, <1>5 DEF Inv

LEMMA InitInv == Init => Inv
<1> SUFFICES ASSUME Init PROVE Inv
  OBVIOUS
<1>1. PICK i \in Ids : call = [c \in Callers |-> [op |-> "none", id |-> i, cid |-> NoContainer,
                                 reply |-> "none", pc |-> "idle", res |-> "none"]]
  BY DEF Init
<1>2. TypeOK
  BY <1>1 DEF Init, TypeOK, Calls, Statuses, Replies, Steps, Ends
<1>3. TerminalMeansGone /\ EngineInv /\ EntryInv
  BY ContainerAssumption DEF Init, TerminalMeansGone, EngineInv, EntryInv, isTerminal, Ended, Ends
<1>4. StartInv /\ StepInv
  BY <1>1 DEF StartInv, StartOK, Apart, StepInv, StepOK, Starting, StopSteps, InspectSteps
<1> QED
  BY <1>2, <1>3, <1>4 DEF Inv

LEMMA NextInv == Inv /\ [Next]_vars => Inv'
<1> SUFFICES ASSUME Inv, [Next]_vars PROVE Inv'
  OBVIOUS
<1>1. CASE UNCHANGED vars
  BY <1>1 DEF vars, entryVars, engineVars, Inv, TypeOK, TerminalMeansGone, EngineInv, EntryInv,
              StartInv, StartOK, Apart, StepInv, StepOK
<1> QED
  BY <1>1, NewCallInv, StartStepInv, StopStepInv, InspectStepInv, WaitInv, EngineStepInv DEF Next

LEMMA Inductive == Spec => []Inv
  BY InitInv, NextInv, PTL DEF Spec

\* Types, no done channel closed twice, and no entry that says exited or crashed
\* over a running container.
THEOREM EntriesAreSound == Spec => []EntriesSound
<1>1. Inv => EntriesSound
  BY DEF Inv, EntriesSound
<1> QED
  BY <1>1, Inductive, PTL

-----------------------------------------------------------------------------
(* Refinement of ManagerSpec                                                  *)

\* What Inspect shows of an entry's status, as the contract names it.
Shown(s) == CASE s = "unhealthy" -> "running" [] s = "crashed" -> "exited" [] OTHER -> s

LEMMA HandleShows == ASSUME TypeOK PROVE handle = [i \in Ids |-> Shown(status[i])]
  BY DEF handle, Shown

\* An entry that takes another status moves its handle and no other.
LEMMA HandleMoves ==
  ASSUME TypeOK, TypeOK', NEW i \in Ids, NEW s \in Statuses, status' = [status EXCEPT ![i] = s]
  PROVE  handle' = [handle EXCEPT ![i] = Shown(s)] /\ handle[i] = Shown(status[i])
  BY DEF handle, Shown, TypeOK

LEMMA HandleUnchanged == ASSUME UNCHANGED <<cid, status>> PROVE UNCHANGED <<cid, handle>>
  BY DEF handle

\* Every step is one the contract allows, or changes neither entry nor handle.
LEMMA StepRefines == Inv /\ Inv' /\ [Next]_vars => [Contract!Next]_<<cid, handle>>
<1> SUFFICES ASSUME Inv, Inv', [Next]_vars PROVE [Contract!Next]_<<cid, handle>>
  OBVIOUS
<1>0. TypeOK /\ TypeOK' /\ \A c \in Callers : call[c].id \in Ids
  BY DEF Inv, TypeOK, Calls
<1>1. ASSUME NEW c \in Callers, StartRegister(c)
      PROVE  \E i \in Ids, x \in Containers : Contract!Launch(i, x)
  <2> DEFINE i == call[c].id
             x == call[c].cid
  <2>1. /\ i \in Ids /\ x \in Containers /\ status[i] = "absent" /\ \A j \in Ids : cid[j] # x
        /\ cid' = [cid EXCEPT ![i] = x] /\ status' = [status EXCEPT ![i] = "running"]
    BY <1>0, <1>1 DEF StartRegister, Inv, StartInv, StartOK
  <2>2. handle' = [handle EXCEPT ![i] = "running"] /\ handle[i] = "absent"
    BY <1>0, <2>1, HandleMoves DEF Shown, Statuses
  <2> QED
    BY <2>1, <2>2 DEF Contract!Launch
<1>2. ASSUME NEW c \in Callers, NEW i \in Ids, StopLock(c, i)
      PROVE  Contract!BeginStop(i) \/ UNCHANGED <<cid, handle>>
  <2>1. CASE AlreadyStopped(i)
    BY <1>2, <2>1, HandleUnchanged DEF StopLock
  <2>2. CASE ~AlreadyStopped(i)
    <3>1. cid' = cid /\ status' = [status EXCEPT ![i] = "stopping"]
      BY <1>2, <2>2 DEF StopLock
    <3>2. handle' = [handle EXCEPT ![i] = "stopping"] /\ handle[i] = Shown(status[i])
      BY <1>0, <3>1, HandleMoves DEF Shown, Statuses
    <3>3. status[i] \in {"running", "unhealthy", "stopping"}
      BY <1>0, <1>2, <2>2 DEF StopLock, AlreadyStopped, isTerminal, Inv, EntryInv, TypeOK, Statuses
    <3>4. CASE status[i] = "stopping"
      BY <3>1, <3>4, <1>0, HandleUnchanged DEF TypeOK
    <3>5. CASE status[i] # "stopping"
      BY <3>1, <3>2, <3>3, <3>5 DEF Contract!BeginStop, Shown
    <3> QED
      BY <3>4, <3>5
  <2> QED
    BY <2>1, <2>2
<1>3. ASSUME NEW c \in Callers, StopFinal(c)
      PROVE  Contract!Finish(call[c].id) \/ UNCHANGED <<cid, handle>>
  <2> DEFINE i == call[c].id
  <2>1. cid' = cid /\ status' = [status EXCEPT ![i] = "exited"] /\ i \in Ids /\ status[i] # "absent"
    BY <1>0, <1>3 DEF StopFinal, Inv, StepInv, StepOK, StopSteps
  <2>2. handle' = [handle EXCEPT ![i] = "exited"] /\ handle[i] = Shown(status[i])
    BY <1>0, <2>1, HandleMoves DEF Shown, Statuses
  <2>3. CASE isTerminal(status[i])
    BY <2>1, <2>2, <2>3 DEF isTerminal, Shown, handle
  <2>4. CASE ~isTerminal(status[i])
    <3>1. Shown(status[i]) \in {"running", "stopping"}
      BY <1>0, <2>1, <2>4 DEF isTerminal, Shown, TypeOK, Statuses
    <3> QED
      BY <2>1, <2>2, <3>1 DEF Contract!Finish
  <2> QED
    BY <2>3, <2>4
<1>4. ASSUME NEW c \in Callers, InspectApply(c)
      PROVE  Contract!Finish(call[c].id) \/ UNCHANGED <<cid, handle>>
  <2> DEFINE i == call[c].id
  <2>1. /\ cid' = cid /\ i \in Ids
        /\ \/ UNCHANGED status
           \/ /\ Refreshable(status[i])
              /\ \E s \in {"exited", "crashed"} : status' = [status EXCEPT ![i] = s]
           \/ /\ Refreshable(status[i])
              /\ \E s \in {"running", "unhealthy"} : status' = [status EXCEPT ![i] = s]
    BY <1>0, <1>4 DEF InspectApply, SeeExit, SeeHealth, exitStatus
  <2>2. CASE UNCHANGED status
    BY <2>1, <2>2, HandleUnchanged
  <2>3. ASSUME NEW s \in {"exited", "crashed"}, Refreshable(status[i]), status' = [status EXCEPT ![i] = s]
        PROVE  Contract!Finish(i)
    <3>1. handle' = [handle EXCEPT ![i] = "exited"] /\ handle[i] = "running"
      BY <1>0, <2>1, <2>3, HandleMoves DEF Shown, Statuses, Refreshable
    <3> QED
      BY <2>1, <3>1 DEF Contract!Finish
  <2>4. ASSUME NEW s \in {"running", "unhealthy"}, Refreshable(status[i]), status' = [status EXCEPT ![i] = s]
        PROVE  UNCHANGED <<cid, handle>>
    <3>1. handle' = [handle EXCEPT ![i] = "running"] /\ handle[i] = "running"
      BY <1>0, <2>1, <2>4, HandleMoves DEF Shown, Statuses, Refreshable
    <3> QED
      BY <2>1, <3>1 DEF handle
  <2> QED
    BY <2>1, <2>2, <2>3, <2>4
<1>5. ASSUME NEW c \in Callers,
             \/ RunContainer(c) \/ RunFails(c) \/ StartRoute(c) \/ EngineStops(c)
             \/ EngineStopFails(c) \/ InspectQuery(c) \/ WaitDone(c) \/ WaitCancelled(c)
             \/ \E i \in Ids : Start(c, i) \/ StartNoImage(c, i) \/ NotRouted(c, i)
                               \/ WaitLock(c, i) \/ InspectLock(c, i)
      PROVE  UNCHANGED <<cid, status>>
  BY <1>5 DEF RunContainer, RunFails, StartRoute, EngineStops, EngineStopFails, StopError,
              InspectQuery, WaitDone, WaitCancelled, Start, StartNoImage, NotRouted, WaitLock,
              InspectLock, entryVars
<1>6. ASSUME NEW k \in Containers, Engine(k) PROVE UNCHANGED <<cid, status>>
  BY <1>6 DEF Engine, ContainerEnds, AutoRemove, HealthFlips, entryVars
<1>7. CASE UNCHANGED vars
  BY <1>7, HandleUnchanged DEF vars
<1>8. ASSUME NEW c \in Callers, NewCall(c) PROVE [Contract!Next]_<<cid, handle>>
  BY <1>8, <1>2, <1>5, HandleUnchanged DEF NewCall, Contract!Next
<1>9. ASSUME NEW c \in Callers, StartStep(c) \/ StopStep(c) \/ InspectStep(c) \/ WaitDone(c) \/ WaitCancelled(c)
      PROVE  [Contract!Next]_<<cid, handle>>
  BY <1>9, <1>0, <1>1, <1>3, <1>4, <1>5, HandleUnchanged
  DEF StartStep, StopStep, InspectStep, Contract!Next
<1> QED
  BY <1>6, <1>7, <1>8, <1>9, HandleUnchanged DEF Next

\* The router with the container driver implements the contract the daemon relies on.
THEOREM Refinement == Spec => RefinesManager
<1>1. Init => Contract!Init
  BY DEF Init, Contract!Init, handle
<1> QED
  BY <1>1, Inductive, StepRefines, PTL DEF Spec, RefinesManager, Contract!Spec
=============================================================================
