-------------------------- MODULE LifecycleProofs --------------------------
(***************************************************************************)
(* Proofs about the process lifecycle, for any number of clients, names,   *)
(* ids and children.                                                       *)
(***************************************************************************)
EXTENDS Lifecycle, TLAPS

-----------------------------------------------------------------------------
(* What holds in every instance: types, and where ids and children come from. *)

\* Steps that edit a row, or lead to one without reading it again.
NeedsRow == Editing \cup {"rlaunch", "rblaunch", "bootlaunch"}
Stopping == {"mstop", "mwait"}
HoldsRow(t) == thr[t].pc \in NeedsRow \/ (thr[t].pc \in Stopping /\ thr[t].ret \in NeedsRow)

\* Steps with no target yet, and steps with a process just launched.
Placeless == {"idle", "scan", "launch", "create", "publish"}
HasNew == {"create", "publish", "rlink", "rcreate", "rpublish"}

\* Where a thread may go on after the driver's Stop.
Returns == {"idle", "repldel", "stopinsp", "rlaunch", "rmdel", "disend", "rblaunch"}

\* Steps of the threads that no client drives.
Background == Stopping \cup {"idle", "rbget", "rblaunch", "rbspawn", "rbreg", "rbkill", "rbput",
                             "lpget", "lpput", "bootlaunch", "bootput", "bootfail"}

ThreadOK(t) ==
  /\ thr[t].pc \notin Placeless => thr[t].id \in Ids /\ thr[t].id <= lastId
  /\ thr[t].pc \in HasNew => /\ thr[t].new \in Ids /\ thr[t].new <= lastId
                             /\ thr[t].pid \in Pids /\ thr[t].pid <= lastPid
                             /\ owner[thr[t].pid] = thr[t].new
  /\ thr[t].pc = "rbreg" => /\ thr[t].pid \in Pids /\ thr[t].pid <= lastPid
                            /\ owner[thr[t].pid] = thr[t].id
  /\ HoldsRow(t) => thr[t].rec \in Rows
  /\ thr[t].ret \in Returns
  /\ t \in Clients /\ thr[t].pc # "idle" => thr[t].name \in Names
  /\ t \notin Clients => /\ thr[t].pc \in Background
                         /\ thr[t].pc \in Stopping => thr[t].ret = "rblaunch"

\* A child belongs to a known id, and the driver's handle to the child's own id.
Births ==
  /\ \A p \in live : p <= lastPid
  /\ \A p \in Pids : p <= lastPid => owner[p] \in Ids /\ owner[p] <= lastId
  /\ \A i \in Ids : hpid[i] # 0 => hpid[i] <= lastPid /\ owner[hpid[i]] = i
  /\ \A i \in Ids : Stored(i) => i <= lastId
  /\ \A n \in Names : byName[n] <= lastId
  /\ \A i \in auto \cup watchers \cup loopIds \cup bootIds : i <= lastId

BaseInv == TypeOK /\ Births /\ \A t \in Threads : ThreadOK(t)

LEMMA IdleTyped == Idle \in ThreadStates
  BY LifecycleAssumption DEF Idle, ThreadStates, Steps

\* How the four ways of updating a thread change it.
LEMMA GotoFacts ==
  ASSUME TypeOK, NEW t \in Threads, NEW s \in Steps, Goto(t, s)
  PROVE  /\ thr' \in [Threads -> ThreadStates]
         /\ thr'[t] = [thr[t] EXCEPT !.pc = s] /\ thr'[t].pc = s
         /\ \A u \in Threads \ {t} : thr'[u] = thr[u]
  BY DEF Goto, TypeOK, ThreadStates

LEMMA DoneFacts ==
  ASSUME TypeOK, NEW t \in Threads, Done(t)
  PROVE  /\ thr' \in [Threads -> ThreadStates]
         /\ thr'[t] = Idle /\ thr'[t].pc = "idle"
         /\ \A u \in Threads \ {t} : thr'[u] = thr[u]
  BY IdleTyped DEF Done, TypeOK, Idle

\* A thread that starts or goes on with another target keeps the type.
LEMMA ThreadFacts ==
  ASSUME TypeOK, NEW t \in Threads, NEW r \in ThreadStates, thr' = [thr EXCEPT ![t] = r]
  PROVE  /\ thr' \in [Threads -> ThreadStates] /\ thr'[t] = r
         /\ \A u \in Threads \ {t} : thr'[u] = thr[u]
  BY DEF TypeOK

LEMMA RowsAreStored == \A r \in Rows : r # NoRec
<1> SUFFICES ASSUME NEW r \in Rows  PROVE r # NoRec
    OBVIOUS
<1>1. "st" \in DOMAIN r
    BY DEF Rows
<1>2. "st" \notin DOMAIN NoRec
    BY DEF NoRec
<1> QED BY <1>1, <1>2

LEMMA UpdateTyped ==
  ASSUME TypeOK, NEW t \in Threads, NEW row \in Rows, Update(t, row)
  PROVE  store' \in [Ids -> Rows \cup {NoRec}]
  BY DEF Update, TypeOK

LEMMA TargetTyped ==
  ASSUME NEW q \in ThreadStates, NEW s \in Steps, NEW op \in Ops, NEW i \in 0..MaxIds,
         NEW row \in Rows, NEW n \in Names, NEW r \in Steps
  PROVE  [q EXCEPT !.pc = s, !.op = op, !.id = i, !.rec = row, !.name = n, !.ret = r] \in ThreadStates
  BY DEF ThreadStates

LEMMA TargetFacts ==
  ASSUME BaseInv, NEW c \in Clients, NEW op \in Ops, NEW i \in Ids, NEW s \in Steps, NEW r \in Steps,
         Target(c, op, i, s, r)
  PROVE  /\ thr' \in [Threads -> ThreadStates]
         /\ thr'[c].pc = s /\ thr'[c].op = op /\ thr'[c].id = i /\ thr'[c].rec = store[i]
         /\ thr'[c].name \in Names /\ thr'[c].ret = r /\ thr'[c].pid = 0
         /\ ~thr'[c].cancelled
         /\ \A u \in Threads \ {c} : thr'[u] = thr[u]
<1>1. store[i] \in Rows /\ store[i].name \in Names
    BY DEF Target, Stored, BaseInv, TypeOK, Rows
<1>2. thr' \in [Threads -> ThreadStates]
  <2>1. i \in 0..MaxIds /\ c \in Threads
      BY DEF Ids, Threads
  <2>2. [Idle EXCEPT !.pc = s, !.op = op, !.id = i, !.rec = store[i], !.name = store[i].name,
                     !.ret = r] \in ThreadStates
      BY <1>1, <2>1, IdleTyped, TargetTyped, Zenon
  <2> QED BY <2>1, <2>2, ThreadFacts, Zenon DEF Target, BaseInv
<1> QED BY <1>1, <1>2 DEF Target, BaseInv, TypeOK, Idle, Threads

\* The steps that start no child: a thread moves, and rows, maps and handles change
\* within their types.
NoLaunch ==
  /\ UNCHANGED <<owner, lastPid, lastId>> /\ crashes' \in 0..MaxCrashes /\ live' \subseteq live
  /\ hpid' \in [Ids -> 0..MaxPids] /\ \A i \in Ids : hpid'[i] \in {0, hpid[i]}
  /\ store' \in [Ids -> Rows \cup {NoRec}] /\ \A i \in Ids : store'[i] # NoRec => i <= lastId
  /\ byName' \in [Names -> 0..MaxIds] /\ \A n \in Names : byName'[n] <= lastId
  /\ stopping' \subseteq Ids /\ auto' \subseteq Ids /\ url' \subseteq Ids /\ watchers' \subseteq Ids
  /\ loopIds' \subseteq Ids /\ bootIds' \subseteq Ids /\ phase' \in {"up", "down", "boot"}
  /\ \A i \in auto' \cup watchers' \cup loopIds' \cup bootIds' : i <= lastId

LEMMA ThreadsKept ==
  ASSUME BaseInv, NEW t \in Threads, lastId \in Nat, lastId' \in Nat, lastId <= lastId',
         lastPid \in Nat, lastPid' \in Nat, lastPid <= lastPid',
         \A p \in Pids : p <= lastPid => owner'[p] = owner[p],
         \A u \in Threads \ {t} : thr'[u] = thr[u],
         thr' \in [Threads -> ThreadStates], ThreadOK(t)'
  PROVE  /\ \A u \in Threads : ThreadOK(u)'
         /\ \A u \in Threads : thr'[u].pc \in Editing => thr'[u].rec \in Rows
<1>1. ASSUME NEW u \in Threads \ {t}  PROVE ThreadOK(u)'
  <2>1. thr'[u] = thr[u] /\ ThreadOK(u)
      BY DEF BaseInv
  <2>2. HoldsRow(u)' <=> HoldsRow(u)
      BY <2>1 DEF HoldsRow
  <2>3. thr[u] \in ThreadStates
      BY DEF BaseInv, TypeOK
  <2> QED BY <2>1, <2>2, <2>3 DEF ThreadOK, Ids, Pids, ThreadStates
<1>2. \A u \in Threads : ThreadOK(u)'
    BY <1>1
<1>3. ASSUME NEW u \in Threads, thr'[u].pc \in Editing  PROVE thr'[u].rec \in Rows
    BY <1>2, <1>3 DEF ThreadOK, HoldsRow, NeedsRow
<1> QED BY <1>2, <1>3

LEMMA NoLaunchKeeps ==
  ASSUME BaseInv, NoLaunch, NEW t \in Threads, \A u \in Threads \ {t} : thr'[u] = thr[u],
         thr' \in [Threads -> ThreadStates], ThreadOK(t)'
  PROVE  BaseInv'
<1>1. lastId \in Nat /\ lastPid \in Nat
    BY LifecycleAssumption DEF BaseInv, TypeOK
<1>2. /\ \A u \in Threads : ThreadOK(u)'
      /\ \A u \in Threads : thr'[u].pc \in Editing => thr'[u].rec \in Rows
    BY <1>1, ThreadsKept DEF NoLaunch
<1>3. TypeOK'
    BY <1>2 DEF BaseInv, TypeOK, NoLaunch
<1>4. Births'
    BY <1>1 DEF BaseInv, TypeOK, Births, NoLaunch, Stored
<1> QED BY <1>2, <1>3, <1>4 DEF BaseInv

LEMMA QuietState ==
  ASSUME BaseInv, UNCHANGED <<diskVars, kernelVars, driverVars, mapVars, daemonVars>>
  PROVE  NoLaunch
  BY DEF BaseInv, TypeOK, Births, NoLaunch, diskVars, kernelVars, driverVars, mapVars, daemonVars, Stored

LEMMA WrittenState ==
  ASSUME BaseInv, NEW t \in Threads, NEW row \in Rows, Update(t, row),
         UNCHANGED <<kernelVars, driverVars, mapVars, daemonVars>>
  PROVE  NoLaunch
<1>1. store' \in [Ids -> Rows \cup {NoRec}]
    BY UpdateTyped DEF BaseInv
<1>2. ASSUME NEW i \in Ids, store'[i] # NoRec  PROVE i <= lastId
    BY <1>2 DEF Update, UpdateOK, Reach, Stored, BaseInv, TypeOK, Births
<1> QED BY <1>1, <1>2 DEF BaseInv, TypeOK, Births, NoLaunch, kernelVars, driverVars, mapVars, daemonVars

LEMMA UnmappedState ==
  ASSUME BaseInv, NEW n, byName' = [byName EXCEPT ![n] = 0], auto' \subseteq auto, url' \subseteq url,
         UNCHANGED <<diskVars, kernelVars, driverVars, watchers, daemonVars>>
  PROVE  NoLaunch
<1>1. 0 \in 0..MaxIds /\ 0 <= lastId
    BY LifecycleAssumption DEF BaseInv, TypeOK
<1>2. byName' \in [Names -> 0..MaxIds] /\ \A m \in Names : byName'[m] <= lastId
    BY <1>1 DEF BaseInv, TypeOK, Births
<1> QED BY <1>2 DEF BaseInv, TypeOK, Births, NoLaunch, diskVars, kernelVars, driverVars, daemonVars, Stored

LEMMA DoneKeeps ==
  ASSUME BaseInv, NoLaunch, NEW t \in Threads, Done(t)
  PROVE  BaseInv'
<1>1. /\ thr' \in [Threads -> ThreadStates]
      /\ thr'[t] = Idle /\ thr'[t].pc = "idle"
      /\ \A u \in Threads \ {t} : thr'[u] = thr[u]
    BY DoneFacts DEF BaseInv
<1>2. ThreadOK(t)'
    BY <1>1 DEF ThreadOK, Placeless, HasNew, HoldsRow, NeedsRow, Editing, Stopping, Background,
                Returns, Idle
<1> QED BY <1>1, <1>2, NoLaunchKeeps

\* A thread that goes on keeps its target, its new process, its row and its name.
LEMMA GotoKeeps ==
  ASSUME BaseInv, NoLaunch, NEW t \in Threads, NEW s \in Steps, Goto(t, s),
         s \notin Placeless => thr[t].id \in Ids /\ thr[t].id <= lastId,
         s \in HasNew => thr[t].pc \in HasNew, s # "rbreg",
         s \in NeedsRow \/ (s \in Stopping /\ thr[t].ret \in NeedsRow) => HoldsRow(t),
         thr[t].pc # "idle",
         t \notin Clients => s \in Background /\ (s \in Stopping => thr[t].ret = "rblaunch")
  PROVE  BaseInv'
<1>1. /\ thr' \in [Threads -> ThreadStates]
      /\ thr'[t] = [thr[t] EXCEPT !.pc = s] /\ thr'[t].pc = s
      /\ \A u \in Threads \ {t} : thr'[u] = thr[u]
    BY GotoFacts DEF BaseInv
<1>2. thr[t] \in ThreadStates
    BY DEF BaseInv, TypeOK
<1>3. /\ thr'[t].id = thr[t].id /\ thr'[t].new = thr[t].new /\ thr'[t].pid = thr[t].pid
      /\ thr'[t].rec = thr[t].rec /\ thr'[t].name = thr[t].name /\ thr'[t].ret = thr[t].ret
    BY <1>1, <1>2 DEF ThreadStates
<1>4. ThreadOK(t)
    BY DEF BaseInv
<1>5. ThreadOK(t)'
    BY <1>1, <1>3, <1>4 DEF ThreadOK, HoldsRow, NoLaunch
<1> QED BY <1>1, <1>5, NoLaunchKeeps

LEMMA PutKeeps ==
  ASSUME BaseInv, NEW t \in Threads, NEW s, NEW row \in Rows, PutAndReturn(t, s, row)
  PROVE  BaseInv'
<1>1. NoLaunch /\ Done(t)
    BY WrittenState DEF PutAndReturn
<1> QED BY <1>1, DoneKeeps

\* A thread at work has a target, and a row where the step needs one.
LEMMA AtWork ==
  ASSUME BaseInv, NEW t \in Threads
  PROVE  /\ thr[t] \in ThreadStates
         /\ thr[t].pc \notin Placeless => thr[t].id \in Ids /\ thr[t].id <= lastId
         /\ thr[t].pc \in Editing \/ HoldsRow(t) => thr[t].rec \in Rows /\ HoldsRow(t)
  BY DEF BaseInv, TypeOK, ThreadOK, HoldsRow, NeedsRow

\* The requests: a thread picks a row or a name.
LEMMA RequestKeeps ==
  ASSUME BaseInv, NEW c \in Clients, Request(c)
  PROVE  BaseInv'
<1>0. c \in Threads
    BY DEF Threads
<1>1. ASSUME NEW op \in {"start", "run"}, NEW n \in Names, NEW r \in BOOLEAN, StartLookup(c, op, n, r)
      PROVE  BaseInv'
  <2> DEFINE s == IF byName[n] = 0 THEN "scan" ELSE "getname"
             q == [Idle EXCEPT !.pc = s, !.op = op, !.id = byName[n], !.name = n, !.replace = r]
  <2>1. op \in Ops /\ thr' = [thr EXCEPT ![c] = q] /\ NoLaunch
      BY <1>1, QuietState DEF StartLookup, Begin
  <2>2. s \in Steps /\ byName[n] \in 0..MaxIds /\ byName[n] <= lastId
      BY DEF Steps, BaseInv, TypeOK, Births
  <2>3. q \in ThreadStates
    <3> HIDE DEF s
    <3>1. byName[n] \in 0..MaxIds
        BY <2>2
    <3>2. PICK i \in 0..MaxIds : i = byName[n]
        BY <3>1
    <3>3. [Idle EXCEPT !.pc = s, !.op = op, !.id = i, !.name = n, !.replace = r] \in ThreadStates
        BY <2>1, <2>2, IdleTyped DEF ThreadStates
    <3> QED BY <3>2, <3>3
  <2>4. q.pc = s /\ q.id = byName[n] /\ q.name = n /\ q.ret = "idle" /\ q.rec = NoRec
      BY DEF Idle
  <2> HIDE DEF q
  <2>5. /\ thr' \in [Threads -> ThreadStates] /\ thr'[c] = q
        /\ \A u \in Threads \ {c} : thr'[u] = thr[u]
      BY <1>0, <2>1, <2>3, ThreadFacts DEF BaseInv
  <2>6. ThreadOK(c)'
    <3>1. s = "scan" \/ (s = "getname" /\ byName[n] \in Ids)
        BY <2>2, LifecycleAssumption DEF Ids
    <3> HIDE DEF s
    <3> QED BY <2>1, <2>2, <2>4, <2>5, <3>1
            DEF ThreadOK, Placeless, HasNew, HoldsRow, NeedsRow, Editing, Stopping, Returns, NoLaunch
  <2> QED BY <1>0, <2>1, <2>5, <2>6, NoLaunchKeeps
<1>2. ASSUME NEW i \in Ids, NEW op \in Ops, NEW s, NEW r, Target(c, op, i, s, r),
             s \in {"mstop", "enput", "disput", "wlook", "hprobe", "upput"},
             r \in {"idle", "stopinsp", "rlaunch", "rmdel", "disend"}
      PROVE  BaseInv'
  <2>1. s \in Steps /\ r \in Steps
      BY <1>2 DEF Steps
  <2>2. /\ thr' \in [Threads -> ThreadStates]
        /\ thr'[c].pc = s /\ thr'[c].id = i /\ thr'[c].rec = store[i]
        /\ thr'[c].name \in Names /\ thr'[c].ret = r
        /\ \A u \in Threads \ {c} : thr'[u] = thr[u]
      BY <1>2, <2>1, TargetFacts
  <2>3. store[i] \in Rows /\ i <= lastId /\ NoLaunch
      BY <1>2, QuietState DEF Target, BaseInv, TypeOK, Births, Stored
  <2>4. ThreadOK(c)'
      BY <1>2, <2>2, <2>3 DEF ThreadOK, Placeless, HasNew, HoldsRow, Returns, NoLaunch
  <2> QED BY <1>0, <2>2, <2>3, <2>4, NoLaunchKeeps
<1>3. ASSUME NEW i \in Ids, WatchSet(c, i)  PROVE BaseInv'
  <2>1. NoLaunch /\ thr' = thr
      BY <1>3 DEF WatchSet, NoLaunch, BaseInv, TypeOK, Births, diskVars, kernelVars, driverVars,
                  daemonVars, Stored
  <2>2. ThreadOK(c)'
      BY <1>0, <2>1 DEF BaseInv, ThreadOK, HoldsRow, NoLaunch
  <2> QED BY <1>0, <2>1, <2>2, NoLaunchKeeps DEF BaseInv, TypeOK
<1>4. ASSUME NEW i \in Ids,
             \/ StopBegin(c, i) \/ RestartBegin(c, i) \/ RemoveBegin(c, i) \/ EnableBegin(c, i)
             \/ DisableBegin(c, i) \/ WaitBegin(c, i) \/ HealthBegin(c, i) \/ UpdateBegin(c, i)
      PROVE  BaseInv'
  <2>1. PICK op \in {"stop", "restart", "remove", "enable", "disable", "wait", "health", "update"},
             s \in {"mstop", "enput", "disput", "wlook", "hprobe", "upput"},
             r \in {"idle", "stopinsp", "rlaunch", "rmdel", "disend"} : Target(c, op, i, s, r)
      BY <1>4 DEF StopBegin, RestartBegin, RemoveBegin, EnableBegin, DisableBegin, WaitBegin,
                  HealthBegin, UpdateBegin
  <2>2. op \in Ops
      BY <2>1 DEF Target, Begin
  <2> QED BY <1>2, <2>1, <2>2
<1> QED BY <1>1, <1>3, <1>4 DEF Request

\* The other updates of a thread: of its step and of what it works on.
LEMMA MoveTyped ==
  ASSUME TypeOK, NEW t \in Threads
  PROVE  /\ \A s \in Steps, p \in 0..MaxPids :
                 [thr[t] EXCEPT !.pc = s, !.pid = p] \in ThreadStates
         /\ \A s \in Steps, i \in 0..MaxIds : [thr[t] EXCEPT !.pc = s, !.id = i] \in ThreadStates
         /\ \A s \in Steps, r \in Steps : [thr[t] EXCEPT !.pc = s, !.ret = r] \in ThreadStates
         /\ \A s \in Steps, row \in Rows : [thr[t] EXCEPT !.pc = s, !.rec = row] \in ThreadStates
         /\ \A s \in Steps, i \in 0..MaxIds, r \in Steps :
                 [thr[t] EXCEPT !.pc = s, !.id = i, !.ret = r] \in ThreadStates
         /\ \A s \in Steps, r \in Steps, row \in Rows :
                 [thr[t] EXCEPT !.pc = s, !.ret = r, !.rec = row] \in ThreadStates
         /\ \A s \in Steps, n \in 0..MaxIds, p \in 0..MaxPids, x, y \in BOOLEAN :
                 [thr[t] EXCEPT !.pc = s, !.new = n, !.pid = p, !.auto = x, !.url = y] \in ThreadStates
<1>1. thr[t] \in ThreadStates
    BY DEF TypeOK
<1>2. \A s \in Steps, p \in 0..MaxPids : [thr[t] EXCEPT !.pc = s, !.pid = p] \in ThreadStates
    BY <1>1 DEF ThreadStates
<1>3. \A s \in Steps, i \in 0..MaxIds : [thr[t] EXCEPT !.pc = s, !.id = i] \in ThreadStates
    BY <1>1 DEF ThreadStates
<1>4. \A s \in Steps, r \in Steps : [thr[t] EXCEPT !.pc = s, !.ret = r] \in ThreadStates
    BY <1>1 DEF ThreadStates
<1>5. \A s \in Steps, row \in Rows : [thr[t] EXCEPT !.pc = s, !.rec = row] \in ThreadStates
    BY <1>1 DEF ThreadStates
<1>6. \A s \in Steps, i \in 0..MaxIds, r \in Steps :
           [thr[t] EXCEPT !.pc = s, !.id = i, !.ret = r] \in ThreadStates
    BY <1>1 DEF ThreadStates
<1>7. \A s \in Steps, r \in Steps, row \in Rows :
           [thr[t] EXCEPT !.pc = s, !.ret = r, !.rec = row] \in ThreadStates
    BY <1>1 DEF ThreadStates
<1>8. \A s \in Steps, n \in 0..MaxIds, p \in 0..MaxPids, x, y \in BOOLEAN :
           [thr[t] EXCEPT !.pc = s, !.new = n, !.pid = p, !.auto = x, !.url = y] \in ThreadStates
    BY <1>1 DEF ThreadStates
<1> QED BY <1>2, <1>3, <1>4, <1>5, <1>6, <1>7, <1>8

\* A thread that reads or edits a row goes on with it.
LEMMA RowKeeps ==
  ASSUME BaseInv, NoLaunch, NEW t \in Threads, NEW s \in Steps, NEW row \in Rows,
         thr' = [thr EXCEPT ![t].pc = s, ![t].rec = row],
         s \notin HasNew, s # "rbreg", thr[t].pc \notin Placeless,
         t \notin Clients => s \in Background /\ (s \in Stopping => thr[t].ret = "rblaunch")
  PROVE  BaseInv'
<1>1. thr[t] \in ThreadStates /\ ThreadOK(t)
    BY DEF BaseInv, TypeOK
<1>2. [thr[t] EXCEPT !.pc = s, !.rec = row] \in ThreadStates
    BY MoveTyped DEF BaseInv
<1>3. thr' \in [Threads -> ThreadStates] /\ \A u \in Threads \ {t} : thr'[u] = thr[u]
    BY <1>2 DEF BaseInv, TypeOK
<1>4. /\ thr'[t].pc = s /\ thr'[t].rec = row /\ thr'[t].id = thr[t].id /\ thr'[t].ret = thr[t].ret
      /\ thr'[t].name = thr[t].name
    BY <1>1 DEF BaseInv, TypeOK, ThreadStates
<1>5. ThreadOK(t)'
    BY <1>1, <1>4 DEF ThreadOK, HoldsRow, NoLaunch, Placeless
<1> QED BY <1>3, <1>5, NoLaunchKeeps

LEMMA DriverStepKeeps ==
  ASSUME BaseInv, NEW t \in Threads, DriverStep(t)
  PROVE  BaseInv'
<1>1. /\ thr[t].pc \in Stopping /\ thr[t] \in ThreadStates /\ ThreadOK(t)
      /\ thr[t].pc \notin Placeless /\ thr[t].pc # "idle"
    BY DEF DriverStep, MgrStop, MgrStopReturn, Stopping, BaseInv, TypeOK, Placeless
<1>2. ASSUME NoLaunch, Resume(t, thr[t].ret)  PROVE BaseInv'
  <2>1. CASE thr[t].ret = "idle"
      BY <1>2, <2>1, DoneKeeps DEF Resume
  <2>2. CASE thr[t].ret # "idle"
    <3>1. Goto(t, thr[t].ret) /\ thr[t].ret \in Returns \ {"idle"}
        BY <1>1, <1>2, <2>2 DEF Resume, ThreadOK
    <3>2. PICK s \in Returns \ {"idle"} : s = thr[t].ret
        BY <3>1
    <3>3. s \in Steps /\ s \notin HasNew /\ s \notin Stopping /\ s \notin Placeless /\ s # "rbreg"
        BY DEF Returns, Steps, HasNew, Stopping, Placeless
    <3>4. t \notin Clients => s \in Background
        BY <1>1, <3>2 DEF ThreadOK, Background
    <3>5. s \in NeedsRow => HoldsRow(t)
        BY <1>1, <3>2 DEF HoldsRow
    <3>6. thr[t].id \in Ids /\ thr[t].id <= lastId
        BY <1>1 DEF ThreadOK
    <3> QED BY <1>1, <1>2, <3>1, <3>2, <3>3, <3>4, <3>5, <3>6, GotoKeeps
  <2> QED BY <2>1, <2>2
<1>3. ASSUME NoLaunch, StopError(t)  PROVE BaseInv'
    BY <1>2, <1>3, DoneKeeps DEF StopError
<1>4. ASSUME NoLaunch, thr[t].pc = "mstop", thr' = [thr EXCEPT ![t].pc = "mwait", ![t].pid = hpid[thr[t].id]]
      PROVE  BaseInv'
  <2>1. PICK p \in 0..MaxPids : p = hpid[thr[t].id]
      BY <1>1 DEF ThreadOK, BaseInv, TypeOK
  <2>2. [thr[t] EXCEPT !.pc = "mwait", !.pid = p] \in ThreadStates
    <3>1. "mwait" \in Steps
        BY DEF Steps
    <3> QED BY <3>1, MoveTyped DEF BaseInv
  <2>3. thr' \in [Threads -> ThreadStates] /\ \A u \in Threads \ {t} : thr'[u] = thr[u]
      BY <1>4, <2>1, <2>2 DEF BaseInv, TypeOK
  <2>4. /\ thr'[t].pc = "mwait" /\ thr'[t].rec = thr[t].rec /\ thr'[t].id = thr[t].id
        /\ thr'[t].ret = thr[t].ret /\ thr'[t].name = thr[t].name
      BY <1>1, <1>4 DEF BaseInv, TypeOK, ThreadStates
  <2>5. ThreadOK(t)'
      BY <1>1, <1>4, <2>4 DEF ThreadOK, HoldsRow, NoLaunch, Stopping, Background, NeedsRow, Editing,
                              HasNew, Placeless
  <2> QED BY <1>4, <2>3, <2>5, NoLaunchKeeps
<1>5. CASE MgrStop(t)
  <2>1. NoLaunch
      BY <1>1, <1>5 DEF MgrStop, NoLaunch, BaseInv, TypeOK, Births, ThreadOK, diskVars, kernelVars,
                        mapVars, daemonVars, Stored
  <2> QED BY <1>2, <1>3, <1>4, <1>5, <2>1 DEF MgrStop
<1>6. CASE MgrStopReturn(t)
    BY <1>2, <1>3, <1>6, QuietState DEF MgrStopReturn
<1> QED BY <1>5, <1>6 DEF DriverStep

\* A new child has a fresh PID and belongs to the id it was started for, registered or not.
LEMMA SpawnFacts ==
  ASSUME BaseInv, NEW i \in Ids, NewChild(i), UNCHANGED driverVars \/ Register(i, lastPid'),
         lastId' \in {lastId, lastId + 1}, i <= lastId', lastId' \in 0..MaxIds,
         UNCHANGED <<diskVars, mapVars, phase, bootIds, loopIds, crashes>>
  PROVE  /\ lastPid' \in Pids /\ lastPid' = lastPid + 1 /\ lastPid \in Nat /\ lastId \in Nat
         /\ owner'[lastPid'] = i /\ \A p \in Pids : p <= lastPid => owner'[p] = owner[p]
         /\ Births'
         /\ (thr' \in [Threads -> ThreadStates]
             /\ \A t \in Threads : thr'[t].pc \in Editing => thr'[t].rec \in Rows) => TypeOK'
<1>1. /\ lastPid' \in Pids /\ lastPid' = lastPid + 1 /\ lastPid \in Nat /\ lastId \in Nat
      /\ lastId <= lastId'
    BY LifecycleAssumption DEF NewChild, Register, driverVars, BaseInv, TypeOK, Pids
<1>2. owner' \in [Pids -> 0..MaxIds] /\ hpid' \in [Ids -> 0..MaxPids]
    BY <1>1 DEF NewChild, Register, driverVars, BaseInv, TypeOK, Pids, Ids
<1>3. owner'[lastPid'] = i /\ \A p \in Pids : p <= lastPid => owner'[p] = owner[p]
    BY <1>1 DEF NewChild, Register, driverVars, BaseInv, TypeOK, Pids
<1>4. Births'
  <2>1. \A p \in live' : p <= lastPid'
      BY <1>1 DEF NewChild, Register, driverVars, BaseInv, TypeOK, Births, Pids
  <2>2. \A p \in Pids : p <= lastPid' => owner'[p] \in Ids /\ owner'[p] <= lastId'
      BY <1>1, <1>3 DEF BaseInv, TypeOK, Births, Pids, Ids
  <2>3. ASSUME NEW j \in Ids, hpid'[j] # 0  PROVE hpid'[j] <= lastPid' /\ owner'[hpid'[j]] = j
    <3>1. hpid'[j] = hpid[j] \/ (j = i /\ hpid'[j] = lastPid')
        BY DEF Register, driverVars, BaseInv, TypeOK
    <3>2. CASE hpid'[j] = hpid[j]
      <4>1. hpid[j] \in Pids /\ hpid[j] <= lastPid /\ owner[hpid[j]] = j
          BY <2>3, <3>2 DEF BaseInv, TypeOK, Births, Pids
      <4> QED BY <1>1, <1>3, <3>2, <4>1 DEF Pids
    <3>3. CASE j = i /\ hpid'[j] = lastPid'
        BY <1>1, <1>3, <3>3
    <3> QED BY <3>1, <3>2, <3>3
  <2>4. /\ \A j \in Ids : Stored(j)' => j <= lastId'
        /\ \A n \in Names : byName'[n] <= lastId'
        /\ \A j \in auto' \cup watchers' \cup loopIds' \cup bootIds' : j <= lastId'
      BY <1>1 DEF BaseInv, TypeOK, Births, Stored, diskVars, mapVars, Ids
  <2> QED BY <2>1, <2>2, <2>3, <2>4 DEF Births
<1>5. live' \subseteq Pids /\ stopping' \subseteq Ids
    BY <1>1 DEF NewChild, Register, driverVars, BaseInv, TypeOK
<1>6. ASSUME thr' \in [Threads -> ThreadStates],
             \A t \in Threads : thr'[t].pc \in Editing => thr'[t].rec \in Rows
      PROVE  TypeOK'
    BY <1>1, <1>2, <1>5, <1>6 DEF BaseInv, TypeOK, diskVars, mapVars, Pids
<1> QED BY <1>1, <1>3, <1>4, <1>6

LEMMA LaunchNewKeeps ==
  ASSUME BaseInv, NEW c \in Clients, NEW a \in BOOLEAN, NEW u \in BOOLEAN,
         NEW s \in {"create", "rlink"}, LaunchNew(c, s, a, u), thr[c].pc # "idle",
         s = "rlink" => HoldsRow(c) /\ thr[c].pc \notin Placeless
  PROVE  BaseInv'
<1>1. /\ c \in Threads /\ lastId' \in Ids /\ lastId' = lastId + 1 /\ lastId \in Nat
      /\ lastId' \in 0..MaxIds /\ lastId' <= lastId'
    BY LifecycleAssumption DEF LaunchNew, BaseInv, TypeOK, Ids, Threads
<1>2. PICK i \in Ids : i = lastId'
    BY <1>1
<1>3. /\ NewChild(i) /\ Register(i, lastPid')
      /\ UNCHANGED <<diskVars, mapVars, phase, bootIds, loopIds, crashes>>
      /\ thr' = [thr EXCEPT ![c].pc = s, ![c].new = i, ![c].pid = lastPid', ![c].auto = a,
                            ![c].url = u]
    BY <1>2 DEF LaunchNew, Spawn
<1>4. /\ lastPid' \in Pids /\ lastPid' = lastPid + 1 /\ lastPid \in Nat
      /\ owner'[lastPid'] = i /\ \A p \in Pids : p <= lastPid => owner'[p] = owner[p]
      /\ Births'
      /\ (thr' \in [Threads -> ThreadStates]
          /\ \A t \in Threads : thr'[t].pc \in Editing => thr'[t].rec \in Rows) => TypeOK'
    BY <1>1, <1>2, <1>3, SpawnFacts
<1>5. thr[c] \in ThreadStates /\ ThreadOK(c)
    BY <1>1 DEF BaseInv, TypeOK
<1>6. thr' \in [Threads -> ThreadStates] /\ \A t \in Threads \ {c} : thr'[t] = thr[t]
  <2>1. PICK p \in 0..MaxPids : p = lastPid'
      BY <1>4, LifecycleAssumption DEF Pids
  <2>2. s \in Steps /\ i \in 0..MaxIds
      BY DEF Steps, Ids
  <2>3. [thr[c] EXCEPT !.pc = s, !.new = i, !.pid = p, !.auto = a, !.url = u] \in ThreadStates
      BY <1>1, <2>2, MoveTyped DEF BaseInv
  <2> QED BY <1>1, <1>3, <2>1, <2>3 DEF BaseInv, TypeOK
<1>7. /\ thr'[c].pc = s /\ thr'[c].new = i /\ thr'[c].pid = lastPid' /\ thr'[c].rec = thr[c].rec
      /\ thr'[c].id = thr[c].id /\ thr'[c].ret = thr[c].ret /\ thr'[c].name = thr[c].name
    BY <1>1, <1>3, <1>5 DEF BaseInv, TypeOK, ThreadStates
<1>8. ThreadOK(c)'
  <2>1. s = "rlink" => thr'[c].id \in Ids /\ thr'[c].id <= lastId'
      BY <1>1, <1>5, <1>7 DEF ThreadOK, Ids
  <2>2. HoldsRow(c)' => thr'[c].rec \in Rows
      BY <1>5, <1>7 DEF ThreadOK, HoldsRow, NeedsRow, Editing, Stopping
  <2> QED BY <1>1, <1>2, <1>4, <1>5, <1>7, <2>1, <2>2 DEF ThreadOK, Placeless, HasNew
<1>9. /\ \A t \in Threads : ThreadOK(t)'
      /\ \A t \in Threads : thr'[t].pc \in Editing => thr'[t].rec \in Rows
  <2>1. lastId' \in Nat /\ lastId <= lastId' /\ lastPid' \in Nat /\ lastPid <= lastPid'
      BY <1>1, <1>4
  <2> QED BY <1>1, <1>4, <1>6, <1>8, <2>1, ThreadsKept
<1> QED BY <1>4, <1>6, <1>9 DEF BaseInv

\* A child for a known id: of boot relaunch, or of a restart that registers it later.
LEMMA LaunchAgainKeeps ==
  ASSUME BaseInv, NEW t \in Threads \ Clients, NEW s \in {"rbreg", "bootput"},
         NewChild(thr[t].id), UNCHANGED driverVars \/ Register(thr[t].id, lastPid'),
         thr' = [thr EXCEPT ![t].pc = s, ![t].pid = lastPid'],
         UNCHANGED <<diskVars, mapVars, daemonVars>>, thr[t].pc \notin Placeless, HoldsRow(t)
  PROVE  BaseInv'
<1>1. thr[t] \in ThreadStates /\ ThreadOK(t) /\ lastId \in 0..MaxIds /\ lastId \in Nat
    BY LifecycleAssumption DEF BaseInv, TypeOK
<1>2. PICK i \in Ids : i = thr[t].id /\ i <= lastId
    BY <1>1 DEF ThreadOK
<1>3. /\ NewChild(i) /\ (UNCHANGED driverVars \/ Register(i, lastPid'))
      /\ UNCHANGED <<diskVars, mapVars, phase, bootIds, loopIds, crashes>> /\ lastId' = lastId
    BY <1>2 DEF daemonVars
<1>4. /\ lastPid' \in Pids /\ lastPid' = lastPid + 1 /\ lastPid \in Nat
      /\ owner'[lastPid'] = i /\ \A p \in Pids : p <= lastPid => owner'[p] = owner[p]
      /\ Births'
      /\ (thr' \in [Threads -> ThreadStates]
          /\ \A w \in Threads : thr'[w].pc \in Editing => thr'[w].rec \in Rows) => TypeOK'
    BY <1>1, <1>2, <1>3, SpawnFacts
<1>5. thr' \in [Threads -> ThreadStates] /\ \A w \in Threads \ {t} : thr'[w] = thr[w]
  <2>1. PICK p \in 0..MaxPids : p = lastPid'
      BY <1>4, LifecycleAssumption DEF Pids
  <2>2. s \in Steps
      BY DEF Steps
  <2>3. [thr[t] EXCEPT !.pc = s, !.pid = p] \in ThreadStates
      BY <2>2, MoveTyped DEF BaseInv
  <2> QED BY <2>1, <2>3 DEF BaseInv, TypeOK
<1>6. /\ thr'[t].pc = s /\ thr'[t].rec = thr[t].rec /\ thr'[t].id = thr[t].id
      /\ thr'[t].pid = lastPid' /\ thr'[t].ret = thr[t].ret /\ thr'[t].name = thr[t].name
    BY <1>1 DEF BaseInv, TypeOK, ThreadStates
<1>7. ThreadOK(t)'
  <2>1. s = "rbreg" => /\ thr'[t].pid \in Pids /\ thr'[t].pid <= lastPid'
                       /\ owner'[thr'[t].pid] = thr'[t].id
      BY <1>2, <1>4, <1>6 DEF Pids
  <2> QED BY <1>1, <1>3, <1>6, <2>1 DEF ThreadOK, HoldsRow, Stopping, HasNew, Background, Placeless
<1>8. /\ \A w \in Threads : ThreadOK(w)'
      /\ \A w \in Threads : thr'[w].pc \in Editing => thr'[w].rec \in Rows
    BY <1>1, <1>3, <1>4, <1>5, <1>7, ThreadsKept
<1> QED BY <1>4, <1>5, <1>8 DEF BaseInv

\* The steps of a handler after its request.
LEMMA HandlerKeeps ==
  ASSUME BaseInv, NEW c \in Clients, HandlerStep(c)
  PROVE  BaseInv'
<1>0. c \in Threads /\ thr[c] \in ThreadStates /\ ThreadOK(c)
    BY DEF Threads, BaseInv, TypeOK
<1> DEFINE Quiet == UNCHANGED <<diskVars, kernelVars, driverVars, mapVars, daemonVars>>
           Work == thr[c].pc \notin Placeless => thr[c].id \in Ids /\ thr[c].id <= lastId
<1>q. Quiet => NoLaunch
    BY QuietState
<1>w. Work
    BY <1>0 DEF ThreadOK
<1>d. NoLaunch /\ Done(c) => BaseInv'
    BY <1>0, DoneKeeps
\* A step to one of the plain steps: nothing but the target is needed there.
<1>g. ASSUME NoLaunch, NEW s \in {"unname", "scan", "claim", "launch", "replmaps", "reget", "rmmaps", "mstop"},
             Goto(c, s), thr[c].pc # "idle", s \in {"scan", "launch"} \/ thr[c].pc \notin Placeless,
             s = "mstop" => HoldsRow(c)
      PROVE  BaseInv'
  <2>1. s \in Steps /\ s \notin HasNew /\ s \notin NeedsRow
      BY DEF Steps, HasNew, NeedsRow, Editing
  <2>2. s \in Stopping => s = "mstop"
      BY DEF Stopping
  <2>3. s \notin Placeless => thr[c].id \in Ids /\ thr[c].id <= lastId
      BY <1>g, <1>w DEF Placeless
  <2> QED BY <1>0, <1>g, <2>1, <2>2, <2>3, GotoKeeps
\* A step to one of the editing steps: the thread has a row already.
<1>e. ASSUME NoLaunch, NEW s \in {"waitput", "publish", "rpublish", "rcreate"}, Goto(c, s),
             thr[c].pc # "idle", s \in HasNew => thr[c].pc \in HasNew,
             s = "publish" \/ thr[c].pc \notin Placeless, s = "waitput" => HoldsRow(c)
      PROVE  BaseInv'
  <2>1. s \in Steps /\ s \notin Stopping /\ (s \in NeedsRow => s = "waitput")
      BY DEF Steps, Stopping, NeedsRow, Editing
  <2>2. s \notin Placeless => thr[c].id \in Ids /\ thr[c].id <= lastId
      BY <1>e, <1>w DEF Placeless
  <2> QED BY <1>0, <1>e, <2>1, <2>2, GotoKeeps
<1>1. CASE StartGetName(c)
    BY <1>1, <1>q, <1>g DEF StartGetName, Placeless
<1>2. CASE StartUnname(c)
  <2>1. NoLaunch
      BY <1>2, UnmappedState DEF StartUnname
  <2> QED BY <1>2, <1>g, <2>1 DEF StartUnname
<1>3. CASE StartScan(c)
  <2>1. CASE Goto(c, "launch")
      BY <1>3, <2>1, <1>q, <1>g DEF StartScan
  <2>2. ASSUME NEW i \in NameHolders(c), thr' = [thr EXCEPT ![c].pc = "claim", ![c].id = i]
        PROVE  BaseInv'
    <3>1. i \in Ids /\ i <= lastId /\ i \in 0..MaxIds /\ "claim" \in Steps
        BY DEF NameHolders, Reach, BaseInv, Births, Ids, Steps
    <3>2. [thr[c] EXCEPT !.pc = "claim", !.id = i] \in ThreadStates
        BY <1>0, <3>1, MoveTyped DEF BaseInv
    <3>3. thr' \in [Threads -> ThreadStates] /\ \A u \in Threads \ {c} : thr'[u] = thr[u]
        BY <1>0, <2>2, <3>2 DEF BaseInv, TypeOK
    <3>4. /\ thr'[c].pc = "claim" /\ thr'[c].id = i /\ thr'[c].ret = thr[c].ret
          /\ thr'[c].name = thr[c].name
        BY <1>0, <2>2 DEF BaseInv, TypeOK, ThreadStates
    <3>5. ThreadOK(c)'
        BY <1>0, <1>3, <1>q, <3>1, <3>4 DEF ThreadOK, HoldsRow, NeedsRow, Editing, Stopping, HasNew,
                                            NoLaunch, StartScan
    <3> QED BY <1>0, <1>3, <1>q, <3>3, <3>5, NoLaunchKeeps DEF StartScan
  <2> QED BY <1>3, <2>1, <2>2 DEF StartScan
<1>4. CASE StartClaim(c)
  <2>1. ASSUME thr' = [thr EXCEPT ![c].pc = "mstop", ![c].ret = "repldel"]
        PROVE  BaseInv'
    <3>1. [thr[c] EXCEPT !.pc = "mstop", !.ret = "repldel"] \in ThreadStates
      <4>1. "mstop" \in Steps /\ "repldel" \in Steps
          BY DEF Steps
      <4> QED BY <1>0, <4>1, MoveTyped DEF BaseInv
    <3>2. thr' \in [Threads -> ThreadStates] /\ \A u \in Threads \ {c} : thr'[u] = thr[u]
        BY <1>0, <2>1, <3>1 DEF BaseInv, TypeOK
    <3>3. /\ thr'[c].pc = "mstop" /\ thr'[c].id = thr[c].id /\ thr'[c].ret = "repldel"
          /\ thr'[c].name = thr[c].name
        BY <1>0, <2>1 DEF BaseInv, TypeOK, ThreadStates
    <3>4. ThreadOK(c)'
        BY <1>0, <1>4, <1>w, <1>q, <3>3 DEF ThreadOK, HoldsRow, NeedsRow, Editing, Stopping, HasNew,
                                      NoLaunch, StartClaim, Placeless, Returns
    <3> QED BY <1>0, <1>4, <1>q, <3>2, <3>4, NoLaunchKeeps DEF StartClaim
  <2> QED BY <1>4, <1>d, <1>q, <2>1 DEF StartClaim
<1>5. CASE ReplaceDelete(c) \/ RemoveDelete(c)
  <2>1. store' = [store EXCEPT ![thr[c].id] = NoRec] \/ store' = store
      BY <1>5 DEF ReplaceDelete, RemoveDelete
  <2>2. NoLaunch
      BY <1>5, <2>1 DEF ReplaceDelete, RemoveDelete, NoLaunch, BaseInv, TypeOK, Births, kernelVars,
                        driverVars, mapVars, daemonVars, Stored
  <2> QED BY <1>5, <1>d, <1>g, <2>2 DEF ReplaceDelete, RemoveDelete, Placeless
<1>6. CASE ReplaceMaps(c) \/ RemoveMaps(c)
  <2>1. NoLaunch
      BY <1>6, UnmappedState DEF ReplaceMaps, RemoveMaps
  <2> QED BY <1>6, <1>d, <1>g, <2>1 DEF ReplaceMaps, RemoveMaps
<1>7. CASE StartLaunch(c)
  <2>1. PICK a \in {FALSE, AutoRestart}, u \in {FALSE, HealthURL} : LaunchNew(c, "create", a, u)
      BY <1>7 DEF StartLaunch
  <2>2. a \in BOOLEAN /\ u \in BOOLEAN /\ thr[c].pc # "idle"
      BY <1>7, LifecycleAssumption DEF StartLaunch
  <2> QED BY <2>1, <2>2, LaunchNewKeeps
<1>8. CASE RestartLaunch(c)
  <2>1. LaunchNew(c, "rlink", thr[c].id \in auto, thr[c].id \in url) /\ thr[c].pc = "rlaunch"
      BY <1>8 DEF RestartLaunch
  <2>2. HoldsRow(c) /\ thr[c].pc \notin Placeless /\ thr[c].pc # "idle"
      BY <2>1 DEF HoldsRow, NeedsRow, Placeless
  <2>3. (thr[c].id \in auto) \in BOOLEAN /\ (thr[c].id \in url) \in BOOLEAN
      OBVIOUS
  <2>4. "rlink" \in {"create", "rlink"}
      OBVIOUS
  <2> QED BY <2>1, <2>2, <2>3, <2>4, LaunchNewKeeps, Zenon
<1>9. CASE LaunchNewFails(c)
    BY <1>9, <1>d, <1>q DEF LaunchNewFails
<1>u. ASSUME NoLaunch, UndoLaunch(c), thr[c].pc \in HasNew
      PROVE  BaseInv'
  <2>1. thr[c].new \in Ids /\ thr[c].new <= lastId
      BY <1>0, <1>u DEF ThreadOK
  <2>2. thr[c].new \in 0..MaxIds /\ "mstop" \in Steps /\ "idle" \in Steps
      BY <2>1 DEF Ids, Steps
  <2>3. [thr[c] EXCEPT !.pc = "mstop", !.id = thr[c].new, !.ret = "idle"] \in ThreadStates
    <3>1. PICK i \in 0..MaxIds : i = thr[c].new
        BY <2>2
    <3>2. [thr[c] EXCEPT !.pc = "mstop", !.id = i, !.ret = "idle"] \in ThreadStates
        BY <1>0, <2>2, MoveTyped DEF BaseInv
    <3> QED BY <3>1, <3>2
  <2>4. thr' \in [Threads -> ThreadStates] /\ \A u \in Threads \ {c} : thr'[u] = thr[u]
      BY <1>0, <1>u, <2>3 DEF BaseInv, TypeOK, UndoLaunch
  <2>5. /\ thr'[c].pc = "mstop" /\ thr'[c].id = thr[c].new /\ thr'[c].ret = "idle"
        /\ thr'[c].name = thr[c].name
      BY <1>0, <1>u DEF BaseInv, TypeOK, ThreadStates, UndoLaunch
  <2>6. ThreadOK(c)'
      BY <1>0, <1>u, <2>1, <2>5 DEF ThreadOK, HoldsRow, NeedsRow, Editing, Stopping, HasNew, NoLaunch,
                                    Returns
  <2> QED BY <1>0, <1>u, <2>4, <2>6, NoLaunchKeeps
<1>10. CASE StartCreate(c) \/ RestartCreate(c)
  <2>1. thr[c].pc \in HasNew /\ thr[c].pc # "idle" /\ (RestartCreate(c) => thr[c].pc \notin Placeless)
      BY <1>10 DEF StartCreate, RestartCreate, HasNew, Placeless
  <2>2. thr[c].new \in Ids /\ thr[c].new <= lastId /\ FreshRow(c) \in Rows
    <3>1. thr[c].new \in Ids /\ thr[c].new <= lastId /\ thr[c].name \in Names
        BY <1>0, <2>1 DEF ThreadOK
    <3>2. thr[c].pid \in 0..MaxPids /\ 0 \in 0..MaxIds
        BY <1>0, LifecycleAssumption DEF ThreadStates
    <3> QED BY <3>1, <3>2 DEF FreshRow, Rows, RowStatuses
  <2>3. store' = [store EXCEPT ![thr[c].new] = FreshRow(c)] \/ store' = store
      BY <1>10 DEF StartCreate, RestartCreate
  <2>4. store' \in [Ids -> Rows \cup {NoRec}] /\ \A i \in Ids : store'[i] # NoRec => i <= lastId
      BY <2>2, <2>3 DEF BaseInv, TypeOK, Births, Stored
  <2>5. NoLaunch
      BY <1>10, <2>4 DEF StartCreate, RestartCreate, NoLaunch, BaseInv, TypeOK, Births, kernelVars,
                         driverVars, mapVars, daemonVars
  <2>6. UndoLaunch(c) => BaseInv'
      BY <1>u, <2>1, <2>5
  <2>7. CASE StartCreate(c)
      BY <1>e, <2>1, <2>5, <2>6, <2>7 DEF StartCreate
  <2>8. CASE RestartCreate(c)
      BY <1>e, <2>1, <2>5, <2>6, <2>8 DEF RestartCreate
  <2> QED BY <1>10, <2>7, <2>8
<1>11. CASE StartPublish(c)
  <2> DEFINE n == thr[c].new
  <2>1. n \in Ids /\ n <= lastId /\ thr[c].name \in Names
      BY <1>0, <1>11 DEF StartPublish, ThreadOK, HasNew
  <2>2. byName' \in [Names -> 0..MaxIds] /\ \A m \in Names : byName'[m] <= lastId
      BY <1>11, <2>1 DEF StartPublish, BaseInv, TypeOK, Births, Ids
  <2>3. auto' \subseteq Ids /\ url' \subseteq Ids /\ \A i \in auto' : i <= lastId
      BY <1>11, <2>1 DEF StartPublish, With, BaseInv, TypeOK, Births
  <2>4. NoLaunch
      BY <1>11, <2>2, <2>3 DEF StartPublish, NoLaunch, BaseInv, TypeOK, Births, diskVars, kernelVars,
                               driverVars, daemonVars, Stored
  <2>5. ASSUME thr' = [thr EXCEPT ![c].pc = "runget", ![c].id = n]
        PROVE  BaseInv'
    <3>1. n \in 0..MaxIds /\ "runget" \in Steps
        BY <2>1 DEF Ids, Steps
    <3>2. [thr[c] EXCEPT !.pc = "runget", !.id = n] \in ThreadStates
        BY <1>0, <3>1, MoveTyped DEF BaseInv
    <3>3. thr' \in [Threads -> ThreadStates] /\ \A u \in Threads \ {c} : thr'[u] = thr[u]
        BY <1>0, <2>5, <3>2 DEF BaseInv, TypeOK
    <3>4. /\ thr'[c].pc = "runget" /\ thr'[c].id = n /\ thr'[c].ret = thr[c].ret
          /\ thr'[c].name = thr[c].name
        BY <1>0, <2>5 DEF BaseInv, TypeOK, ThreadStates
    <3>5. ThreadOK(c)'
        BY <1>0, <2>1, <2>4, <3>4 DEF ThreadOK, HoldsRow, NeedsRow, Editing, Stopping, HasNew, NoLaunch
    <3> QED BY <1>0, <2>4, <3>3, <3>5, NoLaunchKeeps
  <2> QED BY <1>11, <1>d, <2>4, <2>5 DEF StartPublish
\* What a handler reads is a row.
<1>r. Reach(c, thr[c].id) /\ thr[c].pc \notin Placeless => store[thr[c].id] \in Rows
    BY <1>w DEF Reach, Stored, BaseInv, TypeOK
<1>12. CASE RunGet(c) \/ Reget(c)
  <2>1. NoLaunch /\ thr[c].pc \notin Placeless
      BY <1>12, <1>q DEF RunGet, Reget, Placeless
  <2>2. CASE Reach(c, thr[c].id)
    <3>1. PICK s \in {"runput", "wlook", "mstop"} :
            thr' = [thr EXCEPT ![c].pc = s, ![c].rec = store[thr[c].id]]
        BY <1>12, <2>2 DEF RunGet, Reget
    <3>2. PICK row \in Rows : row = store[thr[c].id]
        BY <1>r, <2>1, <2>2
    <3>3. s \in Steps /\ s \notin HasNew
        BY DEF Steps, HasNew
    <3> QED BY <1>0, <2>1, <3>1, <3>2, <3>3, RowKeeps
  <2> QED BY <1>12, <1>d, <2>1, <2>2 DEF RunGet, Reget
\* What a handler edits is a row.
<1>h. thr[c].pc \in Editing => thr[c].rec \in Rows /\ HoldsRow(c) /\ thr[c].pc \notin Placeless
                               /\ thr[c].pc # "idle" /\ thr[c].pc \notin HasNew \ {"rlink"}
    BY <1>0, AtWork DEF Editing, Placeless, HasNew
<1>13. CASE RunPut(c) \/ RestartLink(c) \/ UpdatePut(c)
  <2>1. thr[c].pc \in Editing /\ (RestartLink(c) => thr[c].pc = "rlink")
      BY <1>13 DEF RunPut, RestartLink, UpdatePut, Editing
  <2>2. PICK row \in Rows : Update(c, row)
    <3>1. [thr[c].rec EXCEPT !.desired = "stopped"] \in Rows
        BY <1>h, <2>1 DEF Rows
    <3>2. [thr[c].rec EXCEPT !.st = "exited", !.desired = "stopped", !.succ = thr[c].new] \in Rows
        BY <1>0, <1>h, <2>1 DEF Rows, RowStatuses, ThreadStates
    <3> QED BY <1>13, <1>h, <2>1, <3>1, <3>2 DEF RunPut, RestartLink, UpdatePut
  <2>3. NoLaunch
      BY <1>0, <1>13, <2>2, WrittenState DEF RunPut, RestartLink, UpdatePut
  <2>4. Goto(c, "reget") => BaseInv'
      BY <1>g, <1>h, <2>1, <2>3
  <2>5. CASE RestartLink(c)
    <3>1. "rcreate" \in HasNew => thr[c].pc \in HasNew
        BY <2>1, <2>5 DEF HasNew
    <3> QED BY <1>e, <1>h, <2>1, <2>3, <2>5, <3>1 DEF RestartLink
  <2> QED BY <1>13, <1>d, <2>3, <2>4, <2>5 DEF RunPut, UpdatePut
<1>14. CASE StopInspect(c)
  <2> DEFINE s == Status(thr[c].id)
             e == IF s = "absent" THEN "exited" ELSE s
             row == [thr[c].rec EXCEPT !.desired = "stopped", !.st = e]
  <2>1. thr[c].pc \in Editing /\ thr[c].pc = "stopinsp"
      BY <1>14 DEF StopInspect, Editing
  <2>2. e \in RowStatuses
      BY DEF Status, RowStatuses
  <2> HIDE DEF e
  <2>3. row \in Rows
      BY <1>h, <2>1, <2>2 DEF Rows
  <2>4. thr' = [thr EXCEPT ![c].pc = "stopput", ![c].rec = row]
      BY <1>0, <1>14 DEF StopInspect, BaseInv, TypeOK, ThreadStates, e
  <2> HIDE DEF row
  <2>5. NoLaunch
      BY <1>14, <1>q DEF StopInspect
  <2>6. "stopput" \in Steps /\ "stopput" \notin HasNew
      BY DEF Steps, HasNew
  <2> QED BY <1>0, <1>h, <2>1, <2>3, <2>4, <2>5, <2>6, RowKeeps
<1>15. CASE RestartPublish(c)
  <2> DEFINE n == thr[c].new
  <2>1. n \in Ids /\ n <= lastId /\ thr[c].name \in Names
      BY <1>0, <1>15 DEF RestartPublish, ThreadOK, HasNew
  <2>2. byName' \in [Names -> 0..MaxIds] /\ \A m \in Names : byName'[m] <= lastId
      BY <1>15, <2>1 DEF RestartPublish, BaseInv, TypeOK, Births, Ids
  <2>3. auto' \subseteq Ids /\ url' \subseteq Ids /\ \A i \in auto' : i <= lastId
      BY <1>15, <2>1 DEF RestartPublish, With, BaseInv, TypeOK, Births
  <2>4. NoLaunch
      BY <1>15, <2>2, <2>3 DEF RestartPublish, NoLaunch, BaseInv, TypeOK, Births, diskVars, kernelVars,
                               driverVars, daemonVars, Stored
  <2> QED BY <1>15, <1>d, <2>4 DEF RestartPublish
<1>16. CASE StopPut(c) \/ EnablePut(c) \/ DisableEnd(c) \/ WaitPut(c) \/ HealthPut(c)
  <2>1. thr[c].pc \in Editing
      BY <1>16 DEF StopPut, EnablePut, DisableEnd, WaitPut, HealthPut, PutAndReturn, Editing
  <2>2. /\ thr[c].rec \in Rows
        /\ [thr[c].rec EXCEPT !.desired = "running"] \in Rows
        /\ [thr[c].rec EXCEPT !.st = "exited"] \in Rows
        /\ [thr[c].rec EXCEPT !.st = "exited", !.pid = thr[c].pid] \in Rows
      BY <1>0, <1>h, <2>1 DEF Rows, RowStatuses, ThreadStates
  <2>3. PICK s \in Editing, row \in Rows : PutAndReturn(c, s, row)
      BY <1>16, <2>2 DEF StopPut, EnablePut, DisableEnd, WaitPut, HealthPut, Editing
  <2> QED BY <1>0, <2>3, PutKeeps
<1>17. CASE DisablePut(c)
  <2> DEFINE row == [thr[c].rec EXCEPT !.desired = "stopped"]
  <2>1. thr[c].pc \in Editing /\ row \in Rows
      BY <1>17, <1>h DEF DisablePut, Editing, Rows
  <2>2. /\ Update(c, row)
        /\ Done(c) \/ thr' = [thr EXCEPT ![c].pc = "disinsp", ![c].rec = row]
      BY <1>17 DEF DisablePut
  <2> HIDE DEF row
  <2>3. NoLaunch
      BY <1>0, <1>17, <2>1, <2>2, WrittenState DEF DisablePut
  <2>4. "disinsp" \in Steps /\ "disinsp" \notin HasNew
      BY DEF Steps, HasNew
  <2> QED BY <1>0, <1>d, <1>h, <2>1, <2>2, <2>3, <2>4, RowKeeps
<1>18. CASE DisableInspect(c)
  <2>1. thr[c].pc \in Editing
      BY <1>18 DEF DisableInspect, Editing
  <2> QED BY <1>18, <1>d, <1>g, <1>h, <1>q, <2>1 DEF DisableInspect
<1>19. CASE WaitLook(c)
  <2>1. thr[c].pc \in Editing /\ NoLaunch /\ thr[c].pc = "wlook"
      BY <1>19, <1>q DEF WaitLook, Editing
  <2>2. ASSUME NEW s \in {"wwait", "uwait"},
               thr' = [thr EXCEPT ![c].pc = s, ![c].pid = hpid[thr[c].id]]
        PROVE  BaseInv'
    <3>1. hpid[thr[c].id] \in 0..MaxPids /\ s \in Steps
        BY <1>h, <1>w, <2>1 DEF BaseInv, TypeOK, Steps
    <3>2. [thr[c] EXCEPT !.pc = s, !.pid = hpid[thr[c].id]] \in ThreadStates
        BY <1>0, <3>1, MoveTyped DEF BaseInv
    <3>3. thr' \in [Threads -> ThreadStates] /\ \A u \in Threads \ {c} : thr'[u] = thr[u]
        BY <1>0, <2>2, <3>2 DEF BaseInv, TypeOK
    <3>4. /\ thr'[c].pc = s /\ thr'[c].id = thr[c].id /\ thr'[c].ret = thr[c].ret
          /\ thr'[c].name = thr[c].name /\ thr'[c].rec = thr[c].rec
        BY <1>0, <2>2 DEF BaseInv, TypeOK, ThreadStates
    <3>5. ThreadOK(c)'
        BY <1>0, <1>h, <1>w, <2>1, <3>4 DEF ThreadOK, HoldsRow, NeedsRow, Editing, Stopping, HasNew,
                                            NoLaunch
    <3> QED BY <1>0, <2>1, <3>3, <3>5, NoLaunchKeeps
  <2> QED BY <1>19, <1>d, <2>1, <2>2 DEF WaitLook
<1>20. CASE WaitReturn(c)
  <2>1. thr[c].pc \in Editing
      BY <1>20 DEF WaitReturn, Editing
  <2> QED BY <1>20, <1>d, <1>e, <1>h, <1>q, <2>1 DEF WaitReturn, HasNew
<1>21. CASE HealthProbe(c)
  <2>1. thr[c].pc \in Editing /\ NoLaunch
      BY <1>21, <1>q DEF HealthProbe, Editing
  <2>2. hpid[thr[c].id] \in 0..MaxPids
      BY <1>h, <1>w, <2>1 DEF BaseInv, TypeOK
  <2>3. PICK p \in 0..MaxPids, st \in RowStatuses :
          thr' = [thr EXCEPT ![c].pc = "hput", ![c].rec.pid = p, ![c].rec.st = st]
      BY <1>21, <1>h, <2>1, <2>2 DEF HealthProbe, Rows, RowStatuses
  <2>4. [thr[c].rec EXCEPT !.pid = p, !.st = st] \in Rows
      BY <1>h, <2>1 DEF Rows
  <2>5. PICK row \in Rows : row = [thr[c].rec EXCEPT !.pid = p, !.st = st]
      BY <2>4
  <2>6. thr' = [thr EXCEPT ![c].pc = "hput", ![c].rec = row]
      BY <1>0, <2>3, <2>5 DEF BaseInv, TypeOK, ThreadStates
  <2>7. "hput" \in Steps /\ "hput" \notin HasNew
      BY DEF Steps, HasNew
  <2> QED BY <1>0, <1>h, <2>1, <2>6, <2>7, RowKeeps
<1> QED
  <2>1. DriverStep(c) => BaseInv'
      BY <1>0, DriverStepKeeps
  <2> QED BY <2>1, <1>1, <1>2, <1>3, <1>4, <1>5, <1>6, <1>7, <1>8, <1>9, <1>10, <1>11, <1>12, <1>13,
             <1>14, <1>15, <1>16, <1>17, <1>18, <1>19, <1>20, <1>21 DEF HandlerStep

LEMMA CancelKeeps ==
  ASSUME BaseInv, NEW c \in Clients, Cancel(c)
  PROVE  BaseInv'
<1>1. c \in Threads /\ thr[c] \in ThreadStates /\ ThreadOK(c) /\ NoLaunch
    BY QuietState DEF Cancel, Threads, BaseInv, TypeOK
<1>2. [thr[c] EXCEPT !.cancelled = TRUE] \in ThreadStates
    BY <1>1 DEF ThreadStates
<1>3. thr' \in [Threads -> ThreadStates] /\ \A u \in Threads \ {c} : thr'[u] = thr[u]
    BY <1>1, <1>2 DEF Cancel, BaseInv, TypeOK
<1>4. /\ thr'[c].pc = thr[c].pc /\ thr'[c].id = thr[c].id /\ thr'[c].new = thr[c].new
      /\ thr'[c].pid = thr[c].pid /\ thr'[c].ret = thr[c].ret /\ thr'[c].name = thr[c].name
      /\ thr'[c].rec = thr[c].rec
    BY <1>1 DEF Cancel, BaseInv, TypeOK, ThreadStates
<1>5. ThreadOK(c)'
    BY <1>1, <1>4 DEF ThreadOK, HoldsRow, NoLaunch
<1> QED BY <1>1, <1>3, <1>5, NoLaunchKeeps

\* The background threads: one of them takes a target, with or without its row.
LEMMA TakeKeeps ==
  ASSUME BaseInv, NoLaunch, NEW t \in Threads \ Clients, NEW i \in Ids, i <= lastId,
         NEW s \in {"rbget", "lpget", "bootlaunch"}, NEW r \in Rows \cup {NoRec},
         \/ thr' = [thr EXCEPT ![t] = [Idle EXCEPT !.pc = s, !.id = i]] /\ s # "bootlaunch"
         \/ thr' = [thr EXCEPT ![t] = [Idle EXCEPT !.pc = s, !.id = i, !.rec = r]] /\ r \in Rows
  PROVE  BaseInv'
<1>1. s \in Steps /\ i \in 0..MaxIds
    BY DEF Steps, Ids
<1>2. /\ [Idle EXCEPT !.pc = s, !.id = i] \in ThreadStates
      /\ [Idle EXCEPT !.pc = s, !.id = i, !.rec = r] \in ThreadStates
    BY <1>1, IdleTyped DEF ThreadStates
<1>3. thr' \in [Threads -> ThreadStates] /\ \A u \in Threads \ {t} : thr'[u] = thr[u]
    BY <1>2 DEF BaseInv, TypeOK
<1>4. /\ thr'[t].pc = s /\ thr'[t].id = i /\ thr'[t].ret = "idle"
      /\ s = "bootlaunch" => thr'[t].rec \in Rows
  <2>1. CASE thr' = [thr EXCEPT ![t] = [Idle EXCEPT !.pc = s, !.id = i]] /\ s # "bootlaunch"
      BY <2>1 DEF BaseInv, TypeOK, Idle
  <2>2. CASE thr' = [thr EXCEPT ![t] = [Idle EXCEPT !.pc = s, !.id = i, !.rec = r]] /\ r \in Rows
      BY <2>2 DEF BaseInv, TypeOK, Idle
  <2> QED BY <2>1, <2>2
<1>5. ThreadOK(t)'
    BY <1>4 DEF ThreadOK, HoldsRow, NeedsRow, Editing, HasNew, Stopping, Background, Placeless,
                NoLaunch, Returns
<1> QED BY <1>3, <1>5, NoLaunchKeeps

\* The second look of a restart: the child becomes the driver's, or will be killed.
LEMMA RegisterKeeps ==
  ASSUME BaseInv, NEW t \in Threads \ Clients, RebootRegister(t)
  PROVE  BaseInv'
<1>1. /\ thr[t] \in ThreadStates /\ ThreadOK(t) /\ HoldsRow(t) /\ thr[t].pc = "rbreg"
      /\ UNCHANGED <<diskVars, kernelVars, mapVars, daemonVars>>
    BY DEF RebootRegister, BaseInv, TypeOK, HoldsRow, NeedsRow, Editing
<1>2. /\ thr[t].id \in Ids /\ thr[t].id <= lastId /\ thr[t].pid \in Pids /\ thr[t].pid <= lastPid
      /\ owner[thr[t].pid] = thr[t].id
    BY <1>1 DEF ThreadOK, Placeless
<1>3. PICK i \in Ids, p \in Pids : i = thr[t].id /\ p = thr[t].pid
    BY <1>2
<1>4. CASE UNCHANGED driverVars /\ Goto(t, "rbkill")
  <2>1. "rbkill" \in Steps \cap Background /\ "rbkill" \notin HasNew \cup Stopping \cup NeedsRow
      BY DEF Steps, HasNew, Stopping, Background, NeedsRow, Editing
  <2> QED BY <1>1, <1>2, <1>4, <2>1, QuietState, GotoKeeps
<1>5. CASE Register(thr[t].id, thr[t].pid) /\ Goto(t, "rbput")
  <2>1. hpid' = [hpid EXCEPT ![i] = p] /\ stopping' = stopping \ {i}
      BY <1>3, <1>5 DEF Register
  <2>2. p \in 0..MaxPids /\ "rbput" \in Steps
      BY LifecycleAssumption DEF Pids, Steps
  <2>3. /\ thr' \in [Threads -> ThreadStates]
        /\ thr'[t] = [thr[t] EXCEPT !.pc = "rbput"] /\ thr'[t].pc = "rbput"
        /\ \A u \in Threads \ {t} : thr'[u] = thr[u]
      BY <1>5, <2>2, GotoFacts DEF BaseInv
  <2>4. /\ thr'[t].id = thr[t].id /\ thr'[t].rec = thr[t].rec /\ thr'[t].name = thr[t].name
        /\ thr'[t].ret = thr[t].ret
      BY <1>1, <2>3 DEF ThreadStates
  <2>5. UNCHANGED <<store, live, owner, lastPid, lastId, byName, auto, url, watchers, phase, bootIds,
                    loopIds, crashes>>
      BY <1>1 DEF diskVars, kernelVars, mapVars, daemonVars
  <2>6. lastId \in Nat /\ lastPid \in Nat
      BY LifecycleAssumption DEF BaseInv, TypeOK
  <2>7. ThreadOK(t)'
      BY <1>1, <2>3, <2>4, <2>5 DEF ThreadOK, HoldsRow, Stopping, HasNew, Background, Placeless
  <2>8. /\ \A u \in Threads : ThreadOK(u)'
        /\ \A u \in Threads : thr'[u].pc \in Editing => thr'[u].rec \in Rows
      BY <2>3, <2>5, <2>6, <2>7, ThreadsKept
  <2>9. TypeOK'
      BY <2>1, <2>2, <2>3, <2>5, <2>8 DEF BaseInv, TypeOK
  <2>10. Births'
    <3>1. \A j \in Ids : hpid'[j] # 0 => hpid'[j] <= lastPid /\ owner[hpid'[j]] = j
        BY <1>2, <1>3, <2>1 DEF BaseInv, TypeOK, Births
    <3> QED BY <2>5, <3>1 DEF BaseInv, Births, Stored
  <2> QED BY <2>8, <2>9, <2>10 DEF BaseInv
<1> QED BY <1>4, <1>5 DEF RebootRegister

LEMMA RebootKeeps ==
  ASSUME BaseInv, NEW t \in Threads \ Clients, RebootStep(t)
  PROVE  BaseInv'
<1>1. thr[t] \in ThreadStates /\ ThreadOK(t)
    BY DEF BaseInv, TypeOK
<1>2. CASE DriverStep(t)
    BY <1>2, DriverStepKeeps
<1>3. CASE RebootGet(t)
  <2>1. NoLaunch /\ thr[t].pc = "rbget" /\ thr[t].id \in Ids /\ thr[t].id <= lastId
      BY <1>1, <1>3, QuietState DEF RebootGet, ThreadOK, Placeless
  <2>2. CASE Stored(thr[t].id)
    <3>1. PICK row \in Rows : row = store[thr[t].id]
        BY <2>1, <2>2 DEF Stored, BaseInv, TypeOK
    <3>2. thr' = [thr EXCEPT ![t].pc = "mstop", ![t].ret = "rblaunch", ![t].rec = row]
        BY <1>3, <2>2, <3>1 DEF RebootGet
    <3>3. "mstop" \in Steps /\ "rblaunch" \in Steps
        BY DEF Steps
    <3>4. [thr[t] EXCEPT !.pc = "mstop", !.ret = "rblaunch", !.rec = row] \in ThreadStates
        BY <3>3, MoveTyped DEF BaseInv
    <3>5. thr' \in [Threads -> ThreadStates] /\ \A u \in Threads \ {t} : thr'[u] = thr[u]
        BY <3>2, <3>4 DEF BaseInv, TypeOK
    <3>6. /\ thr'[t].pc = "mstop" /\ thr'[t].id = thr[t].id /\ thr'[t].ret = "rblaunch"
          /\ thr'[t].rec = row
        BY <1>1, <3>2 DEF BaseInv, TypeOK, ThreadStates
    <3>7. ThreadOK(t)'
        BY <2>1, <3>6 DEF ThreadOK, HoldsRow, HasNew, Stopping, Background, NoLaunch, Returns
    <3> QED BY <2>1, <3>5, <3>7, NoLaunchKeeps
  <2> QED BY <1>3, <2>1, <2>2, DoneKeeps DEF RebootGet
<1>4. CASE RebootLookup(t)
  <2>1. /\ thr[t].pc = "rblaunch" /\ HoldsRow(t) /\ thr[t].id \in Ids /\ thr[t].id <= lastId
        /\ 0 \in 0..MaxPids /\ (hpid' = hpid \/ hpid' = [hpid EXCEPT ![thr[t].id] = 0])
      BY <1>1, <1>4, LifecycleAssumption DEF RebootLookup, HoldsRow, NeedsRow, ThreadOK, Placeless
  <2>2. hpid' \in [Ids -> 0..MaxPids] /\ \A i \in Ids : hpid'[i] \in {0, hpid[i]}
      BY <2>1 DEF BaseInv, TypeOK
  <2>3. NoLaunch
      BY <1>4, <2>2 DEF RebootLookup, NoLaunch, BaseInv, TypeOK, Births, diskVars, kernelVars, mapVars,
                        daemonVars, Stored
  <2>4. "rbspawn" \in Steps \cap Background /\ "rbspawn" \notin HasNew \cup Stopping
      BY DEF Steps, HasNew, Stopping, Background
  <2>5. Goto(t, "rbspawn") => BaseInv'
      BY <2>1, <2>3, <2>4, GotoKeeps
  <2> QED BY <1>4, <2>3, <2>5, DoneKeeps DEF RebootLookup
<1>5. CASE RebootSpawn(t)
  <2>1. thr[t].pc \notin Placeless /\ HoldsRow(t)
      BY <1>5 DEF RebootSpawn, Placeless, HoldsRow, NeedsRow, Editing
  <2> QED BY <1>5, <2>1, LaunchAgainKeeps DEF RebootSpawn
<1>7. CASE RebootSpawnFails(t) \/ RebootKilled(t)
    BY <1>7, QuietState, DoneKeeps DEF RebootSpawnFails, RebootKilled
<1>8. CASE RebootRegister(t)
    BY <1>8, RegisterKeeps
<1>6. CASE RebootPut(t)
  <2>1. thr[t].rec \in Rows
      BY <1>6, AtWork DEF RebootPut, PutAndReturn, Editing
  <2>2. [thr[t].rec EXCEPT !.st = "running", !.desired = "running", !.pid = thr[t].pid] \in Rows
      BY <1>1, <2>1 DEF Rows, RowStatuses, ThreadStates
  <2> QED BY <1>6, <2>2, PutKeeps DEF RebootPut
<1> QED BY <1>2, <1>3, <1>4, <1>5, <1>6, <1>7, <1>8 DEF RebootStep

\* A step that moves no thread.
LEMMA StillKeeps ==
  ASSUME BaseInv, NoLaunch, UNCHANGED thr
  PROVE  BaseInv'
<1>1. PICK t \in Threads : TRUE
    BY DEF Threads
<1>2. ThreadOK(t)'
    BY DEF BaseInv, ThreadOK, HoldsRow, NoLaunch
<1> QED BY <1>2, NoLaunchKeeps DEF BaseInv, TypeOK

LEMMA LoopKeeps ==
  ASSUME BaseInv, LoopStep
  PROVE  BaseInv'
<1>0. "loop" \in Threads \ Clients
    BY LifecycleAssumption DEF Threads
<1>1. /\ thr["loop"] \in ThreadStates /\ ThreadOK("loop")
      /\ thr["loop"].pc \in {"lpget", "lpput"} => thr["loop"].id \in Ids /\ thr["loop"].id <= lastId
    BY <1>0 DEF BaseInv, TypeOK, ThreadOK, Placeless
<1>2. CASE LoopTick
  <2>1. NoLaunch
      BY <1>2 DEF LoopTick, NoLaunch, BaseInv, TypeOK, Births, diskVars, kernelVars, driverVars, mapVars,
                  Stored
  <2> QED BY <1>2, <2>1, StillKeeps DEF LoopTick
<1>3. ASSUME NEW i \in Ids, LoopVisit(i)  PROVE BaseInv'
  <2>1. NoLaunch
      BY <1>3 DEF LoopVisit, NoLaunch, BaseInv, TypeOK, Births, diskVars, kernelVars, driverVars, mapVars,
                  Stored
  <2>2. CASE UNCHANGED thr
      BY <2>1, <2>2, StillKeeps
  <2>3. CASE thr' # thr
    <3>1. PICK s \in {"rbget", "lpget"} :
            thr' = [thr EXCEPT !["loop"] = [Idle EXCEPT !.pc = s, !.id = i]]
        BY <1>3, <2>3 DEF LoopVisit
    <3>2. i <= lastId /\ s # "bootlaunch"
        BY <1>3 DEF LoopVisit, BaseInv, Births
    <3> QED BY <1>0, <2>1, <3>1, <3>2, TakeKeeps
  <2> QED BY <2>2, <2>3
<1>4. CASE LoopUnhealthyGet
  <2>1. NoLaunch /\ thr["loop"].pc = "lpget"
      BY <1>4, QuietState DEF LoopUnhealthyGet
  <2>2. CASE Stored(thr["loop"].id)
    <3>1. PICK row \in Rows : row = store[thr["loop"].id]
        BY <1>1, <2>1, <2>2 DEF Stored, BaseInv, TypeOK
    <3>2. thr' = [thr EXCEPT !["loop"].pc = "lpput", !["loop"].rec = row]
        BY <1>4, <2>2, <3>1 DEF LoopUnhealthyGet
    <3>3. "lpput" \in Steps \cap Background /\ "lpput" \notin HasNew \cup Stopping
        BY DEF Steps, HasNew, Stopping, Background
    <3>4. thr["loop"].pc \notin Placeless
        BY <2>1 DEF Placeless
    <3> QED BY <1>0, <2>1, <3>2, <3>3, <3>4, RowKeeps
  <2>3. CASE ~Stored(thr["loop"].id)
    <3>1. Goto("loop", "rbget")
        BY <1>4, <2>3 DEF LoopUnhealthyGet
    <3>2. "rbget" \in Steps \cap Background /\ "rbget" \notin HasNew \cup Stopping \cup NeedsRow
        BY DEF Steps, HasNew, Stopping, Background, NeedsRow, Editing
    <3> QED BY <1>0, <1>1, <2>1, <3>1, <3>2, GotoKeeps
  <2> QED BY <2>2, <2>3
<1>5. CASE LoopUnhealthyPut
  <2>1. thr["loop"].pc = "lpput" /\ thr["loop"].rec \in Rows
      BY <1>0, <1>5, AtWork DEF LoopUnhealthyPut, Editing
  <2>2. [thr["loop"].rec EXCEPT !.st = "unhealthy"] \in Rows
      BY <2>1 DEF Rows, RowStatuses
  <2>3. NoLaunch
      BY <1>0, <1>5, <2>2, WrittenState DEF LoopUnhealthyPut
  <2>4. "rbget" \in Steps \cap Background /\ "rbget" \notin HasNew \cup Stopping \cup NeedsRow
      BY DEF Steps, HasNew, Stopping, Background, NeedsRow, Editing
  <2>5. Goto("loop", "rbget") => BaseInv'
      BY <1>0, <1>1, <2>1, <2>3, <2>4, GotoKeeps
  <2> QED BY <1>0, <1>5, <2>3, <2>5, DoneKeeps DEF LoopUnhealthyPut
<1> QED BY <1>0, <1>2, <1>3, <1>4, <1>5, RebootKeeps DEF LoopStep

\* Boot relaunch runs alone, before serving starts, over rows that stay.
BootInv ==
  /\ phase # "boot" => bootIds = {} /\ thr["boot"].pc = "idle"
  /\ phase # "up" => loopIds = {} /\ \A t \in Threads \ {"boot"} : thr[t].pc = "idle"
  /\ \A i \in bootIds : Stored(i)

LEMMA BootKeeps ==
  ASSUME BaseInv, BootInv, BootStep
  PROVE  BaseInv'
<1>0. "boot" \in Threads \ Clients
    BY LifecycleAssumption DEF Threads
<1>1. thr["boot"] \in ThreadStates /\ ThreadOK("boot")
    BY <1>0 DEF BaseInv, TypeOK
<1>2. CASE BootList \/ BootServe
  <2>1. NoLaunch /\ UNCHANGED thr
      BY <1>2 DEF BootList, BootServe, NoLaunch, BaseInv, TypeOK, Births, diskVars, kernelVars, driverVars,
                  mapVars, Stored
  <2> QED BY <2>1, StillKeeps
<1>3. ASSUME NEW i \in Ids, BootVisit(i)  PROVE BaseInv'
  <2>1. i <= lastId /\ store[i] \in Rows
      BY <1>3 DEF BootVisit, BaseInv, BootInv, Births, TypeOK, Stored
  <2>2. byName' \in [Names -> 0..MaxIds] /\ \A n \in Names : byName'[n] <= lastId
    <3>1. store[i].name \in Names /\ i \in 0..MaxIds
        BY <2>1 DEF Rows, Ids
    <3> QED BY <1>3, <2>1, <3>1 DEF BootVisit, BaseInv, TypeOK, Births
  <2>3. NoLaunch
      BY <1>3, <2>2 DEF BootVisit, NoLaunch, BaseInv, TypeOK, Births, diskVars, kernelVars, driverVars,
                        Stored
  <2>4. CASE UNCHANGED thr
      BY <2>3, <2>4, StillKeeps
  <2>5. CASE thr' = [thr EXCEPT !["boot"] = [Idle EXCEPT !.pc = "bootlaunch", !.id = i, !.rec = store[i]]]
    <3>1. PICK r \in Rows : r = store[i]
        BY <2>1
    <3> QED BY <1>0, <2>1, <2>3, <2>5, <3>1, TakeKeeps
  <2> QED BY <1>3, <2>4, <2>5 DEF BootVisit
<1>4. CASE BootLaunch
  <2>1. thr["boot"].pc \notin Placeless /\ HoldsRow("boot")
      BY <1>4 DEF BootLaunch, Placeless, HoldsRow, NeedsRow
  <2>2. NewChild(thr["boot"].id) /\ Register(thr["boot"].id, lastPid')
      BY <1>4 DEF BootLaunch, Spawn
  <2> QED BY <1>0, <1>4, <2>1, <2>2, LaunchAgainKeeps DEF BootLaunch
<1>5. CASE BootLaunchFails
  <2>1. NoLaunch /\ thr["boot"].pc = "bootlaunch" /\ Goto("boot", "bootfail") /\ HoldsRow("boot")
      BY <1>5, QuietState DEF BootLaunchFails, HoldsRow, NeedsRow
  <2>2. thr["boot"].id \in Ids /\ thr["boot"].id <= lastId
      BY <1>1, <2>1 DEF ThreadOK, Placeless
  <2>3. "bootfail" \in Steps \cap Background /\ "bootfail" \notin HasNew \cup Stopping
      BY DEF Steps, HasNew, Stopping, Background
  <2> QED BY <1>0, <2>1, <2>2, <2>3, GotoKeeps
<1>6. CASE BootPut \/ BootFailed
  <2>1. thr["boot"].rec \in Rows
      BY <1>0, <1>6, AtWork DEF BootPut, BootFailed, PutAndReturn, Editing
  <2>2. /\ [thr["boot"].rec EXCEPT !.st = "running", !.pid = thr["boot"].pid] \in Rows
        /\ [thr["boot"].rec EXCEPT !.st = "failed"] \in Rows
      BY <1>1, <2>1 DEF Rows, RowStatuses, ThreadStates
  <2> QED BY <1>0, <1>6, <2>2, PutKeeps DEF BootPut, BootFailed
<1> QED BY <1>2, <1>3, <1>4, <1>5, <1>6 DEF BootStep

LEMMA WatchKeeps ==
  ASSUME BaseInv, WatchStep
  PROVE  BaseInv'
<1>0. "watch" \in Threads \ Clients
    BY LifecycleAssumption DEF Threads
<1>1. ASSUME NEW i \in Ids, WatchEvent(i)  PROVE BaseInv'
  <2>1. NoLaunch /\ i <= lastId
      BY <1>1, QuietState DEF WatchEvent, BaseInv, Births
  <2>2. thr' = [thr EXCEPT !["watch"] = [Idle EXCEPT !.pc = "rbget", !.id = i]]
      BY <1>1 DEF WatchEvent
  <2> QED BY <1>0, <2>1, <2>2, TakeKeeps
<1> QED BY <1>0, <1>1, RebootKeeps DEF WatchStep

LEMMA CrashKeeps ==
  ASSUME BaseInv, Crash
  PROVE  BaseInv'
<1>1. /\ 0 \in 0..MaxIds /\ 0 <= lastId /\ 0 \in 0..MaxPids /\ crashes' \in 0..MaxCrashes
    BY LifecycleAssumption DEF Crash, BaseInv, TypeOK
<1>2. NoLaunch
    BY <1>1 DEF Crash, NoLaunch, BaseInv, TypeOK, Births, diskVars, kernelVars, Stored
<1>3. thr' \in [Threads -> ThreadStates] /\ \A t \in Threads : thr'[t] = Idle
    BY IdleTyped DEF Crash
<1>4. \A t \in Threads : ThreadOK(t)'
    BY <1>3 DEF ThreadOK, Placeless, HasNew, HoldsRow, NeedsRow, Editing, Stopping, Background, Returns,
                Idle
<1>5. \A t \in Threads : thr'[t].pc \in Editing => thr'[t].rec \in Rows
    BY <1>3 DEF Idle, Editing
<1>6. TypeOK' /\ Births'
    BY <1>1, <1>2, <1>3, <1>5 DEF Crash, BaseInv, TypeOK, Births, NoLaunch, Stored
<1> QED BY <1>4, <1>6 DEF BaseInv

LEMMA ExitKeeps ==
  ASSUME BaseInv, NEW p \in Pids, Exit(p)
  PROVE  BaseInv'
<1>1. NoLaunch /\ UNCHANGED thr
    BY DEF Exit, NoLaunch, BaseInv, TypeOK, Births, diskVars, mapVars, daemonVars, Stored
<1> QED BY <1>1, StillKeeps

\* While the daemon serves or is down, only its own thread disturbs boot relaunch.
LEMMA BootInvKeeps ==
  ASSUME BaseInv, BootInv, [Next]_vars
  PROVE  BootInv'
<1>0. "boot" \in Threads \ Clients /\ "loop" \in Threads \ Clients /\ "watch" \in Threads \ Clients
      /\ "loop" # "boot" /\ "watch" # "boot" /\ Clients \subseteq Threads
      /\ thr \in [Threads -> ThreadStates]
    BY LifecycleAssumption DEF Threads, BaseInv, TypeOK
\* A step of a thread that serves.
<1>s. ASSUME NEW t \in Threads \ {"boot"}, thr[t].pc # "idle" \/ phase = "up",
             UNCHANGED <<phase, bootIds>>, thr'["boot"] = thr["boot"]
      PROVE  BootInv'
    BY <1>s DEF BootInv
<1>d. ASSUME NEW t \in Threads \ {"boot"}, DriverStep(t)  PROVE BootInv'
  <2>1. thr[t].pc # "idle" /\ UNCHANGED <<phase, bootIds>> /\ thr'["boot"] = thr["boot"]
      BY <1>0, <1>d DEF DriverStep, MgrStop, MgrStopReturn, StopError, Resume, Done, Goto, daemonVars
  <2> QED BY <1>s, <2>1
<1>r. ASSUME NEW t \in {"loop", "watch"}, RebootStep(t)  PROVE BootInv'
  <2>1. CASE DriverStep(t)
      BY <1>0, <1>d, <2>1
  <2>2. CASE ~DriverStep(t)
    <3>1. thr[t].pc # "idle" /\ UNCHANGED <<phase, bootIds>> /\ thr'["boot"] = thr["boot"]
        BY <1>0, <1>r, <2>2 DEF RebootStep, RebootGet, RebootLookup, RebootSpawn, RebootSpawnFails,
                                RebootRegister, RebootKilled, RebootPut, PutAndReturn, Done, Goto,
                                daemonVars
    <3> QED BY <1>0, <1>s, <3>1
  <2> QED BY <2>1, <2>2
<1>1. ASSUME NEW c \in Clients, Request(c) \/ Cancel(c)  PROVE BootInv'
  <2>1. (thr[c].pc # "idle" \/ phase = "up") /\ UNCHANGED <<phase, bootIds>> /\ thr'["boot"] = thr["boot"]
      BY <1>0, <1>1 DEF Request, Cancel, StartLookup, StopBegin, RestartBegin, RemoveBegin, EnableBegin,
                        DisableBegin, WaitBegin, HealthBegin, UpdateBegin, WatchSet, Target, Begin,
                        daemonVars
  <2> QED BY <1>0, <1>s, <2>1
<1>2. ASSUME NEW c \in Clients, HandlerStep(c)  PROVE BootInv'
  <2>1. CASE DriverStep(c)
      BY <1>0, <1>d, <2>1
  <2>2. CASE ~DriverStep(c)
    <3>1. thr[c].pc # "idle"
        BY <1>2, <2>2 DEF HandlerStep, StartGetName, StartUnname, StartScan, StartClaim, ReplaceDelete,
             ReplaceMaps, StartLaunch, LaunchNewFails, StartCreate, StartPublish, RunGet, RunPut, Reget,
             StopInspect, StopPut, RestartLaunch, RestartLink, RestartCreate, RestartPublish,
             RemoveDelete, RemoveMaps, EnablePut, DisablePut, DisableInspect, DisableEnd, WaitLook,
             WaitReturn, WaitPut, HealthProbe, HealthPut, UpdatePut, PutAndReturn
    <3>2. UNCHANGED <<phase, bootIds>>
        BY <1>2, <2>2 DEF HandlerStep, StartGetName, StartUnname, StartScan, StartClaim, ReplaceDelete,
             ReplaceMaps, StartLaunch, LaunchNewFails, StartCreate, StartPublish, RunGet, RunPut, Reget,
             StopInspect, StopPut, RestartLaunch, RestartLink, RestartCreate, RestartPublish,
             RemoveDelete, RemoveMaps, EnablePut, DisablePut, DisableInspect, DisableEnd, WaitLook,
             WaitReturn, WaitPut, HealthProbe, HealthPut, UpdatePut, PutAndReturn, LaunchNew, daemonVars
    <3>3. thr'["boot"] = thr["boot"]
        BY <1>0, <1>2, <2>2 DEF HandlerStep, StartGetName, StartUnname, StartScan, StartClaim,
             ReplaceDelete, ReplaceMaps, StartLaunch, LaunchNewFails, StartCreate, StartPublish, RunGet,
             RunPut, Reget, StopInspect, StopPut, RestartLaunch, RestartLink, RestartCreate,
             RestartPublish, RemoveDelete, RemoveMaps, EnablePut, DisablePut, DisableInspect, DisableEnd,
             WaitLook, WaitReturn, WaitPut, HealthProbe, HealthPut, UpdatePut, PutAndReturn, LaunchNew,
             UndoLaunch, Done, Goto
    <3> QED BY <1>0, <1>s, <3>1, <3>2, <3>3
  <2> QED BY <2>1, <2>2
<1>3. CASE LoopStep
  <2>1. CASE LoopTick \/ \E i \in Ids : LoopVisit(i)
    <3>1. /\ phase = "up" \/ loopIds # {}
          /\ UNCHANGED <<phase, bootIds>> /\ thr'["boot"] = thr["boot"]
        BY <1>0, <2>1 DEF LoopTick, LoopVisit
    <3> QED BY <1>0, <1>s, <3>1 DEF BootInv
  <2>2. CASE LoopUnhealthyGet \/ LoopUnhealthyPut
    <3>1. /\ thr["loop"].pc # "idle"
          /\ UNCHANGED <<phase, bootIds>> /\ thr'["boot"] = thr["boot"]
        BY <1>0, <2>2 DEF LoopUnhealthyGet, LoopUnhealthyPut, Goto, Done, daemonVars
    <3> QED BY <1>0, <1>s, <3>1
  <2> QED BY <1>3, <1>r, <2>1, <2>2 DEF LoopStep
<1>4. CASE WatchStep
  <2>1. ASSUME NEW i \in Ids, WatchEvent(i)  PROVE BootInv'
      BY <1>0, <1>s, <2>1 DEF WatchEvent, daemonVars
  <2> QED BY <1>4, <1>r, <2>1 DEF WatchStep
<1>5. CASE BootStep
  <2>1. CASE BootList
      BY <1>0, <2>1 DEF BootList, BootInv, diskVars, Stored
  <2>2. ASSUME NEW i \in Ids, BootVisit(i)  PROVE BootInv'
      BY <1>0, <2>2 DEF BootVisit, BootInv, diskVars, Stored
  <2>3. CASE BootLaunch \/ BootLaunchFails
      BY <1>0, <2>3 DEF BootLaunch, BootLaunchFails, Goto, BootInv, diskVars, daemonVars, Stored
  <2>4. CASE BootPut \/ BootFailed
    <3>1. PICK s \in Editing, row \in Rows : PutAndReturn("boot", s, row)
      <4>1. thr["boot"].rec \in Rows /\ thr["boot"] \in ThreadStates
          BY <1>0, <2>4, AtWork DEF BootPut, BootFailed, PutAndReturn, Editing
      <4>2. /\ [thr["boot"].rec EXCEPT !.st = "running", !.pid = thr["boot"].pid] \in Rows
            /\ [thr["boot"].rec EXCEPT !.st = "failed"] \in Rows
          BY <4>1 DEF Rows, RowStatuses, ThreadStates
      <4> QED BY <2>4, <4>2 DEF BootPut, BootFailed, Editing
    <3>2. \A i \in Ids : Stored(i) => Stored(i)'
        BY <3>1, RowsAreStored DEF PutAndReturn, Update, Stored, BaseInv, TypeOK
    <3>3. phase = "boot" /\ UNCHANGED <<phase, bootIds, loopIds>>
          /\ \A t \in Threads \ {"boot"} : thr'[t] = thr[t]
        BY <1>0, <3>1 DEF PutAndReturn, Done, daemonVars, BootInv, Editing
    <3> QED BY <1>0, <3>1, <3>2, <3>3 DEF BootInv, BaseInv, TypeOK
  <2>5. CASE BootServe
      BY <2>5 DEF BootServe, BootInv
  <2> QED BY <1>5, <2>1, <2>2, <2>3, <2>4, <2>5 DEF BootStep
<1>6. CASE Crash
    BY <1>0, <1>6 DEF Crash, BootInv, Idle
<1>7. ASSUME NEW p \in Pids, Exit(p)  PROVE BootInv'
    BY <1>7 DEF Exit, BootInv, diskVars, daemonVars, Stored
<1>8. CASE UNCHANGED vars
    BY <1>8 DEF vars, BootInv, diskVars, daemonVars, Stored
<1> QED BY <1>1, <1>2, <1>3, <1>4, <1>5, <1>6, <1>7, <1>8 DEF Next

LEMMA BaseStep ==
  ASSUME BaseInv, BootInv, [Next]_vars
  PROVE  BaseInv' /\ BootInv'
<1>1. UNCHANGED vars => BaseInv'
    BY QuietState, StillKeeps DEF vars
<1>2. Next => BaseInv'
    BY RequestKeeps, CancelKeeps, HandlerKeeps, LoopKeeps, WatchKeeps, BootKeeps, CrashKeeps, ExitKeeps
       DEF Next
<1> QED BY <1>1, <1>2, BootInvKeeps

LEMMA BaseInit == Init => BaseInv /\ BootInv
<1> SUFFICES ASSUME Init  PROVE BaseInv /\ BootInv
    OBVIOUS
<1>1. 0 \in 0..MaxIds /\ 0 \in 0..MaxPids /\ 0 \in 0..MaxCrashes
    BY LifecycleAssumption
<1>2. thr \in [Threads -> ThreadStates] /\ \A t \in Threads : thr[t] = Idle
    BY IdleTyped DEF Init
<1>3. \A t \in Threads : ThreadOK(t)
    BY <1>2 DEF ThreadOK, Placeless, HasNew, HoldsRow, NeedsRow, Editing, Stopping, Background, Returns,
                Idle
<1>4. TypeOK
    BY <1>1, <1>2 DEF Init, TypeOK, Editing, Idle
<1>5. Births
    BY <1>1 DEF Init, Births, Stored, Pids, Ids
<1>6. BootInv
    BY <1>2, LifecycleAssumption DEF Init, BootInv, Threads, Idle
<1> QED BY <1>3, <1>4, <1>5, <1>6 DEF BaseInv

\* In every instance, crashes and cancelled calls included, the state is well typed,
\* a handler that edits a row has read one, and every handle is of a child of its id.
THEOREM LifecycleTypes == Spec => [](BaseInv /\ BootInv)
  BY BaseInit, BaseStep, PTL DEF Spec

-----------------------------------------------------------------------------
(* What a step does to children: it starts none, starts the child of a new  *)
(* id or of one that boot relaunches, starts a child that the driver does   *)
(* not know yet, or makes the driver know it.                               *)

Restarters == {"loop", "watch"}

\* Two restarts go on as they were, but for a child that is no longer.
Calm ==
  \A t \in Restarters :
    /\ thr'[t].pc = "rbreg" => /\ thr[t].pc = "rbreg" /\ thr'[t].pid = thr[t].pid
                               /\ thr[t].pid \in live => thr[t].pid \in live'
    /\ thr[t].pc \in {"rbreg", "rbkill"}
         => \/ thr[t].pid \notin live'
            \/ thr'[t].pc \in {"rbreg", "rbkill"} /\ thr'[t].pid = thr[t].pid

Others(t) == \A u \in Restarters \ {t} : thr'[u] = thr[u]
Starts(i) == /\ lastPid' \in Pids /\ lastPid' = lastPid + 1 /\ live' = live \cup {lastPid'}
             /\ owner' = [owner EXCEPT ![lastPid'] = i] /\ hpid' = [hpid EXCEPT ![i] = lastPid']
StartsNone ==
  /\ UNCHANGED <<owner, lastPid>> /\ live' \subseteq live
  /\ \/ Crash
     \/ Calm /\ \A i \in Ids : hpid'[i] = hpid[i] \/ (hpid'[i] = 0 /\ hpid[i] \notin live)
StartsNew == lastId' \in Ids /\ lastId' = lastId + 1 /\ Starts(lastId') /\ Others("boot")
StartsAgain == /\ thr["boot"].pc = "bootlaunch" /\ thr["boot"].id \in Ids
               /\ Launchable(thr["boot"].id) /\ Starts(thr["boot"].id) /\ Others("boot")
StartsUnknown(t) ==
  /\ thr[t].pc = "rbspawn" /\ thr[t].id \in Ids
  /\ lastPid' \in Pids /\ lastPid' = lastPid + 1 /\ live' = live \cup {lastPid'}
  /\ owner' = [owner EXCEPT ![lastPid'] = thr[t].id] /\ UNCHANGED <<hpid, stopping>>
  /\ thr'[t].pc = "rbreg" /\ thr'[t].pid = lastPid' /\ thr'[t].id = thr[t].id /\ Others(t)
Registers(t) ==
  /\ thr[t].pc = "rbreg" /\ Launchable(thr[t].id)
  /\ UNCHANGED <<owner, lastPid, live>> /\ Register(thr[t].id, thr[t].pid)
  /\ thr'[t].pc = "rbput" /\ Others(t)

LEMMA Spawned ==
  ASSUME BaseInv, NEW i \in Ids, Spawn(i)
  PROVE  Starts(i)
  BY LifecycleAssumption DEF Spawn, NewChild, Register, Starts, BaseInv, TypeOK, Pids

\* A step that moves no restart, or one that holds no child, leaves things as they are.
LEMMA CalmStep ==
  ASSUME NEW t, Others(t), live' = live,
         t \in Restarters => thr[t].pc \notin {"rbreg", "rbkill"} /\ thr'[t].pc # "rbreg"
  PROVE  Calm
  BY DEF Calm, Others

LEMMA StepStarts ==
  ASSUME BaseInv, [Next]_vars
  PROVE  \/ StartsNone \/ StartsNew \/ StartsAgain
         \/ \E t \in Restarters : StartsUnknown(t) \/ Registers(t)
<1>t. /\ Restarters \cup {"boot"} \subseteq Threads /\ thr \in [Threads -> ThreadStates]
      /\ Clients \cap (Restarters \cup {"boot"}) = {} /\ "boot" \notin Restarters
    BY LifecycleAssumption DEF Threads, Restarters, BaseInv, TypeOK
\* A step that leaves children and handles alone, of a thread that holds no child.
<1>q. ASSUME NEW t \in Threads, UNCHANGED <<kernelVars, hpid>>, \A u \in Threads \ {t} : thr'[u] = thr[u],
             t \in Restarters => thr[t].pc \notin {"rbreg", "rbkill"} /\ thr'[t].pc # "rbreg"
      PROVE  StartsNone
  <2>1. Others(t)
      BY <1>t, <1>q DEF Others
  <2> QED BY <1>q, <2>1, CalmStep DEF StartsNone, kernelVars
<1>s. ASSUME UNCHANGED <<kernelVars, hpid, thr>>  PROVE StartsNone
  <2>1. Calm
      BY <1>s DEF Calm, kernelVars
  <2> QED BY <1>s, <2>1 DEF StartsNone, kernelVars
<1>d. ASSUME NEW t \in Threads, DriverStep(t)  PROVE StartsNone
  <2>1. /\ UNCHANGED <<kernelVars, hpid>> /\ \A u \in Threads \ {t} : thr'[u] = thr[u]
        /\ thr[t].pc \notin {"rbreg", "rbkill"}
      BY <1>t, <1>d DEF DriverStep, MgrStop, MgrStopReturn, StopError, Resume, Done, Goto, driverVars
  <2>2. thr'[t].pc # "rbreg"
    <3>1. thr[t].ret # "rbreg" /\ thr[t] \in ThreadStates
        BY <1>t DEF BaseInv, ThreadOK, Returns
    <3>2. Done(t) \/ Goto(t, thr[t].ret) \/ thr' = [thr EXCEPT ![t].pc = "mwait", ![t].pid = hpid[thr[t].id]]
        BY <1>d DEF DriverStep, MgrStop, MgrStopReturn, StopError, Resume
    <3> QED BY <1>t, <3>1, <3>2 DEF Done, Goto, Idle, ThreadStates
  <2> QED BY <1>q, <2>1, <2>2
<1>n. ASSUME NEW c \in Clients, NEW s, NEW a, NEW u, LaunchNew(c, s, a, u)  PROVE StartsNew
  <2>1. lastId' \in Ids /\ lastId' = lastId + 1
      BY <1>n, LifecycleAssumption DEF LaunchNew, BaseInv, TypeOK, Ids
  <2>2. PICK i \in Ids : i = lastId'
      BY <2>1
  <2>3. Starts(i)
      BY <1>n, <2>2, Spawned DEF LaunchNew
  <2>4. Others("boot")
      BY <1>n, <1>t DEF LaunchNew, Others
  <2> QED BY <2>1, <2>2, <2>3, <2>4 DEF StartsNew
<1>b. ASSUME BootLaunch  PROVE StartsAgain
  <2>1. thr["boot"].id \in Ids
      BY <1>b, <1>t DEF BootLaunch, BaseInv, ThreadOK, Placeless
  <2>2. Others("boot")
      BY <1>b, <1>t DEF BootLaunch, Others
  <2> QED BY <1>b, <2>1, <2>2, Spawned DEF BootLaunch, StartsAgain
<1>r. ASSUME NEW t \in Restarters, RebootStep(t)
      PROVE  StartsNone \/ StartsUnknown(t) \/ Registers(t)
  <2>0. t \in Threads /\ thr[t] \in ThreadStates /\ ThreadOK(t)
      BY <1>t DEF BaseInv
  <2>1. CASE RebootGet(t) \/ RebootPut(t) \/ RebootSpawnFails(t)
    <3>1. /\ UNCHANGED <<kernelVars, hpid>> /\ \A u \in Threads \ {t} : thr'[u] = thr[u]
          /\ thr[t].pc \notin {"rbreg", "rbkill"} /\ thr'[t].pc # "rbreg"
        BY <1>t, <2>0, <2>1 DEF RebootGet, RebootPut, RebootSpawnFails, PutAndReturn, Done, Idle, driverVars,
                                ThreadStates
    <3> QED BY <1>q, <2>0, <3>1
  <2>2. CASE RebootLookup(t)
    <3>1. /\ UNCHANGED <<owner, lastPid, live>> /\ thr[t].id \in Ids
          /\ hpid' = hpid \/ (hpid[thr[t].id] \notin live /\ hpid' = [hpid EXCEPT ![thr[t].id] = 0])
        BY <2>0, <2>2 DEF RebootLookup, kernelVars, ThreadOK, Placeless, Launchable, Status, BaseInv, TypeOK,
                          Pids
    <3>2. /\ Others(t) /\ thr[t].pc \notin {"rbreg", "rbkill"} /\ thr'[t].pc # "rbreg"
        BY <1>t, <2>0, <2>2 DEF RebootLookup, Others, Goto, Done, Idle, ThreadStates
    <3> QED BY <3>1, <3>2, CalmStep DEF StartsNone, BaseInv, TypeOK
  <2>3. CASE RebootSpawn(t)
    <3>1. thr[t].id \in Ids
        BY <2>0, <2>3 DEF RebootSpawn, ThreadOK, Placeless
    <3>2. /\ Others(t) /\ thr'[t].pc = "rbreg" /\ thr'[t].pid = lastPid' /\ thr'[t].id = thr[t].id
        BY <1>t, <2>0, <2>3 DEF RebootSpawn, Others, ThreadStates
    <3>3. lastPid' \in Pids
        BY <2>3, LifecycleAssumption DEF RebootSpawn, NewChild, BaseInv, TypeOK, Pids
    <3> QED BY <2>3, <3>1, <3>2, <3>3 DEF RebootSpawn, NewChild, driverVars, StartsUnknown
  <2>4. CASE RebootKilled(t)
    <3>1. /\ UNCHANGED <<owner, lastPid, live, hpid>> /\ thr[t].pid \notin live
          /\ thr'[t].pc = "idle" /\ Others(t)
        BY <1>t, <2>0, <2>4 DEF RebootKilled, kernelVars, driverVars, Done, Idle, Others
    <3>2. Calm
        BY <3>1 DEF Calm, Others
    <3> QED BY <3>1, <3>2 DEF StartsNone
  <2>5. CASE RebootRegister(t)
    <3>1. /\ UNCHANGED <<owner, lastPid, live>> /\ thr[t].pc = "rbreg"
        BY <2>5 DEF RebootRegister, kernelVars
    <3>2. CASE Launchable(thr[t].id) /\ Register(thr[t].id, thr[t].pid) /\ Goto(t, "rbput")
      <4>1. Others(t) /\ thr'[t].pc = "rbput"
          BY <1>t, <2>0, <3>2 DEF Others, Goto, ThreadStates
      <4> QED BY <3>1, <3>2, <4>1 DEF Registers
    <3>3. CASE UNCHANGED driverVars /\ Goto(t, "rbkill")
      <4>1. Others(t) /\ thr'[t].pc = "rbkill" /\ thr'[t].pid = thr[t].pid
          BY <1>t, <2>0, <3>3 DEF Others, Goto, ThreadStates
      <4>2. Calm
          BY <3>1, <4>1 DEF Calm, Others
      <4> QED BY <3>1, <3>3, <4>2 DEF StartsNone, driverVars
    <3> QED BY <2>5, <3>2, <3>3 DEF RebootRegister
  <2> QED BY <1>d, <1>r, <2>0, <2>1, <2>2, <2>3, <2>4, <2>5 DEF RebootStep
<1>1. ASSUME NEW c \in Clients, HandlerStep(c)  PROVE StartsNone \/ StartsNew
  <2>0. c \in Threads \ Restarters
      BY <1>t DEF Threads
  <2>1. CASE DriverStep(c)
      BY <1>d, <2>0, <2>1
  <2>2. CASE StartLaunch(c)
      BY <1>n, <2>2 DEF StartLaunch
  <2>3. CASE RestartLaunch(c)
    <3>1. LaunchNew(c, "rlink", thr[c].id \in auto, thr[c].id \in url)
        BY <2>3 DEF RestartLaunch
    <3> QED BY <1>n, <3>1, Zenon
  <2>4. CASE ~DriverStep(c) /\ ~StartLaunch(c) /\ ~RestartLaunch(c)
    <3>1. UNCHANGED <<kernelVars, hpid>>
        BY <1>1, <2>4 DEF HandlerStep, StartGetName, StartUnname, StartScan, StartClaim, ReplaceDelete,
           ReplaceMaps, LaunchNewFails, StartCreate, StartPublish, RunGet, RunPut, Reget, StopInspect,
           StopPut, RestartLink, RestartCreate, RestartPublish, RemoveDelete, RemoveMaps, EnablePut,
           DisablePut, DisableInspect, DisableEnd, WaitLook, WaitReturn, WaitPut, HealthProbe, HealthPut,
           UpdatePut, PutAndReturn, driverVars
    <3>2. \A u \in Threads \ {c} : thr'[u] = thr[u]
        BY <1>1, <1>t, <2>4 DEF HandlerStep, StartGetName, StartUnname, StartScan, StartClaim,
           ReplaceDelete, ReplaceMaps, LaunchNewFails, StartCreate, StartPublish, RunGet, RunPut, Reget,
           StopInspect, StopPut, RestartLink, RestartCreate, RestartPublish, RemoveDelete, RemoveMaps,
           EnablePut, DisablePut, DisableInspect, DisableEnd, WaitLook, WaitReturn, WaitPut, HealthProbe,
           HealthPut, UpdatePut, PutAndReturn, UndoLaunch, Done, Goto
    <3> QED BY <1>q, <2>0, <3>1, <3>2
  <2> QED BY <2>1, <2>2, <2>3, <2>4
<1>2. ASSUME NEW c \in Clients, Request(c) \/ Cancel(c)  PROVE StartsNone
  <2>1. c \in Threads \ Restarters
      BY <1>t DEF Threads
  <2>2. UNCHANGED <<kernelVars, hpid>> /\ \A u \in Threads \ {c} : thr'[u] = thr[u]
      BY <1>2, <1>t DEF Request, Cancel, StartLookup, StopBegin, RestartBegin, RemoveBegin, EnableBegin,
         DisableBegin, WaitBegin, HealthBegin, UpdateBegin, WatchSet, Target, driverVars
  <2> QED BY <1>q, <2>1, <2>2
<1>3. CASE LoopStep \/ WatchStep
  <2>1. CASE LoopTick
      BY <1>s, <2>1 DEF LoopTick, driverVars
  <2>2. ASSUME LoopUnhealthyGet \/ LoopUnhealthyPut \/ \E i \in Ids : LoopVisit(i)
        PROVE  StartsNone
    <3>1. /\ UNCHANGED <<kernelVars, hpid>> /\ \A u \in Threads \ {"loop"} : thr'[u] = thr[u]
          /\ thr["loop"].pc \notin {"rbreg", "rbkill"}
        BY <1>t, <2>2 DEF LoopVisit, LoopUnhealthyGet, LoopUnhealthyPut, driverVars, Goto, Done
    <3>2. thr'["loop"].pc # "rbreg"
      <4>1. "loop" \in Threads /\ thr["loop"] \in ThreadStates
          BY <1>t DEF Restarters
      <4>2. ASSUME LoopUnhealthyGet  PROVE thr'["loop"].pc \in {"lpput", "rbget"}
          BY <1>t, <4>1, <4>2 DEF LoopUnhealthyGet, Goto, ThreadStates
      <4>3. ASSUME LoopUnhealthyPut  PROVE thr'["loop"].pc \in {"idle", "rbget"}
          BY <1>t, <4>1, <4>3 DEF LoopUnhealthyPut, Goto, Done, Idle, ThreadStates
      <4>4. ASSUME NEW i \in Ids, LoopVisit(i)  PROVE thr'["loop"].pc \in {"idle", "rbget", "lpget"}
          BY <1>t, <4>1, <4>4 DEF LoopVisit, Idle
      <4> QED BY <2>2, <4>2, <4>3, <4>4
    <3> QED BY <1>q, <1>t, <3>1, <3>2 DEF Restarters
  <2>3. ASSUME NEW i \in Ids, WatchEvent(i)  PROVE StartsNone
    <3>1. /\ UNCHANGED <<kernelVars, hpid>> /\ \A u \in Threads \ {"watch"} : thr'[u] = thr[u]
          /\ thr["watch"].pc \notin {"rbreg", "rbkill"} /\ thr'["watch"].pc # "rbreg"
        BY <1>t, <2>3 DEF WatchEvent, driverVars, Idle, Restarters
    <3> QED BY <1>q, <1>t, <3>1 DEF Restarters
  <2> QED BY <1>3, <1>r, <2>1, <2>2, <2>3 DEF LoopStep, WatchStep, Restarters
<1>4. CASE BootStep
  <2>1. CASE BootList \/ BootServe
      BY <1>s, <2>1 DEF BootList, BootServe, driverVars
  <2>2. ASSUME BootLaunchFails \/ BootPut \/ BootFailed \/ \E i \in Ids : BootVisit(i)
        PROVE  StartsNone
    <3>1. UNCHANGED <<kernelVars, hpid>> /\ \A u \in Threads \ {"boot"} : thr'[u] = thr[u]
        BY <1>t, <2>2 DEF BootVisit, BootLaunchFails, BootPut, BootFailed, PutAndReturn, driverVars, Goto, Done
    <3> QED BY <1>q, <1>t, <3>1
  <2> QED BY <1>4, <1>b, <2>1, <2>2 DEF BootStep
<1>5. CASE Crash
    BY <1>5 DEF Crash, StartsNone, kernelVars
<1>6. ASSUME NEW p \in Pids, Exit(p)  PROVE StartsNone
  <2>1. Calm
      BY <1>6 DEF Exit, Calm, Restarters
  <2> QED BY <1>6, <2>1 DEF Exit, StartsNone
<1>7. CASE UNCHANGED vars
    BY <1>7, <1>s DEF vars, driverVars
<1> QED BY <1>1, <1>2, <1>3, <1>4, <1>5, <1>6, <1>7 DEF Next

\* What a restart holds before it registers: a running child that no handle names, and
\* not the one another restart holds.
Holding ==
  \A t \in Restarters : thr[t].pc = "rbreg" =>
    /\ thr[t].pid \in live /\ \A j \in Ids : hpid[j] # thr[t].pid
    /\ \A u \in Restarters \ {t} : thr[u].pc = "rbreg" => thr[u].pid # thr[t].pid

\* The invariant needs BaseInv for what no step changes: who owns a child, and how far
\* PIDs have been given out.
LEMMA HoldingStep ==
  ASSUME BaseInv, Holding, [Next]_vars
  PROVE  Holding'
<1>1. /\ lastPid \in Nat /\ live \subseteq Pids /\ hpid \in [Ids -> 0..MaxPids]
      /\ \A p \in live : p <= lastPid /\ p # 0
      /\ \A i \in Ids : hpid[i] # 0 => hpid[i] <= lastPid
      /\ Restarters \subseteq Threads /\ "boot" \notin Restarters
    BY LifecycleAssumption DEF BaseInv, TypeOK, Births, Pids, Restarters, Threads
<1>2. CASE StartsNone
  <2>1. CASE Crash
    <3>1. \A t \in Restarters : thr'[t].pc = "idle"
        BY <1>1, <2>1 DEF Crash, Idle
    <3> QED BY <3>1 DEF Holding
  <2>2. CASE ~Crash
      BY <1>1, <1>2, <2>2 DEF StartsNone, Calm, Holding
  <2> QED BY <2>1, <2>2
<1>3. ASSUME NEW i \in Ids, Starts(i), Others("boot")  PROVE Holding'
  <2>1. PICK x \in Pids : x = lastPid' /\ x = lastPid + 1
      BY <1>3 DEF Starts
  <2>2. live' = live \cup {x} /\ \A j \in Ids : hpid'[j] \in {hpid[j], x}
      BY <1>1, <1>3, <2>1 DEF Starts
  <2>3. \A t \in Restarters : thr'[t] = thr[t]
      BY <1>1, <1>3 DEF Others
  <2>4. x \notin live
      BY <1>1, <2>1
  <2> QED BY <2>2, <2>3, <2>4 DEF Holding
<1>4. ASSUME NEW t \in Restarters, StartsUnknown(t)  PROVE Holding'
  <2>1. PICK x \in Pids : x = lastPid' /\ x = lastPid + 1
      BY <1>4 DEF StartsUnknown
  <2>2. /\ live' = live \cup {x} /\ UNCHANGED hpid /\ thr'[t].pid = x
        /\ \A u \in Restarters \ {t} : thr'[u] = thr[u]
      BY <1>4, <2>1 DEF StartsUnknown, Others
  <2>3. x \notin live /\ \A j \in Ids : hpid[j] # x
      BY <1>1, <2>1
  <2> QED BY <2>2, <2>3 DEF Holding
<1>5. ASSUME NEW t \in Restarters, Registers(t)  PROVE Holding'
  <2>1. /\ live' = live /\ thr'[t].pc = "rbput" /\ \A u \in Restarters \ {t} : thr'[u] = thr[u]
        /\ \A j \in Ids : hpid'[j] \in {hpid[j], thr[t].pid} /\ thr[t].pc = "rbreg"
      BY <1>1, <1>5 DEF Registers, Register, Others
  <2> QED BY <2>1 DEF Holding
<1> QED BY <1>2, <1>3, <1>4, <1>5, StepStarts DEF StartsNew, StartsAgain

LEMMA InServiceStep ==
  ASSUME BaseInv, Holding, OneInService, [Next]_vars, ~Crash
  PROVE  OneInService'
<1>1. /\ lastPid \in Nat /\ lastId \in Nat /\ live \subseteq Pids /\ hpid \in [Ids -> 0..MaxPids]
      /\ \A p \in live : p <= lastPid /\ owner[p] \in Ids /\ owner[p] <= lastId
      /\ owner \in [Pids -> 0..MaxIds] /\ "boot" \notin Restarters
    BY LifecycleAssumption DEF BaseInv, TypeOK, Births, Restarters
<1>u. ASSUME NEW p, Unregistered(p)
      PROVE  \E t \in Restarters : thr[t].pc \in {"rbreg", "rbkill"} /\ thr[t].pid = p
    BY <1>u DEF Unregistered, Restarters
<1>v. ASSUME NEW p, NEW t \in Restarters, thr'[t].pc \in {"rbreg", "rbkill"}, thr'[t].pid = p
      PROVE  Unregistered(p)'
    BY <1>v DEF Unregistered, Restarters
<1>2. CASE StartsNone
  <2> SUFFICES ASSUME NEW p \in live'  PROVE hpid'[owner'[p]] = p \/ Unregistered(p)'
      BY DEF OneInService
  <2>1. p \in live /\ owner'[p] = owner[p] /\ owner[p] \in Ids
      BY <1>1, <1>2 DEF StartsNone
  <2>2. CASE hpid[owner[p]] = p
      BY <1>2, <2>1, <2>2 DEF StartsNone
  <2>3. CASE Unregistered(p)
      BY <1>2, <1>u, <1>v, <2>3 DEF StartsNone, Calm
  <2> QED BY <2>1, <2>2, <2>3 DEF OneInService
\* A child the driver knows from the start: whatever else runs under the id is held.
<1>3. ASSUME NEW i \in Ids, Starts(i), Others("boot"), hpid[i] \notin live  PROVE OneInService'
  <2>1. PICK x \in Pids : x = lastPid' /\ x = lastPid + 1
      BY <1>3 DEF Starts
  <2>2. /\ live' = live \cup {x} /\ x \notin live /\ owner'[x] = i /\ hpid'[i] = x
        /\ \A p \in live : owner'[p] = owner[p] /\ \A j \in Ids \ {i} : hpid'[j] = hpid[j]
      BY <1>1, <1>3, <2>1 DEF Starts
  <2>3. \A t \in Restarters : thr'[t] = thr[t]
      BY <1>1, <1>3 DEF Others
  <2> SUFFICES ASSUME NEW p \in live, p # x  PROVE hpid'[owner'[p]] = p \/ Unregistered(p)'
      BY <2>2 DEF OneInService
  <2>4. CASE hpid[owner[p]] = p
      BY <1>1, <1>3, <2>2, <2>4
  <2>5. CASE Unregistered(p)
      BY <1>u, <1>v, <2>3, <2>5
  <2> QED BY <2>4, <2>5 DEF OneInService
<1>4. CASE StartsNew
  <2>1. PICK i \in Ids : i = lastId' /\ i = lastId + 1 /\ Starts(i)
      BY <1>4 DEF StartsNew
  <2>2. hpid[i] \notin live
    <3>1. hpid[i] # 0 => hpid[i] \in Pids /\ hpid[i] <= lastPid /\ owner[hpid[i]] = i
        BY <1>1 DEF BaseInv, Births, Pids
    <3>2. \A p \in live : owner[p] # i
        BY <1>1, <2>1 DEF Ids
    <3> QED BY <1>1, <3>1, <3>2 DEF Pids
  <2> QED BY <1>3, <1>4, <2>1, <2>2 DEF StartsNew
<1>5. CASE StartsAgain
  <2>1. hpid[thr["boot"].id] \notin live
      BY <1>1, <1>5 DEF StartsAgain, Launchable, Status, Pids
  <2> QED BY <1>3, <1>5, <2>1 DEF StartsAgain
<1>6. ASSUME NEW t \in Restarters, StartsUnknown(t)  PROVE OneInService'
  <2>1. PICK x \in Pids : x = lastPid' /\ x = lastPid + 1
      BY <1>6 DEF StartsUnknown
  <2>2. /\ live' = live \cup {x} /\ x \notin live /\ UNCHANGED hpid
        /\ \A p \in live : owner'[p] = owner[p]
        /\ thr'[t].pc = "rbreg" /\ thr'[t].pid = x /\ thr[t].pc = "rbspawn"
        /\ \A u \in Restarters \ {t} : thr'[u] = thr[u]
      BY <1>1, <1>6, <2>1 DEF StartsUnknown, Others
  <2>3. Unregistered(x)'
      BY <1>v, <2>2
  <2>4. \A p \in live : Unregistered(p) => Unregistered(p)'
      BY <1>u, <1>v, <2>2
  <2> QED BY <2>2, <2>3, <2>4 DEF OneInService
<1>7. ASSUME NEW t \in Restarters, Registers(t)  PROVE OneInService'
  <2>1. /\ thr[t].id \in Ids /\ thr[t].pid \in Pids /\ owner[thr[t].pid] = thr[t].id
    <3>1. t \in Threads
        BY DEF Restarters, Threads
    <3> QED BY <1>7, <3>1 DEF Registers, BaseInv, ThreadOK, Placeless
  <2>2. PICK i \in Ids, x \in Pids : i = thr[t].id /\ x = thr[t].pid /\ owner[x] = i
      BY <2>1
  <2>3. /\ UNCHANGED <<live, owner>> /\ hpid'[i] = x /\ \A j \in Ids \ {i} : hpid'[j] = hpid[j]
        /\ \A u \in Restarters \ {t} : thr'[u] = thr[u]
      BY <1>1, <1>7, <2>2 DEF Registers, Register, Others
  <2>4. hpid[i] \notin live
      BY <1>1, <1>7, <2>2 DEF Registers, Launchable, Status, Pids
  <2> SUFFICES ASSUME NEW p \in live, p # x  PROVE hpid'[owner[p]] = p \/ Unregistered(p)'
      BY <2>2, <2>3 DEF OneInService
  <2>5. CASE hpid[owner[p]] = p
      BY <1>1, <2>3, <2>4, <2>5
  <2>6. CASE Unregistered(p)
      BY <1>u, <1>v, <2>2, <2>3, <2>6
  <2> QED BY <2>5, <2>6 DEF OneInService
<1> QED BY <1>2, <1>4, <1>5, <1>6, <1>7, StepStarts

\* While the daemon lives and two restarts race, the driver knows one running child of a
\* process, and any other is in the hands of a restart that registers or kills it.
ServiceInv == BaseInv /\ BootInv /\ Holding /\ OneInService

THEOREM OneServedByDriver == MaxCrashes = 0 => (Spec => []ServiceInv)
<1>1. ASSUME MaxCrashes = 0  PROVE Spec => []ServiceInv
  <2>1. Init => ServiceInv
      BY BaseInit DEF Init, ServiceInv, Holding, OneInService, Restarters, Threads, Idle
  <2>2. ServiceInv /\ [Next]_vars => ServiceInv'
    <3> SUFFICES ASSUME ServiceInv, [Next]_vars  PROVE ServiceInv'
        OBVIOUS
    <3>1. ~Crash
        BY <1>1 DEF Crash, ServiceInv, BaseInv, TypeOK
    <3> QED BY <3>1, BaseStep, HoldingStep, InServiceStep DEF ServiceInv
  <2> QED BY <2>1, <2>2, PTL DEF Spec
<1> QED BY <1>1

\* One restart at a time: no watcher, and a loop that has found its process without a
\* running child and has not registered one.
Sole ==
  /\ watchers = {} /\ thr["watch"].pc = "idle" /\ thr["loop"].pc # "rbkill"
  /\ thr["loop"].pc \in {"rbspawn", "rbreg"} => hpid[thr["loop"].id] \notin live

\* Between its look at the driver and the registration only the loop's own steps move it.
LEMMA LoopPlace ==
  ASSUME BaseInv, [Next]_vars, ~Crash, thr'["loop"].pc \in {"rbspawn", "rbreg", "rbkill"}
  PROVE  \/ thr'["loop"] = thr["loop"]
         \/ RebootLookup("loop") \/ RebootSpawn("loop") \/ RebootRegister("loop")
<1>0. /\ Restarters \cup {"boot"} \subseteq Threads /\ thr \in [Threads -> ThreadStates]
      /\ "loop" \in Threads \ Clients /\ Clients \subseteq Threads
    BY LifecycleAssumption DEF Threads, Restarters, BaseInv, TypeOK
<1>1. ASSUME NEW c \in Clients, Request(c) \/ Cancel(c)  PROVE thr'["loop"] = thr["loop"]
    BY <1>0, <1>1 DEF Request, Cancel, StartLookup, StopBegin, RestartBegin, RemoveBegin, EnableBegin,
       DisableBegin, WaitBegin, HealthBegin, UpdateBegin, WatchSet, Target
<1>d. ASSUME NEW t \in Threads, DriverStep(t)
      PROVE  t # "loop" => thr'["loop"] = thr["loop"]
    BY <1>0, <1>d DEF DriverStep, MgrStop, MgrStopReturn, StopError, Resume, Done, Goto
<1>2. ASSUME NEW c \in Clients, HandlerStep(c)  PROVE thr'["loop"] = thr["loop"]
  <2>1. CASE DriverStep(c)
      BY <1>0, <1>d, <2>1
  <2>2. CASE ~DriverStep(c)
      BY <1>0, <1>2, <2>2 DEF HandlerStep, StartGetName, StartUnname, StartScan, StartClaim,
         ReplaceDelete, ReplaceMaps, StartLaunch, LaunchNewFails, StartCreate, StartPublish, RunGet, RunPut,
         Reget, StopInspect, StopPut, RestartLaunch, RestartLink, RestartCreate, RestartPublish,
         RemoveDelete, RemoveMaps, EnablePut, DisablePut, DisableInspect, DisableEnd, WaitLook, WaitReturn,
         WaitPut, HealthProbe, HealthPut, UpdatePut, PutAndReturn, LaunchNew, UndoLaunch, Done, Goto
  <2> QED BY <2>1, <2>2
<1>3. CASE WatchStep \/ BootStep
  <2>1. CASE DriverStep("watch")
      BY <1>0, <1>d, <2>1 DEF Restarters
  <2>2. CASE ~DriverStep("watch")
      BY <1>0, <1>3, <2>2 DEF WatchStep, WatchEvent, RebootStep, RebootGet, RebootLookup, RebootSpawn,
         RebootSpawnFails, RebootRegister, RebootKilled, RebootPut, BootStep, BootList, BootVisit,
         BootLaunch, BootLaunchFails, BootPut, BootFailed, BootServe, PutAndReturn, Done, Goto
  <2> QED BY <2>1, <2>2
<1>4. CASE LoopStep
  <2>0. thr["loop"] \in ThreadStates /\ ThreadOK("loop")
      BY <1>0 DEF BaseInv
  <2>1. CASE LoopTick
      BY <2>1 DEF LoopTick
  <2>2. ASSUME NEW i \in Ids, LoopVisit(i)  PROVE thr'["loop"] = thr["loop"]
      BY <1>0, <2>2 DEF LoopVisit, Idle
  <2>3. CASE LoopUnhealthyGet
    <3>1. thr'["loop"].pc \in {"lpput", "rbget"}
        BY <1>0, <2>0, <2>3 DEF LoopUnhealthyGet, Goto, ThreadStates
    <3> QED BY <3>1
  <2>4. CASE LoopUnhealthyPut
    <3>1. thr'["loop"].pc \in {"idle", "rbget"}
        BY <1>0, <2>0, <2>4 DEF LoopUnhealthyPut, Goto, Done, Idle, ThreadStates
    <3> QED BY <3>1
  <2>5. CASE DriverStep("loop")
    <3>1. thr["loop"].ret = "rblaunch"
        BY <1>0, <2>0, <2>5 DEF DriverStep, MgrStop, MgrStopReturn, ThreadOK, Stopping
    <3>2. \/ Done("loop") \/ Goto("loop", "rblaunch")
          \/ thr' = [thr EXCEPT !["loop"].pc = "mwait", !["loop"].pid = hpid[thr["loop"].id]]
        BY <2>5, <3>1 DEF DriverStep, MgrStop, MgrStopReturn, StopError, Resume
    <3>3. thr'["loop"].pc \in {"idle", "rblaunch", "mwait"}
        BY <1>0, <2>0, <3>2 DEF Done, Goto, Idle, ThreadStates
    <3> QED BY <3>3
  <2>6. CASE RebootGet("loop") \/ RebootSpawnFails("loop") \/ RebootKilled("loop") \/ RebootPut("loop")
    <3>1. thr'["loop"].pc \in {"idle", "mstop"}
        BY <1>0, <2>0, <2>6 DEF RebootGet, RebootSpawnFails, RebootKilled, RebootPut, PutAndReturn, Done,
                                Idle, ThreadStates
    <3> QED BY <3>1
  <2> QED BY <1>4, <2>1, <2>2, <2>3, <2>4, <2>5, <2>6 DEF LoopStep, RebootStep
<1>5. ASSUME NEW p \in Pids, Exit(p)  PROVE thr' = thr
    BY <1>5 DEF Exit
<1>6. CASE UNCHANGED vars
    BY <1>6 DEF vars
<1> QED BY <1>1, <1>2, <1>3, <1>4, <1>5, <1>6 DEF Next

LEMMA NoWatcherStep ==
  ASSUME BaseInv, watchers = {}, thr["watch"].pc = "idle", "watch" \notin Ops, [Next]_vars, ~Crash
  PROVE  watchers' = {} /\ thr'["watch"].pc = "idle"
<1>0. /\ Restarters \cup {"boot"} \subseteq Threads /\ thr \in [Threads -> ThreadStates]
      /\ "watch" \in Threads \ Clients /\ Clients \subseteq Threads
    BY LifecycleAssumption DEF Threads, Restarters, BaseInv, TypeOK
<1>d. ASSUME NEW t \in Threads, DriverStep(t)
      PROVE  UNCHANGED watchers /\ thr'["watch"] = thr["watch"]
    BY <1>0, <1>d DEF DriverStep, MgrStop, MgrStopReturn, StopError, Resume, Done, Goto, mapVars
<1>1. ASSUME NEW c \in Clients, Request(c) \/ Cancel(c)
      PROVE  UNCHANGED watchers /\ thr'["watch"] = thr["watch"]
    BY <1>0, <1>1 DEF Request, Cancel, StartLookup, StopBegin, RestartBegin, RemoveBegin, EnableBegin,
       DisableBegin, WaitBegin, HealthBegin, UpdateBegin, WatchSet, Target, Begin, mapVars
<1>2. ASSUME NEW c \in Clients, HandlerStep(c)
      PROVE  UNCHANGED watchers /\ thr'["watch"] = thr["watch"]
  <2>1. CASE DriverStep(c)
      BY <1>0, <1>d, <2>1
  <2>2. CASE ~DriverStep(c)
    <3>1. UNCHANGED watchers
        BY <1>2, <2>2 DEF HandlerStep, StartGetName, StartUnname, StartScan, StartClaim,
           ReplaceDelete, ReplaceMaps, StartLaunch, LaunchNewFails, StartCreate, StartPublish, RunGet, RunPut,
           Reget, StopInspect, StopPut, RestartLaunch, RestartLink, RestartCreate, RestartPublish,
           RemoveDelete, RemoveMaps, EnablePut, DisablePut, DisableInspect, DisableEnd, WaitLook, WaitReturn,
           WaitPut, HealthProbe, HealthPut, UpdatePut, PutAndReturn, LaunchNew, mapVars
    <3>2. thr'["watch"] = thr["watch"]
        BY <1>0, <1>2, <2>2 DEF HandlerStep, StartGetName, StartUnname, StartScan, StartClaim,
           ReplaceDelete, ReplaceMaps, StartLaunch, LaunchNewFails, StartCreate, StartPublish, RunGet, RunPut,
           Reget, StopInspect, StopPut, RestartLaunch, RestartLink, RestartCreate, RestartPublish,
           RemoveDelete, RemoveMaps, EnablePut, DisablePut, DisableInspect, DisableEnd, WaitLook, WaitReturn,
           WaitPut, HealthProbe, HealthPut, UpdatePut, PutAndReturn, LaunchNew, UndoLaunch, Done, Goto
    <3> QED BY <3>1, <3>2
  <2> QED BY <2>1, <2>2
<1>3. CASE WatchStep
    BY <1>3 DEF WatchStep, WatchEvent, RebootStep, DriverStep, MgrStop, MgrStopReturn, RebootGet,
       RebootLookup, RebootSpawn, RebootSpawnFails, RebootRegister, RebootKilled, RebootPut, PutAndReturn
<1>4. CASE BootStep
    BY <1>0, <1>4 DEF BootStep, BootList, BootVisit, BootLaunch, BootLaunchFails, BootPut, BootFailed,
       BootServe, PutAndReturn, Done, Goto, mapVars
<1>5. CASE LoopStep
  <2>1. CASE DriverStep("loop")
      BY <1>0, <1>d, <2>1 DEF Restarters
  <2>2. CASE ~DriverStep("loop")
      BY <1>0, <1>5, <2>2 DEF LoopStep, LoopTick, LoopVisit, LoopUnhealthyGet, LoopUnhealthyPut, RebootStep,
         RebootGet, RebootLookup, RebootSpawn, RebootSpawnFails, RebootRegister, RebootKilled, RebootPut,
         PutAndReturn, Done, Goto, mapVars
  <2> QED BY <2>1, <2>2
<1>6. ASSUME NEW p \in Pids, Exit(p)  PROVE UNCHANGED <<watchers, thr>>
    BY <1>6 DEF Exit, mapVars
<1>7. CASE UNCHANGED vars
    BY <1>7 DEF vars, mapVars
<1> QED BY <1>1, <1>2, <1>3, <1>4, <1>5, <1>6, <1>7 DEF Next

LEMMA SoleStep ==
  ASSUME BaseInv, BootInv, Sole, "watch" \notin Ops, [Next]_vars, ~Crash
  PROVE  Sole'
<1>l. "loop" \in Threads /\ thr \in [Threads -> ThreadStates] /\ thr["loop"] \in ThreadStates
    BY DEF Threads, BaseInv, TypeOK
<1>i. /\ thr["loop"].pc \in {"rbspawn", "rbreg"} => thr["loop"].id \in Ids /\ thr["loop"].id <= lastId
      /\ thr["loop"].pc = "rblaunch" => thr["loop"].id \in Ids
    BY <1>l DEF BaseInv, ThreadOK, Placeless
<1>n. /\ lastPid \in Nat /\ lastId \in Nat /\ live \subseteq Pids /\ hpid \in [Ids -> 0..MaxPids]
      /\ 0 \notin live /\ \A i \in Ids : hpid[i] # 0 => hpid[i] <= lastPid
    BY LifecycleAssumption DEF BaseInv, TypeOK, Births, Pids
<1>1. watchers' = {} /\ thr'["watch"].pc = "idle"
    BY NoWatcherStep DEF Sole
<1>2. ASSUME thr'["loop"].pc = "rbkill"  PROVE FALSE
  <2>1. RebootRegister("loop")
    <3>1. ASSUME RebootLookup("loop") \/ RebootSpawn("loop")  PROVE thr'["loop"].pc # "rbkill"
        BY <1>l, <1>i, <1>n, <3>1 DEF RebootLookup, RebootSpawn, Goto, Done, Idle, ThreadStates
    <3> QED BY <1>2, <3>1, LoopPlace DEF Sole
  <2>2. Launchable(thr["loop"].id)
      BY <1>l, <1>i, <1>n, <2>1 DEF RebootRegister, Sole, Launchable, Status
  <2>3. thr'["loop"].pc = "rbput"
      BY <1>l, <1>i, <1>n, <2>1, <2>2 DEF RebootRegister, Goto, ThreadStates
  <2> QED BY <1>2, <2>3
<1>3. ASSUME thr'["loop"].pc \in {"rbspawn", "rbreg"}
      PROVE  hpid'[thr'["loop"].id] \notin live'
  <2>1. CASE RebootLookup("loop")
    <3>1. /\ thr["loop"].id \in Ids /\ live' = live
          /\ hpid' = [hpid EXCEPT ![thr["loop"].id] = 0] /\ thr'["loop"].id = thr["loop"].id
        BY <1>l, <1>i, <1>n, <1>3, <2>1 DEF RebootLookup, kernelVars, Goto, Done, Idle, ThreadStates, BaseInv,
                                ThreadOK, Placeless
    <3> QED BY <1>l, <1>i, <1>n, <3>1
  <2>2. CASE RebootSpawn("loop")
    <3>1. /\ thr["loop"].pc = "rbspawn" /\ UNCHANGED hpid /\ live' = live \cup {lastPid + 1}
          /\ thr'["loop"].id = thr["loop"].id
        BY <1>l, <1>i, <1>n, <2>2 DEF RebootSpawn, NewChild, driverVars, ThreadStates
    <3>2. PICK h \in 0..MaxPids : h = hpid[thr["loop"].id]
        BY <1>l, <1>i, <1>n, <3>1
    <3>3. h # lastPid + 1
        BY <1>l, <1>i, <1>n, <3>1, <3>2
    <3> QED BY <3>1, <3>2, <3>3 DEF Sole
  <2>3. CASE RebootRegister("loop")
    <3>1. thr'["loop"].pc \in {"rbput", "rbkill"}
        BY <1>l, <1>i, <1>n, <2>3 DEF RebootRegister, Goto, ThreadStates
    <3> QED BY <1>3, <3>1
  <2>4. CASE thr'["loop"] = thr["loop"]
    <3>1. PICK i \in Ids : i = thr["loop"].id /\ i = thr'["loop"].id /\ hpid[i] \notin live /\ i <= lastId
        BY <1>l, <1>i, <1>n, <1>3, <2>4 DEF Sole
    <3>2. CASE StartsNone
        BY <1>l, <1>i, <1>n, <3>1, <3>2 DEF StartsNone
    <3>3. ASSUME NEW j \in Ids, Starts(j), j # i  PROVE hpid'[i] \notin live'
      <4>1. hpid'[i] = hpid[i] /\ live' = live \cup {lastPid'} /\ lastPid' = lastPid + 1
          BY <1>l, <1>i, <1>n, <3>3 DEF Starts
      <4>2. hpid[i] # lastPid + 1
          BY <1>l, <1>i, <1>n
      <4> QED BY <3>1, <4>1, <4>2
    <3>4. CASE StartsNew
      <4>1. PICK j \in Ids : j = lastId' /\ j = lastId + 1 /\ Starts(j)
          BY <3>4 DEF StartsNew
      <4>2. j # i
          BY <1>l, <1>i, <1>n, <3>1, <4>1 DEF Ids
      <4> QED BY <3>1, <3>3, <4>1, <4>2
    <3>5. CASE StartsAgain
        BY <1>3, <2>4, <3>5, <1>l DEF StartsAgain, BootInv, Threads
    <3>6. ASSUME NEW t \in Restarters, StartsUnknown(t) \/ Registers(t)  PROVE FALSE
      <4>1. t = "loop"
          BY <3>6 DEF Sole, Restarters, StartsUnknown, Registers
      <4> QED BY <2>4, <3>6, <4>1 DEF StartsUnknown, Registers
    <3> QED BY <3>1, <3>2, <3>4, <3>5, <3>6, StepStarts
  <2> QED BY <1>3, <2>1, <2>2, <2>3, <2>4, LoopPlace
<1> QED BY <1>1, <1>2, <1>3 DEF Sole

LEMMA SoleInService ==
  ASSUME BaseInv, OneInService, Sole
  PROVE  OneInstancePerId
<1>1. ASSUME NEW p \in live, Unregistered(p)  PROVE hpid[owner[p]] \notin live
  <2>1. thr["loop"].pc = "rbreg" /\ thr["loop"].pid = p
      BY <1>1 DEF Unregistered, Sole
  <2>2. owner[p] = thr["loop"].id
      BY <2>1 DEF BaseInv, ThreadOK, Threads
  <2> QED BY <2>1, <2>2 DEF Sole
<1>2. ASSUME NEW p \in live, NEW q \in live, owner[p] = owner[q], p # q  PROVE FALSE
  <2>1. hpid[owner[p]] \in {p, q}
    <3>1. Unregistered(p) /\ Unregistered(q) => p = q
        BY DEF Unregistered, Sole
    <3> QED BY <1>2, <3>1 DEF OneInService
  <2>2. hpid[owner[p]] \in live
      BY <2>1
  <2>3. ~Unregistered(p) /\ ~Unregistered(q)
      BY <1>1, <1>2, <2>2
  <2> QED BY <1>2, <2>3 DEF OneInService
<1> QED BY <1>2 DEF OneInstancePerId

\* Where no watcher restarts beside the auto-restart loop and the daemon does not die, no
\* process has two running children: with them it may have for as long as the restart
\* that comes second takes to kill its own.
THEOREM OneInstanceServed == MaxCrashes = 0 /\ "watch" \notin Ops => (Spec => []OneInstancePerId)
<1>1. ASSUME MaxCrashes = 0, "watch" \notin Ops  PROVE Spec => []OneInstancePerId
  <2>1. Init => Sole
      BY DEF Init, Sole, Threads, Idle
  <2>2. ServiceInv /\ Sole /\ [Next]_vars => Sole'
    <3>1. ServiceInv => ~Crash
        BY <1>1 DEF Crash, ServiceInv, BaseInv, TypeOK
    <3> QED BY <1>1, <3>1, SoleStep DEF ServiceInv
  <2>3. ServiceInv /\ Sole => OneInstancePerId
      BY SoleInService DEF ServiceInv
  <2>4. Spec => []ServiceInv
      BY <1>1, OneServedByDriver
  <2> QED BY <2>1, <2>2, <2>3, <2>4, PTL DEF Spec
<1> QED BY <1>1

-----------------------------------------------------------------------------
(* The driver as the daemon uses it, while the daemon lives: every step of *)
(* handlers, loop and watchers is a step of ManagerSpec or leaves it alone. *)

DriverNext == Driver!Next \/ UNCHANGED <<hpid, handle>>

LEMMA DriverStill ==
  ASSUME UNCHANGED <<hpid, live, stopping>>
  PROVE  DriverNext
  BY DEF DriverNext, handle, Status

LEMMA SpawnIsLaunch ==
  ASSUME BaseInv, NEW i \in Ids, Spawn(i), Launchable(i)
  PROVE  DriverNext
<1>1. /\ lastPid' \in Pids /\ lastPid' = lastPid + 1 /\ lastPid \in Nat
    BY LifecycleAssumption DEF Spawn, NewChild, BaseInv, TypeOK, Pids
<1>2. PICK x \in Pids : x = lastPid'
    BY <1>1
<1>3. \A j \in Ids : hpid[j] # x
    BY <1>1, <1>2 DEF BaseInv, TypeOK, Births
<1>4. hpid' = [hpid EXCEPT ![i] = x] /\ live' = live \cup {x} /\ stopping' = stopping \ {i}
    BY <1>2 DEF Spawn, NewChild, Register
<1>5. hpid \in [Ids -> 0..MaxPids] /\ x # 0
    BY <1>2 DEF BaseInv, TypeOK, Pids
<1>6. Status(i)' = "running"
    BY <1>4, <1>5 DEF Status
<1>7. ASSUME NEW j \in Ids \ {i}  PROVE Status(j)' = Status(j)
    BY <1>3, <1>4, <1>5 DEF Status
<1>8. handle' = [handle EXCEPT ![i] = "running"]
    BY <1>6, <1>7 DEF handle
<1>9. Driver!Launch(i, x)
    BY <1>3, <1>4, <1>8 DEF Driver!Launch, Launchable, handle
<1> QED BY <1>9 DEF DriverNext, Driver!Next

LEMMA NewIsLaunchable ==
  ASSUME BaseInv, lastId' = lastId + 1, lastId < MaxIds
  PROVE  \E i \in Ids : i = lastId' /\ Launchable(i)
<1>1. lastId' \in Ids /\ lastId \in Nat
    BY LifecycleAssumption DEF BaseInv, TypeOK, Ids
<1>2. PICK i \in Ids : i = lastId'
    BY <1>1
<1>3. hpid[i] = 0
    BY <1>1, <1>2 DEF BaseInv, TypeOK, Births, Pids, Ids
<1>4. Launchable(i)
    BY <1>3 DEF Launchable, Status, BaseInv, TypeOK, Pids
<1> QED BY <1>2, <1>4

LEMMA MgrStopIsBeginStop ==
  ASSUME BaseInv, NEW t \in Threads, MgrStop(t)
  PROVE  DriverNext
<1>1. CASE UNCHANGED stopping
    BY <1>1, DriverStill DEF MgrStop, kernelVars
<1>2. CASE ~UNCHANGED stopping
  <2>1. PICK i \in Ids : i = thr[t].id
      BY DEF MgrStop, BaseInv, ThreadOK, Placeless
  <2>2. Status(i) \in {"running", "stopping"} /\ stopping' = stopping \cup {i}
      BY <1>2, <2>1 DEF MgrStop
  <2>3. UNCHANGED <<hpid, live>>
      BY DEF MgrStop, kernelVars
  <2>4. /\ Status(i)' = "stopping" /\ Status(i) = "running"
        /\ \A j \in Ids \ {i} : Status(j)' = Status(j)
      BY <1>2, <2>2, <2>3 DEF Status
  <2>5. Driver!BeginStop(i)
      BY <2>3, <2>4 DEF Driver!BeginStop, handle
  <2> QED BY <2>5 DEF DriverNext, Driver!Next
<1> QED BY <1>1, <1>2

LEMMA ExitIsFinish ==
  ASSUME BaseInv, NEW p \in Pids, Exit(p)
  PROVE  DriverNext
<1>1. UNCHANGED hpid /\ p # 0
    BY DEF Exit, Pids
<1>2. CASE \A i \in Ids : hpid[i] # p
  <2>1. \A i \in Ids : Status(i)' = Status(i)
      BY <1>1, <1>2 DEF Exit, Status
  <2> QED BY <1>1, <2>1 DEF DriverNext, handle
<1>3. ASSUME NEW i \in Ids, hpid[i] = p  PROVE DriverNext
  <2>1. \A j \in Ids \ {i} : hpid[j] # p
      BY <1>1, <1>3 DEF BaseInv, Births
  <2>2. Status(i) \in {"running", "stopping"} /\ Status(i)' = "exited"
      BY <1>1, <1>3 DEF Exit, Status
  <2>3. \A j \in Ids \ {i} : Status(j)' = Status(j)
      BY <1>1, <2>1 DEF Exit, Status
  <2>4. Driver!Finish(i)
      BY <1>1, <2>2, <2>3 DEF Driver!Finish, handle
  <2> QED BY <2>4 DEF DriverNext, Driver!Next
<1> QED BY <1>2, <1>3

LEMMA LookupIsForget ==
  ASSUME BaseInv, NEW t \in Threads, RebootLookup(t)
  PROVE  DriverNext
<1>1. PICK i \in Ids : i = thr[t].id
    BY DEF RebootLookup, BaseInv, ThreadOK, Placeless
<1>2. UNCHANGED <<live, stopping>>
    BY DEF RebootLookup, kernelVars
<1>3. CASE Status(i) # "exited"
  <2>1. UNCHANGED hpid
    <3>1. CASE Status(i) = "absent"
        BY <1>1, <3>1 DEF RebootLookup, Status, BaseInv, TypeOK
    <3> QED BY <1>1, <1>3, <3>1 DEF RebootLookup, Launchable
  <2> QED BY <1>2, <2>1, DriverStill
<1>4. CASE Status(i) = "exited"
  <2>1. hpid' = [hpid EXCEPT ![i] = 0]
      BY <1>1, <1>4 DEF RebootLookup, Launchable
  <2>2. hpid'[i] = 0 /\ \A j \in Ids \ {i} : hpid'[j] = hpid[j]
      BY <2>1 DEF BaseInv, TypeOK
  <2>3. Status(i)' = "absent"
      BY <1>2, <2>2 DEF Status, BaseInv, TypeOK, Pids
  <2>4. \A j \in Ids \ {i} : Status(j)' = Status(j)
      BY <1>2, <2>2 DEF Status
  <2>5. Driver!Forget(i)
      BY <1>4, <2>1, <2>3, <2>4 DEF Driver!Forget, handle
  <2> QED BY <2>5 DEF DriverNext, Driver!Next
<1> QED BY <1>3, <1>4

\* A child the driver does not know changes nothing for it ...
LEMMA SpawnIsHidden ==
  ASSUME BaseInv, NEW t \in Threads, RebootSpawn(t)
  PROVE  DriverNext
<1>1. PICK x \in Pids : x = lastPid' /\ x = lastPid + 1 /\ lastPid \in Nat
    BY LifecycleAssumption DEF RebootSpawn, NewChild, BaseInv, TypeOK, Pids
<1>2. UNCHANGED <<hpid, stopping>> /\ live' = live \cup {x}
    BY <1>1 DEF RebootSpawn, NewChild, driverVars
<1>3. \A j \in Ids : hpid[j] # x
    BY <1>1 DEF BaseInv, TypeOK, Births
<1>4. \A j \in Ids : Status(j)' = Status(j)
    BY <1>2, <1>3 DEF Status
<1> QED BY <1>2, <1>4 DEF DriverNext, handle

\* ... until it is registered.
LEMMA RegisterIsLaunch ==
  ASSUME BaseInv, Holding, NEW t \in Restarters, RebootRegister(t)
  PROVE  DriverNext
<1>1. /\ thr[t].pc = "rbreg" /\ UNCHANGED live /\ t \in Threads
    BY DEF RebootRegister, kernelVars, Restarters, Threads
<1>2. PICK i \in Ids, x \in Pids : i = thr[t].id /\ x = thr[t].pid
    BY <1>1 DEF BaseInv, ThreadOK, Placeless
<1>3. CASE UNCHANGED driverVars
    BY <1>1, <1>3, DriverStill DEF driverVars
<1>4. CASE Launchable(i) /\ Register(i, x)
  <2>1. x \in live /\ (\A j \in Ids : hpid[j] # x) /\ x # 0
      BY <1>1, <1>2 DEF Holding, Pids
  <2>2. hpid' = [hpid EXCEPT ![i] = x] /\ stopping' = stopping \ {i} /\ hpid \in [Ids -> 0..MaxPids]
      BY <1>4 DEF Register, BaseInv, TypeOK
  <2>3. Status(i)' = "running"
      BY <1>1, <2>1, <2>2 DEF Status
  <2>4. ASSUME NEW j \in Ids \ {i}  PROVE Status(j)' = Status(j)
      BY <1>1, <2>2 DEF Status
  <2>5. handle' = [handle EXCEPT ![i] = "running"]
      BY <2>3, <2>4 DEF handle
  <2>6. Driver!Launch(i, x)
      BY <1>4, <2>1, <2>2, <2>5 DEF Driver!Launch, Launchable, handle
  <2> QED BY <2>6 DEF DriverNext, Driver!Next
<1> QED BY <1>2, <1>3, <1>4 DEF RebootRegister

LEMMA DriverStepMaps ==
  ASSUME BaseInv, NEW t \in Threads, DriverStep(t)
  PROVE  DriverNext
  BY MgrStopIsBeginStop, DriverStill DEF DriverStep, MgrStopReturn, kernelVars, driverVars

LEMMA BootLaunchMaps ==
  ASSUME BaseInv, BootLaunch
  PROVE  DriverNext
<1>1. PICK i \in Ids : i = thr["boot"].id
    BY DEF BootLaunch, BaseInv, ThreadOK, Placeless, Threads
<1> QED BY <1>1, SpawnIsLaunch DEF BootLaunch

LEMMA LaunchNewMaps ==
  ASSUME BaseInv, NEW t \in Threads, NEW s, NEW a, NEW u, LaunchNew(t, s, a, u)
  PROVE  DriverNext
<1>1. PICK i \in Ids : i = lastId' /\ Launchable(i)
    BY NewIsLaunchable DEF LaunchNew
<1> QED BY <1>1, SpawnIsLaunch DEF LaunchNew

LEMMA RebootMaps ==
  ASSUME BaseInv, Holding, NEW t \in Restarters, RebootStep(t)
  PROVE  DriverNext
<1>0. t \in Threads
    BY DEF Restarters, Threads
<1>1. CASE RebootGet(t) \/ RebootPut(t) \/ RebootSpawnFails(t) \/ RebootKilled(t)
    BY <1>1, DriverStill DEF RebootGet, RebootPut, RebootSpawnFails, RebootKilled, PutAndReturn, kernelVars,
                             driverVars
<1> QED BY <1>0, <1>1, DriverStepMaps, LookupIsForget, SpawnIsHidden, RegisterIsLaunch DEF RebootStep

LEMMA HandlerMaps ==
  ASSUME BaseInv, NEW c \in Clients, HandlerStep(c)
  PROVE  DriverNext
<1>0. c \in Threads
    BY DEF Threads
<1>1. CASE DriverStep(c)
    BY <1>0, <1>1, DriverStepMaps
<1>2. CASE StartLaunch(c) \/ RestartLaunch(c)
    BY <1>0, <1>2, LaunchNewMaps DEF StartLaunch, RestartLaunch
<1>3. CASE ~DriverStep(c) /\ ~StartLaunch(c) /\ ~RestartLaunch(c)
  <2>1. UNCHANGED <<hpid, live, stopping>>
      BY <1>3 DEF HandlerStep, StartGetName, StartUnname, StartScan, StartClaim, ReplaceDelete,
             ReplaceMaps, LaunchNewFails, StartCreate, StartPublish, RunGet, RunPut, Reget, StopInspect,
             StopPut, RestartLink, RestartCreate, RestartPublish, RemoveDelete, RemoveMaps, EnablePut,
             DisablePut, DisableInspect, DisableEnd, WaitLook, WaitReturn, WaitPut, HealthProbe,
             HealthPut, UpdatePut, PutAndReturn, kernelVars, driverVars
  <2> QED BY <2>1, DriverStill
<1> QED BY <1>1, <1>2, <1>3

LEMMA DriverMaps ==
  ASSUME BaseInv, Holding, MaxCrashes = 0, [Next]_vars
  PROVE  DriverNext
<1>0. "loop" \in Restarters /\ "watch" \in Restarters
    BY DEF Restarters
<1>1. ASSUME NEW c \in Clients, Request(c) \/ Cancel(c)  PROVE DriverNext
  <2>1. UNCHANGED <<hpid, live, stopping>>
      BY <1>1 DEF Request, Cancel, StartLookup, StopBegin, RestartBegin, RemoveBegin, EnableBegin,
                  DisableBegin, WaitBegin, HealthBegin, UpdateBegin, WatchSet, Target, kernelVars, driverVars
  <2> QED BY <2>1, DriverStill
<1>2. CASE LoopStep
  <2>1. CASE RebootStep("loop")
      BY <1>0, <2>1, RebootMaps
  <2>2. CASE ~RebootStep("loop")
    <3>1. UNCHANGED <<hpid, live, stopping>>
        BY <1>2, <2>2 DEF LoopStep, LoopTick, LoopVisit, LoopUnhealthyGet, LoopUnhealthyPut, kernelVars,
                          driverVars
    <3> QED BY <3>1, DriverStill
  <2> QED BY <2>1, <2>2
<1>3. CASE WatchStep
  <2>1. CASE RebootStep("watch")
      BY <1>0, <2>1, RebootMaps
  <2>2. CASE \E i \in Ids : WatchEvent(i)
      BY <2>2, DriverStill DEF WatchEvent, kernelVars, driverVars
  <2> QED BY <1>3, <2>1, <2>2 DEF WatchStep
<1>4. CASE BootStep
  <2>1. CASE BootLaunch
      BY <2>1, BootLaunchMaps
  <2>2. CASE ~BootLaunch
    <3>1. UNCHANGED <<hpid, live, stopping>>
        BY <1>4, <2>2 DEF BootStep, BootList, BootVisit, BootLaunchFails, BootPut, BootFailed, BootServe,
                          PutAndReturn, kernelVars, driverVars
    <3> QED BY <3>1, DriverStill
  <2> QED BY <2>1, <2>2
<1>5. ~Crash
    BY DEF Crash, BaseInv, TypeOK
<1>6. CASE UNCHANGED vars
    BY <1>6, DriverStill DEF vars, kernelVars, driverVars
<1> QED BY <1>1, <1>2, <1>3, <1>4, <1>5, <1>6, HandlerMaps, ExitIsFinish DEF Next

\* A daemon that does not die uses its driver as ManagerSpec says: a running child is
\* never replaced or forgotten, whatever handlers, loop and watchers do to one id, and of
\* two restarts that race one child stays, the other being killed by its restart.
THEOREM DriverRefined == MaxCrashes = 0 => (Spec => DriverContract)
<1>1. Init => Driver!Init
    BY DEF Init, Driver!Init, handle, Status
<1>2. ASSUME MaxCrashes = 0  PROVE Spec => Driver!Spec /\ [][OneInService']_vars
  <2>1. ServiceInv /\ [Next]_vars => [Driver!Next]_<<hpid, handle>>
      BY <1>2, DriverMaps DEF DriverNext, ServiceInv
  <2>2. ServiceInv' => [OneInService']_vars
      BY DEF ServiceInv
  <2>3. Spec => []ServiceInv
      BY <1>2, OneServedByDriver
  <2> QED BY <1>1, <2>1, <2>2, <2>3, PTL DEF Spec, Driver!Spec
<1> QED BY <1>2 DEF DriverContract

-----------------------------------------------------------------------------
(* A daemon that serves: it does not die, SIGKILL works, and neither the loop *)
(* nor a watcher starts a process again.                                      *)

Serving ==
  /\ MaxCrashes = 0 /\ StopMayFail = FALSE
  /\ AutoRestart = FALSE /\ "watch" \notin Ops

\* Its clients wait for their answers.
Patient == ClientsCancel = FALSE

Dead(i) == hpid[i] \notin live

\* Steps that come after a successful Stop of the target.
AfterStop == {"repldel", "stopinsp", "rlaunch", "rlink", "rmdel", "disend", "waitput"}

\* A child that has no row yet, or never gets one: its launcher is at work.
Holds(t) == thr[t].pc \in {"create", "rlink", "rcreate"}
              \/ (thr[t].pc \in Stopping /\ thr[t].ret = "idle")

ServedThread(t) ==
  /\ Patient => ~thr[t].cancelled
  /\ ~thr[t].auto
  /\ t \notin Clients => thr[t].pc = "idle"
  /\ thr[t].pc \in AfterStop => Dead(thr[t].id) \/ thr[t].cancelled
  /\ thr[t].pc \in {"mwait", "wwait", "uwait"} => thr[t].pid = hpid[thr[t].id]
  /\ thr[t].pc = "mstop" /\ thr[t].ret = "idle" => thr[t].pid = hpid[thr[t].id]
  /\ thr[t].pc \in {"disput", "disinsp", "upput"} => thr[t].ret # "idle"
  /\ thr[t].pc \in {"runget", "runput", "reget"} => thr[t].ret # "idle" \/ thr[t].op = "run"
  /\ HoldsRow(t) /\ (thr[t].rec.st \in Terminal \/ thr[t].rec.succ # 0) => Dead(thr[t].id)

ServedRows ==
  /\ \A i \in Ids : Stored(i) /\ (store[i].st \in Terminal \/ store[i].succ # 0) => Dead(i)
  /\ \A i, j \in Ids : /\ Stored(i) /\ Stored(j) /\ store[i].name = store[j].name
                       /\ store[i].succ = 0 /\ store[j].succ = 0
                       => i = j

\* Each known id has the one child it was given.
OneChildEach == /\ \A i \in Ids : i <= lastId => hpid[i] # 0
                /\ \A p \in Pids : p <= lastPid => hpid[owner[p]] = p
Covered ==
  Patient => \A p \in live : Stored(owner[p]) \/ \E t \in Threads : Holds(t) /\ thr[t].pid = p
NoBackground == auto = {} /\ watchers = {} /\ loopIds = {} /\ bootIds = {} /\ phase = "up"

ServedInv ==
  /\ BaseInv /\ BootInv /\ NoBackground /\ OneChildEach /\ Covered /\ ServedRows
  /\ \A t \in Threads : ServedThread(t)

\* While nothing is launched, a dead child stays dead and rows stay sound.
Steady(t) ==
  /\ UNCHANGED <<owner, lastPid, hpid>> /\ live' \subseteq live
  /\ UNCHANGED <<lastId, watchers, loopIds, bootIds, phase>> /\ auto' = {}
  /\ \A u \in Threads \ {t} : thr'[u] = thr[u]

\* Rows change soundly: those of running children stay.
RowsKept == ServedRows' /\ \A i \in Ids : Stored(i) /\ ~Dead(i) => Stored(i)'

\* A launcher hands its child over to a row, keeps it, or knows that it ended.
ChildKept(t) ==
  Patient /\ Holds(t) /\ thr[t].pid \in live'
    => \/ store'[owner[thr[t].pid]] # NoRec
       \/ Holds(t)' /\ thr'[t].pid = thr[t].pid

LEMMA SteadyKeeps ==
  ASSUME ServedInv, Serving, NEW t \in Threads, Steady(t), BaseInv', BootInv',
         RowsKept, ChildKept(t), ServedThread(t)'
  PROVE  ServedInv'
<1>1. /\ UNCHANGED <<owner, lastPid, hpid, lastId>> /\ live' \subseteq live
      /\ \A u \in Threads \ {t} : thr'[u] = thr[u]
      /\ \A i \in Ids : Dead(i) => Dead(i)'
    BY DEF Steady, Dead
<1>2. NoBackground'
    BY DEF ServedInv, NoBackground, Steady
<1>3. OneChildEach'
    BY <1>1 DEF ServedInv, OneChildEach
<1>4. ASSUME Patient, NEW p \in live'
      PROVE  Stored(owner[p])' \/ \E u \in Threads : Holds(u)' /\ thr'[u].pid = p
  <2>1. p \in live /\ p \in Pids /\ p <= lastPid
      BY <1>1, <1>4 DEF ServedInv, BaseInv, TypeOK, Births
  <2>2. hpid[owner[p]] = p /\ owner[p] \in Ids
      BY <2>1 DEF ServedInv, BaseInv, Births, OneChildEach
  <2>3. CASE Stored(owner[p])
      BY <1>1, <2>1, <2>2, <2>3 DEF RowsKept, Dead, Stored
  <2>4. CASE ~Stored(owner[p])
    <3>1. PICK u \in Threads : Holds(u) /\ thr[u].pid = p
        BY <1>4, <2>1, <2>4 DEF ServedInv, Covered
    <3>2. CASE u # t
        BY <1>1, <3>1, <3>2 DEF Holds
    <3>3. CASE u = t
        BY <1>1, <1>4, <3>1, <3>3 DEF ChildKept, Stored
    <3> QED BY <3>2, <3>3
  <2> QED BY <2>3, <2>4
<1>5. Covered'
    BY <1>1, <1>4 DEF Covered, Stored
<1>6. ASSUME NEW u \in Threads \ {t}  PROVE ServedThread(u)'
  <2>1. thr'[u] = thr[u] /\ ServedThread(u) /\ ThreadOK(u)
      BY <1>1 DEF ServedInv, BaseInv
  <2>2. HoldsRow(u)' => HoldsRow(u)
      BY <2>1 DEF HoldsRow
  <2>3. HoldsRow(u) \/ thr[u].pc \in AfterStop => thr[u].id \in Ids
      BY <2>1 DEF ThreadOK, HoldsRow, AfterStop, Placeless, NeedsRow, Editing, Stopping
  <2> QED BY <1>1, <2>1, <2>2, <2>3 DEF ServedThread
<1> QED BY <1>2, <1>3, <1>5, <1>6 DEF ServedInv, RowsKept

LEMMA StoreStays ==
  ASSUME ServedInv, UNCHANGED <<store, hpid>>, live' \subseteq live
  PROVE  RowsKept
  BY DEF RowsKept, ServedInv, ServedRows, Stored, Dead

LEMMA StoreWritten ==
  ASSUME ServedInv, UNCHANGED <<hpid, live>>, NEW t \in Threads, NEW row \in Rows, Update(t, row),
         thr[t].id \in Ids, row.st \in Terminal \/ row.succ # 0 => Dead(thr[t].id) \/ thr[t].cancelled
  PROVE  RowsKept
<1>1. PICK i \in Ids : i = thr[t].id
    OBVIOUS
<1>2. CASE ~UpdateOK(t, row)
    BY <1>2, StoreStays DEF Update
<1>3. CASE UpdateOK(t, row)
  <2>1. store' = [store EXCEPT ![i] = row] /\ row # NoRec /\ Stored(i) /\ ~thr[t].cancelled
      BY <1>1, <1>3, RowsAreStored DEF Update, UpdateOK, Reach
  <2>2. store'[i] = row /\ \A j \in Ids \ {i} : store'[j] = store[j]
      BY <2>1 DEF ServedInv, BaseInv, TypeOK
  <2>3. \A j \in Ids \ {i} : Stored(j) /\ store[j].name = row.name /\ store[j].succ = 0 => row.succ # 0
      BY <1>1, <1>3 DEF UpdateOK, LiveNameTaken
  <2>4. \A j \in Ids : Stored(j)' <=> Stored(j)
      BY <2>1, <2>2 DEF Stored
  <2>5. ServedRows'
      BY <1>1, <2>1, <2>2, <2>3, <2>4 DEF ServedInv, ServedRows, Dead
  <2> QED BY <2>4, <2>5 DEF RowsKept
<1> QED BY <1>2, <1>3

LEMMA RowDeleted ==
  ASSUME ServedInv, UNCHANGED <<hpid, live>>, NEW i \in Ids, Dead(i),
         store' = [store EXCEPT ![i] = NoRec]
  PROVE  RowsKept
<1>1. store'[i] = NoRec /\ \A j \in Ids \ {i} : store'[j] = store[j]
    BY DEF ServedInv, BaseInv, TypeOK
<1>2. ~Stored(i)' /\ \A j \in Ids \ {i} : Stored(j)' <=> Stored(j)
    BY <1>1 DEF Stored
<1> QED BY <1>1, <1>2 DEF RowsKept, ServedInv, ServedRows, Dead

LEMMA RowCreated ==
  ASSUME ServedInv, UNCHANGED <<hpid, live>>, NEW t \in Threads, thr[t].new \in Ids,
         FreshRow(t) \in Rows, CreateOK(t, FreshRow(t)),
         store' = [store EXCEPT ![thr[t].new] = FreshRow(t)]
  PROVE  RowsKept /\ store'[thr[t].new] # NoRec
<1>1. PICK i \in Ids : i = thr[t].new
    OBVIOUS
<1> DEFINE row == FreshRow(t)
<1>2. row.st = "running" /\ row.succ = 0 /\ row # NoRec /\ row \in Rows
    BY RowsAreStored DEF FreshRow
<1>3. ~LiveNameTaken(i, row) /\ store' = [store EXCEPT ![i] = row]
    BY <1>1 DEF CreateOK
<1> HIDE DEF row
<1>4. store'[i] = row /\ \A j \in Ids \ {i} : store'[j] = store[j]
    BY <1>3 DEF ServedInv, BaseInv, TypeOK
<1>5. Stored(i)' /\ \A j \in Ids \ {i} : Stored(j)' <=> Stored(j)
    BY <1>2, <1>4 DEF Stored
<1>6. \A j \in Ids \ {i} : Stored(j) /\ store[j].name = row.name => store[j].succ # 0
    BY <1>2, <1>3 DEF LiveNameTaken
<1>7. ServedRows'
    BY <1>2, <1>4, <1>5, <1>6 DEF ServedInv, ServedRows, Dead, Terminal
<1>8. \A j \in Ids : Stored(j) => Stored(j)'
    BY <1>5
<1> QED BY <1>1, <1>5, <1>7, <1>8 DEF RowsKept, Stored

LEMMA DoneServed ==
  ASSUME ServedInv, NEW t \in Threads, Done(t)
  PROVE  ServedThread(t)' /\ ~Holds(t)'
<1>1. thr'[t] = Idle
    BY DEF Done, ServedInv, BaseInv, TypeOK
<1> QED BY <1>1 DEF Idle, ServedThread, Holds, HoldsRow, AfterStop, NeedsRow, Editing, Stopping

LEMMA GotoServed ==
  ASSUME ServedInv, NEW t \in Clients, NEW s \in Steps, s \notin {"mwait", "wwait", "uwait"}, Goto(t, s),
         UNCHANGED <<hpid, live>>,
         s \in AfterStop => Dead(thr[t].id) \/ thr[t].cancelled,
         s = "mstop" => thr[t].ret # "idle",
         s \in {"disput", "disinsp", "upput"} => thr[t].ret # "idle",
         s \in {"runget", "runput", "reget"} => thr[t].ret # "idle" \/ thr[t].op = "run",
         s \in NeedsRow \/ (s = "mstop" /\ thr[t].ret \in NeedsRow) => HoldsRow(t)
  PROVE  /\ ServedThread(t)'
         /\ thr'[t].pc = s /\ thr'[t].pid = thr[t].pid /\ thr'[t].ret = thr[t].ret
<1>1. t \in Threads /\ thr[t] \in ThreadStates /\ ServedThread(t)
    BY DEF Threads, ServedInv, BaseInv, TypeOK
<1>2. /\ thr'[t].pc = s /\ thr'[t].id = thr[t].id /\ thr'[t].pid = thr[t].pid
      /\ thr'[t].rec = thr[t].rec /\ thr'[t].ret = thr[t].ret /\ thr'[t].op = thr[t].op
      /\ thr'[t].cancelled = thr[t].cancelled /\ thr'[t].auto = thr[t].auto
    BY <1>1 DEF Goto, ServedInv, BaseInv, TypeOK, ThreadStates
<1>3. HoldsRow(t)' => HoldsRow(t)
    BY <1>2 DEF HoldsRow, Stopping
<1>4. Dead(thr[t].id) => Dead(thr[t].id)'
    BY <1>2 DEF Dead
<1> QED BY <1>1, <1>2, <1>3, <1>4 DEF ServedThread

\* A thread that goes on with a row it read or edited.
LEMMA RowServed ==
  ASSUME ServedInv, NEW t \in Clients, NEW s \in Steps, s \notin {"mwait", "wwait", "uwait"}, NEW row \in Rows,
         thr' = [thr EXCEPT ![t].pc = s, ![t].rec = row],
         UNCHANGED <<hpid, live>>,
         s \notin AfterStop,
         s = "mstop" => thr[t].ret # "idle",
         s \in {"disput", "disinsp", "upput"} => thr[t].ret # "idle",
         s \in {"runget", "runput", "reget"} => thr[t].ret # "idle" \/ thr[t].op = "run",
         row.st \in Terminal \/ row.succ # 0 => Dead(thr[t].id)
  PROVE  ServedThread(t)'
<1>1. t \in Threads /\ thr[t] \in ThreadStates /\ ServedThread(t)
    BY DEF Threads, ServedInv, BaseInv, TypeOK
<1>2. /\ thr'[t].pc = s /\ thr'[t].id = thr[t].id /\ thr'[t].pid = thr[t].pid
      /\ thr'[t].rec = row /\ thr'[t].ret = thr[t].ret /\ thr'[t].op = thr[t].op
      /\ thr'[t].cancelled = thr[t].cancelled /\ thr'[t].auto = thr[t].auto
    BY <1>1 DEF ServedInv, BaseInv, TypeOK, ThreadStates
<1>3. Dead(thr[t].id) => Dead(thr[t].id)'
    BY <1>2 DEF Dead
<1> QED BY <1>1, <1>2, <1>3 DEF ServedThread

\* The driver's Stop under these conditions: it returns once the child is gone.
LEMMA DriverServed ==
  ASSUME ServedInv, Serving, NEW c \in Clients, DriverStep(c)
  PROVE  /\ UNCHANGED <<kernelVars, hpid, diskVars, mapVars, daemonVars>>
         /\ \A u \in Threads \ {c} : thr'[u] = thr[u]
         /\ ServedThread(c)' /\ ChildKept(c)
<1>1. /\ c \in Threads /\ thr[c] \in ThreadStates /\ ThreadOK(c) /\ ServedThread(c)
      /\ thr \in [Threads -> ThreadStates]
    BY DEF Threads, ServedInv, BaseInv, TypeOK
<1>2. /\ thr[c].pc \in Stopping /\ thr[c].id \in Ids /\ thr[c].id <= lastId
      /\ UNCHANGED <<kernelVars, hpid, diskVars, mapVars, daemonVars>>
    BY <1>1 DEF DriverStep, MgrStop, MgrStopReturn, Stopping, ThreadOK, Placeless, driverVars
<1>3. hpid[thr[c].id] # 0 /\ UNCHANGED <<hpid, live>>
    BY <1>2 DEF ServedInv, OneChildEach, kernelVars
<1>4. ASSUME Resume(c, thr[c].ret), Dead(thr[c].id) \/ thr[c].cancelled,
             thr[c].ret = "idle" => thr[c].pid \notin live \/ thr[c].cancelled
      PROVE  /\ \A u \in Threads \ {c} : thr'[u] = thr[u]
             /\ ServedThread(c)' /\ ChildKept(c)
  <2>1. CASE thr[c].ret = "idle"
    <3>1. Done(c) /\ (Patient => thr[c].pid \notin live')
        BY <1>1, <1>3, <1>4, <2>1 DEF Resume, ServedThread
    <3> QED BY <1>1, <3>1, DoneServed DEF ChildKept, Done
  <2>2. CASE thr[c].ret # "idle"
    <3>1. Goto(c, thr[c].ret) /\ thr[c].ret \in Returns \ {"idle"}
        BY <1>1, <1>4, <2>2 DEF Resume, ThreadOK
    <3>2. PICK s \in Returns \ {"idle"} : s = thr[c].ret
        BY <3>1
    <3>3. s \in Steps /\ s \notin Stopping /\ s \notin {"wwait", "uwait", "disput", "disinsp", "upput", "runget", "runput", "reget"}
        BY DEF Returns, Steps, Stopping
    <3>4. s \in NeedsRow => HoldsRow(c)
        BY <1>2, <3>2 DEF HoldsRow
    <3>5. ServedThread(c)'
        BY <1>3, <1>4, <3>1, <3>2, <3>3, <3>4, GotoServed DEF Stopping
    <3>6. ~Holds(c)
        BY <1>2, <2>2 DEF Holds, Stopping
    <3> QED BY <1>1, <3>1, <3>5, <3>6 DEF ChildKept, Goto
  <2> QED BY <2>1, <2>2
<1>e. ASSUME StopError(c), thr[c].cancelled
      PROVE  /\ \A u \in Threads \ {c} : thr'[u] = thr[u]
             /\ ServedThread(c)' /\ ChildKept(c)
  <2>1. CASE Done(c)
    <3>1. ~Patient
        BY <1>1, <1>e DEF ServedThread
    <3> QED BY <1>1, <2>1, <3>1, DoneServed DEF ChildKept, Done
  <2> QED BY <1>4, <1>e, <2>1 DEF StopError
<1>5. CASE MgrStop(c)
  <2>1. thr[c].pc = "mstop" /\ Status(thr[c].id) # "absent"
      BY <1>1, <1>2, <1>3, <1>5 DEF MgrStop, Status, ServedInv, BaseInv, TypeOK, Pids
  <2>c. CASE thr[c].cancelled
      BY <1>2, <1>5, <1>e, <2>c DEF MgrStop
  <2>2. CASE Status(thr[c].id) = "exited" /\ ~thr[c].cancelled
    <3>1. Dead(thr[c].id)
        BY <2>2 DEF Status, Dead
    <3>2. Resume(c, thr[c].ret)
        BY <1>5, <2>1, <2>2 DEF MgrStop
    <3>3. thr[c].ret = "idle" => thr[c].pid \notin live
        BY <1>1, <2>1, <3>1 DEF ServedThread, Dead
    <3> QED BY <1>2, <1>4, <3>1, <3>2, <3>3
  <2>3. CASE Status(thr[c].id) # "exited" /\ ~thr[c].cancelled
    <3>1. thr' = [thr EXCEPT ![c].pc = "mwait", ![c].pid = hpid[thr[c].id]]
        BY <1>5, <2>1, <2>3 DEF MgrStop
    <3>2. /\ thr'[c].pc = "mwait" /\ thr'[c].id = thr[c].id /\ thr'[c].pid = hpid[thr[c].id]
          /\ thr'[c].rec = thr[c].rec /\ thr'[c].ret = thr[c].ret /\ thr'[c].op = thr[c].op
          /\ thr'[c].cancelled = thr[c].cancelled /\ thr'[c].auto = thr[c].auto
          /\ \A u \in Threads \ {c} : thr'[u] = thr[u]
        BY <1>1, <3>1 DEF ThreadStates
    <3>3. HoldsRow(c)' => HoldsRow(c)
        BY <2>1, <3>2 DEF HoldsRow, Stopping, NeedsRow, Editing
    <3>4. Dead(thr[c].id) => Dead(thr[c].id)'
        BY <1>3, <3>2 DEF Dead
    <3>5. ServedThread(c)'
        BY <1>1, <1>3, <3>2, <3>3, <3>4 DEF ServedThread, AfterStop
    <3>6. ChildKept(c)
        BY <1>1, <2>1, <3>2 DEF ChildKept, Holds, Stopping, ServedThread
    <3> QED BY <1>2, <3>2, <3>5, <3>6
  <2> QED BY <2>2, <2>3, <2>c
<1>6. CASE MgrStopReturn(c)
  <2>1. thr[c].pc = "mwait" /\ thr[c].pid = hpid[thr[c].id]
      BY <1>1, <1>6 DEF MgrStopReturn, ServedThread
  <2>2. CASE thr[c].pid \notin live /\ Resume(c, thr[c].ret)
    <3>1. Dead(thr[c].id)
        BY <2>1, <2>2 DEF Dead
    <3> QED BY <1>2, <1>4, <2>2, <3>1
  <2>3. CASE thr[c].cancelled /\ StopError(c)
      BY <1>2, <1>e, <2>3
  <2> QED BY <1>6, <2>2, <2>3 DEF MgrStopReturn, ChildGone, Serving
<1> QED BY <1>5, <1>6 DEF DriverStep

\* A launch under these conditions: the new id gets its one child, held by its launcher.
LEMMA LaunchServed ==
  ASSUME ServedInv, Serving, BaseInv', BootInv', NEW c \in Clients,
         NEW s \in {"create", "rlink"}, NEW u, NEW a, a = FALSE, LaunchNew(c, s, a, u),
         ~Holds(c), s = "rlink" => Dead(thr[c].id) /\ HoldsRow(c) /\ thr[c].pc \notin Placeless
  PROVE  ServedInv'
<1>1. /\ c \in Threads /\ thr[c] \in ThreadStates /\ ThreadOK(c) /\ ServedThread(c)
      /\ thr \in [Threads -> ThreadStates] /\ lastId \in Nat /\ lastPid \in Nat
    BY LifecycleAssumption DEF Threads, ServedInv, BaseInv, TypeOK
<1>2. PICK i \in Ids : i = lastId' /\ i = lastId + 1
    BY <1>1, LifecycleAssumption DEF LaunchNew, Ids
<1>3. PICK x \in Pids : x = lastPid' /\ x = lastPid + 1
    BY <1>1, LifecycleAssumption DEF LaunchNew, Spawn, NewChild, Pids
<1>4. /\ hpid' = [hpid EXCEPT ![i] = x] /\ live' = live \cup {x} /\ owner' = [owner EXCEPT ![x] = i]
      /\ UNCHANGED <<store, byName, auto, url, watchers, phase, bootIds, loopIds>>
      /\ thr' = [thr EXCEPT ![c].pc = s, ![c].new = i, ![c].pid = x, ![c].auto = FALSE, ![c].url = u]
    BY <1>2, <1>3 DEF LaunchNew, Spawn, NewChild, Register, diskVars, mapVars
<1>5. /\ hpid'[i] = x /\ \A j \in Ids \ {i} : hpid'[j] = hpid[j]
      /\ owner'[x] = i /\ \A p \in Pids \ {x} : owner'[p] = owner[p]
    BY <1>4 DEF ServedInv, BaseInv, TypeOK
<1>6. \A j \in Ids : j <= lastId => hpid[j] # x /\ j # i
  <2>1. \A j \in Ids : hpid[j] \in Nat /\ (hpid[j] # 0 => hpid[j] <= lastPid)
      BY LifecycleAssumption DEF ServedInv, BaseInv, TypeOK, Births
  <2>2. x # 0 /\ x \in Nat
      BY DEF Pids
  <2> QED BY <1>1, <1>2, <1>3, <2>1, <2>2 DEF Ids
<1>7. \A j \in Ids : j <= lastId /\ Dead(j) => Dead(j)'
    BY <1>1, <1>3, <1>4, <1>5, <1>6 DEF Dead
<1>8. NoBackground'
    BY <1>4 DEF ServedInv, NoBackground
<1>9. OneChildEach'
  <2>1. ASSUME NEW j \in Ids, j <= lastId'  PROVE hpid'[j] # 0
      BY <1>1, <1>2, <1>3, <1>5, <2>1 DEF ServedInv, OneChildEach, Pids, Ids
  <2>2. ASSUME NEW p \in Pids, p <= lastPid'  PROVE hpid'[owner'[p]] = p
    <3>1. CASE p = x
        BY <1>5, <3>1
    <3>2. CASE p # x
      <4>1. p <= lastPid
          BY <1>1, <1>3, <2>2, <3>2 DEF Pids
      <4> QED BY <1>5, <1>6, <3>2, <4>1 DEF ServedInv, BaseInv, Births, OneChildEach
    <3> QED BY <3>1, <3>2
  <2> QED BY <2>1, <2>2 DEF OneChildEach
<1>10. /\ thr'[c].pc = s /\ thr'[c].id = thr[c].id /\ thr'[c].pid = x /\ thr'[c].auto = FALSE
       /\ thr'[c].rec = thr[c].rec /\ thr'[c].ret = thr[c].ret /\ thr'[c].op = thr[c].op
       /\ thr'[c].cancelled = thr[c].cancelled
       /\ \A w \in Threads \ {c} : thr'[w] = thr[w]
    BY <1>1, <1>4 DEF ThreadStates
<1>11. Covered'
  <2>1. ASSUME Patient, NEW p \in live', p # x
        PROVE  Stored(owner[p])' \/ \E w \in Threads : Holds(w)' /\ thr'[w].pid = p
    <3>1. p \in live /\ p \in Pids /\ owner'[p] = owner[p]
        BY <1>4, <1>5, <2>1 DEF ServedInv, BaseInv, TypeOK
    <3>2. CASE Stored(owner[p])
        BY <1>4, <3>1, <3>2 DEF Stored
    <3>3. ASSUME NEW w \in Threads, Holds(w), thr[w].pid = p
          PROVE  Holds(w)' /\ thr'[w].pid = p
        BY <1>10, <3>3 DEF Holds
    <3> QED BY <2>1, <3>1, <3>2, <3>3 DEF ServedInv, Covered
  <2>2. Holds(c)' /\ thr'[c].pid = x
      BY <1>10 DEF Holds
  <2> QED BY <1>1, <2>1, <2>2 DEF Covered
<1>12. ServedRows'
    BY <1>4, <1>7 DEF ServedInv, ServedRows, BaseInv, Births, Stored
<1>13. ASSUME NEW w \in Threads \ {c}  PROVE ServedThread(w)'
  <2>1. thr'[w] = thr[w] /\ ServedThread(w) /\ ThreadOK(w)
      BY <1>10 DEF ServedInv, BaseInv
  <2>2. HoldsRow(w)' => HoldsRow(w)
      BY <2>1 DEF HoldsRow
  <2>3. HoldsRow(w) \/ thr[w].pc \in AfterStop \cup {"mwait", "wwait", "uwait", "mstop"}
          => thr[w].id \in Ids /\ thr[w].id <= lastId
      BY <2>1 DEF ThreadOK, HoldsRow, AfterStop, Placeless, NeedsRow, Editing, Stopping
  <2>4. Dead(thr[w].id) /\ thr[w].id \in Ids /\ thr[w].id <= lastId => Dead(thr[w].id)'
      BY <1>7, <2>1 DEF Dead
  <2>5. thr[w].id \in Ids /\ thr[w].id <= lastId => hpid'[thr[w].id] = hpid[thr[w].id]
      BY <1>5, <1>6
  <2> QED BY <2>1, <2>2, <2>3, <2>4, <2>5 DEF ServedThread
<1>14. ServedThread(c)'
  <2>1. s = "rlink" => Dead(thr[c].id)' /\ thr[c].id \in Ids
    <3>1. s = "rlink" => thr[c].id \in Ids /\ thr[c].id <= lastId
        BY <1>1 DEF ThreadOK
    <3> QED BY <1>7, <1>10, <3>1 DEF Dead
  <2>2. HoldsRow(c)' => s = "rlink"
      BY <1>10 DEF HoldsRow, NeedsRow, Editing, Stopping
  <2> QED BY <1>1, <1>10, <2>1, <2>2 DEF ServedThread, AfterStop
<1> QED BY <1>8, <1>9, <1>11, <1>12, <1>13, <1>14 DEF ServedInv

\* The rest of a handler: what it leaves alone ...
LEMMA HandlerSteady ==
  ASSUME ServedInv, Serving, NEW c \in Clients, HandlerStep(c),
         ~DriverStep(c), ~StartLaunch(c), ~RestartLaunch(c)
  PROVE  Steady(c) /\ UNCHANGED <<hpid, live>>
<1>1. /\ c \in Threads /\ ServedThread(c) /\ NoBackground /\ thr \in [Threads -> ThreadStates]
    BY DEF Threads, ServedInv, BaseInv, TypeOK
<1>2. UNCHANGED <<hpid, live, owner, lastPid, lastId, watchers, loopIds, bootIds, phase>>
    BY DEF HandlerStep, StartGetName, StartUnname, StartScan, StartClaim, ReplaceDelete, ReplaceMaps,
           LaunchNewFails, StartCreate, StartPublish, RunGet, RunPut, Reget, StopInspect, StopPut,
           RestartLink, RestartCreate, RestartPublish, RemoveDelete, RemoveMaps, EnablePut, DisablePut,
           DisableInspect, DisableEnd, WaitLook, WaitReturn, WaitPut, HealthProbe, HealthPut, UpdatePut,
           PutAndReturn, kernelVars, driverVars, mapVars, daemonVars
<1>3. auto' = {}
  <2>1. auto = {} /\ ~thr[c].auto
      BY <1>1 DEF NoBackground, ServedThread
  <2>2. CASE StartPublish(c) \/ RestartPublish(c)
      BY <2>1, <2>2 DEF StartPublish, RestartPublish, With
  <2>3. CASE ~StartPublish(c) /\ ~RestartPublish(c)
    <3>1. auto' = auto \/ auto' = auto \ {thr[c].id}
        BY <2>3 DEF HandlerStep, StartGetName, StartUnname, StartScan, StartClaim, ReplaceDelete,
           ReplaceMaps, LaunchNewFails, StartCreate, RunGet, RunPut, Reget, StopInspect, StopPut,
           RestartLink, RestartCreate, RemoveDelete, RemoveMaps, EnablePut, DisablePut, DisableInspect,
           DisableEnd, WaitLook, WaitReturn, WaitPut, HealthProbe, HealthPut, UpdatePut, PutAndReturn,
           mapVars
    <3> QED BY <2>1, <3>1
  <2> QED BY <2>2, <2>3
<1>4. \A u \in Threads \ {c} : thr'[u] = thr[u]
    BY <1>1 DEF HandlerStep, StartGetName, StartUnname, StartScan, StartClaim, ReplaceDelete, ReplaceMaps,
           LaunchNewFails, StartCreate, StartPublish, RunGet, RunPut, Reget, StopInspect, StopPut,
           RestartLink, RestartCreate, RestartPublish, RemoveDelete, RemoveMaps, EnablePut, DisablePut,
           DisableInspect, DisableEnd, WaitLook, WaitReturn, WaitPut, HealthProbe, HealthPut, UpdatePut,
           PutAndReturn, UndoLaunch, Done, Goto
<1> QED BY <1>2, <1>3, <1>4 DEF Steady

\* ... and what it does to rows, to its child and to its own state.
LEMMA HandlerServed ==
  ASSUME ServedInv, Serving, NEW c \in Clients, HandlerStep(c), UNCHANGED <<hpid, live>>,
         ~DriverStep(c), ~StartLaunch(c), ~RestartLaunch(c)
  PROVE  RowsKept /\ ChildKept(c) /\ ServedThread(c)'
<1>0. /\ c \in Threads /\ thr[c] \in ThreadStates /\ ThreadOK(c) /\ ServedThread(c)
      /\ thr \in [Threads -> ThreadStates]
    BY DEF Threads, ServedInv, BaseInv, TypeOK, ServedThread
<1>w. thr[c].pc \notin Placeless => thr[c].id \in Ids /\ thr[c].id <= lastId
    BY <1>0 DEF ThreadOK
<1>h. thr[c].pc \in Editing => /\ thr[c].rec \in Rows /\ HoldsRow(c) /\ thr[c].id \in Ids
                               /\ thr[c].rec.st \in Terminal \/ thr[c].rec.succ # 0 => Dead(thr[c].id)
    BY <1>0, <1>w, AtWork DEF Editing, Placeless, ServedThread, ServedInv
<1>q. UNCHANGED diskVars => RowsKept
    BY StoreStays DEF diskVars
<1>d. Done(c) => ServedThread(c)'
    BY <1>0, DoneServed
<1>c. thr[c].pc \notin {"create", "rlink", "rcreate", "mstop", "mwait"} => ChildKept(c)
    BY DEF ChildKept, Holds, Stopping
<1>g. ASSUME NEW s \in {"unname", "scan", "claim", "launch", "replmaps", "reget", "rmmaps", "publish",
                        "rpublish", "rcreate"},
             Goto(c, s), s = "reget" => thr[c].ret # "idle" \/ thr[c].op = "run"
      PROVE  ServedThread(c)' /\ thr'[c].pc = s /\ thr'[c].pid = thr[c].pid
  <2>1. s \in Steps /\ s \notin NeedsRow /\ s \notin AfterStop
      BY DEF Steps, NeedsRow, Editing, AfterStop
  <2> QED BY <1>g, <2>1, GotoServed
\* What a handler reads is sound.
<1>r. Reach(c, thr[c].id) /\ thr[c].pc \notin Placeless
        => /\ store[thr[c].id] \in Rows
           /\ (store[thr[c].id].st \in Terminal \/ store[thr[c].id].succ # 0 => Dead(thr[c].id))
    BY <1>w DEF Reach, Stored, ServedInv, BaseInv, TypeOK, ServedRows
\* A handler that writes its last row and returns.
<1>p. ASSUME NEW s \in Editing \ {"rlink"}, NEW row \in Rows, PutAndReturn(c, s, row),
             row.st \in Terminal \/ row.succ # 0 => Dead(thr[c].id) \/ thr[c].cancelled
      PROVE  RowsKept /\ ChildKept(c) /\ ServedThread(c)'
  <2>1. thr[c].pc = s /\ Update(c, row) /\ Done(c)
      BY <1>p DEF PutAndReturn
  <2>2. ChildKept(c)
      BY <1>c, <2>1 DEF Editing
  <2> QED BY <1>0, <1>d, <1>h, <1>p, <2>1, <2>2, StoreWritten
<1>1. CASE StartGetName(c) \/ StartUnname(c) \/ LaunchNewFails(c) \/ ReplaceMaps(c) \/ RemoveMaps(c)
           \/ RestartPublish(c)
  <2>1. RowsKept /\ ChildKept(c)
      BY <1>1, <1>c, <1>q DEF StartGetName, StartUnname, LaunchNewFails, ReplaceMaps, RemoveMaps,
                              RestartPublish
  <2>2. ServedThread(c)'
      BY <1>1, <1>d, <1>g DEF StartGetName, StartUnname, LaunchNewFails, ReplaceMaps, RemoveMaps,
                              RestartPublish
  <2> QED BY <2>1, <2>2
<1>2. CASE StartScan(c) \/ StartClaim(c)
  <2>1. RowsKept /\ ChildKept(c)
      BY <1>2, <1>c, <1>q DEF StartScan, StartClaim
  <2>2. ASSUME NEW i, thr' = [thr EXCEPT ![c].pc = "claim", ![c].id = i]
        PROVE  ServedThread(c)'
    <3>1. /\ thr'[c].pc = "claim" /\ thr'[c].cancelled = thr[c].cancelled /\ thr'[c].auto = thr[c].auto
        BY <1>0, <2>2 DEF ThreadStates
    <3> QED BY <1>0, <3>1 DEF ServedThread, AfterStop, HoldsRow, NeedsRow, Editing, Stopping
  <2>3. ASSUME thr' = [thr EXCEPT ![c].pc = "mstop", ![c].ret = "repldel"]
        PROVE  ServedThread(c)'
    <3>1. /\ thr'[c].pc = "mstop" /\ thr'[c].ret = "repldel" /\ thr'[c].cancelled = thr[c].cancelled
          /\ thr'[c].auto = thr[c].auto
        BY <1>0, <2>3 DEF ThreadStates
    <3> QED BY <1>0, <3>1 DEF ServedThread, AfterStop, HoldsRow, NeedsRow, Editing, Stopping
  <2> QED BY <1>2, <1>d, <1>g, <2>1, <2>2, <2>3 DEF StartScan, StartClaim
<1>3. CASE ReplaceDelete(c) \/ RemoveDelete(c)
  <2>1. /\ thr[c].pc \in AfterStop /\ thr[c].id \in Ids
        /\ Reach(c, thr[c].id) => Dead(thr[c].id)
      BY <1>0, <1>3, <1>w DEF ReplaceDelete, RemoveDelete, AfterStop, Placeless, ServedThread, Reach
  <2>2. store' = store \/ (Reach(c, thr[c].id) /\ store' = [store EXCEPT ![thr[c].id] = NoRec])
      BY <1>3 DEF ReplaceDelete, RemoveDelete
  <2>3. RowsKept /\ ChildKept(c)
      BY <1>3, <1>c, <2>1, <2>2, StoreStays, RowDeleted DEF ReplaceDelete, RemoveDelete
  <2> QED BY <1>3, <1>d, <1>g, <2>3 DEF ReplaceDelete, RemoveDelete
<1>4. CASE StartCreate(c) \/ RestartCreate(c)
  <2>1. /\ thr[c].new \in Ids /\ thr[c].name \in Names /\ thr[c].pid \in Pids
        /\ thr[c].pid <= lastPid /\ owner[thr[c].pid] = thr[c].new
      BY <1>0, <1>4 DEF StartCreate, RestartCreate, ThreadOK, HasNew
  <2>2. FreshRow(c) \in Rows
    <3>1. thr[c].pid \in 0..MaxPids /\ 0 \in 0..MaxIds
        BY <1>0, LifecycleAssumption DEF ThreadStates
    <3> QED BY <2>1, <3>1 DEF FreshRow, Rows, RowStatuses
  <2>3. CASE CreateOK(c, FreshRow(c))
    <3>1. RowsKept /\ store'[thr[c].new] # NoRec
        BY <1>0, <1>4, <2>1, <2>2, <2>3, RowCreated DEF StartCreate, RestartCreate
    <3>2. ChildKept(c)
        BY <2>1, <3>1 DEF ChildKept
    <3> QED BY <1>4, <1>g, <2>3, <3>1, <3>2 DEF StartCreate, RestartCreate
  <2>4. CASE ~CreateOK(c, FreshRow(c))
    <3>1. RowsKept /\ UndoLaunch(c)
        BY <1>4, <2>4, StoreStays DEF StartCreate, RestartCreate
    <3>2. /\ thr'[c].pc = "mstop" /\ thr'[c].id = thr[c].new /\ thr'[c].ret = "idle"
          /\ thr'[c].pid = thr[c].pid /\ thr'[c].cancelled = thr[c].cancelled
          /\ thr'[c].auto = thr[c].auto
        BY <1>0, <3>1 DEF UndoLaunch, ThreadStates
    <3>3. hpid[thr[c].new] = thr[c].pid
        BY <2>1 DEF ServedInv, OneChildEach
    <3>4. ServedThread(c)'
        BY <1>0, <3>2, <3>3 DEF ServedThread, AfterStop, HoldsRow, NeedsRow, Editing, Stopping
    <3>5. ChildKept(c)
        BY <3>2 DEF ChildKept, Holds, Stopping
    <3> QED BY <3>1, <3>4, <3>5
  <2> QED BY <2>3, <2>4
<1>5. CASE StartPublish(c)
  <2>1. RowsKept /\ ChildKept(c)
      BY <1>5, <1>c, <1>q DEF StartPublish
  <2>2. ASSUME thr' = [thr EXCEPT ![c].pc = "runget", ![c].id = thr[c].new], thr[c].op = "run"
        PROVE  ServedThread(c)'
    <3>1. /\ thr'[c].pc = "runget" /\ thr'[c].cancelled = thr[c].cancelled
          /\ thr'[c].auto = thr[c].auto /\ thr'[c].op = "run"
        BY <1>0, <2>2 DEF ThreadStates
    <3> QED BY <1>0, <3>1 DEF ServedThread, AfterStop, HoldsRow, NeedsRow, Editing, Stopping
  <2> QED BY <1>5, <1>d, <2>1, <2>2 DEF StartPublish
<1>6. CASE RunGet(c) \/ Reget(c)
  <2>1. /\ RowsKept /\ ChildKept(c) /\ thr[c].pc \notin Placeless
        /\ thr[c].ret # "idle" \/ thr[c].op = "run"
      BY <1>0, <1>6, <1>c, <1>q DEF RunGet, Reget, Placeless, ServedThread
  <2>2. CASE Reach(c, thr[c].id)
    <3>1. PICK s \in {"runput", "wlook", "mstop"} :
            /\ thr' = [thr EXCEPT ![c].pc = s, ![c].rec = store[thr[c].id]]
            /\ s = "mstop" => thr[c].op # "run"
        BY <1>6, <2>2 DEF RunGet, Reget
    <3>2. PICK row \in Rows : row = store[thr[c].id]
        BY <1>r, <2>1, <2>2
    <3>3. s \in Steps \ AfterStop
        BY DEF Steps, AfterStop
    <3>4. row.st \in Terminal \/ row.succ # 0 => Dead(thr[c].id)
        BY <1>r, <2>1, <2>2, <3>2
    <3> QED BY <2>1, <3>1, <3>2, <3>3, <3>4, RowServed
  <2> QED BY <1>6, <1>d, <2>1, <2>2 DEF RunGet, Reget
<1>7. CASE RunPut(c) \/ UpdatePut(c)
  <2>1. /\ thr[c].pc \in Editing /\ ChildKept(c)
        /\ thr[c].ret # "idle" \/ thr[c].op = "run"
      BY <1>0, <1>7, <1>c DEF RunPut, UpdatePut, Editing, ServedThread
  <2>2. PICK row \in Rows : /\ Update(c, row)
                            /\ row.st = thr[c].rec.st /\ row.succ = thr[c].rec.succ
    <3>1. /\ [thr[c].rec EXCEPT !.desired = "stopped"] \in Rows
          /\ [thr[c].rec EXCEPT !.desired = "stopped"].st = thr[c].rec.st
          /\ [thr[c].rec EXCEPT !.desired = "stopped"].succ = thr[c].rec.succ
        BY <1>h, <2>1 DEF Rows
    <3> QED BY <1>7, <1>h, <2>1, <3>1 DEF RunPut, UpdatePut
  <2>3. RowsKept
      BY <1>0, <1>h, <2>1, <2>2, StoreWritten
  <2> QED BY <1>7, <1>d, <1>g, <2>1, <2>3 DEF RunPut, UpdatePut
<1>8. CASE RestartLink(c)
  <2> DEFINE row == [thr[c].rec EXCEPT !.st = "exited", !.desired = "stopped", !.succ = thr[c].new]
  <2>1. thr[c].pc = "rlink" /\ thr[c].pc \in Editing /\ Update(c, row) /\ Goto(c, "rcreate")
      BY <1>8 DEF RestartLink, Editing
  <2>2. row \in Rows
      BY <1>0, <1>h, <2>1 DEF Rows, RowStatuses, ThreadStates
  <2>3. Dead(thr[c].id) \/ thr[c].cancelled
      BY <1>0, <2>1 DEF ServedThread, AfterStop
  <2> HIDE DEF row
  <2>4. RowsKept
      BY <1>0, <1>h, <2>1, <2>2, <2>3, StoreWritten
  <2>5. ServedThread(c)' /\ thr'[c].pc = "rcreate" /\ thr'[c].pid = thr[c].pid
      BY <1>g, <2>1
  <2> QED BY <2>4, <2>5 DEF ChildKept, Holds
<1>9. CASE StopInspect(c)
  <2> DEFINE e == IF Status(thr[c].id) = "absent" THEN "exited" ELSE Status(thr[c].id)
             row == [thr[c].rec EXCEPT !.desired = "stopped", !.st = e]
  <2>1. thr[c].pc = "stopinsp" /\ thr[c].pc \in Editing
      BY <1>9 DEF StopInspect, Editing
  <2>2. e \in Terminal => Dead(thr[c].id)
      BY DEF Status, Terminal, Dead, ServedInv, BaseInv, TypeOK, Pids
  <2>3. e \in RowStatuses
      BY DEF Status, RowStatuses
  <2> HIDE DEF e
  <2>4. row \in Rows /\ row.st = e /\ row.succ = thr[c].rec.succ
      BY <1>h, <2>1, <2>3 DEF Rows
  <2>5. thr' = [thr EXCEPT ![c].pc = "stopput", ![c].rec = row]
      BY <1>0, <1>9 DEF StopInspect, ThreadStates, e
  <2> HIDE DEF row
  <2>6. "stopput" \in Steps \ AfterStop
      BY DEF Steps, AfterStop
  <2>7. ServedThread(c)'
      BY <1>h, <2>1, <2>2, <2>4, <2>5, <2>6, RowServed
  <2> QED BY <1>9, <1>c, <1>q, <2>7 DEF StopInspect
<1>10. CASE StopPut(c) \/ HealthPut(c)
    BY <1>10, <1>h, <1>p DEF StopPut, HealthPut, PutAndReturn, Editing
<1>11. CASE EnablePut(c)
  <2> DEFINE row == [thr[c].rec EXCEPT !.desired = "running"]
  <2>1. thr[c].pc \in Editing /\ PutAndReturn(c, "enput", row)
      BY <1>11 DEF EnablePut, PutAndReturn, Editing
  <2>2. row \in Rows /\ row.st = thr[c].rec.st /\ row.succ = thr[c].rec.succ
      BY <1>h, <2>1 DEF Rows
  <2> HIDE DEF row
  <2> QED BY <1>h, <1>p, <2>1, <2>2 DEF Editing
<1>12. CASE DisableEnd(c) \/ WaitPut(c)
  <2>1. thr[c].pc \in Editing /\ thr[c].pc \in AfterStop
      BY <1>12 DEF DisableEnd, WaitPut, PutAndReturn, Editing, AfterStop
  <2>2. Dead(thr[c].id) \/ thr[c].cancelled
      BY <1>0, <2>1 DEF ServedThread
  <2>3. /\ [thr[c].rec EXCEPT !.st = "exited"] \in Rows
        /\ [thr[c].rec EXCEPT !.st = "exited", !.pid = thr[c].pid] \in Rows
      BY <1>0, <1>h, <2>1 DEF Rows, RowStatuses, ThreadStates
  <2>4. PICK s \in Editing \ {"rlink"}, row \in Rows : PutAndReturn(c, s, row)
      BY <1>12, <2>3 DEF DisableEnd, WaitPut, Editing
  <2> QED BY <1>p, <2>2, <2>4
<1>13. CASE DisablePut(c)
  <2> DEFINE row == [thr[c].rec EXCEPT !.desired = "stopped"]
  <2>1. /\ thr[c].pc \in Editing /\ Update(c, row) /\ ChildKept(c) /\ thr[c].ret # "idle"
        /\ Done(c) \/ thr' = [thr EXCEPT ![c].pc = "disinsp", ![c].rec = row]
      BY <1>0, <1>13, <1>c DEF DisablePut, Editing, ServedThread
  <2>2. row \in Rows /\ row.st = thr[c].rec.st /\ row.succ = thr[c].rec.succ
      BY <1>h, <2>1 DEF Rows
  <2> HIDE DEF row
  <2>3. RowsKept
      BY <1>0, <1>h, <2>1, <2>2, StoreWritten
  <2>4. "disinsp" \in Steps \ AfterStop
      BY DEF Steps, AfterStop
  <2>5. thr' = [thr EXCEPT ![c].pc = "disinsp", ![c].rec = row] => ServedThread(c)'
      BY <1>h, <2>1, <2>2, <2>4, RowServed
  <2> QED BY <1>d, <2>1, <2>3, <2>5
<1>14. CASE DisableInspect(c)
  <2>1. thr[c].pc \in Editing /\ ChildKept(c) /\ thr[c].ret # "idle" /\ RowsKept
      BY <1>0, <1>14, <1>c, <1>q DEF DisableInspect, Editing, ServedThread
  <2>2. "mstop" \in Steps \ AfterStop /\ "mstop" \notin NeedsRow
      BY DEF Steps, AfterStop, NeedsRow, Editing
  <2>3. Goto(c, "mstop") => ServedThread(c)'
      BY <1>h, <2>1, <2>2, GotoServed
  <2> QED BY <1>14, <1>d, <2>1, <2>3 DEF DisableInspect
<1>15. CASE WaitLook(c)
  <2>1. RowsKept /\ ChildKept(c) /\ thr[c].pc \in Editing
      BY <1>15, <1>c, <1>q DEF WaitLook, Editing
  <2>2. ASSUME NEW s \in {"wwait", "uwait"},
               thr' = [thr EXCEPT ![c].pc = s, ![c].pid = hpid[thr[c].id]]
        PROVE  ServedThread(c)'
    <3>1. /\ thr'[c].pc = s /\ thr'[c].pid = hpid[thr[c].id] /\ thr'[c].id = thr[c].id
          /\ thr'[c].cancelled = thr[c].cancelled /\ thr'[c].auto = thr[c].auto
          /\ thr'[c].rec = thr[c].rec
        BY <1>0, <2>2 DEF ThreadStates
    <3>2. Dead(thr[c].id) => Dead(thr[c].id)'
        BY <3>1 DEF Dead
    <3> QED BY <1>0, <1>h, <2>1, <3>1, <3>2 DEF ServedThread, AfterStop
  <2> QED BY <1>15, <1>d, <2>1, <2>2 DEF WaitLook
<1>16. CASE WaitReturn(c)
  <2>1. RowsKept /\ ChildKept(c) /\ thr[c].pc \in Editing /\ thr[c].pid = hpid[thr[c].id]
      BY <1>0, <1>16, <1>c, <1>q DEF WaitReturn, Editing, ServedThread
  <2>2. "waitput" \in Steps /\ "waitput" \in NeedsRow
      BY DEF Steps, NeedsRow, Editing
  <2>3. Goto(c, "waitput") /\ thr[c].pid \notin live => ServedThread(c)'
      BY <1>h, <2>1, <2>2, GotoServed DEF Dead
  <2> QED BY <1>16, <1>d, <2>1, <2>3 DEF WaitReturn
<1>17. CASE HealthProbe(c)
  <2>1. RowsKept /\ ChildKept(c) /\ thr[c].pc \in Editing
      BY <1>17, <1>c, <1>q DEF HealthProbe, Editing
  <2>2. hpid[thr[c].id] \in 0..MaxPids
      BY <1>h, <2>1 DEF ServedInv, BaseInv, TypeOK
  <2>3. PICK p \in 0..MaxPids, st \in RowStatuses :
          /\ thr' = [thr EXCEPT ![c].pc = "hput", ![c].rec.pid = p, ![c].rec.st = st]
          /\ st \in Terminal => st = thr[c].rec.st
      BY <1>17, <1>h, <2>1, <2>2 DEF HealthProbe, Rows, RowStatuses, Terminal
  <2>4. [thr[c].rec EXCEPT !.pid = p, !.st = st] \in Rows
      BY <1>h, <2>1 DEF Rows
  <2>5. PICK row \in Rows : row = [thr[c].rec EXCEPT !.pid = p, !.st = st]
      BY <2>4
  <2>6. thr' = [thr EXCEPT ![c].pc = "hput", ![c].rec = row]
      BY <1>0, <2>3, <2>5 DEF ThreadStates
  <2>7. row.st = st /\ row.succ = thr[c].rec.succ
      BY <1>h, <2>1, <2>5 DEF Rows
  <2>8. "hput" \in Steps \ AfterStop
      BY DEF Steps, AfterStop
  <2>9. ServedThread(c)'
      BY <1>h, <2>1, <2>3, <2>6, <2>7, <2>8, RowServed
  <2> QED BY <2>1, <2>9
<1> QED BY <1>1, <1>2, <1>3, <1>4, <1>5, <1>6, <1>7, <1>8, <1>9, <1>10, <1>11, <1>12, <1>13, <1>14, <1>15,
           <1>16, <1>17 DEF HandlerStep

\* A request: nothing but its own thread changes.
LEMMA RequestServed ==
  ASSUME ServedInv, Serving, BaseInv', BootInv', NEW c \in Clients, Request(c)
  PROVE  ServedInv'
<1>0. c \in Threads /\ thr \in [Threads -> ThreadStates] /\ ServedThread(c)
    BY DEF Threads, ServedInv, BaseInv, TypeOK
<1>1. ~\E i \in Ids : WatchSet(c, i)
    BY DEF WatchSet, Begin, Serving
<1>2. /\ UNCHANGED <<store, live, owner, lastPid, hpid, lastId, auto, watchers, loopIds, bootIds, phase>>
      /\ thr[c].pc = "idle" /\ \A u \in Threads \ {c} : thr'[u] = thr[u]
    BY <1>0, <1>1 DEF Request, StartLookup, StopBegin, RestartBegin, RemoveBegin, EnableBegin,
       DisableBegin, WaitBegin, HealthBegin, UpdateBegin, Target, Begin, diskVars, kernelVars,
       driverVars, mapVars, daemonVars
<1>3. Steady(c) /\ RowsKept /\ ChildKept(c)
    BY <1>2, StoreStays DEF Steady, ServedInv, NoBackground, ChildKept, Holds, Stopping
<1>4. ASSUME NEW op \in {"start", "run"}, NEW n \in Names, NEW r \in BOOLEAN, StartLookup(c, op, n, r)
      PROVE  ServedThread(c)'
  <2>1. thr'[c].pc \in {"scan", "getname"} /\ ~thr'[c].cancelled /\ ~thr'[c].auto
      BY <1>0, <1>4 DEF StartLookup, Idle
  <2> QED BY <1>0, <2>1 DEF ServedThread, AfterStop, HoldsRow, NeedsRow, Editing, Stopping
<1>5. ASSUME NEW i \in Ids, NEW op, NEW s, NEW r, Target(c, op, i, s, r),
             <<s, r>> \in {<<"mstop", "stopinsp">>, <<"mstop", "rlaunch">>, <<"mstop", "rmdel">>,
                           <<"enput", "idle">>, <<"disput", "disend">>, <<"wlook", "idle">>,
                           <<"hprobe", "idle">>, <<"upput", "rlaunch">>}
      PROVE  ServedThread(c)'
  <2>1. /\ thr'[c].pc = s /\ thr'[c].id = i /\ thr'[c].rec = store[i] /\ thr'[c].ret = r
        /\ thr'[c].cancelled = FALSE /\ thr'[c].auto = FALSE
      BY <1>0, <1>5 DEF Target, Idle
  <2>2. store[i].st \in Terminal \/ store[i].succ # 0 => Dead(i)
      BY <1>5 DEF Target, ServedInv, ServedRows
  <2>3. Dead(i) => Dead(thr[c].id)'
      BY <1>2, <2>1 DEF Dead
  <2>4. /\ s \notin AfterStop /\ s \notin {"mwait", "wwait", "uwait", "runget", "runput", "reget"}
        /\ s \in {"mstop", "disput", "upput"} => r # "idle"
        /\ s # "disinsp"
      BY <1>5 DEF AfterStop
  <2> QED BY <1>0, <2>1, <2>2, <2>3, <2>4 DEF ServedThread
<1>6. ServedThread(c)'
    BY <1>1, <1>4, <1>5 DEF Request, StopBegin, RestartBegin, RemoveBegin, EnableBegin, DisableBegin,
       WaitBegin, HealthBegin, UpdateBegin
<1> QED BY <1>0, <1>3, <1>6, SteadyKeeps

LEMMA ServedStep ==
  ASSUME ServedInv, Serving, [Next]_vars
  PROVE  ServedInv'
<1>0. BaseInv' /\ BootInv' /\ BaseInv /\ BootInv
    BY BaseStep DEF ServedInv
<1>t. "loop" \in Threads \ Clients /\ "watch" \in Threads \ Clients /\ "boot" \in Threads \ Clients
    BY LifecycleAssumption DEF Threads
<1>1. ASSUME NEW c \in Clients, HandlerStep(c)  PROVE ServedInv'
  <2>0. c \in Threads
      BY DEF Threads
  <2>1. CASE DriverStep(c)
    <3>1. /\ UNCHANGED <<kernelVars, hpid, diskVars, mapVars, daemonVars>>
          /\ \A u \in Threads \ {c} : thr'[u] = thr[u]
          /\ ServedThread(c)' /\ ChildKept(c)
        BY <2>1, DriverServed
    <3>2. Steady(c) /\ RowsKept
        BY <3>1, StoreStays DEF Steady, ServedInv, NoBackground, kernelVars, diskVars, mapVars, daemonVars
    <3> QED BY <1>0, <2>0, <3>1, <3>2, SteadyKeeps
  <2>2. CASE StartLaunch(c)
    <3>1. PICK u \in {FALSE, HealthURL} : LaunchNew(c, "create", FALSE, u)
        BY <2>2 DEF StartLaunch, Serving
    <3>2. ~Holds(c)
        BY <2>2 DEF StartLaunch, Holds, Stopping
    <3> QED BY <1>0, <3>1, <3>2, LaunchServed
  <2>3. CASE RestartLaunch(c)
    <3>1. LaunchNew(c, "rlink", thr[c].id \in auto, thr[c].id \in url) /\ thr[c].pc = "rlaunch"
        BY <2>3 DEF RestartLaunch
    <3>2. ~Holds(c) /\ HoldsRow(c) /\ thr[c].pc \notin Placeless
        BY <3>1 DEF Holds, Stopping, HoldsRow, NeedsRow, Placeless
    <3>3. Dead(thr[c].id)
        BY <2>0, <3>1 DEF ServedInv, ServedThread, AfterStop, LaunchNew
    <3>4. "rlink" \in {"create", "rlink"}
        OBVIOUS
    <3>5. (thr[c].id \in auto) = FALSE
        BY DEF ServedInv, NoBackground
    <3> QED BY <1>0, <3>1, <3>2, <3>3, <3>4, <3>5, LaunchServed, Zenon
  <2>4. CASE ~DriverStep(c) /\ ~StartLaunch(c) /\ ~RestartLaunch(c)
    <3>1. Steady(c) /\ UNCHANGED <<hpid, live>>
        BY <1>1, <2>4, HandlerSteady
    <3>2. RowsKept /\ ChildKept(c) /\ ServedThread(c)'
        BY <1>1, <2>4, <3>1, HandlerServed
    <3> QED BY <1>0, <2>0, <3>1, <3>2, SteadyKeeps
  <2> QED BY <2>1, <2>2, <2>3, <2>4
<1>2. ASSUME NEW c \in Clients, Cancel(c)  PROVE ServedInv'
  <2>1. c \in Threads /\ thr[c] \in ThreadStates /\ ServedThread(c) /\ ~Patient
      BY <1>2 DEF Threads, ServedInv, BaseInv, TypeOK, Cancel, Patient
  <2>2. /\ thr'[c].pc = thr[c].pc /\ thr'[c].id = thr[c].id /\ thr'[c].pid = thr[c].pid
        /\ thr'[c].rec = thr[c].rec /\ thr'[c].ret = thr[c].ret /\ thr'[c].op = thr[c].op
        /\ thr'[c].cancelled = TRUE /\ thr'[c].auto = thr[c].auto
        /\ \A u \in Threads \ {c} : thr'[u] = thr[u]
      BY <1>2, <2>1 DEF Cancel, ServedInv, BaseInv, TypeOK, ThreadStates
  <2>3. UNCHANGED <<store, live, owner, lastPid, hpid, lastId, auto, watchers, loopIds, bootIds, phase>>
      BY <1>2 DEF Cancel, diskVars, kernelVars, driverVars, mapVars, daemonVars
  <2>4. ServedThread(c)'
    <3>1. (HoldsRow(c)' => HoldsRow(c)) /\ (Dead(thr[c].id) => Dead(thr[c].id)')
        BY <2>2, <2>3 DEF HoldsRow, Dead
    <3> QED BY <2>1, <2>2, <2>3, <3>1 DEF ServedThread
  <2>5. Steady(c) /\ RowsKept /\ ChildKept(c)
      BY <2>1, <2>2, <2>3, StoreStays DEF Steady, ServedInv, NoBackground, ChildKept
  <2> QED BY <1>0, <2>1, <2>4, <2>5, SteadyKeeps
\* Background threads are idle and have nothing to visit.
<1>3. ~LoopStep /\ ~WatchStep /\ ~BootStep /\ ~Crash
  <2>1. thr["loop"].pc = "idle" /\ thr["watch"].pc = "idle" /\ thr["boot"].pc = "idle"
      BY <1>t DEF ServedInv, ServedThread
  <2>2. ASSUME NEW t \in {"loop", "watch"}  PROVE ~RebootStep(t)
      BY <2>1 DEF RebootStep, DriverStep, MgrStop, MgrStopReturn, RebootGet, RebootLookup,
                  RebootSpawn, RebootSpawnFails, RebootRegister, RebootKilled, RebootPut, PutAndReturn
  <2>3. ~LoopStep
      BY <2>1, <2>2 DEF LoopStep, LoopTick, LoopVisit, LoopUnhealthyGet, LoopUnhealthyPut, ServedInv,
                        NoBackground
  <2>4. ~WatchStep
      BY <2>2 DEF WatchStep, WatchEvent, ServedInv, NoBackground
  <2>5. ~BootStep
      BY <2>1 DEF BootStep, BootList, BootVisit, BootLaunch, BootLaunchFails, BootPut, BootFailed,
                  BootServe, PutAndReturn, ServedInv, NoBackground
  <2>6. ~Crash
      BY <1>0 DEF Crash, Serving, BaseInv, TypeOK
  <2> QED BY <2>3, <2>4, <2>5, <2>6
\* A child that ends and a step that changes nothing move no thread.
<1>4. ASSUME UNCHANGED <<store, owner, lastPid, hpid, lastId, auto, watchers, loopIds, bootIds, phase, thr>>,
             live' \subseteq live
      PROVE  ServedInv'
  <2>1. Steady("boot") /\ RowsKept /\ ChildKept("boot")
      BY <1>4, StoreStays DEF Steady, ServedInv, NoBackground, ChildKept, Holds, Stopping
  <2>2. ServedThread("boot")'
    <3>1. ServedThread("boot") /\ thr["boot"].pc = "idle"
        BY <1>t DEF ServedInv, ServedThread
    <3> QED BY <1>4, <3>1 DEF ServedThread, AfterStop, HoldsRow, NeedsRow, Editing, Stopping
  <2> QED BY <1>0, <1>t, <2>1, <2>2, SteadyKeeps
<1>5. ASSUME NEW p \in Pids, Exit(p)  PROVE ServedInv'
    BY <1>4, <1>5 DEF Exit, diskVars, mapVars, daemonVars
<1>6. CASE UNCHANGED vars
    BY <1>4, <1>6 DEF vars, diskVars, kernelVars, driverVars, mapVars, daemonVars
<1> QED BY <1>0, <1>1, <1>2, <1>3, <1>5, <1>6, RequestServed DEF Next

LEMMA ServedInit == Init => ServedInv
<1> SUFFICES ASSUME Init  PROVE ServedInv
    OBVIOUS
<1>1. BaseInv /\ BootInv
    BY BaseInit
<1>2. \A t \in Threads : thr[t] = Idle
    BY DEF Init
<1>3. \A t \in Threads : ServedThread(t)
    BY <1>2 DEF ServedThread, Idle, AfterStop, HoldsRow, NeedsRow, Editing, Stopping
<1>4. NoBackground /\ OneChildEach /\ Covered /\ ServedRows
    BY DEF Init, NoBackground, OneChildEach, Covered, ServedRows, Stored, Ids, Pids
<1> QED BY <1>1, <1>3, <1>4 DEF ServedInv

LEMMA ServedAlways == Serving => (Spec => []ServedInv)
<1>1. ASSUME Serving  PROVE Spec => []ServedInv
  <2>1. ServedInv /\ [Next]_vars => ServedInv'
      BY <1>1, ServedStep
  <2> QED BY <2>1, ServedInit, PTL DEF Spec
<1> QED BY <1>1

\* While the daemon serves clients that wait, every running child has a row or a call
\* that still answers for it, whatever requests for one process or name run at once.
THEOREM ServedIsFound == Serving /\ Patient => (Spec => []NoOrphan)
<1>1. Patient /\ ServedInv => NoOrphan
    BY DEF ServedInv, Covered, Holds, NoOrphan, InCharge, Stopping
<1>2. ASSUME Serving, Patient  PROVE Spec => []NoOrphan
  <2>1. Spec => []ServedInv
      BY <1>2, ServedAlways
  <2>2. ServedInv => NoOrphan
      BY <1>1, <1>2
  <2> QED BY <2>1, <2>2, PTL
<1> QED BY <1>2

\* While it serves, clients that hang up included, no two running children share a
\* name in the inventory ...
THEOREM ServedNamesAreUnique == Serving => (Spec => []OneLivePerName)
<1>1. ServedInv => OneLivePerName
  <2> SUFFICES ASSUME ServedInv, NEW p \in live, NEW q \in live, Stored(owner[p]), Stored(owner[q]),
                      store[owner[p]].name = store[owner[q]].name
               PROVE  p = q
      BY DEF OneLivePerName
  <2>1. /\ hpid[owner[p]] = p /\ hpid[owner[q]] = q /\ owner[p] \in Ids /\ owner[q] \in Ids
      BY DEF ServedInv, BaseInv, TypeOK, Births, OneChildEach
  <2>2. store[owner[p]].succ = 0 /\ store[owner[q]].succ = 0
      BY <2>1 DEF ServedInv, ServedRows, Dead
  <2> QED BY <2>1, <2>2 DEF ServedInv, ServedRows
<1>2. ASSUME Serving  PROVE Spec => []OneLivePerName
  <2>1. Spec => []ServedInv
      BY <1>2, ServedAlways
  <2> QED BY <1>1, <2>1, PTL
<1> QED BY <1>2

\* ... and a row that says exited or failed has no running child.
THEOREM ServedRowsAreSound == Serving => (Spec => []RowsSound)
<1>1. ServedInv => RowsSound
    BY DEF ServedInv, BaseInv, TypeOK, Births, OneChildEach, ServedRows, Dead, RowsSound, TerminalIsDead
<1>2. ASSUME Serving  PROVE Spec => []RowsSound
  <2>1. Spec => []ServedInv
      BY <1>2, ServedAlways
  <2> QED BY <1>1, <2>1, PTL
<1> QED BY <1>2

-----------------------------------------------------------------------------
(* What a row, or a handler's copy of it, says of its child: the PID is one *)
(* that was spawned for this id, whatever stale copy is written back.       *)

Of(p, i) == p \in Pids /\ p <= lastPid /\ owner[p] = i

\* Steps at which a thread carries a PID that goes into its row.
HasPid == {"wwait", "uwait", "waitput", "rbreg", "rbput", "bootput"}

ThreadPids(t) == /\ HoldsRow(t) => Of(thr[t].rec.pid, thr[t].id)
                 /\ thr[t].pc \in HasPid => Of(thr[t].pid, thr[t].id)
RowPids == \A i \in Ids : Stored(i) => Of(store[i].pid, i)
PidInv == BaseInv /\ BootInv /\ RowPids /\ \A t \in Threads : ThreadPids(t)

LEMMA BornStays ==
  ASSUME UNCHANGED <<owner, lastPid>>
  PROVE  \A p, i : Of(p, i) => Of(p, i)'
  BY DEF Of

LEMMA PidKeeps ==
  ASSUME PidInv, BaseInv', BootInv', NEW t \in Threads, \A u \in Threads \ {t} : thr'[u] = thr[u],
         \A p, i : Of(p, i) => Of(p, i)', RowPids', ThreadPids(t)'
  PROVE  PidInv'
<1>1. ASSUME NEW u \in Threads \ {t}  PROVE ThreadPids(u)'
  <2>1. thr'[u] = thr[u] /\ ThreadPids(u)
      BY DEF PidInv
  <2>2. HoldsRow(u)' => HoldsRow(u)
      BY <2>1 DEF HoldsRow
  <2> QED BY <2>1, <2>2 DEF ThreadPids
<1> QED BY <1>1 DEF PidInv

LEMMA PidsStay ==
  ASSUME PidInv, UNCHANGED store, \A p, i : Of(p, i) => Of(p, i)'
  PROVE  RowPids'
  BY DEF PidInv, RowPids, Stored

LEMMA PidWritten ==
  ASSUME PidInv, UNCHANGED <<owner, lastPid>>, NEW t \in Threads, NEW row \in Rows, Update(t, row),
         Of(row.pid, thr[t].id)
  PROVE  RowPids'
<1>1. \A p, i : Of(p, i) => Of(p, i)'
    BY BornStays
<1>2. CASE ~UpdateOK(t, row)
    BY <1>1, <1>2, PidsStay DEF Update
<1>3. CASE UpdateOK(t, row)
  <2>1. ASSUME NEW j \in Ids  PROVE store'[j] = IF j = thr[t].id THEN row ELSE store[j]
      BY <1>3 DEF Update, PidInv, BaseInv, TypeOK
  <2> QED BY <1>1, <2>1 DEF RowPids, PidInv, Stored
<1> QED BY <1>2, <1>3

LEMMA DonePids ==
  ASSUME PidInv, NEW t \in Threads, Done(t)
  PROVE  ThreadPids(t)' /\ \A u \in Threads \ {t} : thr'[u] = thr[u]
<1>1. thr'[t].pc = "idle"
    BY DEF Done, PidInv, BaseInv, TypeOK, Idle
<1> QED BY <1>1 DEF ThreadPids, HoldsRow, NeedsRow, Editing, Stopping, HasPid, Done, PidInv, BaseInv, TypeOK

\* A thread that only moves keeps its row and its PID.
LEMMA MovePids ==
  ASSUME PidInv, NEW t \in Threads, \A p, i : Of(p, i) => Of(p, i)',
         thr'[t].id = thr[t].id, thr'[t].rec.pid = thr[t].rec.pid, thr'[t].pid = thr[t].pid,
         HoldsRow(t)' => HoldsRow(t), thr'[t].pc \in HasPid => thr[t].pc \in HasPid
  PROVE  ThreadPids(t)'
  BY DEF PidInv, ThreadPids

LEMMA GotoPids ==
  ASSUME PidInv, NEW t \in Threads, NEW s, Goto(t, s), UNCHANGED <<owner, lastPid>>,
         s \in NeedsRow \/ (s \in Stopping /\ thr[t].ret \in NeedsRow) => HoldsRow(t),
         s \in HasPid => thr[t].pc \in HasPid
  PROVE  ThreadPids(t)' /\ \A u \in Threads \ {t} : thr'[u] = thr[u]
<1>1. thr[t] \in ThreadStates /\ thr \in [Threads -> ThreadStates]
    BY DEF PidInv, BaseInv, TypeOK
<1>2. /\ thr'[t].pc = s /\ thr'[t].id = thr[t].id /\ thr'[t].rec = thr[t].rec
      /\ thr'[t].pid = thr[t].pid /\ thr'[t].ret = thr[t].ret
      /\ \A u \in Threads \ {t} : thr'[u] = thr[u]
    BY <1>1 DEF Goto, ThreadStates
<1>3. HoldsRow(t)' => HoldsRow(t)
    BY <1>2 DEF HoldsRow
<1> QED BY <1>2, <1>3, BornStays, MovePids

\* A thread that goes on with another row.
LEMMA RowPid ==
  ASSUME PidInv, NEW t \in Threads, NEW s, s \notin HasPid, NEW row, Of(row.pid, thr[t].id),
         thr' = [thr EXCEPT ![t].pc = s, ![t].rec = row], UNCHANGED <<owner, lastPid>>
  PROVE  ThreadPids(t)' /\ \A u \in Threads \ {t} : thr'[u] = thr[u]
<1>1. thr[t] \in ThreadStates /\ thr \in [Threads -> ThreadStates]
    BY DEF PidInv, BaseInv, TypeOK
<1>2. /\ thr'[t].pc = s /\ thr'[t].id = thr[t].id /\ thr'[t].rec = row
      /\ \A u \in Threads \ {t} : thr'[u] = thr[u]
    BY <1>1 DEF ThreadStates
<1> QED BY <1>2, BornStays DEF ThreadPids

LEMMA PutPids ==
  ASSUME PidInv, BaseInv', BootInv', NEW t \in Threads, NEW s, NEW row \in Rows, PutAndReturn(t, s, row),
         Of(row.pid, thr[t].id)
  PROVE  PidInv'
<1>1. Update(t, row) /\ Done(t) /\ UNCHANGED <<owner, lastPid>>
    BY DEF PutAndReturn, kernelVars
<1> QED BY <1>1, BornStays, PidWritten, DonePids, PidKeeps

LEMMA DriverPids ==
  ASSUME PidInv, BaseInv', BootInv', NEW t \in Threads, DriverStep(t)
  PROVE  PidInv'
<1>1. /\ thr[t] \in ThreadStates /\ thr \in [Threads -> ThreadStates] /\ ThreadOK(t)
      /\ thr[t].pc \in Stopping /\ UNCHANGED <<store, owner, lastPid>>
    BY DEF PidInv, BaseInv, TypeOK, DriverStep, MgrStop, MgrStopReturn, Stopping, diskVars, kernelVars
<1>2. \A p, i : Of(p, i) => Of(p, i)'
    BY <1>1, BornStays
<1>3. ASSUME Resume(t, thr[t].ret)  PROVE ThreadPids(t)' /\ \A u \in Threads \ {t} : thr'[u] = thr[u]
  <2>1. CASE thr[t].ret # "idle"
    <3>1. PICK s \in Returns : s = thr[t].ret /\ Goto(t, s)
        BY <1>1, <1>3, <2>1 DEF Resume, ThreadOK
    <3>2. s \notin HasPid /\ s \notin Stopping
        BY DEF Returns, HasPid, Stopping
    <3>3. s \in NeedsRow => HoldsRow(t)
        BY <1>1, <3>1 DEF HoldsRow
    <3> QED BY <1>1, <3>1, <3>2, <3>3, GotoPids
  <2> QED BY <1>3, <2>1, DonePids DEF Resume
<1>4. ASSUME thr' = [thr EXCEPT ![t].pc = "mwait", ![t].pid = hpid[thr[t].id]]
      PROVE  ThreadPids(t)' /\ \A u \in Threads \ {t} : thr'[u] = thr[u]
  <2>1. /\ thr'[t].pc = "mwait" /\ thr'[t].id = thr[t].id /\ thr'[t].rec = thr[t].rec
        /\ thr'[t].ret = thr[t].ret /\ \A u \in Threads \ {t} : thr'[u] = thr[u]
      BY <1>1, <1>4 DEF ThreadStates
  <2>2. HoldsRow(t)' => HoldsRow(t)
      BY <1>1, <2>1 DEF HoldsRow, Stopping, NeedsRow, Editing
  <2> QED BY <1>2, <2>1, <2>2 DEF ThreadPids, HasPid, PidInv
<1>5. ThreadPids(t)' /\ \A u \in Threads \ {t} : thr'[u] = thr[u]
    BY <1>3, <1>4, DonePids DEF DriverStep, MgrStop, MgrStopReturn, StopError
<1> QED BY <1>1, <1>2, <1>5, PidsStay, PidKeeps

LEMMA RequestPids ==
  ASSUME PidInv, BaseInv', BootInv', NEW c \in Clients, Request(c) \/ Cancel(c)
  PROVE  PidInv'
<1>0. /\ c \in Threads /\ thr[c] \in ThreadStates /\ thr \in [Threads -> ThreadStates]
      /\ UNCHANGED <<store, owner, lastPid>>
    BY DEF Threads, PidInv, BaseInv, TypeOK, Request, Cancel, StartLookup, StopBegin, RestartBegin,
       RemoveBegin, EnableBegin, DisableBegin, WaitBegin, HealthBegin, UpdateBegin, WatchSet, Target,
       diskVars, kernelVars
<1>1. \A p, i : Of(p, i) => Of(p, i)'
    BY <1>0, BornStays
<1>2. \A u \in Threads \ {c} : thr'[u] = thr[u]
    BY <1>0 DEF Request, Cancel, StartLookup, StopBegin, RestartBegin, RemoveBegin, EnableBegin,
       DisableBegin, WaitBegin, HealthBegin, UpdateBegin, WatchSet, Target
<1>3. ASSUME NEW op \in {"start", "run"}, NEW n \in Names, NEW r \in BOOLEAN, StartLookup(c, op, n, r)
      PROVE  ThreadPids(c)'
  <2>1. thr'[c].pc \in {"scan", "getname"}
      BY <1>0, <1>3 DEF StartLookup, Idle
  <2> QED BY <2>1 DEF ThreadPids, HoldsRow, NeedsRow, Editing, Stopping, HasPid
<1>4. ASSUME NEW i \in Ids, NEW op, NEW s, NEW r, Target(c, op, i, s, r), s \notin HasPid
      PROVE  ThreadPids(c)'
  <2>1. /\ thr'[c].pc = s /\ thr'[c].id = i /\ thr'[c].rec = store[i]
      BY <1>0, <1>4 DEF Target, Idle
  <2>2. Of(store[i].pid, i)
      BY <1>4 DEF Target, PidInv, RowPids
  <2> QED BY <1>1, <1>4, <2>1, <2>2 DEF ThreadPids
<1>5. CASE Cancel(c)
  <2>1. /\ thr'[c].pc = thr[c].pc /\ thr'[c].id = thr[c].id /\ thr'[c].pid = thr[c].pid
        /\ thr'[c].rec = thr[c].rec /\ thr'[c].ret = thr[c].ret
      BY <1>0, <1>5 DEF Cancel, ThreadStates
  <2>2. HoldsRow(c)' => HoldsRow(c)
      BY <2>1 DEF HoldsRow
  <2> QED BY <1>0, <1>1, <1>2, <2>1, <2>2, MovePids, PidsStay, PidKeeps
<1>6. ASSUME NEW i \in Ids, WatchSet(c, i)  PROVE ThreadPids(c)'
    BY <1>0, <1>1, <1>6 DEF WatchSet, ThreadPids, HoldsRow, PidInv
<1>7. Request(c) => ThreadPids(c)'
    BY <1>3, <1>4, <1>6 DEF Request, StopBegin, RestartBegin, RemoveBegin, EnableBegin, DisableBegin,
       WaitBegin, HealthBegin, UpdateBegin, HasPid
<1> QED BY <1>0, <1>1, <1>2, <1>5, <1>7, PidsStay, PidKeeps

\* A handler: what it writes back is a PID of its own process, however old its copy is.
LEMMA HandlerPids ==
  ASSUME PidInv, BaseInv', BootInv', NEW c \in Clients, HandlerStep(c),
         ~DriverStep(c), ~StartLaunch(c), ~RestartLaunch(c)
  PROVE  PidInv'
<1>0. /\ c \in Threads /\ thr[c] \in ThreadStates /\ ThreadOK(c) /\ ThreadPids(c)
      /\ thr \in [Threads -> ThreadStates]
    BY DEF Threads, PidInv, BaseInv, TypeOK
<1>o. UNCHANGED <<owner, lastPid>>
    BY DEF HandlerStep, StartGetName, StartUnname, StartScan, StartClaim, ReplaceDelete, ReplaceMaps,
           LaunchNewFails, StartCreate, StartPublish, RunGet, RunPut, Reget, StopInspect, StopPut,
           RestartLink, RestartCreate, RestartPublish, RemoveDelete, RemoveMaps, EnablePut, DisablePut,
           DisableInspect, DisableEnd, WaitLook, WaitReturn, WaitPut, HealthProbe, HealthPut, UpdatePut,
           PutAndReturn, kernelVars
<1>b. \A p, i : Of(p, i) => Of(p, i)'
    BY <1>o, BornStays
<1>u. \A u \in Threads \ {c} : thr'[u] = thr[u]
    BY <1>0 DEF HandlerStep, StartGetName, StartUnname, StartScan, StartClaim, ReplaceDelete, ReplaceMaps,
           LaunchNewFails, StartCreate, StartPublish, RunGet, RunPut, Reget, StopInspect, StopPut,
           RestartLink, RestartCreate, RestartPublish, RemoveDelete, RemoveMaps, EnablePut, DisablePut,
           DisableInspect, DisableEnd, WaitLook, WaitReturn, WaitPut, HealthProbe, HealthPut, UpdatePut,
           PutAndReturn, UndoLaunch, Done, Goto
<1> SUFFICES RowPids' /\ ThreadPids(c)'
    BY <1>0, <1>b, <1>u, PidKeeps
<1>w. thr[c].pc \notin Placeless => thr[c].id \in Ids /\ thr[c].id <= lastId
    BY <1>0 DEF ThreadOK
<1>h. thr[c].pc \in Editing => /\ thr[c].rec \in Rows /\ HoldsRow(c) /\ thr[c].id \in Ids
                               /\ Of(thr[c].rec.pid, thr[c].id)
    BY <1>0, <1>w, AtWork DEF Editing, Placeless, ThreadPids, PidInv
<1>q. store' = store => RowPids'
    BY <1>b, PidsStay
<1>d. Done(c) => ThreadPids(c)'
    BY <1>0, DonePids
<1>g. ASSUME NEW s \in {"unname", "scan", "claim", "launch", "replmaps", "reget", "rmmaps", "publish",
                        "rpublish", "rcreate"}, Goto(c, s)
      PROVE  ThreadPids(c)'
  <2>1. s \notin NeedsRow \cup Stopping \cup HasPid
      BY DEF NeedsRow, Editing, Stopping, HasPid
  <2> QED BY <1>0, <1>o, <1>g, <2>1, GotoPids
\* A handler that writes its last row and returns.
<1>p. ASSUME NEW s \in Editing, NEW row \in Rows, PutAndReturn(c, s, row), Of(row.pid, thr[c].id)
      PROVE  RowPids' /\ ThreadPids(c)'
    BY <1>0, <1>d, <1>o, <1>p, PidWritten DEF PutAndReturn
\* A handler that goes on with a row of its process.
<1>r. ASSUME NEW s, s \notin HasPid, NEW row, Of(row.pid, thr[c].id),
             thr' = [thr EXCEPT ![c].pc = s, ![c].rec = row]
      PROVE  ThreadPids(c)'
    BY <1>0, <1>o, <1>r, RowPid
<1>1. CASE StartGetName(c) \/ StartUnname(c) \/ LaunchNewFails(c) \/ ReplaceMaps(c) \/ RemoveMaps(c)
           \/ RestartPublish(c)
    BY <1>1, <1>d, <1>g, <1>q DEF StartGetName, StartUnname, LaunchNewFails, ReplaceMaps, RemoveMaps,
                                  RestartPublish, diskVars
<1>2. CASE StartScan(c) \/ StartClaim(c)
  <2>1. RowPids'
      BY <1>2, <1>q DEF StartScan, StartClaim, diskVars
  <2>2. ASSUME NEW i, thr' = [thr EXCEPT ![c].pc = "claim", ![c].id = i]
        PROVE  ThreadPids(c)'
    <3>1. thr'[c].pc = "claim"
        BY <1>0, <2>2 DEF ThreadStates
    <3> QED BY <3>1 DEF ThreadPids, HoldsRow, NeedsRow, Editing, Stopping, HasPid
  <2>3. ASSUME thr' = [thr EXCEPT ![c].pc = "mstop", ![c].ret = "repldel"]
        PROVE  ThreadPids(c)'
    <3>1. thr'[c].pc = "mstop" /\ thr'[c].ret = "repldel"
        BY <1>0, <2>3 DEF ThreadStates
    <3> QED BY <3>1 DEF ThreadPids, HoldsRow, NeedsRow, Editing, Stopping, HasPid
  <2> QED BY <1>2, <1>d, <1>g, <2>1, <2>2, <2>3 DEF StartScan, StartClaim
<1>3. CASE ReplaceDelete(c) \/ RemoveDelete(c)
  <2>1. store' = store \/ store' = [store EXCEPT ![thr[c].id] = NoRec]
      BY <1>3 DEF ReplaceDelete, RemoveDelete
  <2>2. RowPids'
      BY <1>b, <1>q, <2>1 DEF RowPids, PidInv, Stored, BaseInv, TypeOK
  <2> QED BY <1>3, <1>d, <1>g, <2>2 DEF ReplaceDelete, RemoveDelete
<1>4. CASE StartCreate(c) \/ RestartCreate(c)
  <2>1. /\ thr[c].new \in Ids /\ thr[c].pid \in Pids
        /\ thr[c].pid <= lastPid /\ owner[thr[c].pid] = thr[c].new
      BY <1>0, <1>4 DEF StartCreate, RestartCreate, ThreadOK, HasNew
  <2>2. FreshRow(c).pid = thr[c].pid /\ Of(thr[c].pid, thr[c].new)
      BY <2>1 DEF FreshRow, Of
  <2>3. store' = store \/ store' = [store EXCEPT ![thr[c].new] = FreshRow(c)]
      BY <1>4 DEF StartCreate, RestartCreate
  <2>4. RowPids'
    <3> HIDE DEF RowPids
    <3>1. CASE store' = [store EXCEPT ![thr[c].new] = FreshRow(c)]
        BY <1>b, <2>2, <3>1 DEF RowPids, PidInv, Stored, BaseInv, TypeOK
    <3> QED BY <1>q, <2>3, <3>1
  <2>5. UndoLaunch(c) => ThreadPids(c)'
    <3> SUFFICES ASSUME UndoLaunch(c)  PROVE ThreadPids(c)'
        OBVIOUS
    <3>1. thr'[c].pc = "mstop" /\ thr'[c].ret = "idle"
        BY <1>0 DEF UndoLaunch, ThreadStates
    <3> QED BY <3>1 DEF ThreadPids, HoldsRow, NeedsRow, Editing, Stopping, HasPid
  <2> QED BY <1>4, <1>g, <2>4, <2>5 DEF StartCreate, RestartCreate
<1>5. CASE StartPublish(c)
  <2>1. ASSUME thr' = [thr EXCEPT ![c].pc = "runget", ![c].id = thr[c].new]
        PROVE  ThreadPids(c)'
    <3>1. thr'[c].pc = "runget"
        BY <1>0, <2>1 DEF ThreadStates
    <3> QED BY <3>1 DEF ThreadPids, HoldsRow, NeedsRow, Editing, Stopping, HasPid
  <2> QED BY <1>5, <1>d, <1>q, <2>1 DEF StartPublish, diskVars
<1>6. CASE RunGet(c) \/ Reget(c)
  <2>1. RowPids' /\ thr[c].pc \notin Placeless
      BY <1>6, <1>q DEF RunGet, Reget, Placeless, diskVars
  <2>2. CASE Reach(c, thr[c].id)
    <3>1. PICK s \in {"runput", "wlook", "mstop"} :
            thr' = [thr EXCEPT ![c].pc = s, ![c].rec = store[thr[c].id]]
        BY <1>6, <2>2 DEF RunGet, Reget
    <3>2. Of(store[thr[c].id].pid, thr[c].id)
        BY <1>w, <2>1, <2>2 DEF Reach, PidInv, RowPids
    <3>3. s \notin HasPid
        BY DEF HasPid
    <3> QED BY <1>r, <2>1, <3>1, <3>2, <3>3
  <2> QED BY <1>6, <1>d, <2>1, <2>2 DEF RunGet, Reget
<1>7. CASE RunPut(c) \/ UpdatePut(c) \/ RestartLink(c)
  <2>1. thr[c].pc \in Editing
      BY <1>7 DEF RunPut, UpdatePut, RestartLink, Editing
  <2>2. PICK row \in Rows : Update(c, row) /\ row.pid = thr[c].rec.pid
    <3>1. /\ [thr[c].rec EXCEPT !.desired = "stopped"] \in Rows
          /\ [thr[c].rec EXCEPT !.desired = "stopped"].pid = thr[c].rec.pid
        BY <1>h, <2>1 DEF Rows
    <3>2. /\ [thr[c].rec EXCEPT !.st = "exited", !.desired = "stopped", !.succ = thr[c].new] \in Rows
          /\ [thr[c].rec EXCEPT !.st = "exited", !.desired = "stopped", !.succ = thr[c].new].pid
               = thr[c].rec.pid
        BY <1>0, <1>h, <2>1 DEF Rows, RowStatuses, ThreadStates
    <3> QED BY <1>7, <1>h, <2>1, <3>1, <3>2 DEF RunPut, UpdatePut, RestartLink
  <2>3. RowPids'
      BY <1>0, <1>h, <1>o, <2>1, <2>2, PidWritten
  <2> QED BY <1>7, <1>d, <1>g, <2>3 DEF RunPut, UpdatePut, RestartLink
<1>8. CASE StopInspect(c)
  <2> DEFINE e == IF Status(thr[c].id) = "absent" THEN "exited" ELSE Status(thr[c].id)
             row == [thr[c].rec EXCEPT !.desired = "stopped", !.st = e]
  <2>1. thr[c].pc \in Editing
      BY <1>8 DEF StopInspect, Editing
  <2> HIDE DEF e
  <2>2. row.pid = thr[c].rec.pid
      BY <1>h, <2>1 DEF Rows
  <2>3. thr' = [thr EXCEPT ![c].pc = "stopput", ![c].rec = row]
      BY <1>0, <1>8 DEF StopInspect, ThreadStates, e
  <2> HIDE DEF row
  <2>4. "stopput" \notin HasPid
      BY DEF HasPid
  <2>5. ThreadPids(c)'
      BY <1>h, <1>r, <2>1, <2>2, <2>3, <2>4
  <2> QED BY <1>8, <1>q, <2>5 DEF StopInspect, diskVars
<1>9. CASE StopPut(c) \/ HealthPut(c)
    BY <1>9, <1>h, <1>p DEF StopPut, HealthPut, PutAndReturn, Editing
<1>10. CASE EnablePut(c) \/ DisableEnd(c)
  <2>1. thr[c].pc \in Editing
      BY <1>10 DEF EnablePut, DisableEnd, PutAndReturn, Editing
  <2>2. PICK s \in Editing, row \in Rows : PutAndReturn(c, s, row) /\ row.pid = thr[c].rec.pid
    <3>1. /\ [thr[c].rec EXCEPT !.desired = "running"] \in Rows
          /\ [thr[c].rec EXCEPT !.desired = "running"].pid = thr[c].rec.pid
        BY <1>h, <2>1 DEF Rows
    <3>2. /\ [thr[c].rec EXCEPT !.st = "exited"] \in Rows
          /\ [thr[c].rec EXCEPT !.st = "exited"].pid = thr[c].rec.pid
        BY <1>h, <2>1 DEF Rows, RowStatuses
    <3> QED BY <1>10, <3>1, <3>2 DEF EnablePut, DisableEnd, Editing
  <2> QED BY <1>h, <1>p, <2>1, <2>2
<1>11. CASE WaitPut(c)
  <2> DEFINE row == [thr[c].rec EXCEPT !.st = "exited", !.pid = thr[c].pid]
  <2>1. /\ thr[c].pc \in Editing /\ thr[c].pc \in HasPid /\ "waitput" \in Editing
        /\ PutAndReturn(c, "waitput", row)
      BY <1>11 DEF WaitPut, PutAndReturn, Editing, HasPid
  <2>2. row \in Rows /\ row.pid = thr[c].pid
      BY <1>0, <1>h, <2>1 DEF Rows, RowStatuses, ThreadStates
  <2> HIDE DEF row
  <2>3. Of(row.pid, thr[c].id)
      BY <1>0, <2>1, <2>2 DEF ThreadPids
  <2> QED BY <1>p, <2>1, <2>2, <2>3
<1>12. CASE DisablePut(c)
  <2> DEFINE row == [thr[c].rec EXCEPT !.desired = "stopped"]
  <2>1. /\ thr[c].pc \in Editing /\ Update(c, row)
        /\ Done(c) \/ thr' = [thr EXCEPT ![c].pc = "disinsp", ![c].rec = row]
      BY <1>12 DEF DisablePut, Editing
  <2>2. row \in Rows /\ row.pid = thr[c].rec.pid
      BY <1>h, <2>1 DEF Rows
  <2> HIDE DEF row
  <2>3. RowPids'
      BY <1>0, <1>h, <1>o, <2>1, <2>2, PidWritten
  <2>4. "disinsp" \notin HasPid
      BY DEF HasPid
  <2> QED BY <1>d, <1>h, <1>r, <2>1, <2>2, <2>3, <2>4
<1>13. CASE DisableInspect(c)
  <2>1. HoldsRow(c) /\ "mstop" \notin HasPid
      BY <1>13 DEF DisableInspect, HoldsRow, NeedsRow, Editing, HasPid
  <2>2. Goto(c, "mstop") => ThreadPids(c)'
      BY <1>0, <1>o, <2>1, GotoPids
  <2> QED BY <1>13, <1>d, <1>q, <2>2 DEF DisableInspect, diskVars
<1>14. CASE WaitLook(c)
  <2>1. thr[c].pc \in Editing
      BY <1>14 DEF WaitLook, Editing
  <2>2. ASSUME NEW s \in {"wwait", "uwait"},
               thr' = [thr EXCEPT ![c].pc = s, ![c].pid = hpid[thr[c].id]],
               Status(thr[c].id) # "absent"
        PROVE  ThreadPids(c)'
    <3>1. /\ thr'[c].pid = hpid[thr[c].id] /\ thr'[c].id = thr[c].id /\ thr'[c].rec = thr[c].rec
        BY <1>0, <2>2 DEF ThreadStates
    <3>2. hpid[thr[c].id] # 0 /\ hpid[thr[c].id] \in 0..MaxPids
        BY <1>h, <2>1, <2>2 DEF Status, PidInv, BaseInv, TypeOK, Pids
    <3>3. Of(hpid[thr[c].id], thr[c].id)
      <4>1. hpid[thr[c].id] \in Pids
          BY <3>2, LifecycleAssumption DEF Pids
      <4> QED BY <1>h, <2>1, <3>2, <4>1 DEF Of, PidInv, BaseInv, Births
    <3> QED BY <1>b, <1>h, <2>1, <3>1, <3>3 DEF ThreadPids
  <2> QED BY <1>14, <1>d, <1>q, <2>2 DEF WaitLook, diskVars
<1>15. CASE WaitReturn(c)
  <2>1. HoldsRow(c) /\ thr[c].pc \in HasPid
      BY <1>15 DEF WaitReturn, HoldsRow, NeedsRow, Editing, HasPid
  <2>2. Goto(c, "waitput") => ThreadPids(c)'
      BY <1>0, <1>o, <2>1, GotoPids
  <2> QED BY <1>15, <1>d, <1>q, <2>2 DEF WaitReturn, diskVars
<1>16. CASE HealthProbe(c)
  <2>1. thr[c].pc \in Editing
      BY <1>16 DEF HealthProbe, Editing
  <2>2. PICK p, st :
          /\ thr' = [thr EXCEPT ![c].pc = "hput", ![c].rec.pid = p, ![c].rec.st = st]
          /\ p = thr[c].rec.pid \/ (p = hpid[thr[c].id] /\ Status(thr[c].id) = "running")
    <3>1. PICK healthy \in IF thr[c].id \in url THEN {TRUE, FALSE} ELSE {Status(thr[c].id) = "running"} :
            thr' = [thr EXCEPT ![c].pc = "hput",
                      ![c].rec.pid = IF thr[c].id \notin url /\ healthy THEN hpid[thr[c].id] ELSE @,
                      ![c].rec.st = IF ~healthy THEN "unhealthy"
                                    ELSE IF thr[c].id \notin url \/ @ = "unhealthy" THEN "running"
                                    ELSE @]
        BY <1>16, Zenon DEF HealthProbe
    <3>2. thr[c].id \notin url /\ healthy => Status(thr[c].id) = "running"
        BY <3>1
    <3> QED BY <1>0, <3>1, <3>2 DEF ThreadStates
  <2>3. Of(p, thr[c].id)
    <3>1. CASE p = hpid[thr[c].id] /\ Status(thr[c].id) = "running"
      <4>1. p \in Pids
          BY <1>h, <2>1, <3>1, LifecycleAssumption DEF Status, PidInv, BaseInv, TypeOK, Pids
      <4> QED BY <1>h, <2>1, <3>1, <4>1 DEF Of, Pids, PidInv, BaseInv, Births
    <3> QED BY <1>h, <2>1, <2>2, <3>1
  <2>4. /\ thr'[c].pc = "hput" /\ thr'[c].id = thr[c].id /\ thr'[c].rec.pid = p
      BY <1>0, <1>h, <2>1, <2>2 DEF ThreadStates, Rows
  <2>5. ThreadPids(c)'
      BY <1>b, <2>3, <2>4 DEF ThreadPids, HasPid
  <2> QED BY <1>16, <1>q, <2>5 DEF HealthProbe, diskVars
<1> QED BY <1>1, <1>2, <1>3, <1>4, <1>5, <1>6, <1>7, <1>8, <1>9, <1>10, <1>11, <1>12, <1>13, <1>14, <1>15,
           <1>16 DEF HandlerStep

\* A launch: the child is new, and its PID is the launcher's.
LEMMA LaunchPids ==
  ASSUME PidInv, BaseInv', BootInv', NEW t \in Threads, NEW i \in Ids, NEW s, NewChild(i), UNCHANGED store,
         \A u \in Threads \ {t} : thr'[u] = thr[u],
         thr'[t].pc = s, thr'[t].id = thr[t].id, thr'[t].rec = thr[t].rec, thr'[t].pid = lastPid',
         s \in NeedsRow => HoldsRow(t), s \notin Stopping, s \in HasPid => thr[t].id = i
  PROVE  PidInv' /\ \A p, j : Of(p, j) => Of(p, j)'
<1>1. /\ lastPid' \in Pids /\ lastPid \in Nat /\ lastPid' = lastPid + 1
      /\ owner' = [owner EXCEPT ![lastPid'] = i]
    BY LifecycleAssumption DEF NewChild, PidInv, BaseInv, TypeOK, Pids
<1>2. \A p, j : Of(p, j) => Of(p, j)'
    BY <1>1 DEF Of, PidInv, BaseInv, TypeOK, Pids
<1>3. owner'[lastPid'] = i
    BY <1>1 DEF PidInv, BaseInv, TypeOK
<1>4. HoldsRow(t)' => HoldsRow(t)
    BY DEF HoldsRow
<1>5. ThreadPids(t)'
    BY <1>1, <1>2, <1>3, <1>4 DEF ThreadPids, PidInv, Of, Pids
<1> QED BY <1>2, <1>5, PidsStay, PidKeeps

LEMMA LaunchNewPids ==
  ASSUME PidInv, BaseInv', BootInv', NEW c \in Clients, NEW s \in {"create", "rlink"}, NEW a, NEW u,
         LaunchNew(c, s, a, u), s = "rlink" => HoldsRow(c)
  PROVE  PidInv'
<1>1. /\ c \in Threads /\ thr[c] \in ThreadStates /\ thr \in [Threads -> ThreadStates]
      /\ lastId \in Nat
    BY LifecycleAssumption DEF Threads, PidInv, BaseInv, TypeOK
<1>2. PICK i \in Ids : i = lastId'
    BY <1>1, LifecycleAssumption DEF LaunchNew, Ids
<1>3. NewChild(i) /\ UNCHANGED store
    BY <1>2 DEF LaunchNew, Spawn, diskVars
<1>4. /\ thr'[c].pc = s /\ thr'[c].id = thr[c].id /\ thr'[c].rec = thr[c].rec
      /\ thr'[c].pid = lastPid' /\ \A w \in Threads \ {c} : thr'[w] = thr[w]
    BY <1>1 DEF LaunchNew, ThreadStates
<1>5. (s \in NeedsRow => HoldsRow(c)) /\ s \notin Stopping \cup HasPid
    BY DEF NeedsRow, Editing, Stopping, HasPid
<1> QED BY <1>1, <1>3, <1>4, <1>5, LaunchPids

LEMMA LaunchAgainPids ==
  ASSUME PidInv, BaseInv', BootInv', NEW t \in Threads, NEW s \in {"rbreg", "bootput"},
         NewChild(thr[t].id), thr' = [thr EXCEPT ![t].pc = s, ![t].pid = lastPid'],
         UNCHANGED store, thr[t].pc \in {"rbspawn", "bootlaunch"}
  PROVE  PidInv'
<1>1. /\ thr[t] \in ThreadStates /\ thr \in [Threads -> ThreadStates] /\ thr[t].id \in Ids
    BY DEF PidInv, BaseInv, TypeOK, ThreadOK, Placeless
<1>2. PICK i \in Ids : i = thr[t].id /\ NewChild(i)
    BY <1>1
<1>3. /\ thr'[t].pc = s /\ thr'[t].id = thr[t].id /\ thr'[t].rec = thr[t].rec
      /\ thr'[t].pid = lastPid' /\ \A w \in Threads \ {t} : thr'[w] = thr[w]
    BY <1>1 DEF ThreadStates
<1>4. HoldsRow(t) /\ s \notin Stopping
    BY DEF HoldsRow, NeedsRow, Editing, Stopping
<1> QED BY <1>2, <1>3, <1>4, LaunchPids

\* restartByID, for the loop and for the watcher.
LEMMA RebootPids ==
  ASSUME PidInv, BaseInv', BootInv', NEW t \in {"loop", "watch"}, RebootStep(t)
  PROVE  PidInv'
<1>0. /\ t \in Threads \ Clients /\ thr[t] \in ThreadStates /\ ThreadOK(t) /\ ThreadPids(t)
      /\ thr \in [Threads -> ThreadStates]
    BY LifecycleAssumption DEF Threads, PidInv, BaseInv, TypeOK
<1>w. thr[t].pc \notin Placeless => thr[t].id \in Ids
    BY <1>0 DEF ThreadOK
<1>1. CASE DriverStep(t)
    BY <1>0, <1>1, DriverPids
<1>2. CASE RebootGet(t)
  <2>1. UNCHANGED <<store, owner, lastPid>> /\ thr[t].id \in Ids
      BY <1>2, <1>w DEF RebootGet, diskVars, kernelVars, Placeless
  <2>2. CASE Done(t)
      BY <1>0, <2>1, <2>2, BornStays, DonePids, PidsStay, PidKeeps
  <2>3. CASE ~Done(t)
    <3>1. /\ thr' = [thr EXCEPT ![t].pc = "mstop", ![t].ret = "rblaunch", ![t].rec = store[thr[t].id]]
          /\ Stored(thr[t].id)
        BY <1>2, <2>3 DEF RebootGet
    <3>2. /\ thr'[t].pc = "mstop" /\ thr'[t].id = thr[t].id /\ thr'[t].rec = store[thr[t].id]
          /\ \A u \in Threads \ {t} : thr'[u] = thr[u]
        BY <1>0, <3>1 DEF ThreadStates
    <3>3. Of(store[thr[t].id].pid, thr[t].id)
        BY <2>1, <3>1 DEF PidInv, RowPids
    <3>4. ThreadPids(t)'
        BY <2>1, <3>2, <3>3, BornStays DEF ThreadPids, HasPid
    <3> QED BY <1>0, <2>1, <3>2, <3>4, BornStays, PidsStay, PidKeeps
  <2> QED BY <2>2, <2>3
<1>3. CASE RebootSpawn(t)
    BY <1>0, <1>3, LaunchAgainPids DEF RebootSpawn, diskVars
<1>4. CASE RebootLookup(t) \/ RebootSpawnFails(t) \/ RebootRegister(t) \/ RebootKilled(t)
  <2>1. UNCHANGED <<store, owner, lastPid>>
      BY <1>4 DEF RebootLookup, RebootSpawnFails, RebootRegister, RebootKilled, diskVars, kernelVars
  <2>2. CASE Done(t)
      BY <1>0, <2>1, <2>2, BornStays, DonePids, PidsStay, PidKeeps
  <2>3. CASE ~Done(t)
    <3>1. PICK s \in {"rbspawn", "rbput", "rbkill"} :
            Goto(t, s) /\ HoldsRow(t) /\ (s \in HasPid => thr[t].pc = "rbreg")
        BY <1>4, <2>3 DEF RebootLookup, RebootSpawnFails, RebootRegister, RebootKilled, HoldsRow, NeedsRow,
                          Editing, HasPid
    <3>2. s \in HasPid => thr[t].pc \in HasPid
        BY <3>1 DEF HasPid
    <3>3. ThreadPids(t)' /\ \A u \in Threads \ {t} : thr'[u] = thr[u]
        BY <1>0, <2>1, <3>1, <3>2, GotoPids
    <3> QED BY <1>0, <2>1, <3>3, BornStays, PidsStay, PidKeeps
  <2> QED BY <2>2, <2>3
<1>5. CASE RebootPut(t)
  <2> DEFINE row == [thr[t].rec EXCEPT !.st = "running", !.desired = "running", !.pid = thr[t].pid]
  <2>1. thr[t].pc = "rbput" /\ PutAndReturn(t, "rbput", row) /\ thr[t].rec \in Rows
      BY <1>0, <1>5, AtWork DEF RebootPut, PutAndReturn, Editing, PidInv
  <2>2. row \in Rows /\ row.pid = thr[t].pid
      BY <1>0, <2>1 DEF Rows, RowStatuses, ThreadStates
  <2> HIDE DEF row
  <2>3. Of(row.pid, thr[t].id)
      BY <1>0, <2>1, <2>2 DEF ThreadPids, HasPid
  <2> QED BY <1>0, <2>1, <2>2, <2>3, PutPids
<1> QED BY <1>1, <1>2, <1>3, <1>4, <1>5 DEF RebootStep

LEMMA LoopPids ==
  ASSUME PidInv, BaseInv', BootInv', LoopStep \/ WatchStep
  PROVE  PidInv'
<1>0. /\ {"loop", "watch"} \subseteq Threads /\ thr["loop"] \in ThreadStates
      /\ thr \in [Threads -> ThreadStates] /\ ThreadOK("loop")
    BY DEF Threads, PidInv, BaseInv, TypeOK
\* A thread that is given a process, or goes on without one.
<1>t. ASSUME NEW t \in {"loop", "watch"}, UNCHANGED <<store, owner, lastPid>>,
             NEW s \in {"rbget", "lpget"}, thr'[t].pc = s, \A u \in Threads \ {t} : thr'[u] = thr[u]
      PROVE  PidInv'
  <2>1. ThreadPids(t)'
      BY <1>t DEF ThreadPids, HoldsRow, NeedsRow, Editing, Stopping, HasPid
  <2> QED BY <1>0, <1>t, <2>1, BornStays, PidsStay, PidKeeps
<1>s. ASSUME UNCHANGED <<store, owner, lastPid, thr>>  PROVE PidInv'
  <2>1. ThreadPids("loop")'
      BY <1>0, <1>s, BornStays DEF ThreadPids, HoldsRow, PidInv
  <2> QED BY <1>0, <1>s, <2>1, BornStays, PidsStay, PidKeeps
<1>1. CASE LoopTick
    BY <1>1, <1>s DEF LoopTick, diskVars, kernelVars
<1>2. ASSUME NEW i \in Ids, LoopVisit(i)  PROVE PidInv'
  <2>1. UNCHANGED <<store, owner, lastPid>>
      BY <1>2 DEF LoopVisit, diskVars, kernelVars
  <2>2. ASSUME NEW s \in {"rbget", "lpget"}, thr' = [thr EXCEPT !["loop"] = [Idle EXCEPT !.pc = s, !.id = i]]
        PROVE  PidInv'
    <3>1. thr'["loop"].pc = s /\ \A u \in Threads \ {"loop"} : thr'[u] = thr[u]
        BY <1>0, <2>2 DEF Idle
    <3> QED BY <1>t, <2>1, <3>1
  <2> QED BY <1>2, <1>s, <2>1, <2>2 DEF LoopVisit
<1>3. CASE LoopUnhealthyGet
  <2>1. UNCHANGED <<store, owner, lastPid>> /\ thr["loop"].pc = "lpget" /\ thr["loop"].id \in Ids
      BY <1>0, <1>3 DEF LoopUnhealthyGet, diskVars, kernelVars, ThreadOK, Placeless
  <2>2. CASE Stored(thr["loop"].id)
    <3>1. thr' = [thr EXCEPT !["loop"].pc = "lpput", !["loop"].rec = store[thr["loop"].id]]
        BY <1>3, <2>2 DEF LoopUnhealthyGet
    <3>2. Of(store[thr["loop"].id].pid, thr["loop"].id) /\ "lpput" \notin HasPid
        BY <2>1, <2>2 DEF PidInv, RowPids, HasPid
    <3>3. ThreadPids("loop")' /\ \A u \in Threads \ {"loop"} : thr'[u] = thr[u]
        BY <1>0, <2>1, <3>1, <3>2, RowPid
    <3> QED BY <1>0, <2>1, <3>3, BornStays, PidsStay, PidKeeps
  <2>3. CASE ~Stored(thr["loop"].id)
    <3>1. thr'["loop"].pc = "rbget" /\ \A u \in Threads \ {"loop"} : thr'[u] = thr[u]
        BY <1>0, <1>3, <2>3 DEF LoopUnhealthyGet, Goto, ThreadStates
    <3> QED BY <1>t, <2>1, <3>1
  <2> QED BY <2>2, <2>3
<1>4. CASE LoopUnhealthyPut
  <2> DEFINE row == [thr["loop"].rec EXCEPT !.st = "unhealthy"]
  <2>1. /\ thr["loop"].pc \in Editing /\ Update("loop", row) /\ UNCHANGED <<owner, lastPid>>
        /\ Goto("loop", "rbget") \/ Done("loop")
      BY <1>4 DEF LoopUnhealthyPut, Editing, kernelVars
  <2>2. thr["loop"].rec \in Rows /\ Of(thr["loop"].rec.pid, thr["loop"].id)
      BY <1>0, <2>1, AtWork DEF PidInv, ThreadPids
  <2>3. row \in Rows /\ row.pid = thr["loop"].rec.pid
      BY <2>2 DEF Rows, RowStatuses
  <2> HIDE DEF row
  <2>4. RowPids'
      BY <1>0, <2>1, <2>2, <2>3, PidWritten
  <2>5. "rbget" \notin NeedsRow \cup Stopping \cup HasPid
      BY DEF NeedsRow, Editing, Stopping, HasPid
  <2>6. ThreadPids("loop")' /\ \A u \in Threads \ {"loop"} : thr'[u] = thr[u]
      BY <1>0, <2>1, <2>5, GotoPids, DonePids
  <2> QED BY <1>0, <2>1, <2>4, <2>6, BornStays, PidKeeps
<1>5. ASSUME NEW i \in Ids, WatchEvent(i)  PROVE PidInv'
  <2>1. /\ UNCHANGED <<store, owner, lastPid>> /\ thr'["watch"].pc = "rbget"
        /\ \A u \in Threads \ {"watch"} : thr'[u] = thr[u]
      BY <1>0, <1>5 DEF WatchEvent, diskVars, kernelVars, Idle
  <2> QED BY <1>t, <2>1
<1> QED BY <1>1, <1>2, <1>3, <1>4, <1>5, RebootPids DEF LoopStep, WatchStep

LEMMA BootPids ==
  ASSUME PidInv, BaseInv', BootInv', BootStep
  PROVE  PidInv'
<1>0. /\ "boot" \in Threads /\ thr["boot"] \in ThreadStates /\ thr \in [Threads -> ThreadStates]
      /\ ThreadPids("boot")
    BY DEF Threads, PidInv, BaseInv, TypeOK
<1>1. CASE BootList \/ BootServe
  <2>1. UNCHANGED <<store, owner, lastPid, thr>>
      BY <1>1 DEF BootList, BootServe, diskVars, kernelVars
  <2>2. ThreadPids("boot")'
      BY <1>0, <2>1, BornStays DEF ThreadPids, HoldsRow
  <2> QED BY <1>0, <2>1, <2>2, BornStays, PidsStay, PidKeeps
<1>2. ASSUME NEW i \in Ids, BootVisit(i)  PROVE PidInv'
  <2>1. UNCHANGED <<store, owner, lastPid>> /\ Stored(i)
      BY <1>2 DEF BootVisit, diskVars, kernelVars, PidInv, BootInv
  <2>2. CASE UNCHANGED thr
    <3>1. ThreadPids("boot")'
        BY <1>0, <2>1, <2>2, BornStays DEF ThreadPids, HoldsRow
    <3> QED BY <1>0, <2>1, <2>2, <3>1, BornStays, PidsStay, PidKeeps
  <2>3. CASE thr' = [thr EXCEPT !["boot"] = [Idle EXCEPT !.pc = "bootlaunch", !.id = i, !.rec = store[i]]]
    <3>1. /\ thr'["boot"].pc = "bootlaunch" /\ thr'["boot"].id = i /\ thr'["boot"].rec = store[i]
          /\ \A u \in Threads \ {"boot"} : thr'[u] = thr[u]
        BY <1>0, <2>3 DEF Idle
    <3>2. Of(store[i].pid, i)
        BY <2>1 DEF PidInv, RowPids
    <3>3. ThreadPids("boot")'
        BY <2>1, <3>1, <3>2, BornStays DEF ThreadPids, HasPid
    <3> QED BY <1>0, <2>1, <3>1, <3>3, BornStays, PidsStay, PidKeeps
  <2> QED BY <1>2, <2>2, <2>3 DEF BootVisit
<1>3. CASE BootLaunch
    BY <1>0, <1>3, LaunchAgainPids DEF BootLaunch, Spawn, diskVars
<1>4. CASE BootLaunchFails
  <2>1. /\ UNCHANGED <<store, owner, lastPid>> /\ Goto("boot", "bootfail") /\ HoldsRow("boot")
      BY <1>4 DEF BootLaunchFails, diskVars, kernelVars, HoldsRow, NeedsRow
  <2>2. "bootfail" \notin HasPid
      BY DEF HasPid
  <2>3. ThreadPids("boot")' /\ \A u \in Threads \ {"boot"} : thr'[u] = thr[u]
      BY <1>0, <2>1, <2>2, GotoPids
  <2> QED BY <1>0, <2>1, <2>3, BornStays, PidsStay, PidKeeps
<1>5. CASE BootPut \/ BootFailed
  <2>1. /\ thr["boot"].rec \in Rows /\ Of(thr["boot"].rec.pid, thr["boot"].id)
        /\ BootPut => Of(thr["boot"].pid, thr["boot"].id)
      BY <1>0, <1>5, AtWork DEF BootPut, BootFailed, PutAndReturn, Editing, HasPid, ThreadPids, PidInv
  <2>2. /\ [thr["boot"].rec EXCEPT !.st = "running", !.pid = thr["boot"].pid] \in Rows
        /\ [thr["boot"].rec EXCEPT !.st = "running", !.pid = thr["boot"].pid].pid = thr["boot"].pid
        /\ [thr["boot"].rec EXCEPT !.st = "failed"] \in Rows
        /\ [thr["boot"].rec EXCEPT !.st = "failed"].pid = thr["boot"].rec.pid
      BY <1>0, <2>1 DEF Rows, RowStatuses, ThreadStates
  <2>3. PICK s \in Editing, row \in Rows : PutAndReturn("boot", s, row) /\ Of(row.pid, thr["boot"].id)
      BY <1>5, <2>1, <2>2 DEF BootPut, BootFailed, Editing
  <2> QED BY <1>0, <2>3, PutPids
<1> QED BY <1>1, <1>2, <1>3, <1>4, <1>5 DEF BootStep

LEMMA PidStep ==
  ASSUME PidInv, [Next]_vars
  PROVE  PidInv'
<1>0. BaseInv' /\ BootInv'
    BY BaseStep DEF PidInv
<1>1. ASSUME NEW c \in Clients, HandlerStep(c)  PROVE PidInv'
  <2>0. c \in Threads
      BY DEF Threads
  <2>1. CASE StartLaunch(c)
    <3>1. PICK a, u : LaunchNew(c, "create", a, u)
        BY <2>1 DEF StartLaunch
    <3> QED BY <1>0, <3>1, LaunchNewPids
  <2>2. CASE RestartLaunch(c)
    <3>1. LaunchNew(c, "rlink", thr[c].id \in auto, thr[c].id \in url) /\ HoldsRow(c)
        BY <2>2 DEF RestartLaunch, HoldsRow, NeedsRow
    <3>2. "rlink" \in {"create", "rlink"}
        OBVIOUS
    <3> QED BY <1>0, <3>1, <3>2, LaunchNewPids, Zenon
  <2> QED BY <1>0, <1>1, <2>0, <2>1, <2>2, DriverPids, HandlerPids
<1>2. CASE Crash
  <2>1. \A t \in Threads : thr'[t].pc = "idle"
      BY <1>2 DEF Crash, Idle
  <2>2. \A t \in Threads : ThreadPids(t)'
      BY <2>1 DEF ThreadPids, HoldsRow, NeedsRow, Editing, Stopping, HasPid
  <2>3. RowPids'
      BY <1>2, BornStays, PidsStay DEF Crash, diskVars, kernelVars
  <2> QED BY <1>0, <2>2, <2>3 DEF PidInv
<1>3. ASSUME UNCHANGED <<store, owner, lastPid, thr>>  PROVE PidInv'
  <2>1. "boot" \in Threads
      BY DEF Threads
  <2>2. ThreadPids("boot")'
      BY <1>3, <2>1, BornStays DEF ThreadPids, HoldsRow, PidInv
  <2> QED BY <1>0, <1>3, <2>1, <2>2, BornStays, PidsStay, PidKeeps
<1>4. ASSUME NEW p \in Pids, Exit(p)  PROVE PidInv'
    BY <1>3, <1>4 DEF Exit, diskVars
<1>5. CASE UNCHANGED vars
    BY <1>3, <1>5 DEF vars, diskVars, kernelVars
<1> QED BY <1>0, <1>1, <1>2, <1>4, <1>5, RequestPids, LoopPids, BootPids DEF Next

LEMMA PidInit == Init => PidInv
<1> SUFFICES ASSUME Init  PROVE PidInv
    OBVIOUS
<1>1. \A t \in Threads : ThreadPids(t)
    BY DEF Init, Idle, ThreadPids, HoldsRow, NeedsRow, Editing, Stopping, HasPid
<1> QED BY <1>1, BaseInit DEF PidInv, RowPids, Init, Stored

\* In every instance, crashes included, the PID a row carries was spawned for the row's
\* process: a stale copy that is written back may be old, never another process's.
THEOREM RowsNameTheirChild == Spec => []RowPids
<1>1. PidInv => RowPids
    BY DEF PidInv
<1> QED BY <1>1, PidInit, PidStep, PTL DEF Spec

-----------------------------------------------------------------------------
(* The daemon died once, and nothing started a process again under its id    *)
(* before: boot relaunch then finds, in the row, the PID of the only child   *)
(* the process ever had.                                                     *)

OneCrash == MaxCrashes <= 1 /\ AutoRestart = FALSE /\ "watch" \notin Ops

Unattended ==
  /\ auto = {} /\ watchers = {} /\ loopIds = {}
  /\ thr["loop"].pc = "idle" /\ thr["watch"].pc = "idle"
  /\ \A c \in Clients : ~thr[c].auto

Single(i) == \A p, q \in Pids : Of(p, i) /\ Of(q, i) => p = q

\* Before the crash and until boot relaunch has visited it, a process had one child.
SoloInv ==
  /\ PidInv /\ Unattended
  /\ phase # "up" => crashes # 0
  /\ crashes = 0 \/ phase = "down" => \A i \in Ids : Single(i)
  /\ \A i \in bootIds : Single(i)
  /\ thr["boot"].pc = "bootlaunch" => /\ thr["boot"].id \notin bootIds
                                      /\ \A p \in live : owner[p] # thr["boot"].id
  /\ OneInstancePerId

LEMMA UnattendedHandler ==
  ASSUME BaseInv, Unattended, OneCrash, NEW c \in Clients, HandlerStep(c)
  PROVE  Unattended'
<1>0. /\ c \in Threads /\ thr[c] \in ThreadStates /\ thr \in [Threads -> ThreadStates]
      /\ Clients \subseteq Threads /\ {"loop", "watch"} \subseteq Threads \ Clients
    BY LifecycleAssumption DEF Threads, BaseInv, TypeOK
<1>1. \A u \in Threads \ {c} : thr'[u] = thr[u]
    BY <1>0 DEF HandlerStep, DriverStep, MgrStop, MgrStopReturn, StopError, Resume, StartGetName,
           StartUnname, StartScan, StartClaim, ReplaceDelete, ReplaceMaps, StartLaunch, RestartLaunch,
           LaunchNew, LaunchNewFails, StartCreate, StartPublish, RunGet, RunPut, Reget, StopInspect,
           StopPut, RestartLink, RestartCreate, RestartPublish, RemoveDelete, RemoveMaps, EnablePut,
           DisablePut, DisableInspect, DisableEnd, WaitLook, WaitReturn, WaitPut, HealthProbe, HealthPut,
           UpdatePut, PutAndReturn, UndoLaunch, Done, Goto
<1>2. UNCHANGED <<watchers, loopIds>>
    BY DEF HandlerStep, DriverStep, MgrStop, MgrStopReturn, StartGetName,
           StartUnname, StartScan, StartClaim, ReplaceDelete, ReplaceMaps, StartLaunch, RestartLaunch,
           LaunchNew, LaunchNewFails, StartCreate, StartPublish, RunGet, RunPut, Reget, StopInspect,
           StopPut, RestartLink, RestartCreate, RestartPublish, RemoveDelete, RemoveMaps, EnablePut,
           DisablePut, DisableInspect, DisableEnd, WaitLook, WaitReturn, WaitPut, HealthProbe, HealthPut,
           UpdatePut, PutAndReturn, mapVars, daemonVars
<1>3. auto' = {}
  <2>1. auto = {} /\ ~thr[c].auto
      BY DEF Unattended
  <2>2. CASE StartPublish(c) \/ RestartPublish(c)
      BY <2>1, <2>2 DEF StartPublish, RestartPublish, With
  <2>3. CASE ~StartPublish(c) /\ ~RestartPublish(c)
    <3>1. auto' = auto \/ auto' = auto \ {thr[c].id}
        BY <2>3 DEF HandlerStep, DriverStep, MgrStop, MgrStopReturn, StartGetName, StartUnname, StartScan,
           StartClaim, ReplaceDelete, ReplaceMaps, StartLaunch, RestartLaunch, LaunchNew, LaunchNewFails,
           StartCreate, RunGet, RunPut, Reget, StopInspect, StopPut, RestartLink, RestartCreate,
           RemoveDelete, RemoveMaps, EnablePut, DisablePut, DisableInspect, DisableEnd, WaitLook,
           WaitReturn, WaitPut, HealthProbe, HealthPut, UpdatePut, PutAndReturn, mapVars
    <3> QED BY <2>1, <3>1
  <2> QED BY <2>2, <2>3
<1>4. ~thr'[c].auto
  <2>1. ~thr[c].auto /\ auto = {}
      BY DEF Unattended
  <2>d. Done(c) => ~thr'[c].auto
      BY <1>0 DEF Done, Idle
  <2>g. \A s : Goto(c, s) => ~thr'[c].auto
      BY <1>0, <2>1 DEF Goto, ThreadStates
  <2>2. CASE StartLaunch(c)
    <3>1. PICK u \in {FALSE, HealthURL} : LaunchNew(c, "create", FALSE, u)
        BY <2>2 DEF StartLaunch, OneCrash
    <3> QED BY <1>0, <3>1 DEF LaunchNew, ThreadStates
  <2>3. CASE RestartLaunch(c)
    <3>1. LaunchNew(c, "rlink", thr[c].id \in auto, thr[c].id \in url)
        BY <2>3 DEF RestartLaunch
    <3>2. thr'[c].auto = (thr[c].id \in auto)
        BY <1>0, <3>1 DEF LaunchNew, ThreadStates
    <3> QED BY <2>1, <3>2
  <2>4. CASE DriverStep(c)
      BY <1>0, <2>1, <2>4, <2>d, <2>g DEF DriverStep, MgrStop, MgrStopReturn, StopError, Resume, ThreadStates
  <2>5. CASE StartScan(c) \/ StartClaim(c) \/ StartPublish(c) \/ RunGet(c) \/ Reget(c) \/ StartCreate(c)
             \/ RestartCreate(c)
      BY <1>0, <2>1, <2>5, <2>d, <2>g DEF StartScan, StartClaim, StartPublish, RunGet, Reget, StartCreate,
             RestartCreate, UndoLaunch, ThreadStates
  <2>6. CASE StopInspect(c) \/ DisablePut(c) \/ WaitLook(c)
      BY <1>0, <2>1, <2>6, <2>d, <2>g DEF StopInspect, DisablePut, WaitLook, ThreadStates
  <2>8. CASE HealthProbe(c)
    <3>1. PICK healthy \in IF thr[c].id \in url THEN {TRUE, FALSE} ELSE {Status(thr[c].id) = "running"} :
            thr' = [thr EXCEPT ![c].pc = "hput",
                      ![c].rec.pid = IF thr[c].id \notin url /\ healthy THEN hpid[thr[c].id] ELSE @,
                      ![c].rec.st = IF ~healthy THEN "unhealthy"
                                    ELSE IF thr[c].id \notin url \/ @ = "unhealthy" THEN "running"
                                    ELSE @]
        BY <2>8, Zenon DEF HealthProbe
    <3> QED BY <1>0, <2>1, <3>1 DEF ThreadStates
  <2>7. ASSUME ~StartLaunch(c), ~RestartLaunch(c), ~DriverStep(c), ~StartScan(c), ~StartClaim(c),
               ~StartPublish(c), ~RunGet(c), ~Reget(c), ~StartCreate(c), ~RestartCreate(c),
               ~StopInspect(c), ~DisablePut(c), ~WaitLook(c), ~HealthProbe(c)
        PROVE  ~thr'[c].auto
    <3>1. Done(c) \/ \E s : Goto(c, s)
        BY <2>7 DEF HandlerStep, StartGetName, StartUnname, ReplaceDelete, ReplaceMaps, LaunchNewFails,
             RunPut, StopPut, RestartLink, RestartPublish, RemoveDelete, RemoveMaps, EnablePut,
             DisableInspect, DisableEnd, WaitReturn, WaitPut, HealthPut, UpdatePut, PutAndReturn
    <3> QED BY <2>d, <2>g, <3>1
  <2> QED BY <2>2, <2>3, <2>4, <2>5, <2>6, <2>7, <2>8
<1> QED BY <1>0, <1>1, <1>2, <1>3, <1>4 DEF Unattended

LEMMA UnattendedStep ==
  ASSUME BaseInv, Unattended, OneCrash, [Next]_vars
  PROVE  Unattended' /\ ~LoopStep /\ ~WatchStep
<1>0. /\ thr \in [Threads -> ThreadStates] /\ "boot" \in Threads
      /\ Clients \subseteq Threads /\ {"loop", "watch"} \subseteq Threads \ Clients
      /\ "boot" \notin Clients \cup {"loop", "watch"}
    BY LifecycleAssumption DEF Threads, BaseInv, TypeOK
<1>1. ~LoopStep /\ ~WatchStep
  <2>1. thr["loop"].pc = "idle" /\ thr["watch"].pc = "idle"
      BY DEF Unattended
  <2>2. ASSUME NEW t \in {"loop", "watch"}  PROVE ~RebootStep(t)
      BY <2>1 DEF RebootStep, DriverStep, MgrStop, MgrStopReturn, RebootGet, RebootLookup,
                  RebootSpawn, RebootSpawnFails, RebootRegister, RebootKilled, RebootPut, PutAndReturn
  <2>3. ~LoopStep
      BY <2>1, <2>2 DEF LoopStep, LoopTick, LoopVisit, LoopUnhealthyGet, LoopUnhealthyPut, Unattended
  <2> QED BY <2>2, <2>3 DEF WatchStep, WatchEvent, Unattended
<1> SUFFICES Unattended'
    BY <1>1
<1>2. ASSUME NEW c \in Clients, Request(c)  PROVE Unattended'
  <2>1. UNCHANGED <<auto, watchers, loopIds>>
      BY <1>2 DEF Request, StartLookup, StopBegin, RestartBegin, RemoveBegin, EnableBegin,
           DisableBegin, WaitBegin, HealthBegin, UpdateBegin, WatchSet, Begin, Target, OneCrash, mapVars,
           daemonVars
  <2>2. thr' = thr \/ (~thr'[c].auto /\ \A u \in Threads \ {c} : thr'[u] = thr[u])
    <3>1. ASSUME NEW op, NEW n, NEW r, StartLookup(c, op, n, r)
          PROVE  ~thr'[c].auto /\ \A u \in Threads \ {c} : thr'[u] = thr[u]
        BY <1>0, <3>1 DEF StartLookup, Idle
    <3>2. ASSUME NEW op, NEW i, NEW s, NEW r, Target(c, op, i, s, r)
          PROVE  ~thr'[c].auto /\ \A u \in Threads \ {c} : thr'[u] = thr[u]
        BY <1>0, <3>2 DEF Target, Idle
    <3> QED BY <1>2, <3>1, <3>2 DEF Request, StopBegin, RestartBegin, RemoveBegin, EnableBegin,
             DisableBegin, WaitBegin, HealthBegin, UpdateBegin, WatchSet
  <2>3. (\A u \in Threads \ {c} : thr'[u] = thr[u]) /\ ~thr'[c].auto
      BY <1>0, <2>2 DEF Unattended
  <2> QED BY <1>0, <2>1, <2>3 DEF Unattended
<1>3. ASSUME NEW c \in Clients, Cancel(c)  PROVE Unattended'
    BY <1>0, <1>3 DEF Cancel, Unattended, ThreadStates, mapVars, daemonVars
<1>4. CASE BootStep
  <2>1. UNCHANGED <<auto, watchers, loopIds>>
      BY <1>4 DEF BootStep, BootList, BootVisit, BootLaunch, BootLaunchFails, BootPut, BootFailed,
                  BootServe, PutAndReturn, mapVars, daemonVars
  <2>2. \A u \in Threads \ {"boot"} : thr'[u] = thr[u]
      BY <1>0, <1>4 DEF BootStep, BootList, BootVisit, BootLaunch, BootLaunchFails, BootPut, BootFailed,
                  BootServe, PutAndReturn, Done, Goto
  <2> QED BY <1>0, <2>1, <2>2 DEF Unattended
<1>5. CASE Crash
    BY <1>0, <1>5 DEF Crash, Unattended, Idle
<1>6. ASSUME NEW p \in Pids, Exit(p)  PROVE Unattended'
    BY <1>6 DEF Exit, Unattended, mapVars, daemonVars
<1>7. CASE UNCHANGED vars
    BY <1>7 DEF vars, Unattended, mapVars, daemonVars
<1> QED BY <1>1, <1>2, <1>3, <1>4, <1>5, <1>6, <1>7, UnattendedHandler DEF Next

\* A step that starts no child, or one for a new id, keeps what is known of children.
LEMMA SingleStep ==
  ASSUME BaseInv, StartsNone \/ StartsNew
  PROVE  /\ \A i \in Ids : Single(i) => Single(i)'
         /\ OneInstancePerId => OneInstancePerId'
<1>1. /\ lastPid \in Nat /\ lastId \in Nat /\ live \subseteq Pids
      /\ \A p \in live : p <= lastPid
      /\ \A p \in Pids : p <= lastPid => owner[p] <= lastId
    BY LifecycleAssumption DEF BaseInv, TypeOK, Births
<1>2. CASE StartsNone
    BY <1>2 DEF StartsNone, Single, Of, OneInstancePerId
<1>3. CASE StartsNew
  <2>1. PICK i \in Ids : i = lastId' /\ i = lastId + 1 /\ Starts(i)
      BY <1>3 DEF StartsNew
  <2>2. PICK x \in Pids : x = lastPid' /\ x = lastPid + 1
      BY <2>1 DEF Starts
  <2>3. live' = live \cup {x} /\ owner'[x] = i /\ \A p \in Pids \ {x} : owner'[p] = owner[p]
      BY <2>1, <2>2 DEF Starts, BaseInv, TypeOK
  <2>4. \A p \in Pids : p <= lastPid' /\ p # x => p <= lastPid
      BY <1>1, <2>2 DEF Pids
  <2>5. \A p \in Pids : p <= lastPid => owner[p] # i
      BY <1>1, <2>1 DEF BaseInv, TypeOK, Ids, Pids
  <2>6. \A j \in Ids : Single(j) => Single(j)'
    <3> SUFFICES ASSUME NEW j \in Ids, Single(j), NEW p \in Pids, NEW q \in Pids,
                        p <= lastPid', q <= lastPid', owner'[p] = j, owner'[q] = j
                 PROVE  p = q
        BY DEF Single, Of
    <3> QED BY <2>3, <2>4, <2>5 DEF Single, Of
  <2>7. OneInstancePerId => OneInstancePerId'
    <3> SUFFICES ASSUME OneInstancePerId, NEW p \in live', NEW q \in live', owner'[p] = owner'[q]
                 PROVE  p = q
        BY DEF OneInstancePerId
    <3> QED BY <1>1, <2>3, <2>5 DEF OneInstancePerId
  <2> QED BY <2>6, <2>7
<1> QED BY <1>2, <1>3

\* Handlers work while the daemon serves, and leave its phase alone.
LEMMA Working ==
  ASSUME BaseInv, BootInv, NEW c \in Clients, Request(c) \/ Cancel(c) \/ HandlerStep(c)
  PROVE  phase = "up" /\ UNCHANGED <<phase, crashes>>
<1>1. c \in Threads \ {"boot"}
    BY LifecycleAssumption DEF Threads
<1>2. CASE Request(c)
    BY <1>2 DEF Request, StartLookup, StopBegin, RestartBegin, RemoveBegin, EnableBegin, DisableBegin,
       WaitBegin, HealthBegin, UpdateBegin, WatchSet, Target, Begin, daemonVars
<1>3. CASE Cancel(c)
    BY <1>1, <1>3 DEF Cancel, BootInv, daemonVars
<1>4. CASE HandlerStep(c)
  <2>1. thr[c].pc # "idle"
      BY <1>4 DEF HandlerStep, DriverStep, MgrStop, MgrStopReturn, StartGetName, StartUnname, StartScan,
           StartClaim, ReplaceDelete, ReplaceMaps, StartLaunch, LaunchNewFails, StartCreate,
           StartPublish, RunGet, RunPut, Reget, StopInspect, StopPut, RestartLaunch, RestartLink,
           RestartCreate, RestartPublish, RemoveDelete, RemoveMaps, EnablePut, DisablePut,
           DisableInspect, DisableEnd, WaitLook, WaitReturn, WaitPut, HealthProbe, HealthPut, UpdatePut,
           PutAndReturn
  <2>2. UNCHANGED <<phase, crashes>>
      BY <1>4 DEF HandlerStep, DriverStep, MgrStop, MgrStopReturn, StartGetName, StartUnname, StartScan,
           StartClaim, ReplaceDelete, ReplaceMaps, StartLaunch, LaunchNewFails, StartCreate,
           StartPublish, RunGet, RunPut, Reget, StopInspect, StopPut, RestartLaunch, RestartLink,
           RestartCreate, RestartPublish, RemoveDelete, RemoveMaps, EnablePut, DisablePut,
           DisableInspect, DisableEnd, WaitLook, WaitReturn, WaitPut, HealthProbe, HealthPut, UpdatePut,
           PutAndReturn, LaunchNew, daemonVars
  <2> QED BY <1>1, <2>1, <2>2 DEF BootInv
<1> QED BY <1>2, <1>3, <1>4

LEMMA SoloBoot ==
  ASSUME SoloInv, PidInv', Unattended', BootStep
  PROVE  SoloInv'
<1>0. /\ "boot" \in Threads /\ thr["boot"] \in ThreadStates /\ thr \in [Threads -> ThreadStates]
      /\ ThreadOK("boot") /\ BaseInv /\ BootInv /\ bootIds \subseteq Ids
      /\ lastPid \in Nat /\ live \subseteq Pids /\ \A p \in live : p <= lastPid
    BY LifecycleAssumption DEF Threads, SoloInv, PidInv, BaseInv, TypeOK, Births
\* Steps that start nothing: what they do to the list and to the row in hand.
<1>s. ASSUME UNCHANGED <<live, owner, lastPid, crashes>>, bootIds' \subseteq bootIds \/ phase = "down",
             bootIds' \subseteq Ids, phase' # "down", crashes # 0,
             thr'["boot"].pc = "bootlaunch" => /\ thr'["boot"].id \notin bootIds'
                                               /\ \A p \in live : owner[p] # thr'["boot"].id
      PROVE  SoloInv'
  <2>1. \A i \in Ids : Single(i) => Single(i)'
      BY <1>s DEF Single, Of
  <2> QED BY <1>0, <1>s, <2>1 DEF SoloInv, OneInstancePerId
<1>1. CASE BootList \/ BootServe
  <2>1. thr["boot"].pc = "idle" /\ thr' = thr
      BY <1>0, <1>1 DEF BootList, BootServe, BootInv
  <2> QED BY <1>0, <1>1, <1>s, <2>1 DEF BootList, BootServe, kernelVars, SoloInv
<1>2. ASSUME NEW i \in Ids, BootVisit(i)  PROVE SoloInv'
  <2>1. /\ UNCHANGED <<live, owner, lastPid, crashes, phase>> /\ bootIds' = bootIds \ {i}
        /\ Stored(i) /\ Single(i) /\ phase = "boot" /\ crashes # 0
      BY <1>0, <1>2 DEF BootVisit, kernelVars, BootInv, SoloInv
  <2>2. CASE UNCHANGED thr
      BY <1>0, <1>2, <1>s, <2>1, <2>2 DEF BootVisit
  <2>3. CASE /\ thr' = [thr EXCEPT !["boot"] = [Idle EXCEPT !.pc = "bootlaunch", !.id = i, !.rec = store[i]]]
             /\ ~pidAlive(store[i].pid)
    <3>1. thr'["boot"].pc = "bootlaunch" /\ thr'["boot"].id = i
        BY <1>0, <2>3 DEF Idle
    <3>2. ASSUME NEW p \in live, owner[p] = i  PROVE FALSE
      <4>1. Of(p, i) /\ Of(store[i].pid, i)
          BY <1>0, <2>1, <3>2 DEF SoloInv, PidInv, RowPids, Of
      <4>2. p = store[i].pid
          BY <2>1, <4>1 DEF Single, Of
      <4> QED BY <2>3, <4>2 DEF pidAlive
    <3> QED BY <1>0, <1>s, <2>1, <3>1, <3>2
  <2> QED BY <1>2, <2>2, <2>3 DEF BootVisit
<1>3. CASE BootLaunch
  <2>1. thr["boot"].pc = "bootlaunch" /\ thr["boot"].id \in Ids
      BY <1>0, <1>3 DEF BootLaunch, ThreadOK, Placeless
  <2>2. PICK i \in Ids : i = thr["boot"].id
      BY <2>1
  <2>3. /\ Starts(i) /\ UNCHANGED <<bootIds, phase, crashes>> /\ thr'["boot"].pc = "bootput"
        /\ i \notin bootIds /\ (\A p \in live : owner[p] # i) /\ phase = "boot" /\ crashes # 0
    <3>1. Starts(i)
        BY <1>0, <1>3, <2>2, Spawned DEF BootLaunch
    <3>2. thr'["boot"].pc = "bootput"
        BY <1>0, <1>3 DEF BootLaunch, ThreadStates
    <3>3. phase = "boot"
        BY <2>1 DEF SoloInv, PidInv, BootInv
    <3> QED BY <1>3, <2>1, <2>2, <3>1, <3>2, <3>3 DEF SoloInv, BootLaunch, daemonVars
  <2>4. PICK x \in Pids : x = lastPid' /\ x = lastPid + 1
      BY <2>3 DEF Starts
  <2>5. live' = live \cup {x} /\ owner'[x] = i /\ \A p \in Pids \ {x} : owner'[p] = owner[p]
      BY <1>0, <2>3, <2>4 DEF Starts, BaseInv, TypeOK
  <2>6. \A p \in Pids : p <= lastPid' /\ p # x => p <= lastPid
      BY <1>0, <2>4 DEF Pids
  <2>7. ASSUME NEW j \in bootIds'  PROVE Single(j)'
    <3>1. Single(j) /\ j # i
        BY <2>3, <2>7 DEF SoloInv
    <3> SUFFICES ASSUME NEW p \in Pids, NEW q \in Pids, p <= lastPid', q <= lastPid',
                        owner'[p] = j, owner'[q] = j
                 PROVE  p = q
        BY DEF Single, Of
    <3> QED BY <2>5, <2>6, <3>1 DEF Single, Of
  <2>8. OneInstancePerId'
    <3> SUFFICES ASSUME NEW p \in live', NEW q \in live', owner'[p] = owner'[q]  PROVE p = q
        BY DEF OneInstancePerId
    <3>1. \A r \in live' : r = x \/ (r \in live /\ r \in Pids \ {x} /\ owner'[r] # i)
        BY <1>0, <2>3, <2>5
    <3> QED BY <2>5, <3>1 DEF SoloInv, OneInstancePerId
  <2> QED BY <2>3, <2>7, <2>8 DEF SoloInv
<1>4. CASE BootLaunchFails \/ BootPut \/ BootFailed
  <2>1. /\ UNCHANGED <<live, owner, lastPid, crashes, phase, bootIds>>
        /\ thr["boot"].pc # "idle" /\ (Goto("boot", "bootfail") \/ Done("boot"))
      BY <1>4 DEF BootLaunchFails, BootPut, BootFailed, PutAndReturn, kernelVars, daemonVars
  <2>2. thr'["boot"].pc # "bootlaunch"
      BY <1>0, <2>1 DEF Goto, Done, Idle, ThreadStates
  <2>3. phase = "boot" /\ crashes # 0
      BY <1>0, <2>1 DEF BootInv, SoloInv
  <2> QED BY <1>0, <1>s, <2>1, <2>2, <2>3
<1> QED BY <1>1, <1>2, <1>3, <1>4 DEF BootStep

LEMMA SoloStep ==
  ASSUME SoloInv, OneCrash, [Next]_vars
  PROVE  SoloInv'
<1>0. /\ PidInv' /\ Unattended' /\ ~LoopStep /\ ~WatchStep
      /\ BaseInv /\ BootInv /\ bootIds \subseteq Ids /\ "boot" \in Threads
    BY PidStep, UnattendedStep DEF SoloInv, PidInv, BaseInv, TypeOK, Threads
<1>1. CASE BootStep
    BY <1>0, <1>1, SoloBoot
<1>2. CASE Crash
  <2>1. crashes = 0 /\ crashes' # 0 /\ bootIds' = {} /\ UNCHANGED <<live, owner, lastPid>>
      BY <1>2, LifecycleAssumption DEF Crash, OneCrash, kernelVars, SoloInv, PidInv, BaseInv, TypeOK
  <2>2. \A i \in Ids : Single(i)'
      BY <2>1 DEF SoloInv, Single, Of
  <2>3. thr'["boot"].pc # "bootlaunch"
      BY <1>0, <1>2 DEF Crash, Idle
  <2> QED BY <1>0, <2>1, <2>2, <2>3 DEF SoloInv, OneInstancePerId
<1>3. ASSUME NEW c \in Clients, Request(c) \/ Cancel(c) \/ HandlerStep(c)  PROVE SoloInv'
  <2>1. phase = "up" /\ UNCHANGED <<phase, crashes>>
      BY <1>0, <1>3, Working
  <2>2. ~StartsAgain
      BY <1>0, <2>1 DEF StartsAgain, SoloInv, Unattended, BootInv
  <2>3. StartsNone \/ StartsNew
      BY <1>0, <2>2, StepStarts DEF StartsUnknown, Registers, SoloInv, Unattended, Restarters
  <2>4. bootIds' = {} /\ thr'["boot"].pc = "idle"
      BY <1>0, <2>1 DEF PidInv, BootInv
  <2> QED BY <1>0, <2>1, <2>3, <2>4, SingleStep DEF SoloInv
<1>4. ASSUME UNCHANGED <<owner, lastPid, phase, crashes, bootIds, thr>>, live' \subseteq live
      PROVE  SoloInv'
  <2>1. \A i \in Ids : Single(i) => Single(i)'
      BY <1>4 DEF Single, Of
  <2> QED BY <1>0, <1>4, <2>1 DEF SoloInv, OneInstancePerId
<1>5. ASSUME NEW p \in Pids, Exit(p)  PROVE SoloInv'
    BY <1>4, <1>5 DEF Exit, daemonVars
<1>6. CASE UNCHANGED vars
    BY <1>4, <1>6 DEF vars, kernelVars, daemonVars
<1> QED BY <1>0, <1>1, <1>2, <1>3, <1>5, <1>6 DEF Next

\* One crash, at any point of any request, leaves no process with two running children: boot
\* relaunch adopts the surviving child or starts one where there is none.
THEOREM OneInstanceAfterCrash == OneCrash => (Spec => []OneInstancePerId)
<1>1. ASSUME OneCrash  PROVE Spec => []OneInstancePerId
  <2>1. Init => SoloInv
    <3> SUFFICES ASSUME Init  PROVE SoloInv
        OBVIOUS
    <3>1. Unattended
        BY DEF Init, Unattended, Idle, Threads
    <3>2. \A i \in Ids : Single(i)
        BY LifecycleAssumption DEF Init, Single, Of, Pids
    <3> QED BY <3>1, <3>2, PidInit DEF Init, SoloInv, OneInstancePerId, Idle, Threads
  <2>2. SoloInv /\ [Next]_vars => SoloInv'
      BY <1>1, SoloStep
  <2>3. SoloInv => OneInstancePerId
      BY DEF SoloInv
  <2> QED BY <2>1, <2>2, <2>3, PTL DEF Spec
<1> QED BY <1>1

=============================================================================
