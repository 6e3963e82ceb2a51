--------------------------- MODULE ServingProofs ---------------------------
(***************************************************************************)
(* Proofs about the daemon's end, its endpoint and its file watcher.       *)
(***************************************************************************)
EXTENDS Serving, Watch, Endpoint, TLAPS

-----------------------------------------------------------------------------
(* Serving: the store outlives what is inside it                              *)

ServeTypeOK ==
  /\ loop \in [Loops -> {"none", "idle", "busy", "gone"}]
  /\ call \in [Handlers -> {"idle", "busy", "stream", "watch"}]
  /\ consumer \in [Handlers -> {"none", "idle", "busy", "gone"}]

\* No handler is at work.
Idle == \A h \in Handlers : call[h] = "idle"

\* Nothing that bg counts is left.
Quiet == /\ \A l \in Loops : loop[l] \in {"none", "gone"}
         /\ \A h \in Handlers : consumer[h] \in {"none", "gone"}

\* ListenAndServe is past its last launch.
Launched == main \in {"serve", "serving", "failed", "returned"}
Left == main \in {"failed", "returned"}

\* A server is there from PublishServer on, and only a serving or draining one
\* has calls.
ServerHeld ==
  /\ gs # "none" => Launched
  /\ main \in {"serve", "serving"} => gs # "none"
  /\ ctxWait # "none" => gs # "none"
  /\ once = "drain" => gs = "draining"
  /\ gs \in {"none", "new", "stopped"} => Idle

\* What Close knows at each of its steps.
CloseHeld ==
  /\ closing <=> closer # "idle"
  /\ ~closing => ~early
  /\ closing /\ ~early => Launched
  /\ closer \in {"wait", "store", "done"} => once = "done"
  /\ store = "closed" => closer = "done"

\* Past the drain no server is left that could take a call.
DrainHeld ==
  once \in {"stopWatch", "done"} /\ ~early => gs = "stopped" \/ (gs = "none" /\ Left)

\* Past a wait that did not give up nothing counted is left, and nothing counted
\* can start.
WaitHeld == closer \in {"store", "done"} /\ ~gaveUp /\ ~early => Quiet

ServeInv == ServeTypeOK /\ ServerHeld /\ CloseHeld /\ DrainHeld /\ WaitHeld

LEMMA ServeStart == ServeInit => ServeInv
  BY DEF ServeInit, ServeFrom, ServeInv, ServeTypeOK, ServerHeld, CloseHeld, DrainHeld,
         WaitHeld, Idle, Quiet, Launched, Left

LEMMA ServeStep == ServeInv /\ [ServeNext]_vars => ServeInv'
<1> SUFFICES ASSUME ServeInv, [ServeNext]_vars  PROVE ServeInv'
    OBVIOUS
<1> USE DEF ServeInv, ServeTypeOK, ServerHeld, CloseHeld, DrainHeld, WaitHeld, Idle, Quiet,
            Launched, Left, mainVars, closeVars, onceVars, grpcVars, watchVars
<1>1. CASE Signal
    BY <1>1, SMTT(30) DEF Signal
<1>2. CASE CloseMark
    <2>1. early' <=> main \notin {"failed", "returned"} /\ gs = "none"
        BY <1>2 DEF CloseMark
    <2>2. ServeTypeOK' /\ ServerHeld' /\ DrainHeld' /\ WaitHeld'
        BY <1>2, <2>1 DEF CloseMark
    <2>3. CloseHeld'
        BY <1>2, <2>1 DEF CloseMark
    <2> QED BY <2>2, <2>3
<1>3. CASE Listen
    BY <1>3, SMTT(30) DEF Listen
<1>4. CASE PublishListener
    BY <1>4, SMTT(30) DEF PublishListener
<1>5. CASE PublishCancel
    BY <1>5, SMTT(30) DEF PublishCancel
<1>6. CASE StartLoops
    BY <1>6, SMTT(30) DEF StartLoops
<1>7. CASE PublishServer
    BY <1>7, SMTT(30) DEF PublishServer
<1>8. CASE Serve
    BY <1>8, SMTT(30) DEF Serve
<1>9. CASE ServeReturn
    BY <1>9, SMTT(30) DEF ServeReturn
<1>10. CASE CtxCancel
    BY <1>10, SMTT(30) DEF CtxCancel
<1>11. CASE CtxDrained
    BY <1>11, SMTT(30) DEF CtxDrained
<1>12. CASE OnceEnter("ctx")
    BY <1>12, SMTT(30) DEF OnceEnter
<1>13. CASE CloseCancel
    BY <1>13, SMTT(30) DEF CloseCancel
<1>14. CASE CloseDrained
    BY <1>14, SMTT(30) DEF CloseDrained
<1>15. CASE CloseWait
    <2>1. Counted = {} => Quiet
        <3> SUFFICES ASSUME Counted = {}  PROVE Quiet
            OBVIOUS
        <3>1. ASSUME NEW l \in Loops  PROVE loop[l] \in {"none", "gone"}
            BY <3>1 DEF Counted
        <3>2. ASSUME NEW h \in Handlers  PROVE consumer[h] \in {"none", "gone"}
            BY <3>2 DEF Counted
        <3> QED BY <3>1, <3>2
    <2> QED BY <1>15, <2>1 DEF CloseWait
<1>16. CASE CloseStore
    BY <1>16, SMTT(30) DEF CloseStore
<1>17. CASE OnceEnter("close")
    BY <1>17, SMTT(30) DEF OnceEnter
<1>18. CASE Drained
    BY <1>18, SMTT(30) DEF Drained
<1>19. CASE StopAllWatchers
    BY <1>19, SMTT(30) DEF StopAllWatchers
<1>20. CASE DrainTimeout
    BY <1>20, SMTT(30) DEF DrainTimeout
<1>21. ASSUME NEW h \in Handlers, Accept(h)  PROVE ServeInv'
    BY <1>21, SMTT(30) DEF Accept
<1>22. ASSUME NEW h \in Handlers, Return(h)  PROVE ServeInv'
    BY <1>22, SMTT(30) DEF Return
<1>23. ASSUME NEW h \in Handlers, StreamCut(h)  PROVE ServeInv'
    BY <1>23, SMTT(30) DEF StreamCut
<1>24. ASSUME NEW h \in Handlers, WatchRegister(h)  PROVE ServeInv'
    BY <1>24, SMTT(30) DEF WatchRegister
<1>25. ASSUME NEW h \in Handlers, ClientLeaves(h)  PROVE ServeInv'
    BY <1>25, SMTT(30) DEF ClientLeaves
<1>26. ASSUME NEW h \in Handlers, WatchBegin(h)  PROVE ServeInv'
    BY <1>26, SMTT(30) DEF WatchBegin
<1>27. ASSUME NEW h \in Handlers, PollEnd(h)  PROVE ServeInv'
    BY <1>27, SMTT(30) DEF PollEnd
<1>28. ASSUME NEW h \in Handlers, ConsumerStep(h)  PROVE ServeInv'
    BY <1>28, SMTT(30) DEF ConsumerStep
<1>29. ASSUME NEW l \in Loops, LoopStep(l)  PROVE ServeInv'
    BY <1>29, SMTT(30) DEF LoopStep
<1>30. CASE UNCHANGED vars
    BY <1>30 DEF vars
<1> QED
    BY <1>1, <1>2, <1>3, <1>4, <1>5, <1>6, <1>7, <1>8, <1>9, <1>10, <1>11, <1>12, <1>13, <1>14, <1>15, <1>16, <1>17, <1>18, <1>19, <1>20, <1>21, <1>22, <1>23, <1>24, <1>25, <1>26, <1>27, <1>28, <1>29, <1>30
       DEF ServeNext, MainStep, CtxStep, CloseStep, DrainStep, CallEnds

\* Close releases the store only when no handler, loop, consumer or launch can still
\* be inside it (server.go: Close), for any number of calls and loops.
THEOREM StoreOutlivesUse == ServeSpec => []NoUseAfterClose
<1>1. ServeInv => NoUseAfterClose
  <2> SUFFICES ASSUME ServeInv, store = "closed", ~gaveUp, ~early
               PROVE  /\ \A h \in Handlers : call[h] = "idle" /\ consumer[h] # "busy"
                      /\ \A l \in Loops : loop[l] # "busy"
                      /\ main # "relaunch"
      BY DEF NoUseAfterClose
  <2>1. closer = "done" /\ once = "done" /\ Launched
      BY DEF ServeInv, CloseHeld
  <2>2. Quiet
      BY <2>1 DEF ServeInv, WaitHeld
  <2>3. Idle
      BY <2>1 DEF ServeInv, DrainHeld, ServerHeld
  <2> QED BY <2>1, <2>2, <2>3 DEF Quiet, Idle, Launched
<1> QED BY <1>1, ServeStart, ServeStep, PTL DEF ServeSpec

-----------------------------------------------------------------------------
(* Endpoint: one daemon behind the name, and only for the clients it fits     *)

EndpointTypeOK ==
  /\ dstep \in [Daemons -> {"down", "look", "probe", "remove", "bind", "chmod", "serve"}]
  /\ sock \in [Daemons -> Nat] /\ binds \in Nat
  /\ name \in [kind : {"none", "socket", "other"}, at : Nat]
  /\ contended \in BOOLEAN
  /\ dver \in [Daemons -> Versions \cup {NoVersion}]
  /\ cver \in [Callers -> Versions \cup {NoVersion}]
  /\ ran \in [Callers -> Versions \cup {NoVersion}]

\* A daemon has a socket from BindSocket until it goes down.
SockHeld == \A d \in Daemons : sock[d] # 0 <=> dstep[d] \in {"chmod", "serve"}

\* As long as no two starts overlap there is one of them, and none that is about
\* to remove a socket has a daemon behind it.
OneStart == \A d, e \in Daemons : Starting(d) /\ Starting(e) => d = e
FreeToRemove == \A d, e \in Daemons : dstep[d] = "remove" => sock[e] = 0

EndpointInv ==
  /\ EndpointTypeOK /\ SockHeld /\ NoSkewedCall
  /\ ~contended => OneStart /\ FreeToRemove /\ OneListener

LEMMA EndpointStart == EndpointInit => EndpointInv
<1> SUFFICES ASSUME EndpointInit  PROVE EndpointInv
    OBVIOUS
<1> USE DEF EndpointInit, EndpointFrom
<1>1. EndpointTypeOK
  <2>1. name \in [kind : {"none", "socket", "other"}, at : Nat]
      BY DEF NoName
  <2> QED BY <2>1 DEF EndpointTypeOK
<1>2. SockHeld
    BY DEF SockHeld
<1>3. NoSkewedCall
    BY DEF NoSkewedCall
<1>4. OneStart /\ FreeToRemove /\ OneListener
    BY DEF OneStart, FreeToRemove, OneListener, Starting
<1> QED BY <1>1, <1>2, <1>3, <1>4 DEF EndpointInv

\* A daemon's step.
LEMMA DaemonStep ==
  ASSUME EndpointInv, NEW d \in Daemons,
         \/ \E v \in Versions : BeginStart(d, v)
         \/ Look(d) \/ Probe(d) \/ RemoveStale(d) \/ BindSocket(d) \/ Chmod(d)
         \/ StopListening(d) \/ Crash(d)
  PROVE  EndpointInv'
<1> USE EndpointAssumption DEF EndpointInv, EndpointTypeOK, SockHeld, OneStart, FreeToRemove,
        OneListener, Starting, At, dirVars, callerVars
<1>0. ran' = ran /\ cver' = cver => NoSkewedCall'
    BY DEF NoSkewedCall
<1>1. ASSUME NEW v \in Versions, BeginStart(d, v)  PROVE EndpointInv'
    <2>1. ran' = ran /\ cver' = cver
        BY <1>1 DEF BeginStart
    <2>2. EndpointTypeOK'
        BY <1>1 DEF BeginStart
    <2>3. SockHeld'
        BY <1>1 DEF BeginStart
    <2>4. ~contended' => OneStart' /\ FreeToRemove' /\ OneListener'
        <3> SUFFICES ASSUME ~contended'  PROVE OneStart' /\ FreeToRemove' /\ OneListener'
            OBVIOUS
        <3>1. ~contended /\ \A e \in Daemons : ~Starting(e)
            BY <1>1 DEF BeginStart
        <3> QED BY <1>1, <3>1 DEF BeginStart
    <2> QED BY <1>0, <2>1, <2>2, <2>3, <2>4
<1>2. CASE Look(d)
    <2>1. ran' = ran /\ cver' = cver
        BY <1>2 DEF Look
    <2>2. EndpointTypeOK'
        BY <1>2 DEF Look
    <2>3. SockHeld'
        BY <1>2 DEF Look
    <2>4. ~contended' => OneStart' /\ FreeToRemove' /\ OneListener'
        BY <1>2, SMTT(30) DEF Look
    <2> QED BY <1>0, <2>1, <2>2, <2>3, <2>4
<1>3. CASE Probe(d)
    <2>1. ran' = ran /\ cver' = cver
        BY <1>3 DEF Probe, Answers, Listener
    <2>2. EndpointTypeOK'
        BY <1>3 DEF Probe, Answers, Listener
    <2>3. SockHeld'
        BY <1>3 DEF Probe, Answers, Listener
    <2>4. ~contended' => OneStart' /\ FreeToRemove' /\ OneListener'
        BY <1>3, SMTT(30) DEF Probe, Answers, Listener
    <2> QED BY <1>0, <2>1, <2>2, <2>3, <2>4
<1>4. CASE RemoveStale(d)
    <2>1. ran' = ran /\ cver' = cver
        BY <1>4 DEF RemoveStale, NoName
    <2>2. EndpointTypeOK'
        BY <1>4 DEF RemoveStale, NoName
    <2>3. SockHeld'
        BY <1>4 DEF RemoveStale, NoName
    <2>4. ~contended' => OneStart' /\ FreeToRemove' /\ OneListener'
        BY <1>4, SMTT(30) DEF RemoveStale, NoName
    <2> QED BY <1>0, <2>1, <2>2, <2>3, <2>4
<1>5. CASE BindSocket(d)
    <2>1. ran' = ran /\ cver' = cver
        BY <1>5 DEF BindSocket
    <2>2. EndpointTypeOK'
        BY <1>5 DEF BindSocket
    <2>3. SockHeld'
        BY <1>5 DEF BindSocket
    <2>4. ~contended' => OneStart' /\ FreeToRemove' /\ OneListener'
        BY <1>5, SMTT(30) DEF BindSocket
    <2> QED BY <1>0, <2>1, <2>2, <2>3, <2>4
<1>6. CASE Chmod(d)
    <2>1. ran' = ran /\ cver' = cver
        BY <1>6 DEF Chmod, Unlisten, Hangup
    <2>2. EndpointTypeOK'
        BY <1>6 DEF Chmod, Unlisten, Hangup
    <2>3. SockHeld'
        BY <1>6 DEF Chmod, Unlisten, Hangup
    <2>4. ~contended' => OneStart' /\ FreeToRemove' /\ OneListener'
        BY <1>6, SMTT(30) DEF Chmod, Unlisten, Hangup
    <2> QED BY <1>0, <2>1, <2>2, <2>3, <2>4
<1>7. CASE StopListening(d)
    <2>1. ran' = ran /\ cver' = cver
        BY <1>7 DEF StopListening, Unlisten, Hangup
    <2>2. EndpointTypeOK'
        <3>1. name' \in [kind : {"none", "socket", "other"}, at : Nat]
            BY <1>7 DEF StopListening, Unlisten, NoName
        <3> QED BY <1>7, <3>1 DEF StopListening, Unlisten, Hangup
    <2>3. SockHeld'
        BY <1>7 DEF StopListening, Unlisten, Hangup
    <2>4. ~contended' => OneStart' /\ FreeToRemove' /\ OneListener'
        BY <1>7, SMTT(30) DEF StopListening, Unlisten, Hangup
    <2> QED BY <1>0, <2>1, <2>2, <2>3, <2>4
<1>8. CASE Crash(d)
    <2>1. ran' = ran /\ cver' = cver
        BY <1>8 DEF Crash, Hangup
    <2>2. EndpointTypeOK'
        BY <1>8 DEF Crash, Hangup
    <2>3. SockHeld'
        BY <1>8 DEF Crash, Hangup
    <2>4. ~contended' => OneStart' /\ FreeToRemove' /\ OneListener'
        BY <1>8, SMTT(30) DEF Crash, Hangup
    <2> QED BY <1>0, <2>1, <2>2, <2>3, <2>4
<1> QED BY <1>1, <1>2, <1>3, <1>4, <1>5, <1>6, <1>7, <1>8

\* A client's step: only Handle changes what ran, and it asks Admits first.
LEMMA CallerStep ==
  ASSUME EndpointInv, NEW c \in Callers,
         \/ \E v \in Versions : DialDaemon(c, v)
         \/ Call(c) \/ Connect(c) \/ CloseClient(c)
         \/ \E d \in Daemons : Handle(c, d)
  PROVE  EndpointInv'
<1>1. UNCHANGED daemonVars
    BY DEF DialDaemon, Call, Connect, CloseClient, Handle
<1>2. SockHeld' /\ (~contended' => OneStart' /\ FreeToRemove' /\ OneListener')
    BY <1>1 DEF EndpointInv, SockHeld, OneStart, FreeToRemove, OneListener, Starting,
                daemonVars, dirVars
<1>3. ASSUME NEW v \in Versions, DialDaemon(c, v)  PROVE EndpointTypeOK' /\ NoSkewedCall'
    BY <1>1, <1>3 DEF DialDaemon, EndpointInv, EndpointTypeOK, NoSkewedCall, daemonVars, dirVars
<1>4. CASE Call(c) \/ Connect(c) \/ CloseClient(c)
    BY <1>1, <1>2, <1>4 DEF Call, Connect, CloseClient, EndpointInv, EndpointTypeOK, NoSkewedCall,
                            daemonVars, dirVars
<1>5. ASSUME NEW d \in Daemons, Handle(c, d)  PROVE EndpointTypeOK' /\ NoSkewedCall'
    BY <1>1, <1>5 DEF Handle, Admits, EndpointInv, EndpointTypeOK, NoSkewedCall,
                      daemonVars, dirVars
<1> QED BY <1>2, <1>3, <1>4, <1>5 DEF EndpointInv

LEMMA EndpointStep == EndpointInv /\ [EndpointNext]_endpointVars => EndpointInv'
<1> SUFFICES ASSUME EndpointInv, [EndpointNext]_endpointVars  PROVE EndpointInv'
    OBVIOUS
<1>1. CASE UNCHANGED endpointVars
    BY <1>1 DEF EndpointInv, EndpointTypeOK, SockHeld, NoSkewedCall, OneStart, FreeToRemove,
                OneListener, Starting, endpointVars, daemonVars, callerVars, dirVars
<1> QED BY <1>1, DaemonStep, CallerStep, Zenon DEF EndpointNext

\* What answers at the endpoint is the one daemon, as long as no two starts overlap,
\* and it does something only for clients its version fits (listener.go, server.go:
\* handle), for any number of daemons, clients and versions.
THEOREM EndpointIsHeld == EndpointSpec => []EndpointHeld
<1>1. EndpointInv => EndpointHeld
    BY DEF EndpointInv, EndpointHeld, OneListener
<1> QED BY <1>1, EndpointStart, EndpointStep, PTL DEF EndpointSpec

-----------------------------------------------------------------------------
(* The watcher: an event for every edit at most.                              *)

WatchTypes ==
  /\ disk \in [Paths -> Nat] /\ seen \in [Paths -> Nat]
  /\ entry \in [Paths -> [Names -> Nat]] /\ seenEntry \in [Paths -> [Names -> Nat]]
  /\ pending \in [Paths -> [first : Nat, last : Nat, on : BOOLEAN]]
  /\ made \in [Paths -> Nat] /\ emitted \in [Paths -> Nat]
  /\ edits \in Nat /\ todo \subseteq Paths
  /\ phase \in {"adding", "wait", "scan", "emit", "closed"}

\* The directory that was just statted had, then, what it has now or something older.
StatHeld ==
  stated # NoStat =>
    /\ phase \in {"adding", "scan"} /\ stated.path \in Dirs \cap todo
    /\ stated.found \in Nat /\ stated.found <= disk[stated.path]
    /\ seen[stated.path] <= stated.found
    /\ phase = "adding" => seen[stated.path] = stated.found

\* Add has not statted the path yet.
Unlooked(p) == phase = "adding" /\ p \in todo /\ stated.path # p
On(p) == IF pending[p].on THEN 1 ELSE 0

\* What is unseen of p may belong to an edit that its burst already has: an entry made
\* between the stat of the directory and its snapshot.  The next tick sees the rest of it,
\* before the burst is old enough to be emitted.
Half(p) ==
  /\ pending[p].on
  /\ IF phase = "scan" /\ p \in todo
     THEN pending[p].first = 1 /\ (stated.path = p => disk[p] = stated.found)
     ELSE pending[p].first = 0

\* There was an edit for each event, one for the burst, and one for what is unseen.
PathHeld(p) ==
  /\ disk[p] <= edits /\ (p \in Dirs => seen[p] <= disk[p])
  /\ pending[p].on => /\ pending[p].last <= pending[p].first
                      /\ phase = "scan" /\ p \in todo => pending[p].first >= 1
  /\ phase = "adding" => /\ emitted[p] = 0 /\ ~pending[p].on
                         /\ entry[p] # Empty => made[p] >= 1
                         /\ p \in todo => seenEntry[p] = Empty
  /\ emitted[p] + On(p) <= made[p]
  /\ ~Unlooked(p) /\ Unseen(p) /\ ~Half(p) => emitted[p] + On(p) + 1 <= made[p]

WatchInv == WatchTypes /\ StatHeld /\ \A p \in Paths : PathHeld(p)

LEMMA WindowBounds ==
  /\ Debounce \in Nat /\ Debounce >= 1 /\ MaxWait \in Nat /\ Oldest \in Nat /\ Oldest >= 1
  BY WatchAssumption DEF Oldest

LEMMA LesserOf ==
  ASSUME NEW a \in Nat, NEW b \in Nat
  PROVE  Min({a, b}) \in {a, b} /\ Min({a, b}) <= a /\ Min({a, b}) <= b
<1>1. \E x \in {a, b} : \A y \in {a, b} : x <= y
  BY a <= b \/ b <= a
<1> QED
  BY <1>1 DEF Min

\* Age never brings the last change of a burst behind its first.
LEMMA AgedKeeps ==
  ASSUME NEW c \in [first : Nat, last : Nat, on : BOOLEAN]
  PROVE  /\ Aged(c) \in [first : Nat, last : Nat, on : BOOLEAN] /\ Aged(c).on = c.on
         /\ c.on /\ c.last <= c.first => Aged(c).last <= Aged(c).first /\ Aged(c).first >= 1
         /\ c.on /\ c.first = 0 => Aged(c).first = 1
<1>1. CASE ~c.on
  BY <1>1 DEF Aged
<1>2. CASE c.on
  <2> DEFINE f == Min({c.first + 1, Oldest})
             l == Min({c.last + 1, Oldest})
  <2>1. c.first \in Nat /\ c.last \in Nat /\ c.on \in BOOLEAN
    OBVIOUS
  <2>2. f \in {c.first + 1, Oldest} /\ f <= c.first + 1 /\ f <= Oldest
    BY <2>1, WindowBounds, LesserOf
  <2>3. l \in {c.last + 1, Oldest} /\ l <= c.last + 1 /\ l <= Oldest
    BY <2>1, WindowBounds, LesserOf
  <2> HIDE DEF f, l
  <2>4. Aged(c) = [c EXCEPT !.first = f, !.last = l]
    BY <1>2 DEF Aged, f, l
  <2>5. f \in Nat /\ l \in Nat /\ f >= 1
    BY <2>1, <2>2, <2>3, WindowBounds
  <2>6. Aged(c).first = f /\ Aged(c).last = l /\ Aged(c).on = c.on
        /\ Aged(c) \in [first : Nat, last : Nat, on : BOOLEAN]
    BY <2>4, <2>5
  <2>7. c.last <= c.first => l <= f
    BY <2>1, <2>2, <2>3, WindowBounds
  <2>8. c.first = 0 => f = 1
    BY <2>1, <2>2, WindowBounds
  <2> QED BY <2>5, <2>6, <2>7, <2>8
<1> QED
  BY <1>1, <1>2

\* The one path a step is about is held, and it leaves the others alone.
LEMMA OnePath ==
  ASSUME WatchInv, WatchTypes', StatHeld', NEW p \in Paths, phase' = phase, PathHeld(p)',
         edits <= edits',
         stated' = stated \/ {stated.path, stated'.path} \subseteq {p, "none"},
         \A q \in Paths \ {p} :
           /\ disk'[q] = disk[q] /\ entry'[q] = entry[q] /\ seen'[q] = seen[q]
           /\ seenEntry'[q] = seenEntry[q] /\ pending'[q] = pending[q] /\ made'[q] = made[q]
           /\ emitted'[q] = emitted[q] /\ (q \in todo' <=> q \in todo)
  PROVE  WatchInv'
<1>1. ASSUME NEW q \in Paths \ {p} PROVE PathHeld(q)'
  <2>1. PathHeld(q) /\ (stated' = stated \/ (stated.path # q /\ stated'.path # q))
    BY WatchAssumption DEF WatchInv
  <2>2. On(q)' = On(q) /\ (Unseen(q)' <=> Unseen(q)) /\ (Half(q)' <=> Half(q))
        /\ (Unlooked(q)' <=> Unlooked(q))
    BY <2>1 DEF On, Unseen, Half, Unlooked
  <2>3. disk'[q] <= edits'
    BY <2>1 DEF PathHeld, WatchInv, WatchTypes
  <2> QED BY <2>1, <2>2, <2>3 DEF PathHeld
<1> QED
  BY <1>1 DEF WatchInv

\* A directory under stat, or none.
LEMMA StatedPath ==
  ASSUME StatHeld, WatchTypes
  PROVE  /\ stated = NoStat => stated.path = "none"
         /\ stated # NoStat => stated.path \in Paths
  BY DEF StatHeld, NoStat, WatchTypes

\* An edit of p: it makes up for itself.
LEMMA EditStep ==
  ASSUME WatchInv, NEW p \in Paths, Touched(p),
         disk' \in [Paths -> Nat], entry' \in [Paths -> [Names -> Nat]],
         disk'[p] \in {disk[p], edits + 1},
         \A q \in Paths \ {p} : disk'[q] = disk[q] /\ entry'[q] = entry[q]
  PROVE  WatchInv'
<1>1. WatchTypes /\ StatHeld /\ PathHeld(p)
  BY DEF WatchInv
<1>2. /\ edits' = edits + 1 /\ edits \in Nat /\ made' = [made EXCEPT ![p] = made[p] + 1]
      /\ UNCHANGED <<seen, seenEntry, pending, queued, emitted, phase, todo, stated>>
  BY <1>1 DEF Touched, watcherVars, WatchTypes
<1>3. WatchTypes'
  BY <1>1, <1>2 DEF WatchTypes
<1>4. /\ disk[p] <= edits /\ disk[p] <= disk'[p] /\ disk'[p] <= edits' /\ edits <= edits'
      /\ disk[p] \in Nat /\ disk'[p] \in Nat /\ seen[p] \in Nat
  BY <1>1, <1>2, <1>3 DEF PathHeld, WatchTypes
<1>5. StatHeld'
  <2> SUFFICES ASSUME stated # NoStat PROVE StatHeld'
    BY <1>2 DEF StatHeld
  <2>1. stated.path \in Paths /\ stated.found \in Nat /\ stated.found <= disk[stated.path]
    BY <1>1, StatedPath DEF StatHeld
  <2> PICK s \in Paths : s = stated.path
    BY <2>1
  <2>2. disk[s] \in Nat /\ disk'[s] \in Nat /\ disk[s] <= disk'[s]
    <3>1. disk[s] \in Nat /\ disk'[s] \in Nat
      BY <1>1, <1>3 DEF WatchTypes
    <3>2. CASE s = p
      BY <3>1, <3>2, <1>4
    <3>3. CASE s # p
      <4>1. disk'[s] = disk[s]
        BY <3>3
      <4> QED BY <3>1, <4>1
    <3> QED BY <3>2, <3>3
  <2>3. stated.found <= disk'[stated.path]
    BY <2>1, <2>2
  <2> QED BY <1>1, <1>2, <2>3 DEF StatHeld
<1>6. /\ made'[p] = made[p] + 1 /\ made[p] \in Nat /\ emitted[p] \in Nat /\ On(p) \in {0, 1} /\ On(p)' = On(p)
      /\ emitted'[p] = emitted[p]
  BY <1>1, <1>2 DEF WatchTypes, On
<1>7. emitted'[p] + On(p)' + 1 <= made'[p] /\ emitted'[p] + On(p)' <= made'[p] /\ made'[p] >= 1
  BY <1>1, <1>6 DEF PathHeld
<1>8. PathHeld(p)'
  <2>1. p \in Dirs => seen'[p] <= disk'[p]
    BY <1>1, <1>2, <1>4 DEF PathHeld
  <2>2. pending'[p].on => /\ pending'[p].last <= pending'[p].first
                          /\ phase' = "scan" /\ p \in todo' => pending'[p].first >= 1
    BY <1>1, <1>2 DEF PathHeld
  <2>3. phase' = "adding" => /\ emitted'[p] = 0 /\ ~pending'[p].on
                             /\ entry'[p] # Empty => made'[p] >= 1
                             /\ p \in todo' => seenEntry'[p] = Empty
    BY <1>1, <1>2, <1>7 DEF PathHeld
  <2> QED BY <1>4, <1>7, <2>1, <2>2, <2>3 DEF PathHeld, Empty
<1>9. \A q \in Paths \ {p} : made'[q] = made[q]
  BY <1>2, <1>1 DEF WatchTypes
<1> QED
  BY <1>2, <1>3, <1>4, <1>5, <1>8, <1>9, OnePath

LEMMA FileSteps ==
  ASSUME WatchInv, FileStep
  PROVE  WatchInv'
<1>1. WatchTypes /\ StatHeld /\ edits \in Nat
  BY DEF WatchInv, WatchTypes
<1>2. ASSUME NEW p \in Paths, WriteFile(p) PROVE WatchInv'
  <2>1. disk' = [disk EXCEPT ![p] = edits + 1] /\ entry' = entry /\ Touched(p)
    BY <1>2 DEF WriteFile
  <2>2. /\ disk' \in [Paths -> Nat] /\ entry' \in [Paths -> [Names -> Nat]] /\ disk'[p] = edits + 1
        /\ \A q \in Paths \ {p} : disk'[q] = disk[q]
    BY <1>1, <2>1 DEF WatchTypes
  <2> QED BY <2>1, <2>2, EditStep
<1>3. ASSUME NEW p \in Paths, NEW n \in Names, WriteEntry(p, n) PROVE WatchInv'
  <2>1. /\ entry' = [entry EXCEPT ![p][n] = edits + 1] /\ Touched(p) /\ p \in Dirs
        /\ disk' \in {disk, [disk EXCEPT ![p] = edits + 1]}
    BY <1>3 DEF WriteEntry
  <2>2. /\ disk' \in [Paths -> Nat] /\ disk'[p] \in {disk[p], edits + 1}
        /\ \A q \in Paths \ {p} : disk'[q] = disk[q]
    <3>1. CASE disk' = disk
      BY <1>1, <3>1 DEF WatchTypes
    <3>2. CASE disk' = [disk EXCEPT ![p] = edits + 1]
      BY <1>1, <3>2 DEF WatchTypes
    <3> QED BY <2>1, <3>1, <3>2
  <2>3. entry' \in [Paths -> [Names -> Nat]] /\ \A q \in Paths \ {p} : entry'[q] = entry[q]
    BY <1>1, <2>1 DEF WatchTypes
  <2> QED BY <2>1, <2>2, <2>3, EditStep
<1>4. ASSUME NEW p \in Paths, NEW n \in Names, RemoveEntry(p, n) PROVE WatchInv'
  <2>1. /\ entry' = [entry EXCEPT ![p][n] = 0] /\ Touched(p)
        /\ disk' = [disk EXCEPT ![p] = edits + 1]
    BY <1>4 DEF RemoveEntry
  <2>2. /\ disk' \in [Paths -> Nat] /\ disk'[p] = edits + 1
        /\ \A q \in Paths \ {p} : disk'[q] = disk[q]
    BY <1>1, <2>1 DEF WatchTypes
  <2>3. entry' \in [Paths -> [Names -> Nat]] /\ \A q \in Paths \ {p} : entry'[q] = entry[q]
    BY <1>1, <2>1 DEF WatchTypes
  <2> QED BY <2>1, <2>2, <2>3, EditStep
<1>5. ASSUME NEW p \in Paths, RemoveFile(p) PROVE WatchInv'
  <2>1. /\ p \notin Dirs /\ phase # "adding" /\ disk' = [disk EXCEPT ![p] = 0]
        /\ UNCHANGED <<entry, edits, owed, made, seen, seenEntry, pending, queued, emitted, phase, todo, stated>>
    BY <1>5 DEF RemoveFile, watcherVars
  <2>2. WatchTypes' /\ disk'[p] = 0 /\ \A q \in Paths \ {p} : disk'[q] = disk[q]
    BY <1>1, <2>1 DEF WatchTypes
  <2>3. StatHeld'
    BY <1>1, <2>1, <2>2, StatedPath DEF StatHeld
  <2>4. PathHeld(p)'
    <3>1. PathHeld(p) /\ On(p)' = On(p) /\ ~Unseen(p)'
      BY <2>1, <2>2 DEF WatchInv, On, Unseen
    <3> QED BY <1>1, <2>1, <2>2, <3>1 DEF PathHeld
  <2> QED BY <1>1, <2>1, <2>2, <2>3, <2>4, OnePath
<1> QED
  BY <1>2, <1>3, <1>4, <1>5 DEF FileStep

LEMMA AddSteps ==
  ASSUME WatchInv, \/ AddSnapshot \/ \E p \in Paths : AddStat(p)
  PROVE  WatchInv'
<1>1. WatchTypes /\ StatHeld /\ edits \in Nat
  BY DEF WatchInv, WatchTypes
<1>2. ASSUME NEW p \in Paths, AddStat(p) PROVE WatchInv'
  <2>1. /\ phase = "adding" /\ phase' = phase /\ p \in todo /\ stated = NoStat /\ stated.path = "none"
        /\ seen' = [seen EXCEPT ![p] = disk[p]]
        /\ UNCHANGED <<disk, entry, edits, owed, made, seenEntry, pending, queued, emitted>>
    BY <1>2 DEF AddStat, diskVars, NoStat
  <2>2. \/ p \in Dirs /\ stated' = [path |-> p, found |-> disk[p]] /\ todo' = todo
        \/ p \notin Dirs /\ stated' = stated /\ todo' = todo \ {p}
    BY <1>2 DEF AddStat
  <2>3. /\ WatchTypes' /\ seen'[p] = disk[p] /\ disk[p] \in Nat
        /\ \A q \in Paths \ {p} : seen'[q] = seen[q] /\ (q \in todo' <=> q \in todo)
    BY <1>1, <2>1, <2>2 DEF WatchTypes
  <2>4. StatHeld'
    BY <2>1, <2>2, <2>3 DEF StatHeld, NoStat
  <2>5. PathHeld(p)'
    <3>1. /\ PathHeld(p) /\ On(p)' = On(p) /\ emitted[p] = 0 /\ On(p) = 0 /\ made[p] \in Nat
          /\ seenEntry[p] = Empty /\ (entry[p] # Empty => made[p] >= 1) /\ ~pending[p].on
      BY <1>1, <2>1 DEF WatchInv, On, PathHeld, WatchTypes
    <3>2. Unseen(p)' => made[p] >= 1
      BY <2>1, <2>3, <3>1 DEF Unseen
    <3>3. disk[p] <= edits /\ seen'[p] <= disk[p]
      BY <2>3, <3>1 DEF PathHeld
    <3> QED BY <2>1, <3>1, <3>2, <3>3 DEF PathHeld, Empty
  <2>6. {stated.path, stated'.path} \subseteq {p, "none"}
    BY <2>1, <2>2
  <2> QED BY <1>1, <2>1, <2>3, <2>4, <2>5, <2>6, OnePath
<1>3. CASE AddSnapshot
  <2>0. stated # NoStat /\ stated.path \in Paths /\ stated.path \in todo /\ stated.path \in Dirs
    BY <1>1, <1>3, StatedPath DEF AddSnapshot, StatHeld
  <2> PICK p \in Paths : p = stated.path
    BY <2>0
  <2>1. /\ phase = "adding" /\ phase' = phase /\ stated # NoStat /\ stated' = NoStat /\ stated'.path = "none"
        /\ seenEntry' = [seenEntry EXCEPT ![p] = entry[p]] /\ todo' = todo \ {p}
        /\ UNCHANGED <<disk, entry, edits, owed, made, seen, pending, queued, emitted>>
    BY <1>3 DEF AddSnapshot, diskVars, NoStat
  <2>2. p \in Paths /\ p \in todo /\ p \in Dirs /\ stated.path = p
    BY <2>0
  <2>3. /\ WatchTypes' /\ seenEntry'[p] = entry[p]
        /\ \A q \in Paths \ {p} : seenEntry'[q] = seenEntry[q] /\ (q \in todo' <=> q \in todo)
    BY <1>1, <2>1, <2>2 DEF WatchTypes
  <2>4. StatHeld'
    BY <2>1 DEF StatHeld
  <2>5. PathHeld(p)'
    <3>1. PathHeld(p) /\ On(p)' = On(p) /\ ~pending[p].on /\ p \notin todo'
      BY <2>1, <2>2 DEF WatchInv, On, PathHeld
    <3>2. ~Half(p) /\ ~Unlooked(p)
      BY <2>2, <3>1 DEF Half, Unlooked
    <3>3. Unseen(p)' => Unseen(p)
      BY <2>1, <2>2, <2>3 DEF Unseen
    <3> QED BY <2>1, <3>1, <3>2, <3>3 DEF PathHeld, Empty
  <2>6. {stated.path, stated'.path} \subseteq {p, "none"}
    BY <2>1, <2>2
  <2> QED BY <1>1, <2>1, <2>2, <2>3, <2>4, <2>5, <2>6, OnePath
<1> QED
  BY <1>2, <1>3

\* A phase ends: no path is left to look at.
LEMMA PhaseSteps ==
  ASSUME WatchInv, Start \/ ScanDone \/ CloseWatcher
  PROVE  WatchInv'
<1>1. WatchTypes /\ StatHeld /\ edits \in Nat
  BY DEF WatchInv, WatchTypes
<1>2. /\ UNCHANGED <<disk, entry, edits, owed, made, seen, seenEntry, pending, queued, emitted, todo, stated>>
      /\ phase \in {"adding", "scan", "wait"} /\ phase' \in {"wait", "emit", "closed"}
      /\ phase \in {"adding", "scan"} => todo = {}
  BY DEF Start, ScanDone, CloseWatcher, diskVars, watcherVars
<1>3. WatchTypes'
  BY <1>1, <1>2 DEF WatchTypes
<1>4. stated = NoStat
  BY <1>1, <1>2 DEF StatHeld
<1>5. StatHeld'
  BY <1>2, <1>4 DEF StatHeld
<1>6. ASSUME NEW p \in Paths PROVE PathHeld(p)'
  <2>1. PathHeld(p) /\ On(p)' = On(p) /\ (Unseen(p)' <=> Unseen(p)) /\ ~Unlooked(p)
    BY <1>2 DEF WatchInv, On, Unseen, Unlooked
  <2>2. Half(p) => Half(p)'
    BY <1>2 DEF Half
  <2> QED BY <1>2, <2>1, <2>2 DEF PathHeld
<1> QED
  BY <1>3, <1>5, <1>6 DEF WatchInv

LEMMA TickBeginStep ==
  ASSUME WatchInv, TickBegin
  PROVE  WatchInv'
<1>1. WatchTypes /\ StatHeld
  BY DEF WatchInv
<1>2. /\ phase = "wait" /\ phase' = "scan" /\ todo' = Paths /\ pending' = [p \in Paths |-> Aged(pending[p])]
      /\ UNCHANGED <<disk, entry, edits, owed, made, seen, seenEntry, queued, emitted, stated>>
  BY DEF TickBegin, diskVars
<1>3. \A p \in Paths : pending[p] \in [first : Nat, last : Nat, on : BOOLEAN] /\ pending'[p] = Aged(pending[p])
  BY <1>1, <1>2 DEF WatchTypes
<1>4. WatchTypes'
  BY <1>1, <1>2, <1>3, AgedKeeps DEF WatchTypes
<1>5. stated = NoStat /\ stated.path = "none" /\ StatHeld'
  BY <1>1, <1>2 DEF StatHeld, NoStat
<1>6. ASSUME NEW p \in Paths PROVE PathHeld(p)'
  <2> DEFINE c == pending[p]
             d == Aged(c)
  <2>1. /\ d \in [first : Nat, last : Nat, on : BOOLEAN] /\ d.on = c.on
        /\ c.on /\ c.last <= c.first => d.last <= d.first /\ d.first >= 1
        /\ c.on /\ c.first = 0 => d.first = 1
    BY <1>3, AgedKeeps
  <2> HIDE DEF d
  <2>2. pending'[p] = d
    BY <1>3 DEF d
  <2>3. PathHeld(p) /\ On(p)' = On(p) /\ (Unseen(p)' <=> Unseen(p)) /\ ~Unlooked(p) /\ stated.path # p
    BY <1>2, <1>5, <2>1, <2>2, WatchAssumption DEF WatchInv, On, Unseen, Unlooked
  <2>4. Half(p) => Half(p)'
    BY <1>2, <1>5, <2>1, <2>2, <2>3 DEF Half
  <2>5. pending'[p].on => pending'[p].last <= pending'[p].first /\ pending'[p].first >= 1
    BY <2>1, <2>2, <2>3 DEF PathHeld
  <2> QED BY <1>2, <2>3, <2>4, <2>5 DEF PathHeld
<1> QED
  BY <1>4, <1>5, <1>6 DEF WatchInv

\* What a change makes of a burst.
LEMMA BurstKeeps ==
  ASSUME NEW c \in [first : Nat, last : Nat, on : BOOLEAN]
  PROVE  /\ Burst(c) \in [first : Nat, last : Nat, on : BOOLEAN] /\ Burst(c).on /\ Burst(c).last = 0
         /\ c.on => Burst(c).first = c.first
         /\ ~c.on => Burst(c).first = 0
  BY DEF Burst

LEMMA StatPathStep ==
  ASSUME WatchInv, NEW p \in Paths, StatPath(p)
  PROVE  WatchInv'
<1>1. WatchTypes /\ StatHeld /\ edits \in Nat /\ PathHeld(p)
  BY DEF WatchInv, WatchTypes
<1>2. /\ phase = "scan" /\ phase' = phase /\ p \in todo /\ stated = NoStat /\ stated.path = "none"
      /\ UNCHANGED <<disk, entry, edits, owed, made, seenEntry, queued, emitted>>
  BY DEF StatPath, diskVars, NoStat
<1>3. stated.path # p
  BY <1>2, WatchAssumption
<1>4. CASE p \in Dirs
  <2>1. stated' = [path |-> p, found |-> disk[p]] /\ UNCHANGED <<todo, seen, pending>>
    BY <1>4 DEF StatPath
  <2>2. WatchTypes' /\ disk[p] \in Nat /\ seen[p] <= disk[p]
    BY <1>1, <1>2, <1>4, <2>1 DEF WatchTypes, PathHeld
  <2>3. StatHeld'
    BY <1>2, <1>4, <2>1, <2>2 DEF StatHeld, NoStat
  <2>4. (Half(p) => Half(p)') /\ (Unseen(p)' <=> Unseen(p)) /\ On(p)' = On(p) /\ ~Unlooked(p)
    BY <1>2, <1>3, <2>1 DEF Half, Unseen, On, Unlooked
  <2>5. PathHeld(p)'
    BY <1>1, <1>2, <2>1, <2>4 DEF PathHeld
  <2>6. {stated.path, stated'.path} \subseteq {p, "none"}
    BY <1>2, <2>1
  <2> QED BY <1>1, <1>2, <2>1, <2>2, <2>3, <2>5, <2>6, OnePath
<1>5. CASE p \notin Dirs
  <2>1. stated' = stated /\ todo' = todo \ {p}
    BY <1>5 DEF StatPath
  <2>2. CASE disk[p] \notin {0, seen[p]}
    <3>1. seen' = [seen EXCEPT ![p] = disk[p]] /\ pending' = [pending EXCEPT ![p] = Burst(pending[p])]
      BY <1>5, <2>2 DEF StatPath
    <3>2. pending[p] \in [first : Nat, last : Nat, on : BOOLEAN]
      BY <1>1 DEF WatchTypes
    <3> DEFINE b == Burst(pending[p])
    <3>3. /\ b \in [first : Nat, last : Nat, on : BOOLEAN] /\ b.on /\ b.last = 0
          /\ pending[p].on => b.first = pending[p].first
      BY <3>2, BurstKeeps
    <3> HIDE DEF b
    <3>4. /\ pending'[p] = b /\ seen'[p] = disk[p] /\ WatchTypes'
          /\ \A q \in Paths \ {p} : pending'[q] = pending[q] /\ seen'[q] = seen[q] /\ (q \in todo' <=> q \in todo)
      BY <1>1, <1>2, <2>1, <3>1, <3>3 DEF WatchTypes, b
    <3>5. Unseen(p) /\ ~Unlooked(p) /\ ~Unseen(p)'
      BY <1>2, <1>5, <2>2, <3>4 DEF Unseen, Unlooked
    <3>6. ~pending[p].on => ~Half(p)
      BY DEF Half
    <3>7. On(p)' = 1 /\ On(p) \in {0, 1} /\ (pending[p].on <=> On(p) = 1)
      BY <3>3, <3>4 DEF On
    <3>8. emitted[p] \in Nat /\ made[p] \in Nat
      BY <1>1 DEF WatchTypes
    <3>9. emitted'[p] + On(p)' <= made'[p]
      BY <1>1, <1>2, <3>5, <3>6, <3>7, <3>8 DEF PathHeld
    <3>10. PathHeld(p)'
      BY <1>1, <1>2, <1>5, <2>1, <3>3, <3>4, <3>5, <3>9 DEF PathHeld
    <3>11. StatHeld'
      BY <1>2, <2>1 DEF StatHeld
    <3> QED BY <1>1, <1>2, <2>1, <3>4, <3>10, <3>11, OnePath
  <2>3. CASE disk[p] \in {0, seen[p]}
    <3>1. UNCHANGED <<seen, pending>>
      BY <1>5, <2>3 DEF StatPath
    <3>2. WatchTypes' /\ StatHeld'
      BY <1>1, <1>2, <2>1, <3>1 DEF WatchTypes, StatHeld
    <3>3. ~Unseen(p)' /\ On(p)' = On(p)
      BY <1>2, <1>5, <2>3, <3>1 DEF Unseen, On
    <3>4. PathHeld(p)'
      BY <1>1, <1>2, <1>5, <2>1, <3>1, <3>3 DEF PathHeld
    <3> QED BY <1>1, <1>2, <2>1, <3>1, <3>2, <3>4, OnePath
  <2> QED BY <2>2, <2>3
<1> QED
  BY <1>4, <1>5

LEMMA ScanDirStep ==
  ASSUME WatchInv, ScanDir
  PROVE  WatchInv'
<1>1. WatchTypes /\ StatHeld /\ edits \in Nat
  BY DEF WatchInv, WatchTypes
<1>0. /\ stated # NoStat /\ stated.path \in Paths /\ stated.path \in todo /\ stated.path \in Dirs
      /\ stated.found \in Nat
  BY <1>1, StatedPath DEF ScanDir, StatHeld
<1> PICK p \in Paths : p = stated.path
  BY <1>0
<1> PICK f \in Nat : f = stated.found
  BY <1>0
<1> PICK b : b = Burst(pending[p])
  OBVIOUS
<1>2. /\ phase = "scan" /\ phase' = phase /\ stated # NoStat /\ stated' = NoStat /\ stated'.path = "none"
      /\ UNCHANGED <<disk, entry, edits, owed, made, queued, emitted>>
      /\ seenEntry' = [seenEntry EXCEPT ![p] = entry[p]] /\ todo' = todo \ {p}
  BY DEF ScanDir, diskVars, NoStat, Snapshot
<1>3. IF f # seen[p] \/ entry[p] # seenEntry[p]
      THEN seen' = [seen EXCEPT ![p] = f] /\ pending' = [pending EXCEPT ![p] = b]
      ELSE UNCHANGED <<seen, pending>>
  BY DEF ScanDir
<1>4. /\ p \in Paths /\ p \in todo /\ p \in Dirs /\ stated.path = p
      /\ f \in Nat /\ f <= disk[p] /\ seen[p] <= f /\ stated.found = f
  BY <1>0, <1>1 DEF StatHeld
<1>5. PathHeld(p) /\ pending[p] \in [first : Nat, last : Nat, on : BOOLEAN]
  BY <1>1, <1>4 DEF WatchInv, WatchTypes
<1>6. /\ b \in [first : Nat, last : Nat, on : BOOLEAN] /\ b.on /\ b.last = 0
      /\ pending[p].on => b.first = pending[p].first
      /\ ~pending[p].on => b.first = 0
  BY <1>5, BurstKeeps
<1>7. emitted[p] \in Nat /\ made[p] \in Nat /\ disk[p] \in Nat /\ seen[p] \in Nat
  BY <1>1, <1>4 DEF WatchTypes
<1>8. StatHeld' /\ {stated.path, stated'.path} \subseteq {p, "none"}
  BY <1>2, <1>4 DEF StatHeld
<1>9. ~Unlooked(p) /\ (disk[p] # f => ~Half(p) /\ Unseen(p))
  BY <1>2, <1>4, <1>7 DEF Unlooked, Half, Unseen
<1>10. CASE f # seen[p] \/ entry[p] # seenEntry[p]
  <2>1. /\ WatchTypes' /\ seen'[p] = f /\ pending'[p] = b /\ seenEntry'[p] = entry[p]
        /\ \A q \in Paths \ {p} : /\ seen'[q] = seen[q] /\ pending'[q] = pending[q]
                                  /\ seenEntry'[q] = seenEntry[q] /\ (q \in todo' <=> q \in todo)
    <3>1. seen' = [seen EXCEPT ![p] = f] /\ pending' = [pending EXCEPT ![p] = b]
      BY <1>3, <1>10
    <3>2. seen' \in [Paths -> Nat] /\ seen'[p] = f /\ \A q \in Paths \ {p} : seen'[q] = seen[q]
      BY <1>1, <3>1 DEF WatchTypes
    <3>3. /\ pending' \in [Paths -> [first : Nat, last : Nat, on : BOOLEAN]] /\ pending'[p] = b
          /\ \A q \in Paths \ {p} : pending'[q] = pending[q]
      BY <1>1, <1>6, <3>1 DEF WatchTypes
    <3>4. /\ seenEntry' \in [Paths -> [Names -> Nat]] /\ seenEntry'[p] = entry[p]
          /\ \A q \in Paths \ {p} : seenEntry'[q] = seenEntry[q]
      BY <1>1, <1>2 DEF WatchTypes
    <3>5. WatchTypes'
      BY <1>1, <1>2, <3>2, <3>3, <3>4 DEF WatchTypes
    <3> QED BY <1>2, <3>2, <3>3, <3>4, <3>5
  <2>2. Unseen(p)
    BY <1>4, <1>7, <1>10 DEF Unseen
  <2>3. Unseen(p)' => disk[p] # f
    BY <1>2, <2>1 DEF Unseen
  <2>4. On(p)' = 1 /\ On(p) \in {0, 1} /\ (pending[p].on <=> On(p) = 1)
    BY <1>6, <2>1 DEF On
  <2>5. ~pending[p].on => ~Half(p) /\ Half(p)'
    BY <1>2, <1>6, <2>1 DEF Half
  <2>6. emitted'[p] + On(p)' <= made'[p]
    BY <1>2, <1>5, <1>7, <1>9, <2>2, <2>4, <2>5 DEF PathHeld
  <2>7. Unseen(p)' /\ ~Half(p)' => emitted'[p] + On(p)' + 1 <= made'[p]
    BY <1>2, <1>5, <1>7, <1>9, <2>2, <2>3, <2>4, <2>5 DEF PathHeld
  <2>8. pending'[p].on => /\ pending'[p].last <= pending'[p].first
                          /\ p \notin todo'
    BY <1>2, <1>6, <2>1
  <2>9. PathHeld(p)'
    BY <1>2, <1>4, <1>5, <2>1, <2>6, <2>7, <2>8 DEF PathHeld
  <2> QED BY <1>1, <1>2, <1>4, <1>8, <2>1, <2>9, OnePath
<1>11. CASE f = seen[p] /\ entry[p] = seenEntry[p]
  <2>1. /\ UNCHANGED <<seen, pending>> /\ WatchTypes' /\ seenEntry'[p] = entry[p]
        /\ \A q \in Paths \ {p} : seenEntry'[q] = seenEntry[q] /\ (q \in todo' <=> q \in todo)
    BY <1>1, <1>2, <1>3, <1>4, <1>11 DEF WatchTypes
  <2>2. Unseen(p)' => disk[p] # f
    BY <1>2, <1>11, <2>1 DEF Unseen
  <2>3. On(p)' = On(p)
    BY <2>1 DEF On
  <2>4. PathHeld(p)'
    BY <1>2, <1>4, <1>5, <1>9, <2>1, <2>2, <2>3 DEF PathHeld
  <2> QED BY <1>1, <1>2, <1>4, <1>8, <2>1, <2>4, OnePath
<1> QED
  BY <1>10, <1>11

\* A burst that is due has been seen to its end.
LEMMA EmitStep ==
  ASSUME WatchInv, Emit
  PROVE  WatchInv'
<1>1. WatchTypes /\ StatHeld
  BY DEF WatchInv
<1>2. PICK S \in SUBSET {p \in Paths : Due(p)} :
        /\ emitted' = [p \in Paths |-> emitted[p] + (IF p \in S THEN 1 ELSE 0)]
        /\ pending' = [p \in Paths |-> IF p \in S THEN NoChange ELSE pending[p]]
  BY DEF Emit, Cleared
<1>3. /\ phase = "emit" /\ phase' = "wait"
      /\ UNCHANGED <<disk, entry, edits, made, seen, seenEntry, todo, stated>>
  BY DEF Emit
<1>4. NoChange \in [first : Nat, last : Nat, on : BOOLEAN] /\ ~NoChange.on
  BY DEF NoChange
<1>5. \A p \in Paths : /\ emitted[p] \in Nat /\ made[p] \in Nat
                       /\ pending[p] \in [first : Nat, last : Nat, on : BOOLEAN]
                       /\ pending'[p] = IF p \in S THEN NoChange ELSE pending[p]
                       /\ emitted'[p] = IF p \in S THEN emitted[p] + 1 ELSE emitted[p]
  BY <1>1, <1>2 DEF WatchTypes
<1>6. WatchTypes'
  <2>1. emitted' \in [Paths -> Nat]
    BY <1>1, <1>2 DEF WatchTypes
  <2>2. pending' \in [Paths -> [first : Nat, last : Nat, on : BOOLEAN]]
    BY <1>1, <1>2, <1>4 DEF WatchTypes
  <2> QED BY <1>1, <1>3, <2>1, <2>2 DEF WatchTypes
<1>7. stated = NoStat /\ StatHeld'
  BY <1>1, <1>3 DEF StatHeld
<1>8. ASSUME NEW p \in Paths PROVE PathHeld(p)'
  <2>1. PathHeld(p) /\ (Unseen(p)' <=> Unseen(p)) /\ ~Unlooked(p)
    BY <1>3 DEF WatchInv, Unseen, Unlooked
  <2>2. CASE p \in S
    <3>1. Due(p) /\ pending[p].on /\ ~pending'[p].on /\ emitted'[p] = emitted[p] + 1
      BY <1>4, <1>5, <2>2 DEF Due
    <3>2. pending[p].first # 0
      <4>1. pending[p].first \in Nat /\ pending[p].last \in Nat /\ pending[p].last <= pending[p].first
        BY <1>5, <2>1, <3>1 DEF PathHeld
      <4> QED BY <3>1, <4>1, WindowBounds DEF Due
    <3>3. ~Half(p) /\ On(p) = 1 /\ On(p)' = 0
      BY <1>3, <3>1, <3>2 DEF Half, On
    <3>4. emitted'[p] + On(p)' <= made'[p] /\ (Unseen(p)' => emitted'[p] + On(p)' + 1 <= made'[p])
      BY <1>3, <1>5, <2>1, <3>1, <3>3 DEF PathHeld
    <3> QED BY <1>3, <2>1, <3>1, <3>4 DEF PathHeld
  <2>3. CASE p \notin S
    <3>1. pending'[p] = pending[p] /\ emitted'[p] = emitted[p]
      BY <1>5, <2>3
    <3>2. On(p)' = On(p) /\ (Half(p)' <=> Half(p))
      BY <1>3, <3>1 DEF On, Half
    <3> QED BY <1>3, <2>1, <3>1, <3>2 DEF PathHeld
  <2> QED BY <2>2, <2>3
<1> QED
  BY <1>6, <1>7, <1>8 DEF WatchInv

LEMMA WatchKept == WatchInv /\ [WatchNext]_watchFileVars => WatchInv'
<1> SUFFICES ASSUME WatchInv, [WatchNext]_watchFileVars PROVE WatchInv'
  OBVIOUS
<1>1. ASSUME UNCHANGED <<disk, entry, edits, made, seen, seenEntry, pending, emitted, phase, todo, stated>>
      PROVE  WatchInv'
  BY <1>1 DEF WatchInv, WatchTypes, StatHeld, PathHeld, On, Unseen, Unlooked, Half
<1>2. ASSUME NEW p \in Paths, Take(p) PROVE WatchInv'
  BY <1>1, <1>2 DEF Take, diskVars
<1>3. CASE UNCHANGED watchFileVars
  BY <1>1, <1>3 DEF watchFileVars, diskVars, watcherVars
<1>4. ASSUME PollStep PROVE WatchInv'
  BY <1>4, PhaseSteps, TickBeginStep, StatPathStep, ScanDirStep, EmitStep DEF PollStep
<1> QED
  BY <1>2, <1>3, <1>4, FileSteps, AddSteps, PhaseSteps DEF WatchNext

LEMMA WatchStart == WatchInit => WatchInv
<1> SUFFICES ASSUME WatchInit PROVE WatchInv
  OBVIOUS
<1>1. /\ disk = [p \in Paths |-> 1] /\ entry = [p \in Paths |-> Empty] /\ seenEntry = [p \in Paths |-> Empty]
      /\ seen = [p \in Paths |-> 0] /\ pending = [p \in Paths |-> NoChange]
      /\ emitted = [p \in Paths |-> 0] /\ made = [p \in Paths |-> 0]
      /\ phase = "adding" /\ todo = Paths /\ stated = NoStat /\ stated.path = "none" /\ edits = 1
  BY DEF WatchInit, WatchFrom, NoStat
<1>2. Empty \in [Names -> Nat] /\ NoChange \in [first : Nat, last : Nat, on : BOOLEAN] /\ ~NoChange.on
  BY DEF Empty, NoChange
<1>3. WatchTypes /\ StatHeld
  BY <1>1, <1>2 DEF WatchTypes, StatHeld
<1>4. ASSUME NEW p \in Paths PROVE PathHeld(p)
  <2>1. Unlooked(p) /\ On(p) = 0 /\ ~pending[p].on
    BY <1>1, <1>2, WatchAssumption DEF Unlooked, On
  <2> QED BY <1>1, <2>1 DEF PathHeld
<1> QED
  BY <1>3, <1>4 DEF WatchInv

\* For any files, directories, windows and edits: an edit never makes two events, so one
\* save never restarts a process twice, also when the stat of a directory and its
\* snapshot see two sides of it (watch.go: poll).
THEOREM OneSaveOneEvent == WatchSpec => []OneEventPerEdit
<1>1. WatchInv => OneEventPerEdit
  <2> SUFFICES ASSUME WatchInv, NEW p \in Paths PROVE emitted[p] <= made[p]
    BY DEF OneEventPerEdit
  <2>1. emitted[p] + On(p) <= made[p] /\ emitted[p] \in Nat /\ made[p] \in Nat /\ On(p) \in {0, 1}
    BY DEF WatchInv, PathHeld, WatchTypes, On
  <2> QED BY <2>1
<1> QED
  BY <1>1, WatchStart, WatchKept, PTL DEF WatchSpec
=============================================================================
