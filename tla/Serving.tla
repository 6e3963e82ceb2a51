------------------------------- MODULE Serving -------------------------------
(***************************************************************************)
(* How pmmcpd starts to serve and how it goes down                         *)
(* (internal/daemon/server.go, supervise_loops.go).                        *)
(*                                                                         *)
(* Five kinds of goroutine meet here: the one in ListenAndServe, the one   *)
(* that waits for the signal context, the one in Close, the gRPC handlers  *)
(* and the background work counted in s.bg (the supervision loops and one  *)
(* consumer per watcher).  They share s.mu, a sync.Once around the         *)
(* transport's drain, a WaitGroup and the SQLite store.                    *)
(*                                                                         *)
(* Every action is one critical section or one blocking call.  The daemon  *)
(* program calls Close after ListenAndServe; tests call it from another    *)
(* goroutine, so Close may begin here at any moment.                       *)
(***************************************************************************)
EXTENDS Naturals, FiniteSets

CONSTANTS Handlers,  \* gRPC calls that may be in flight together
          Loops      \* the background loops started by ListenAndServe

VARIABLES
  ctxDone,    \* the signal context is cancelled
  runCancel,  \* "unset", "set" (published) or "called"
  ln,         \* the listener: "none", "bound", "published" or "closed"
  gs,         \* the gRPC server: "none", "new", "serving", "draining", "stopped"
  main,       \* where ListenAndServe is
  ctxWait,    \* where its ctx.Done goroutine is
  closer,     \* where Close is
  closing,    \* s.closing
  cancelSeen, \* the runCancel Close took under mu
  once,       \* grpcShutdown: "free", "drain", "stopWatch" or "done"
  onceBy,     \* who runs it: "close", "ctx" or "nobody"
  loop,       \* each loop: "none", "idle", "busy" (in the store) or "gone"
  call,       \* each handler: "idle", "busy", "stream" or "watch" (inside watch.set)
  hard,       \* gs.Stop was called: handler contexts are cancelled
  poll,       \* the watcher a handler made: "none", "on" or "off"
  consumer,   \* and the goroutine behind it: "none", "idle", "busy" or "gone"
  watcher,    \* s.watchers for the process, as the handler that made it
  store,      \* "open" or "closed"
  early,      \* Close took its snapshot before gs was published
  gaveUp      \* bgDrainTimeout expired

mainVars  == <<main, ctxWait>>
closeVars == <<closer, closing, cancelSeen, early, gaveUp, store>>
onceVars  == <<once, onceBy>>
grpcVars  == <<gs, hard, call>>
watchVars == <<poll, consumer, watcher>>
vars == <<ctxDone, runCancel, ln, loop, mainVars, closeVars, onceVars,
          grpcVars, watchVars>>

Nobody == "nobody"

\* runCtx is a child of the signal context and has its own cancel function.
RunDone == ctxDone \/ runCancel = "called"

\* What bg counts: the loops and the consumers that have not returned.
Counted == {l \in Loops : loop[l] \in {"idle", "busy"}}
             \cup {h \in Handlers : consumer[h] \in {"idle", "busy"}}

ServeFrom(m, c) ==
  /\ ctxDone = FALSE /\ runCancel = "unset" /\ ln = "none" /\ gs = "none"
  /\ main = m /\ ctxWait = "none"
  /\ closer = c /\ closing = FALSE /\ cancelSeen = FALSE
  /\ once = "free" /\ onceBy = Nobody
  /\ loop = [l \in Loops |-> "none"]
  /\ call = [h \in Handlers |-> "idle"] /\ hard = FALSE
  /\ poll = [h \in Handlers |-> "none"]
  /\ consumer = [h \in Handlers |-> "none"] /\ watcher = Nobody
  /\ store = "open" /\ early = FALSE /\ gaveUp = FALSE
ServeInit == ServeFrom("listen", "idle")

(***************************************************************************)
(* ListenAndServe                                                          *)
(***************************************************************************)
Listen ==
  /\ main = "listen"
  /\ \/ main' = "publish" /\ ln' = "bound"
     \/ main' = "failed" /\ UNCHANGED ln
  /\ UNCHANGED <<ctxDone, runCancel, loop, ctxWait, closeVars, onceVars,
                 grpcVars, watchVars>>

\* s.ln and s.runCancel are published in two critical sections, back to back.
PublishListener ==
  /\ main = "publish" /\ ln = "bound" /\ ln' = "published" /\ main' = "cancelFn"
  /\ UNCHANGED <<ctxDone, runCancel, loop, ctxWait, closeVars, onceVars,
                 grpcVars, watchVars>>

PublishCancel ==
  /\ main = "cancelFn" /\ runCancel' = "set" /\ main' = "relaunch"
  /\ UNCHANGED <<ctxDone, ln, loop, ctxWait, closeVars, onceVars, grpcVars,
                 watchVars>>

\* RelaunchEligible reads and writes the store while main = "relaunch"; then
\* bg.Add(3) and the loops.
StartLoops ==
  /\ main = "relaunch" /\ main' = "publishGs"
  /\ loop' = [l \in Loops |-> "idle"]
  /\ UNCHANGED <<ctxDone, runCancel, ln, ctxWait, closeVars, onceVars,
                 grpcVars, watchVars>>

PublishServer ==
  /\ main = "publishGs" /\ gs' = "new" /\ main' = "serve" /\ ctxWait' = "waiting"
  /\ UNCHANGED <<ctxDone, runCancel, ln, loop, closeVars, onceVars, hard, call,
                 watchVars>>

\* gs.Serve accepts on a listener that is still open; on a closed one, or after
\* GracefulStop, it returns an error at once, dropped when the context is done.
Serve ==
  /\ main = "serve"
  /\ IF gs = "new" /\ ln # "closed"
     THEN gs' = "serving" /\ main' = "serving"
     ELSE main' = (IF ctxDone THEN "returned" ELSE "failed") /\ UNCHANGED gs
  /\ UNCHANGED <<ctxDone, runCancel, ln, loop, ctxWait, closeVars, onceVars,
                 hard, call, watchVars>>

\* A Serve that GracefulStop ends returns no error, whoever asked for the stop,
\* once the server has stopped.
ServeReturn ==
  /\ main = "serving" /\ gs = "stopped" /\ main' = "returned"
  /\ UNCHANGED <<ctxDone, runCancel, ln, loop, ctxWait, closeVars, onceVars,
                 grpcVars, watchVars>>

Signal ==
  /\ ~ctxDone /\ ctxDone' = TRUE
  /\ UNCHANGED <<runCancel, ln, loop, mainVars, closeVars, onceVars, grpcVars,
                 watchVars>>

\* The goroutine behind <-ctx.Done(): cancel, then the shared drain.
CtxCancel ==
  /\ ctxWait = "waiting" /\ ctxDone /\ runCancel' = "called" /\ ctxWait' = "once"
  /\ UNCHANGED <<ctxDone, ln, loop, main, closeVars, onceVars, grpcVars,
                 watchVars>>

CtxDrained ==
  /\ ctxWait = "once" /\ once = "done" /\ ctxWait' = "done"
  /\ UNCHANGED <<ctxDone, runCancel, ln, loop, main, closeVars, onceVars,
                 grpcVars, watchVars>>

(***************************************************************************)
(* Close                                                                   *)
(***************************************************************************)
CloseMark ==
  /\ closer = "idle" /\ closer' = "cancel" /\ closing' = TRUE
  /\ cancelSeen' = (runCancel # "unset")
  /\ early' = (main \notin {"failed", "returned"} /\ gs = "none")
  /\ UNCHANGED <<ctxDone, runCancel, ln, loop, mainVars, gaveUp, store,
                 onceVars, grpcVars, watchVars>>

CloseCancel ==
  /\ closer = "cancel" /\ closer' = "once"
  /\ runCancel' = IF cancelSeen THEN "called" ELSE runCancel
  /\ UNCHANGED <<ctxDone, ln, loop, mainVars, closing, cancelSeen, early, gaveUp,
                 store, onceVars, grpcVars, watchVars>>

CloseDrained_NoWait ==
  /\ closer = "once" /\ once = "done" /\ closer' = "store"
  /\ UNCHANGED <<ctxDone, runCancel, ln, loop, mainVars, closing, cancelSeen,
                 early, gaveUp, store, onceVars, grpcVars, watchVars>>
CloseDrained ==
  /\ closer = "once" /\ once = "done" /\ closer' = "wait"
  /\ UNCHANGED <<ctxDone, runCancel, ln, loop, mainVars, closing, cancelSeen,
                 early, gaveUp, store, onceVars, grpcVars, watchVars>>

\* bg.Wait in a goroutine, raced against bgDrainTimeout.
CloseWait ==
  /\ closer = "wait" /\ closer' = "store"
  /\ \/ Counted = {} /\ UNCHANGED gaveUp
     \/ Counted # {} /\ gaveUp' = TRUE
  /\ UNCHANGED <<ctxDone, runCancel, ln, loop, mainVars, closing, cancelSeen,
                 early, store, onceVars, grpcVars, watchVars>>

CloseStore ==
  /\ closer = "store" /\ closer' = "done" /\ store' = "closed"
  /\ UNCHANGED <<ctxDone, runCancel, ln, loop, mainVars, closing, cancelSeen,
                 early, gaveUp, onceVars, grpcVars, watchVars>>

(***************************************************************************)
(* shutdownGRPC: the Once, entered by Close and by the context's goroutine *)
(***************************************************************************)
\* The winner snapshots gs and ln under mu.  With a server the drain begins:
\* GracefulStop closes the listener and admits nothing new.
OnceEnter(who) ==
  /\ once = "free"
  /\ \/ who = "close" /\ closer = "once"
     \/ who = "ctx" /\ ctxWait = "once"
  /\ onceBy' = who
  /\ IF gs = "none"
     THEN once' = "stopWatch" /\ UNCHANGED gs
     ELSE once' = "drain" /\ gs' = "draining"
  /\ ln' = IF ln = "published" THEN "closed" ELSE ln
  /\ UNCHANGED <<ctxDone, runCancel, loop, mainVars, closeVars, hard, call,
                 watchVars>>

\* After gracefulStopTimeout Stop closes the connections, which cancels the
\* contexts of the handlers still running.
DrainTimeout_Never == FALSE /\ UNCHANGED vars
DrainTimeout ==
  /\ once = "drain" /\ ~hard /\ \E h \in Handlers : call[h] # "idle"
  /\ hard' = TRUE
  /\ UNCHANGED <<ctxDone, runCancel, ln, loop, mainVars, closeVars, onceVars,
                 gs, call, watchVars>>

\* GracefulStop returns when the last handler has, also after Stop.
Drained ==
  /\ once = "drain" /\ \A h \in Handlers : call[h] = "idle"
  /\ gs' = "stopped" /\ once' = "stopWatch"
  /\ UNCHANGED <<ctxDone, runCancel, ln, loop, mainVars, closeVars, onceBy,
                 hard, call, watchVars>>

\* stopAllWatchers closes what the map holds.
StopAllWatchers ==
  /\ once = "stopWatch" /\ once' = "done" /\ watcher' = Nobody
  /\ poll' = [h \in Handlers |-> IF h = watcher THEN "off" ELSE poll[h]]
  /\ UNCHANGED <<ctxDone, runCancel, ln, loop, mainVars, closeVars, onceBy,
                 grpcVars, consumer>>

(***************************************************************************)
(* Handlers and background work                                            *)
(***************************************************************************)
Accept(h) ==
  /\ gs = "serving" /\ call[h] = "idle"
  /\ \E k \in {"busy", "stream"} : call' = [call EXCEPT ![h] = k]
  /\ UNCHANGED <<ctxDone, runCancel, ln, loop, mainVars, closeVars, onceVars,
                 gs, hard, watchVars>>

Return(h) ==
  /\ call[h] = "busy" /\ call' = [call EXCEPT ![h] = "idle"]
  /\ UNCHANGED <<ctxDone, runCancel, ln, loop, mainVars, closeVars, onceVars,
                 gs, hard, watchVars>>

\* A stream ends when its context or runDone does.  Its client may leave too.
StreamCut(h) ==
  /\ call[h] = "stream" /\ (hard \/ RunDone)
  /\ call' = [call EXCEPT ![h] = "idle"]
  /\ UNCHANGED <<ctxDone, runCancel, ln, loop, mainVars, closeVars, onceVars,
                 gs, hard, watchVars>>
ClientLeaves(h) ==
  /\ call[h] = "stream" /\ call' = [call EXCEPT ![h] = "idle"]
  /\ UNCHANGED <<ctxDone, runCancel, ln, loop, mainVars, closeVars, onceVars,
                 gs, hard, watchVars>>

\* startWatchForProcess up to its first unlock, then New, Add and Start.  Once
\* the daemon closes it answers an error.
WatchBegin(h) ==
  /\ call[h] = "busy" /\ poll[h] = "none" /\ ~closing
  /\ call' = [call EXCEPT ![h] = "watch"]
  /\ poll' = [p \in Handlers |-> IF p = h THEN "on"
                                 ELSE IF p = watcher THEN "off" ELSE poll[p]]
  /\ watcher' = Nobody
  /\ UNCHANGED <<ctxDone, runCancel, ln, loop, mainVars, closeVars, onceVars,
                 gs, hard, consumer>>

\* The second critical section: refuse when Close has begun, else register the
\* watcher and count its consumer.
WatchRegister(h) ==
  /\ call[h] = "watch" /\ call' = [call EXCEPT ![h] = "busy"]
  /\ IF closing
     THEN poll' = [poll EXCEPT ![h] = "off"] /\ UNCHANGED <<consumer, watcher>>
     ELSE /\ watcher' = h /\ consumer' = [consumer EXCEPT ![h] = "idle"]
          /\ UNCHANGED poll
  /\ UNCHANGED <<ctxDone, runCancel, ln, loop, mainVars, closeVars, onceVars,
                 gs, hard>>

\* The poll loop ends with the daemon's context; the consumer with it or with
\* the closed channel.
PollEnd(h) ==
  /\ poll[h] = "on" /\ RunDone /\ poll' = [poll EXCEPT ![h] = "off"]
  /\ UNCHANGED <<ctxDone, runCancel, ln, loop, mainVars, closeVars, onceVars,
                 grpcVars, consumer, watcher>>

ConsumerStep(h) ==
  /\ \/ /\ consumer[h] = "idle" /\ poll[h] = "on"
        /\ consumer' = [consumer EXCEPT ![h] = "busy"]
     \/ consumer[h] = "busy" /\ consumer' = [consumer EXCEPT ![h] = "idle"]
     \/ /\ consumer[h] = "idle" /\ (RunDone \/ poll[h] = "off")
        /\ consumer' = [consumer EXCEPT ![h] = "gone"]
  /\ UNCHANGED <<ctxDone, runCancel, ln, loop, mainVars, closeVars, onceVars,
                 grpcVars, poll, watcher>>

LoopStep(l) ==
  /\ \/ loop[l] = "idle" /\ ~RunDone /\ loop' = [loop EXCEPT ![l] = "busy"]
     \/ loop[l] = "busy" /\ loop' = [loop EXCEPT ![l] = "idle"]
     \/ loop[l] = "idle" /\ RunDone /\ loop' = [loop EXCEPT ![l] = "gone"]
  /\ UNCHANGED <<ctxDone, runCancel, ln, mainVars, closeVars, onceVars,
                 grpcVars, watchVars>>

(***************************************************************************)
(* Specification.  Fairness: every goroutine that can run does, handlers   *)
(* return, timers fire.  Nothing makes a client leave, a signal arrive or  *)
(* Close begin.                                                            *)
(***************************************************************************)
MainStep  == Listen \/ PublishListener \/ PublishCancel \/ StartLoops
               \/ PublishServer \/ Serve \/ ServeReturn
CtxStep   == CtxCancel \/ CtxDrained \/ OnceEnter("ctx")
CloseStep == CloseCancel \/ CloseDrained \/ CloseWait \/ CloseStore \/ OnceEnter("close")
DrainStep == Drained \/ StopAllWatchers
CallEnds(h) == Return(h) \/ StreamCut(h) \/ WatchRegister(h)

ServeNext ==
  \/ Signal \/ CloseMark
  \/ MainStep \/ CtxStep \/ CloseStep \/ DrainStep \/ DrainTimeout
  \/ \E h \in Handlers : \/ Accept(h) \/ CallEnds(h) \/ ClientLeaves(h)
                         \/ WatchBegin(h) \/ PollEnd(h) \/ ConsumerStep(h)
  \/ \E l \in Loops : LoopStep(l)

ServeSpec == ServeInit /\ [][ServeNext]_vars

ServeFairness ==
  /\ WF_vars(MainStep) /\ WF_vars(CtxStep) /\ WF_vars(CloseStep)
  /\ WF_vars(DrainStep) /\ WF_vars(DrainTimeout)
  /\ \A h \in Handlers : WF_vars(CallEnds(h)) /\ WF_vars(PollEnd(h))

(***************************************************************************)
(* Properties                                                              *)
(***************************************************************************)
\* Close releases the store only when nothing can still be inside it: no
\* handler, no loop, no watch consumer.  The two exceptions are the ones the
\* code accepts: the bounded wait ran out, or Close overtook a ListenAndServe
\* that had not published its server yet.
NoUseAfterClose ==
  store = "closed" /\ ~gaveUp /\ ~early =>
    /\ \A h \in Handlers : call[h] = "idle" /\ consumer[h] # "busy"
    /\ \A l \in Loops : loop[l] # "busy"
    /\ main # "relaunch"

\* Close returns, whoever is connected and whatever the background work does.
CloseReturns == (closer = "cancel") ~> (closer = "done")

\* A signal ends ListenAndServe, unless an early Close has used up the Once.
ServeReturns == ctxDone ~> (main \in {"returned", "failed"} \/ early)

\* The daemon always comes to its end once it is told to (server.go: Close and
\* ListenAndServe), from either side.
ShutdownEnds == CloseReturns /\ ServeReturns
===============================================================================
