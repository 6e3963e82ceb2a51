------------------------------ MODULE Supervise ------------------------------
(* Restart budgets: RestartCounter and NextBackoff of internal/supervise, under *)
(* the two loops that use them, the daemon's runAutoRestartLoop, which sleeps   *)
(* the back-off and counts restarts that succeeded, and CrashLoop, which skips  *)
(* an id in back-off and counts every attempt.  Children fail, recover and are  *)
(* stopped and started by requests between any two steps of a loop.             *)
EXTENDS Integers, FiniteSets

CONSTANTS Supervised, \* supervised processes
          Policies, \* restart policies a loop may run with
          MaxNow    \* bound: time, in ticker periods

ASSUME SuperviseAssumption ==
  MaxNow \in Nat /\ \A p \in Policies : p.max \in Int /\ p.window \in Int

VARIABLES policy, loop,     \* the policy and which loop runs: "daemon", "crash"
          clock, tick,      \* the time, and the ticker's pending tick (0: none)
          at, left, wake,   \* tick being handled, ids to visit, [id, until] of a sleep
          child, desired,   \* "up", "sick" or "down"; desired state running
          counter,          \* counter[i]: a RestartCounter
          nextAttempt, exhausted, \* CrashLoop's maps
          spent, okSince, reports \* history: restarts and reports since the last stable
                                  \* window, and where the run of healthy visits began

loopVars == <<clock, tick, at, left, wake>>
superviseVars == <<policy, loop, loopVars, child, desired, counter, nextAttempt, exhausted,
                   spent, okSince, reports>>

NewCounter == [count |-> 0, healthyFor |-> 0, lastTick |-> 0, init |-> FALSE]
Awake == [id |-> "none", until |-> 0]

-----------------------------------------------------------------------------
(* RestartCounter and the policy                                              *)

ObserveHealthy(c, now) ==
  LET healthy == c.healthyFor + now - c.lastTick
  IN  IF ~c.init THEN [c EXCEPT !.lastTick = now, !.init = TRUE]
      ELSE IF healthy >= policy.window
      THEN [c EXCEPT !.lastTick = now, !.count = 0, !.healthyFor = 0]
      ELSE [c EXCEPT !.lastTick = now, !.healthyFor = healthy]

ObserveUnhealthy_KeepsHealth(c, now) == [c EXCEPT !.lastTick = now, !.init = FALSE]
ObserveUnhealthy(c, now) == [c EXCEPT !.healthyFor = 0, !.lastTick = now, !.init = FALSE]

RecordRestart(c) == [c EXCEPT !.count = @ + 1, !.healthyFor = 0, !.init = FALSE]

ShouldRestart(c) == policy.enabled /\ (policy.max <= 0 \/ c.count < policy.max)

\* The delays a back-off may have: linear, or exponential with a cap and jitter.
Exponential(n) ==
  LET d == policy.backoff * (IF policy.multiplier > 1 THEN policy.multiplier ^ n ELSE 1)
  IN  IF policy.maxBackoff > 0 /\ d > policy.maxBackoff THEN policy.maxBackoff ELSE d
NextBackoff(n) ==
  IF policy.multiplier <= 1 /\ policy.maxBackoff <= 0 /\ ~policy.jitter
  THEN {policy.backoff * (n + 1)}
  ELSE IF policy.jitter THEN 0 .. 2 * Exponential(n) ELSE {Exponential(n)}

-----------------------------------------------------------------------------
(* The loops                                                                  *)

\* The ticker keeps one tick for a loop that is late.
Clock ==
  /\ clock < MaxNow /\ clock' = clock + 1
  /\ tick' = IF tick = 0 THEN clock' ELSE tick
  /\ UNCHANGED <<policy, loop, at, left, wake, child, desired, counter, nextAttempt, exhausted,
                 spent, okSince, reports>>

TakeTick ==
  /\ tick # 0 /\ left = {} /\ wake = Awake
  /\ at' = tick /\ tick' = 0 /\ left' = Supervised
  /\ UNCHANGED <<policy, loop, clock, wake, child, desired, counter, nextAttempt, exhausted,
                 spent, okSince, reports>>

Visiting(i) == i \in left /\ wake = Awake /\ left' = left \ {i} /\ UNCHANGED <<policy, loop, clock, tick, at>>

\* A running and healthy child: the counter, and CrashLoop's exhausted mark.
VisitHealthy(i) ==
  /\ Visiting(i) /\ child[i] = "up"
  /\ LET since == IF okSince[i] = 0 THEN at ELSE okSince[i]
         stable == at - since >= policy.window
         c == ObserveHealthy(counter[i], at)
     IN  /\ counter' = [counter EXCEPT ![i] = c]
         /\ okSince' = [okSince EXCEPT ![i] = since]
         /\ spent' = [spent EXCEPT ![i] = IF stable THEN 0 ELSE @]
         /\ reports' = [reports EXCEPT ![i] = IF stable THEN 0 ELSE @]
         /\ exhausted' = IF loop = "crash" /\ c.count = 0 THEN [exhausted EXCEPT ![i] = FALSE] ELSE exhausted
  /\ UNCHANGED <<wake, child, desired, nextAttempt>>

\* CrashLoop passes over an intentional stop without touching the counter.
VisitStopped(i) ==
  /\ loop = "crash" /\ Visiting(i) /\ child[i] # "up" /\ ~desired[i]
  /\ UNCHANGED <<wake, child, desired, counter, nextAttempt, exhausted, spent, okSince, reports>>

Failing(i) ==
  /\ Visiting(i) /\ child[i] # "up" /\ (loop = "crash" => desired[i])
  /\ okSince' = [okSince EXCEPT ![i] = 0]

\* No budget left; CrashLoop says so once.
VisitExhausted(i) ==
  LET c == ObserveUnhealthy(counter[i], at)
  IN  /\ Failing(i) /\ ~ShouldRestart(c)
      /\ counter' = [counter EXCEPT ![i] = c]
      /\ IF loop = "crash" /\ ~exhausted[i]
         THEN exhausted' = [exhausted EXCEPT ![i] = TRUE] /\ reports' = [reports EXCEPT ![i] = @ + 1]
         ELSE UNCHANGED <<exhausted, reports>>
      /\ UNCHANGED <<wake, child, desired, nextAttempt, spent>>

\* runAutoRestartLoop sleeps; the other ids and the ticker wait.
VisitSleep(i) ==
  LET c == ObserveUnhealthy(counter[i], at)
  IN  /\ loop = "daemon" /\ Failing(i) /\ ShouldRestart(c)
      /\ counter' = [counter EXCEPT ![i] = c]
      /\ \E d \in NextBackoff(c.count) : wake' = [id |-> i, until |-> clock + d]
      /\ UNCHANGED <<child, desired, nextAttempt, exhausted, spent, reports>>

\* restartByID stops what runs and starts it; only a success is recorded.
Restarts(i, ok) == child' = [child EXCEPT ![i] = IF ok THEN "up" ELSE "down"]
SleepOver(ok) ==
  LET i == wake.id
  IN  /\ wake # Awake /\ clock >= wake.until /\ wake' = Awake
      /\ Restarts(i, ok)
      /\ counter' = IF ok THEN [counter EXCEPT ![i] = RecordRestart(@)] ELSE counter
      /\ spent' = IF ok THEN [spent EXCEPT ![i] = @ + 1] ELSE spent
      /\ UNCHANGED <<policy, loop, clock, tick, at, left, desired, nextAttempt, exhausted, okSince, reports>>

\* CrashLoop waits for the deadline, without sleeping, and records every attempt.
VisitBackoff(i) ==
  LET c == ObserveUnhealthy(counter[i], at)
  IN  /\ loop = "crash" /\ Failing(i) /\ ShouldRestart(c) /\ at < nextAttempt[i]
      /\ counter' = [counter EXCEPT ![i] = c]
      /\ UNCHANGED <<wake, child, desired, nextAttempt, exhausted, spent, reports>>
VisitRestart(i, ok) ==
  LET c == ObserveUnhealthy(counter[i], at)
      after == RecordRestart(c)
  IN  /\ loop = "crash" /\ Failing(i) /\ ShouldRestart(c) /\ at >= nextAttempt[i]
      /\ Restarts(i, ok)
      /\ counter' = [counter EXCEPT ![i] = after]
      /\ spent' = [spent EXCEPT ![i] = @ + 1]
      /\ \E d \in NextBackoff(after.count) : nextAttempt' = [nextAttempt EXCEPT ![i] = at + d]
      /\ UNCHANGED <<wake, desired, exhausted, reports>>

-----------------------------------------------------------------------------
(* Children and requests                                                      *)

Changes(i, to, want) ==
  /\ child[i] # to /\ child' = [child EXCEPT ![i] = to]
  /\ desired' = [desired EXCEPT ![i] = want]
  /\ UNCHANGED <<policy, loop, loopVars, counter, nextAttempt, exhausted, spent, okSince, reports>>

ChildChanges(i) ==
  \/ Changes(i, "down", desired[i])
  \/ child[i] # "down" /\ \E s \in {"up", "sick"} : Changes(i, s, desired[i])
StopRequest(i) == Changes(i, "down", FALSE)
StartRequest(i) == Changes(i, "up", TRUE)

SuperviseInit ==
  /\ policy \in Policies /\ loop \in {"daemon", "crash"}
  /\ clock = 0 /\ tick = 0 /\ at = 0 /\ left = {} /\ wake = Awake
  /\ child = [i \in Supervised |-> "up"] /\ desired = [i \in Supervised |-> TRUE]
  /\ counter = [i \in Supervised |-> NewCounter]
  /\ nextAttempt = [i \in Supervised |-> 0] /\ exhausted = [i \in Supervised |-> FALSE]
  /\ spent = [i \in Supervised |-> 0] /\ okSince = [i \in Supervised |-> 0] /\ reports = [i \in Supervised |-> 0]

SuperviseNext ==
  \/ Clock \/ TakeTick
  \/ \E ok \in BOOLEAN : SleepOver(ok)
  \/ \E i \in Supervised : \/ VisitHealthy(i) \/ VisitStopped(i) \/ VisitExhausted(i)
                    \/ VisitSleep(i) \/ VisitBackoff(i)
                    \/ \E ok \in BOOLEAN : VisitRestart(i, ok)
                    \/ ChildChanges(i) \/ StopRequest(i) \/ StartRequest(i)

SuperviseSpec == SuperviseInit /\ [][SuperviseNext]_superviseVars

\* Between two stable windows of unbroken healthy visits a process is restarted at
\* most policy.max times, however it flaps, whatever requests do to it and however
\* late the loop runs; CrashLoop counts attempts and reports an exhausted budget
\* once (a policy that is not enabled has none to exhaust), the daemon's loop counts
\* the restarts that succeeded (supervise.go: RestartCounter; loop.go: CrashLoop;
\* supervise_loops.go: runAutoRestartLoop).
WithinBudget ==
  policy.max > 0 => \A i \in Supervised :
    spent[i] <= policy.max /\ (policy.enabled => reports[i] <= 1)
=============================================================================
