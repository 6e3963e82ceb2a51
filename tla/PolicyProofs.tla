---------------------------- MODULE PolicyProofs ----------------------------
(* Proofs about what the daemon promises beyond its processes: restart budgets  *)
(* (module Supervise), the addresses that are dialled (module Egress), and what *)
(* the receivers of webhooks get (module WebhookDispatch).                      *)
EXTENDS Supervise, Egress, WebhookDispatch, EventStreams, FiniteSetTheorems, TLAPS

-----------------------------------------------------------------------------
(* Restart budgets                                                            *)

Counters == [count : Nat, healthyFor : Int, lastTick : Nat, init : BOOLEAN]

SuperviseTypeOK ==
  /\ policy \in Policies /\ loop \in {"daemon", "crash"}
  /\ clock \in Nat /\ tick \in Nat /\ at \in Nat /\ left \in SUBSET Supervised
  /\ counter \in [Supervised -> Counters] /\ exhausted \in [Supervised -> BOOLEAN]
  /\ spent \in [Supervised -> Nat] /\ reports \in [Supervised -> Nat]
  /\ okSince \in [Supervised -> Nat]

\* A pending tick is later than the one that was handled.
TicksHeld ==
  /\ at <= clock /\ tick <= clock /\ (tick # 0 => at <= tick)
  /\ left # {} => at > 0

\* What the counter took for healthy time is no more than the healthy visits span:
\* when it forgets its restarts, a stable window has passed.
WindowHeld(i) ==
  /\ counter[i].lastTick <= at /\ okSince[i] <= at
  /\ ~counter[i].init => counter[i].healthyFor = 0
  /\ counter[i].init => /\ okSince[i] > 0
                        /\ counter[i].healthyFor <= counter[i].lastTick - okSince[i]

\* The counter has counted what was spent.
CountHeld(i) == policy.max > 0 => spent[i] <= counter[i].count /\ counter[i].count <= policy.max

\* CrashLoop's mark stands for the one report.
MarkHeld(i) ==
  /\ loop = "daemon" => ~exhausted[i]
  /\ policy.max > 0 /\ policy.enabled =>
       /\ reports[i] <= 1
       /\ ~exhausted[i] => reports[i] = 0
       /\ exhausted[i] => counter[i].count >= policy.max

\* The restart that a sleep ends in is within the budget.
SleepHeld ==
  wake # Awake =>
    /\ loop = "daemon" /\ wake.id \in Supervised
    /\ policy.max > 0 => counter[wake.id].count < policy.max

SuperviseInv ==
  /\ SuperviseTypeOK /\ TicksHeld /\ SleepHeld
  /\ \A i \in Supervised : WindowHeld(i) /\ CountHeld(i) /\ MarkHeld(i)

LEMMA SuperviseStart == SuperviseInit => SuperviseInv
<1> SUFFICES ASSUME SuperviseInit  PROVE SuperviseInv
    OBVIOUS
<1>1. SuperviseTypeOK
    BY DEF SuperviseInit, SuperviseTypeOK, Counters, NewCounter
<1>2. TicksHeld /\ SleepHeld
    BY DEF SuperviseInit, TicksHeld, SleepHeld
<1>3. ASSUME NEW i \in Supervised  PROVE WindowHeld(i) /\ CountHeld(i) /\ MarkHeld(i)
    BY SuperviseAssumption DEF SuperviseInit, WindowHeld, CountHeld, MarkHeld, NewCounter
<1> QED BY <1>1, <1>2, <1>3 DEF SuperviseInv

LEMMA CounterFields ==
  ASSUME NEW c \in Counters, NEW n \in Nat, NEW h \in Int, NEW t \in Nat, NEW b \in BOOLEAN
  PROVE  /\ [c EXCEPT !.count = n] \in Counters
         /\ [c EXCEPT !.healthyFor = h] \in Counters
         /\ [c EXCEPT !.lastTick = t] \in Counters
         /\ [c EXCEPT !.init = b] \in Counters
  BY DEF Counters

\* What the three counter operations return.
LEMMA UnhealthyCounter ==
  ASSUME NEW c \in Counters, NEW now \in Nat, NEW d, d = ObserveUnhealthy(c, now)
  PROVE  /\ d \in Counters /\ d.lastTick = now /\ ~d.init
         /\ d.count = c.count /\ d.healthyFor = 0
<1>1. d \in Counters
  <2>1. 0 \in Int /\ FALSE \in BOOLEAN
      OBVIOUS
  <2> QED BY <2>1, CounterFields, Zenon DEF ObserveUnhealthy
<1>2. d.lastTick = now /\ d.count = c.count /\ d.healthyFor = 0
    BY DEF ObserveUnhealthy, Counters
<1>3. d.init = FALSE
    BY DEF ObserveUnhealthy, Counters
<1> QED BY <1>1, <1>2, <1>3

LEMMA RestartedCounter ==
  ASSUME NEW c \in Counters, NEW d, d = RecordRestart(c)
  PROVE  /\ d \in Counters /\ d.lastTick = c.lastTick /\ ~d.init
         /\ d.count = c.count + 1 /\ d.healthyFor = 0
<1>1. d \in Counters
  <2>1. 0 \in Int /\ FALSE \in BOOLEAN /\ c.count + 1 \in Nat
      BY DEF Counters
  <2> QED BY <2>1, CounterFields, Zenon DEF RecordRestart
<1>2. d.lastTick = c.lastTick /\ d.count = c.count + 1 /\ d.healthyFor = 0
    BY DEF RecordRestart, Counters
<1>3. d.init = FALSE
    BY DEF RecordRestart, Counters
<1> QED BY <1>1, <1>2, <1>3

LEMMA HealthyCounter ==
  ASSUME NEW c \in Counters, NEW now \in Nat, NEW d, d = ObserveHealthy(c, now), policy.window \in Int
  PROVE  /\ d \in Counters /\ d.lastTick = now /\ d.init
         /\ ~c.init => d.count = c.count /\ d.healthyFor = c.healthyFor
         /\ c.init => \/ /\ c.healthyFor + now - c.lastTick >= policy.window
                         /\ d.count = 0 /\ d.healthyFor = 0
                      \/ /\ d.count = c.count
                         /\ d.healthyFor = c.healthyFor + now - c.lastTick
<1> DEFINE h == c.healthyFor + now - c.lastTick
<1>1. d \in Counters
  <2>1. 0 \in Nat /\ 0 \in Int /\ TRUE \in BOOLEAN /\ h \in Int
      BY DEF Counters
  <2>2. \/ d = [c EXCEPT !.lastTick = now, !.init = TRUE]
        \/ d = [c EXCEPT !.lastTick = now, !.count = 0, !.healthyFor = 0]
        \/ d = [c EXCEPT !.lastTick = now, !.healthyFor = h]
      BY Zenon DEF ObserveHealthy
  <2> HIDE DEF h
  <2>3. [c EXCEPT !.lastTick = now] \in Counters
      BY CounterFields
  <2>4. [c EXCEPT !.lastTick = now, !.init = TRUE] \in Counters
      BY <2>1, <2>3, CounterFields, Zenon
  <2>5. [c EXCEPT !.lastTick = now, !.count = 0, !.healthyFor = 0] \in Counters
      BY <2>1, <2>3, CounterFields, Zenon
  <2>6. [c EXCEPT !.lastTick = now, !.healthyFor = h] \in Counters
      BY <2>1, <2>3, CounterFields, Zenon
  <2> QED BY <2>2, <2>4, <2>5, <2>6, Zenon
<1>2. d.lastTick = now
    BY DEF ObserveHealthy, Counters
<1>3. d.init = TRUE
  <2>1. CASE c.init
      BY <2>1 DEF ObserveHealthy, Counters
  <2>2. CASE ~c.init
      BY <2>2 DEF ObserveHealthy, Counters
  <2> QED BY <2>1, <2>2
<1>4. ~c.init => d.count = c.count /\ d.healthyFor = c.healthyFor
    BY DEF ObserveHealthy, Counters
<1>5. c.init => \/ h >= policy.window /\ d.count = 0 /\ d.healthyFor = 0
                \/ d.count = c.count /\ d.healthyFor = h
    BY DEF ObserveHealthy, Counters
<1> QED BY <1>1, <1>2, <1>3, <1>4, <1>5

\* Facts about process i alone.
ProcessHeld(i) == WindowHeld(i) /\ CountHeld(i) /\ MarkHeld(i)

\* A step that leaves time and every process as they are for these facts, but for one.
LEMMA OneVisited ==
  ASSUME SuperviseInv, NEW i \in Supervised, ProcessHeld(i)',
         UNCHANGED <<policy, loop, at>>,
         \A j \in Supervised \ {i} :
           /\ counter'[j] = counter[j] /\ okSince'[j] = okSince[j] /\ spent'[j] = spent[j]
           /\ exhausted'[j] = exhausted[j] /\ reports'[j] = reports[j]
  PROVE  \A j \in Supervised : ProcessHeld(j)'
<1> SUFFICES ASSUME NEW j \in Supervised, j # i  PROVE ProcessHeld(j)'
    OBVIOUS
<1> QED BY DEF SuperviseInv, ProcessHeld, WindowHeld, CountHeld, MarkHeld

LEMMA SleepKept ==
  ASSUME SleepHeld, UNCHANGED <<wake, loop, policy, counter>>
  PROVE  SleepHeld'
  BY DEF SleepHeld

LEMMA VisitTime ==
  ASSUME SuperviseInv, NEW i \in Supervised, Visiting(i)
  PROVE  /\ wake = Awake /\ at > 0 /\ TicksHeld'
         /\ UNCHANGED <<policy, loop, clock, tick, at>>
         /\ left' \in SUBSET Supervised
  BY DEF SuperviseInv, SuperviseTypeOK, TicksHeld, Visiting

LEMMA HealthyVisit ==
  ASSUME SuperviseInv, NEW i \in Supervised, VisitHealthy(i)
  PROVE  SuperviseInv'
<1> DEFINE c == ObserveHealthy(counter[i], at)
           from == IF okSince[i] = 0 THEN at ELSE okSince[i]
           stable == at - from >= policy.window
<1>1. counter[i] \in Counters /\ at \in Nat /\ policy.window \in Int /\ policy.max \in Int
    BY SuperviseAssumption DEF SuperviseInv, SuperviseTypeOK
<1>0. c = ObserveHealthy(counter[i], at)
    OBVIOUS
<1> HIDE DEF c
<1>2. /\ c \in Counters /\ c.lastTick = at /\ c.init
      /\ ~counter[i].init => c.count = counter[i].count /\ c.healthyFor = counter[i].healthyFor
      /\ counter[i].init => \/ /\ counter[i].healthyFor + at - counter[i].lastTick >= policy.window
                              /\ c.count = 0 /\ c.healthyFor = 0
                           \/ /\ c.count = counter[i].count
                              /\ c.healthyFor = counter[i].healthyFor + at - counter[i].lastTick
    BY <1>0, <1>1, HealthyCounter
<1>3. /\ counter' = [counter EXCEPT ![i] = c]
      /\ okSince' = [okSince EXCEPT ![i] = from]
      /\ spent' = [spent EXCEPT ![i] = IF stable THEN 0 ELSE @]
      /\ reports' = [reports EXCEPT ![i] = IF stable THEN 0 ELSE @]
      /\ exhausted' = IF loop = "crash" /\ c.count = 0 THEN [exhausted EXCEPT ![i] = FALSE] ELSE exhausted
      /\ wake' = wake /\ Visiting(i)
    BY Zenon DEF VisitHealthy, c
<1>4. /\ wake = Awake /\ at > 0 /\ TicksHeld'
      /\ UNCHANGED <<policy, loop, clock, tick, at>> /\ left' \in SUBSET Supervised
    BY <1>3, VisitTime
<1>5. from \in Nat /\ from > 0 /\ from <= at
    BY <1>1, <1>4 DEF SuperviseInv, SuperviseTypeOK, WindowHeld
<1>6. c.count = counter[i].count \/ (c.count = 0 /\ stable)
    BY <1>1, <1>2, <1>5 DEF SuperviseInv, WindowHeld, Counters
<1>7. SuperviseTypeOK'
    BY <1>2, <1>3, <1>4, <1>5 DEF SuperviseInv, SuperviseTypeOK
<1>8. SleepHeld'
    BY <1>3, <1>4 DEF SleepHeld
<1>9. ProcessHeld(i)'
  <2>0. /\ counter'[i] = c /\ okSince'[i] = from
        /\ spent'[i] = IF stable THEN 0 ELSE spent[i]
        /\ reports'[i] = IF stable THEN 0 ELSE reports[i]
        /\ exhausted'[i] = IF loop = "crash" /\ c.count = 0 THEN FALSE ELSE exhausted[i]
      BY <1>3 DEF SuperviseInv, SuperviseTypeOK
  <2>1. WindowHeld(i)'
      BY <2>0, <1>1, <1>2, <1>4, <1>5 DEF SuperviseInv, WindowHeld, Counters
  <2>2. CountHeld(i)'
      BY <2>0, <1>1, <1>2, <1>4, <1>6 DEF SuperviseInv, SuperviseTypeOK, CountHeld, Counters
  <2>3. MarkHeld(i)'
      BY <2>0, <1>1, <1>2, <1>4, <1>6 DEF SuperviseInv, SuperviseTypeOK, MarkHeld, Counters
  <2> QED BY <2>1, <2>2, <2>3 DEF ProcessHeld
<1>10. \A j \in Supervised : ProcessHeld(j)'
    BY <1>3, <1>4, <1>9, OneVisited DEF SuperviseInv, SuperviseTypeOK
<1> QED BY <1>4, <1>7, <1>8, <1>10 DEF SuperviseInv, ProcessHeld

\* A failed visit without a restart: the counter forgets healthy time only.
LEMMA FailedVisit ==
  ASSUME SuperviseInv, NEW i \in Supervised, Failing(i),
         counter' = [counter EXCEPT ![i] = ObserveUnhealthy(counter[i], at)],
         spent' = spent
  PROVE  /\ counter' \in [Supervised -> Counters] /\ okSince' \in [Supervised -> Nat]
         /\ counter'[i].count = counter[i].count
         /\ WindowHeld(i)' /\ CountHeld(i)'
         /\ \A j \in Supervised \ {i} : counter'[j] = counter[j] /\ okSince'[j] = okSince[j]
<1> DEFINE c == ObserveUnhealthy(counter[i], at)
<1>1. counter[i] \in Counters /\ at \in Nat /\ policy.max \in Int
    BY SuperviseAssumption DEF SuperviseInv, SuperviseTypeOK
<1>0. c = ObserveUnhealthy(counter[i], at)
    OBVIOUS
<1> HIDE DEF c
<1>2. /\ c \in Counters /\ c.lastTick = at /\ ~c.init
      /\ c.count = counter[i].count /\ c.healthyFor = 0
    BY <1>0, <1>1, UnhealthyCounter
<1>3. /\ counter' = [counter EXCEPT ![i] = c] /\ okSince' = [okSince EXCEPT ![i] = 0]
      /\ UNCHANGED <<policy, at>>
    BY DEF c, Failing, Visiting
<1>4. counter'[i] = c /\ okSince'[i] = 0
    BY <1>3 DEF SuperviseInv, SuperviseTypeOK
<1>5. WindowHeld(i)' /\ CountHeld(i)'
    BY <1>1, <1>2, <1>3, <1>4 DEF SuperviseInv, WindowHeld, CountHeld
<1> QED BY <1>2, <1>3, <1>4, <1>5 DEF SuperviseInv, SuperviseTypeOK

\* A failed visit that ends in no restart: in a report, in a sleep or in waiting.
LEMMA NoRestartVisit ==
  ASSUME SuperviseInv, NEW i \in Supervised,
         VisitExhausted(i) \/ VisitSleep(i) \/ VisitBackoff(i)
  PROVE  SuperviseInv'
<1>0. policy.max \in Int
    BY SuperviseAssumption DEF SuperviseInv, SuperviseTypeOK
<1>1. /\ Failing(i) /\ Visiting(i) /\ spent' = spent
      /\ counter' = [counter EXCEPT ![i] = ObserveUnhealthy(counter[i], at)]
    BY DEF VisitExhausted, VisitSleep, VisitBackoff, Failing
<1>2. /\ counter' \in [Supervised -> Counters] /\ okSince' \in [Supervised -> Nat]
      /\ counter'[i].count = counter[i].count
      /\ WindowHeld(i)' /\ CountHeld(i)'
      /\ \A j \in Supervised \ {i} : counter'[j] = counter[j] /\ okSince'[j] = okSince[j]
    BY <1>1, FailedVisit
<1>3. /\ wake = Awake /\ TicksHeld'
      /\ UNCHANGED <<policy, loop, clock, tick, at>> /\ left' \in SUBSET Supervised
    BY <1>1, VisitTime
<1>4. ObserveUnhealthy(counter[i], at).count = counter[i].count
    BY UnhealthyCounter DEF SuperviseInv, SuperviseTypeOK
<1>5. CASE VisitExhausted(i)
  <2>1. UNCHANGED wake /\ ~(policy.enabled /\ policy.max > 0 /\ counter[i].count < policy.max)
      BY <1>0, <1>4, <1>5 DEF VisitExhausted, ShouldRestart
  <2>2. /\ exhausted' \in [Supervised -> BOOLEAN] /\ reports' \in [Supervised -> Nat]
        /\ \A j \in Supervised \ {i} : exhausted'[j] = exhausted[j] /\ reports'[j] = reports[j]
        /\ \/ /\ exhausted'[i] = exhausted[i] /\ reports'[i] = reports[i]
              /\ loop = "crash" => exhausted[i]
           \/ /\ loop = "crash" /\ ~exhausted[i]
              /\ exhausted'[i] = TRUE /\ reports'[i] = reports[i] + 1
    <3>1. CASE loop = "crash" /\ ~exhausted[i]
      <4>1. exhausted' = [exhausted EXCEPT ![i] = TRUE] /\ reports' = [reports EXCEPT ![i] = @ + 1]
          BY <1>5, <3>1 DEF VisitExhausted
      <4>2. /\ exhausted' \in [Supervised -> BOOLEAN] /\ exhausted'[i] = TRUE
            /\ \A j \in Supervised \ {i} : exhausted'[j] = exhausted[j]
          BY <4>1 DEF SuperviseInv, SuperviseTypeOK
      <4>3. /\ reports' \in [Supervised -> Nat] /\ reports'[i] = reports[i] + 1
            /\ \A j \in Supervised \ {i} : reports'[j] = reports[j]
          BY <4>1 DEF SuperviseInv, SuperviseTypeOK
      <4> QED BY <3>1, <4>2, <4>3
    <3>2. CASE ~(loop = "crash" /\ ~exhausted[i])
      <4>1. UNCHANGED <<exhausted, reports>>
          BY <1>5, <3>2 DEF VisitExhausted
      <4> QED BY <3>2, <4>1 DEF SuperviseInv, SuperviseTypeOK
    <3> QED BY <3>1, <3>2
  <2>3. MarkHeld(i)'
      BY <1>0, <1>2, <1>3, <2>1, <2>2 DEF SuperviseInv, SuperviseTypeOK, MarkHeld, Counters
  <2>4. \A j \in Supervised : ProcessHeld(j)'
      BY <1>1, <1>2, <1>3, <2>2, <2>3, OneVisited DEF ProcessHeld
  <2> QED BY <1>1, <1>2, <1>3, <2>1, <2>2, <2>4
          DEF SuperviseInv, SuperviseTypeOK, ProcessHeld, SleepHeld
<1>6. CASE VisitSleep(i) \/ VisitBackoff(i)
  <2>1. UNCHANGED <<exhausted, reports>>
      BY <1>6 DEF VisitSleep, VisitBackoff
  <2>2. MarkHeld(i)'
      BY <1>2, <1>3, <2>1 DEF SuperviseInv, MarkHeld
  <2>3. \A j \in Supervised : ProcessHeld(j)'
      BY <1>1, <1>2, <1>3, <2>1, <2>2, OneVisited DEF ProcessHeld
  <2>4. SleepHeld'
    <3>1. CASE VisitSleep(i)
      <4>1. wake'.id = i /\ loop = "daemon" /\ ShouldRestart(ObserveUnhealthy(counter[i], at))
          BY <3>1 DEF VisitSleep
      <4> QED BY <1>0, <1>2, <1>3, <1>4, <4>1 DEF SleepHeld, ShouldRestart
    <3>2. CASE VisitBackoff(i)
        BY <1>3, <3>2 DEF VisitBackoff, SleepHeld
    <3> QED BY <1>6, <3>1, <3>2
  <2> QED BY <1>1, <1>2, <1>3, <2>1, <2>3, <2>4 DEF SuperviseInv, SuperviseTypeOK, ProcessHeld
<1> QED BY <1>5, <1>6

\* CrashLoop's restart, with its check and its count in one visit.
LEMMA CrashRestart ==
  ASSUME SuperviseInv, NEW i \in Supervised, NEW ok \in BOOLEAN, VisitRestart(i, ok)
  PROVE  SuperviseInv'
<1> DEFINE c == ObserveUnhealthy(counter[i], at)
           after == RecordRestart(c)
<1>1. /\ counter[i] \in Counters /\ at \in Nat /\ policy.max \in Int
    BY SuperviseAssumption DEF SuperviseInv, SuperviseTypeOK
<1>2. /\ counter' = [counter EXCEPT ![i] = after] /\ Visiting(i)
      /\ okSince' = [okSince EXCEPT ![i] = 0] /\ spent' = [spent EXCEPT ![i] = @ + 1]
      /\ UNCHANGED <<wake, exhausted, reports>>
      /\ ShouldRestart(c)
    BY Zenon DEF VisitRestart, Failing
<1>3. /\ wake = Awake /\ TicksHeld'
      /\ UNCHANGED <<policy, loop, clock, tick, at>> /\ left' \in SUBSET Supervised
    BY <1>2, VisitTime
<1>4. c = ObserveUnhealthy(counter[i], at) /\ after = RecordRestart(c)
    OBVIOUS
<1> HIDE DEF c, after
<1>5. c \in Counters /\ c.lastTick = at /\ c.count = counter[i].count
    BY <1>1, <1>4, UnhealthyCounter
<1>6. /\ after \in Counters /\ after.lastTick = at /\ ~after.init
      /\ after.count = counter[i].count + 1 /\ after.healthyFor = 0
    BY <1>4, <1>5, RestartedCounter
<1>7. SuperviseTypeOK'
    BY <1>2, <1>3, <1>6 DEF SuperviseInv, SuperviseTypeOK
<1>8. ProcessHeld(i)'
  <2>1. counter'[i] = after /\ okSince'[i] = 0 /\ spent'[i] = spent[i] + 1
      BY <1>2 DEF SuperviseInv, SuperviseTypeOK
  <2>2. policy.max > 0 => counter[i].count < policy.max
      BY <1>1, <1>2, <1>5 DEF ShouldRestart
  <2>3. WindowHeld(i)' /\ CountHeld(i)'
      BY <1>1, <1>3, <1>6, <2>1, <2>2
         DEF SuperviseInv, SuperviseTypeOK, WindowHeld, CountHeld, Counters
  <2>4. MarkHeld(i)'
      BY <1>1, <1>2, <1>3, <1>6, <2>1, <2>2 DEF SuperviseInv, MarkHeld, Counters
  <2> QED BY <2>3, <2>4 DEF ProcessHeld
<1>9. \A j \in Supervised : ProcessHeld(j)'
    BY <1>2, <1>3, <1>8, OneVisited DEF SuperviseInv, SuperviseTypeOK
<1> QED BY <1>2, <1>3, <1>7, <1>9 DEF SuperviseInv, ProcessHeld, SleepHeld

\* The daemon's restart, after a sleep in which nothing was visited.
LEMMA SleptRestart ==
  ASSUME SuperviseInv, NEW ok \in BOOLEAN, SleepOver(ok)
  PROVE  SuperviseInv'
<1>0. PICK i \in Supervised : i = wake.id
    BY DEF SleepOver, SuperviseInv, SleepHeld
<1> DEFINE after == RecordRestart(counter[i])
<1>1. /\ loop = "daemon"
      /\ policy.max > 0 => counter[i].count < policy.max
    BY <1>0 DEF SleepOver, SuperviseInv, SleepHeld
<1>2. /\ counter' = IF ok THEN [counter EXCEPT ![i] = after] ELSE counter
      /\ spent' = IF ok THEN [spent EXCEPT ![i] = @ + 1] ELSE spent
      /\ wake' = Awake
      /\ UNCHANGED <<policy, loop, clock, tick, at, left, exhausted, okSince, reports>>
    BY <1>0, Zenon DEF SleepOver
<1>3. counter[i] \in Counters /\ policy.max \in Int
    BY <1>1, SuperviseAssumption DEF SuperviseInv, SuperviseTypeOK
<1>4. after = RecordRestart(counter[i])
    OBVIOUS
<1> HIDE DEF after
<1>5. /\ after \in Counters /\ after.lastTick = counter[i].lastTick /\ ~after.init
      /\ after.count = counter[i].count + 1 /\ after.healthyFor = 0
    BY <1>3, <1>4, RestartedCounter
<1>6. SuperviseTypeOK' /\ TicksHeld' /\ SleepHeld'
    BY <1>1, <1>2, <1>5 DEF SuperviseInv, SuperviseTypeOK, TicksHeld, SleepHeld
<1>7. ProcessHeld(i)'
  <2>1. /\ counter'[i] = IF ok THEN after ELSE counter[i]
        /\ spent'[i] = IF ok THEN spent[i] + 1 ELSE spent[i]
      BY <1>1, <1>2 DEF SuperviseInv, SuperviseTypeOK
  <2>2. WindowHeld(i)' /\ CountHeld(i)'
      BY <1>1, <1>2, <1>3, <1>5, <2>1
         DEF SuperviseInv, SuperviseTypeOK, WindowHeld, CountHeld, Counters
  <2>3. MarkHeld(i)'
      BY <1>1, <1>2, <1>3, <1>5, <2>1 DEF SuperviseInv, MarkHeld, Counters
  <2> QED BY <2>2, <2>3 DEF ProcessHeld
<1>8. \A j \in Supervised : ProcessHeld(j)'
    BY <1>1, <1>2, <1>7, OneVisited DEF SuperviseInv, SuperviseTypeOK
<1> QED BY <1>6, <1>8 DEF SuperviseInv, ProcessHeld

\* Time passes, a tick is taken, a child or a request changes something, or an
\* intentional stop is passed over.
LEMMA QuietSupervise ==
  ASSUME SuperviseInv,
         \/ Clock \/ TakeTick \/ UNCHANGED superviseVars
         \/ \E i \in Supervised : \/ VisitStopped(i) \/ ChildChanges(i)
                                 \/ StopRequest(i) \/ StartRequest(i)
  PROVE  SuperviseInv'
<1>1. /\ UNCHANGED <<policy, loop, counter, exhausted, spent, okSince, reports>>
      /\ UNCHANGED wake \/ TakeTick
    BY DEF Clock, TakeTick, VisitStopped, Visiting, ChildChanges, StopRequest, StartRequest, Changes,
           superviseVars, loopVars
<1>2. SuperviseTypeOK' /\ TicksHeld' /\ at <= at'
  <2>1. CASE Clock
      BY <2>1 DEF Clock, SuperviseInv, SuperviseTypeOK, TicksHeld
  <2>2. CASE TakeTick
      BY <2>2 DEF TakeTick, SuperviseInv, SuperviseTypeOK, TicksHeld
  <2>3. ASSUME NEW i \in Supervised, VisitStopped(i)
        PROVE  SuperviseTypeOK' /\ TicksHeld' /\ at <= at'
      BY <2>3 DEF VisitStopped, Visiting, SuperviseInv, SuperviseTypeOK, TicksHeld
  <2>4. CASE UNCHANGED <<clock, tick, at, left>>
      BY <1>1, <2>4 DEF SuperviseInv, SuperviseTypeOK, TicksHeld
  <2> QED BY <2>1, <2>2, <2>3, <2>4
          DEF ChildChanges, StopRequest, StartRequest, Changes, superviseVars, loopVars
<1>3. SleepHeld'
    BY <1>1 DEF TakeTick, SuperviseInv, SleepHeld
<1>4. ASSUME NEW j \in Supervised  PROVE WindowHeld(j)' /\ CountHeld(j)' /\ MarkHeld(j)'
    BY <1>1, <1>2 DEF SuperviseInv, SuperviseTypeOK, WindowHeld, CountHeld, MarkHeld, Counters
<1> QED BY <1>2, <1>3, <1>4 DEF SuperviseInv

\* Between two stable windows a process is restarted at most policy.max times and
\* CrashLoop reports the end of its budget once (supervise.go: RestartCounter;
\* loop.go: CrashLoop), for every policy, number of processes and length of time.
THEOREM BudgetHolds == SuperviseSpec => []WithinBudget
<1>1. SuperviseInv => WithinBudget
  <2> SUFFICES ASSUME SuperviseInv, policy.max > 0, NEW i \in Supervised
               PROVE  spent[i] <= policy.max /\ (policy.enabled => reports[i] <= 1)
      BY DEF WithinBudget
  <2>1. policy.max \in Int /\ spent[i] \in Nat /\ counter[i].count \in Nat
      BY SuperviseAssumption DEF SuperviseInv, SuperviseTypeOK, Counters
  <2> QED BY <2>1 DEF SuperviseInv, CountHeld, MarkHeld
<1>2. SuperviseInv /\ [SuperviseNext]_superviseVars => SuperviseInv'
    BY HealthyVisit, NoRestartVisit, CrashRestart, SleptRestart, QuietSupervise, Zenon
       DEF SuperviseNext
<1> QED BY <1>1, <1>2, SuperviseStart, PTL DEF SuperviseSpec

-----------------------------------------------------------------------------
(* The addresses that are dialled                                             *)

\* The request in progress has a URL that passed the check of its kind, also after
\* redirects; with the hosts behind it the name service may do what it likes.
FlightHeld ==
  /\ DOMAIN flight = {"kind", "url", "step", "hops", "ips"}
  /\ flight.kind = "hook" => Validate(flight.url)
  /\ flight.step # "" => flight.kind \in {"hook", "probe"}

EgressInv == FlightHeld /\ DialsAdmitted

LEMMA NothingYet ==
  /\ NoConn.kind = "none"
  /\ NoFlight.kind = "none" /\ NoFlight.step = ""
  /\ DOMAIN NoFlight = {"kind", "url", "step", "hops", "ips"}
<1>1. NoConn.kind = "none"
    BY DEF NoConn
<1>2. NoFlight.kind = "none" /\ NoFlight.step = ""
    BY DEF NoFlight
<1>3. DOMAIN NoFlight = {"kind", "url", "step", "hops", "ips"}
    BY DEF NoFlight
<1> QED BY <1>1, <1>2, <1>3

LEMMA EgressStep == EgressInv /\ [EgressNext]_egressVars => EgressInv'
<1> SUFFICES ASSUME EgressInv, [EgressNext]_egressVars  PROVE EgressInv'
    OBVIOUS
<1> USE DEF EgressInv, FlightHeld
<1>1. conn' = NoConn => DialsAdmitted'
    BY NothingYet DEF DialsAdmitted
<1>2. flight' = NoFlight => FlightHeld'
    BY NothingYet
<1>3. ASSUME NEW n \in Names, NEW a \in Answers, Resolves(n, a)  PROVE EgressInv'
    BY <1>1, <1>3 DEF Resolves
<1>4. ASSUME NEW u \in Urls, RegisterHook(u)  PROVE EgressInv'
    BY <1>1, <1>4 DEF RegisterHook
<1>5. ASSUME NEW u \in Urls, Redirected(u)  PROVE EgressInv'
  <2>1. CASE flight' = NoFlight
      BY <1>1, <1>2, <1>5, <2>1 DEF Redirected
  <2>2. CASE flight' # NoFlight
    <3>1. PICK step : /\ Check(flight.kind, u)
                      /\ flight' = [flight EXCEPT !.url = u, !.hops = @ + 1, !.step = step]
        BY <1>5, <2>2, Zenon DEF Redirected
    <3>2. flight.kind \in {"hook", "probe"}
        BY <1>5 DEF Redirected
    <3> QED BY <1>1, <1>5, <3>1, <3>2 DEF Check, Redirected
  <2> QED BY <2>1, <2>2
<1>6. ASSUME NEW u \in Urls, NEW kind \in {"hook", "probe"}, Send(kind, u)  PROVE EgressInv'
    BY <1>1, <1>6 DEF Send, Check
<1>7. CASE DialLookup
    BY <1>1, <1>7 DEF DialLookup
<1>8. CASE DialNext
  <2>1. CASE conn' = NoConn /\ flight' = [flight EXCEPT !.ips = Tail(@)]
      BY <1>1, <1>8, <2>1
  <2>2. CASE /\ DialControl(flight.kind, Head(flight.ips))
             /\ flight' = [flight EXCEPT !.step = "answer", !.ips = <<>>]
             /\ conn' = [kind |-> flight.kind, ip |-> Head(flight.ips), url |-> flight.url]
    <3>1. FlightHeld'
        BY <1>8, <2>2 DEF DialNext
    <3>2. DialsAdmitted'
        BY <2>2 DEF DialsAdmitted, DialControl, Validate, ValidHost
    <3> QED BY <3>1, <3>2
  <2> QED BY <1>8, <2>1, <2>2, Zenon DEF DialNext
<1>9. CASE DialFails \/ Answered
    BY <1>1, <1>2, <1>9 DEF DialFails, Answered
<1>10. CASE UNCHANGED egressVars
    BY <1>10 DEF egressVars, DialsAdmitted
<1> QED BY <1>3, <1>4, <1>5, <1>6, <1>7, <1>8, <1>9, <1>10 DEF EgressNext

\* A delivery connects to no blocked address and a probe to nothing but loopback,
\* whatever the name service answers at the check and at the dial and wherever the
\* other side redirects (deliver.go: dialContext, checkRedirect; supervise.go:
\* loopbackDialControl), for any URLs, names and answers.
THEOREM DialsStayAdmitted == EgressSpec => []DialsAdmitted
<1>1. EgressInit => EgressInv
    BY NothingYet DEF EgressInit, EgressInv, FlightHeld, DialsAdmitted
<1>2. EgressInv => DialsAdmitted
    BY DEF EgressInv
<1> QED BY <1>1, <1>2, EgressStep, PTL DEF EgressSpec

-----------------------------------------------------------------------------
(* Webhooks: what a receiver gets                                             *)

EventRows == [seq : Nat, type : Types, proc : Procs]
\* How often n is among s.
Count(s, n) == Cardinality({m \in DOMAIN s : s[m] = n})

\* The table holds its newest row, whatever was swept.
LogHeld ==
  /\ lastSeq \in Nat /\ rows \subseteq EventRows /\ IsFiniteSet(rows)
  /\ \A e \in rows : 1 <= e.seq /\ e.seq <= lastSeq
  /\ \A e, f \in rows : e.seq = f.seq => e = f
  /\ lastSeq > 0 => lastSeq \in Seqs(rows)

DispatchTypes ==
  /\ cursor \in Nat /\ tries \in Nat /\ blind \in BOOLEAN
  /\ pc \in {"start", "idle", "skip", "query", "page"}
  /\ page \subseteq EventRows /\ queue \subseteq HookIds \X Nat
  /\ recv \in [HookIds -> Seq(Nat)] /\ since \in [HookIds -> Int]
  /\ DOMAIN hooks \subseteq HookIds /\ DOMAIN snap \subseteq HookIds
  /\ upd \in [Reqs -> {<<>>} \cup (HookIds \X Filters)]

PlaceHeld ==
  /\ cursor <= lastSeq /\ tries < MaxAttempts
  /\ pc # "page" => page = {} /\ queue = {}
  /\ queue = {} => tries = 0
  /\ pc \in {"start", "skip"} => DOMAIN snap = {}
  /\ \A h \in HookIds : (since[h] = -1 <=> h \notin DOMAIN snap) /\ since[h] <= lastSeq

\* A page is what the log has next behind the cursor, and the deliveries that are
\* left are of the row the cursor is at.
PageHeld ==
  /\ \A p \in page : cursor < p.seq /\ p.seq <= lastSeq
  /\ \A p \in page, f \in rows \cup page : f.seq = p.seq => f = p
  /\ \A p \in page, f \in rows : f.seq > cursor /\ f \notin page => f.seq > p.seq
  /\ \A d \in queue : d[2] = cursor

\* What a receiver got is behind the cursor, in order; what is left for it it has
\* not got, save the delivery under way, which it got at most once per attempt.
ReceiverHeld(h) ==
  /\ \A m \in DOMAIN recv[h] : recv[h][m] <= lastSeq /\ (pc # "start" => recv[h][m] <= cursor)
  /\ \A m, n \in DOMAIN recv[h] : m < n => recv[h][m] <= recv[h][n]
  /\ \A n \in Nat : Count(recv[h], n) <= MaxAttempts
  /\ \A d \in queue : d[1] = h => Count(recv[h], cursor) <= IF d = UnderWay THEN tries ELSE 0
ReceiversHeld == ~blind => \A h \in HookIds : ReceiverHeld(h)

DispatchInv ==
  LogHeld /\ DispatchTypes /\ PlaceHeld /\ PageHeld /\ ReceiversHeld /\ NoEventSkipped

LEMMA Bounds_ == /\ MaxKeep \in Nat /\ MaxKeep > 0 /\ SincePage \in Nat /\ SincePage > 0
                 /\ MaxAttempts \in Nat /\ MaxAttempts > 0
  BY LogAssumption, DispatchAssumption

LEMMA CountType ==
  ASSUME NEW s \in Seq(Nat), NEW n
  PROVE  Count(s, n) \in Nat /\ IsFiniteSet({m \in DOMAIN s : s[m] = n})
<1>1. DOMAIN s = 1..Len(s) /\ Len(s) \in Nat
  OBVIOUS
<1>2. IsFiniteSet(DOMAIN s)
  BY <1>1, FS_Interval
<1>3. IsFiniteSet({m \in DOMAIN s : s[m] = n})
  BY <1>2, FS_Subset
<1> QED
  BY <1>3, FS_CardinalityType DEF Count

LEMMA CountAppend ==
  ASSUME NEW s \in Seq(Nat), NEW x \in Nat, NEW n \in Nat
  PROVE  Count(Append(s, x), n) = IF n = x THEN Count(s, n) + 1 ELSE Count(s, n)
<1> DEFINE a == Append(s, x)
           C == {m \in DOMAIN s : s[m] = n}
<1>1. /\ DOMAIN a = DOMAIN s \cup {Len(s) + 1} /\ a[Len(s) + 1] = x
      /\ Len(s) + 1 \notin DOMAIN s /\ \A m \in DOMAIN s : a[m] = s[m]
  OBVIOUS
<1>2. CASE n = x
  <2>1. {m \in DOMAIN a : a[m] = n} = C \cup {Len(s) + 1}
    BY <1>1, <1>2
  <2>2. Len(s) + 1 \notin C
    BY <1>1
  <2>4. IsFiniteSet(C)
    BY CountType
  <2>3. Cardinality(C \cup {Len(s) + 1}) = Cardinality(C) + 1
    <3> HIDE DEF C
    <3> QED BY <2>2, <2>4, FS_AddElement
  <2> QED BY <1>2, <2>1, <2>3 DEF Count
<1>3. CASE n # x
  <2>1. {m \in DOMAIN a : a[m] = n} = C
    BY <1>1, <1>3
  <2> QED BY <1>3, <2>1 DEF Count
<1> QED
  BY <1>2, <1>3

LEMMA CountNone ==
  ASSUME NEW s \in Seq(Nat), NEW n, \A m \in DOMAIN s : s[m] # n
  PROVE  Count(s, n) = 0
<1>1. {m \in DOMAIN s : s[m] = n} = {}
  OBVIOUS
<1> QED
  BY <1>1, FS_EmptySet DEF Count

\* An append adds the newest row, and the sweep behind it takes others at most.
LEMMA Appended_ ==
  ASSUME LogHeld, NEW t \in Types, NEW p \in Procs, AppendEvent(t, p)
  PROVE  /\ lastSeq' = lastSeq + 1 /\ LogHeld'
         /\ \A e \in rows' : e \in rows \/ e.seq = lastSeq'
<1> DEFINE new == [seq |-> lastSeq + 1, type |-> t, proc |-> p]
           with == rows \cup {new}
<1>0. lastSeq \in Nat /\ lastSeq' = lastSeq + 1 /\ lastSeq' \in Nat
  BY DEF LogHeld, AppendEvent
<1>1. new \in EventRows /\ new.seq = lastSeq'
  BY <1>0 DEF EventRows
<1>2. rows' \subseteq with /\ new \in rows'
  <2>1. PICK floor \in 1..lastSeq' : LET young == {e \in with : e.seq >= floor}
                                    IN rows' = SweepCount(young) \/ rows' = young
    BY <1>0 DEF AppendEvent
  <2> DEFINE W == {e \in with : e.seq >= floor}
  <2>2. new \in W
    BY <1>0, <1>1
  <2>3. CASE rows' = W
    BY <2>2, <2>3
  <2>4. CASE rows' = SweepCount(W)
    <3>1. rows' = {e \in W : Cardinality({f \in W : f.seq > e.seq}) < MaxKeep}
      BY <2>4 DEF SweepCount, Newest
    <3>2. {f \in W : f.seq > new.seq} = {}
      <4>1. ASSUME NEW f \in rows PROVE ~(f.seq > new.seq)
        <5>1. f.seq \in Nat /\ f.seq <= lastSeq
          BY DEF LogHeld, EventRows
        <5> QED BY <1>0, <1>1, <5>1
      <4>2. ~(new.seq > new.seq)
        BY <1>0, <1>1
      <4> QED BY <4>1, <4>2
    <3>3. Cardinality({f \in W : f.seq > new.seq}) < MaxKeep
      BY <3>2, FS_EmptySet, Bounds_
    <3> QED BY <2>2, <3>1, <3>3
  <2> QED BY <2>1, <2>3, <2>4
<1> HIDE DEF new
<1>3. IsFiniteSet(rows')
  BY <1>2, FS_AddElement, FS_Subset DEF LogHeld
<1>4. ASSUME NEW e \in rows' PROVE e \in EventRows /\ 1 <= e.seq /\ e.seq <= lastSeq'
  <2>1. CASE e = new
    BY <2>1, <1>0, <1>1
  <2>2. CASE e \in rows
    <3>1. e.seq \in Nat /\ 1 <= e.seq /\ e.seq <= lastSeq /\ e \in EventRows
      BY <2>2 DEF LogHeld, EventRows
    <3> QED BY <1>0, <3>1
  <2> QED BY <1>2, <2>1, <2>2
<1>5. ASSUME NEW e \in rows', NEW f \in rows', e.seq = f.seq PROVE e = f
  <2>1. \A g \in rows : g.seq # lastSeq'
    <3>1. ASSUME NEW g \in rows PROVE g.seq \in Nat /\ g.seq <= lastSeq
      BY DEF LogHeld, EventRows
    <3> QED BY <1>0, <3>1
  <2>2. CASE e \in rows /\ f \in rows
    BY <1>5, <2>2 DEF LogHeld
  <2> QED BY <1>1, <1>2, <1>5, <2>1, <2>2
<1>6. lastSeq' \in Seqs(rows')
  BY <1>1, <1>2 DEF Seqs
<1>7. rows' \subseteq EventRows
  BY <1>4
<1>8. LogHeld'
  BY <1>0, <1>3, <1>4, <1>5, <1>6, <1>7 DEF LogHeld, Seqs
<1> QED
  BY <1>0, <1>1, <1>2, <1>8

LEMMA LatestIsLast == LogHeld => Latest = lastSeq
<1> SUFFICES ASSUME LogHeld PROVE Latest = lastSeq
  OBVIOUS
<1>0. lastSeq \in Nat /\ \A e \in rows : e.seq \in Nat /\ 1 <= e.seq /\ e.seq <= lastSeq
  BY DEF LogHeld, EventRows
<1>1. CASE rows = {}
  BY <1>0, <1>1 DEF Latest, LogHeld, Seqs
<1>2. CASE rows # {}
  <2>1. lastSeq \in Seqs(rows)
    BY <1>0, <1>2 DEF LogHeld
  <2>2. \A n \in Seqs(rows) : n \in Nat /\ n <= lastSeq
    BY <1>0 DEF Seqs
  <2>3. \A n \in Seqs(rows) : (\A m \in Seqs(rows) : m <= n) <=> n = lastSeq
    BY <1>0, <2>1, <2>2
  <2> QED BY <1>2, <2>1, <2>3 DEF Latest
<1> QED
  BY <1>1, <1>2

LEMMA DispatchStart == LogInit /\ DispatchInit => DispatchInv
<1> SUFFICES ASSUME LogInit, DispatchInit PROVE DispatchInv
  OBVIOUS
<1>1. LogHeld
  BY FS_EmptySet DEF LogInit, LogHeld
<1>2. DispatchTypes
  <2>1. DOMAIN NoHook = {}
    BY DEF NoHook
  <2>2. recv \in [HookIds -> Seq(Nat)]
    <3>1. <<>> \in Seq(Nat)
      OBVIOUS
    <3> QED BY <3>1 DEF DispatchInit
  <2>3. since \in [HookIds -> Int] /\ upd \in [Reqs -> {<<>>} \cup (HookIds \X Filters)]
    BY DEF DispatchInit
  <2> QED BY <2>1, <2>2, <2>3 DEF DispatchInit, DispatchTypes
<1>3. PlaceHeld
  BY Bounds_ DEF LogInit, DispatchInit, PlaceHeld, NoHook
<1>4. PageHeld
  BY DEF DispatchInit, PageHeld
<1>5. ASSUME NEW h \in HookIds PROVE ReceiverHeld(h)
  <2>1. recv[h] = <<>> /\ queue = {} /\ <<>> \in Seq(Nat)
    BY DEF DispatchInit
  <2>2. ASSUME NEW n PROVE Count(recv[h], n) = 0
    <3>1. \A m \in DOMAIN <<>> : <<>>[m] # n
      OBVIOUS
    <3>2. Count(<<>>, n) = 0
      BY <2>1, <3>1, CountNone
    <3> QED BY <2>1, <3>2
  <2> QED BY <2>1, <2>2, Bounds_ DEF ReceiverHeld
<1>6. NoEventSkipped
  BY DEF DispatchInit, NoHook, NoEventSkipped
<1> QED
  BY <1>1, <1>2, <1>3, <1>4, <1>5, <1>6 DEF DispatchInv, ReceiversHeld

\* What other goroutines do, to the registry or to the log, leaves the dispatcher
\* where it is: a new row is behind everything it holds.
LEMMA OutsideStep ==
  ASSUME DispatchInv, UNCHANGED dispVars, LogHeld', lastSeq <= lastSeq',
         \A e \in rows' : e \in rows \/ e.seq > lastSeq,
         DOMAIN hooks' \subseteq HookIds, upd' \in [Reqs -> {<<>>} \cup (HookIds \X Filters)]
  PROVE  DispatchInv'
<1>0. /\ pc' = pc /\ cursor' = cursor /\ snap' = snap /\ page' = page /\ queue' = queue /\ tries' = tries
      /\ recv' = recv /\ since' = since /\ given' = given /\ blind' = blind
  BY DEF dispVars
<1>a. LogHeld /\ DispatchTypes /\ PlaceHeld /\ PageHeld /\ ReceiversHeld /\ NoEventSkipped
  BY DEF DispatchInv
<1>b. lastSeq \in Nat /\ lastSeq' \in Nat /\ cursor \in Nat /\ cursor <= lastSeq
  BY <1>a DEF LogHeld, DispatchTypes, PlaceHeld
<1>c. \A e \in rows' : e.seq \in Nat
  BY DEF LogHeld, EventRows
<1>d. \A p \in page : p.seq \in Nat /\ p.seq <= lastSeq
  BY <1>a DEF DispatchTypes, PageHeld, EventRows
<1>1. DispatchTypes'
  BY <1>0, <1>a DEF DispatchTypes
<1>2. PlaceHeld'
  <2>1. cursor' <= lastSeq'
    BY <1>0, <1>b
  <2>2. ASSUME NEW h \in HookIds PROVE since[h] <= lastSeq'
    <3>1. since[h] \in Int /\ since[h] <= lastSeq
      BY <1>a DEF DispatchTypes, PlaceHeld
    <3> QED BY <1>b, <3>1
  <2> QED BY <1>0, <1>a, <2>1, <2>2 DEF PlaceHeld
<1>3. PageHeld'
  <2>1. ASSUME NEW p \in page PROVE cursor < p.seq /\ p.seq <= lastSeq'
    BY <1>a, <1>b, <1>d DEF PageHeld
  <2>2. ASSUME NEW p \in page, NEW f \in rows' \cup page, f.seq = p.seq PROVE f = p
    BY <1>a, <1>b, <1>c, <1>d, <2>2 DEF PageHeld
  <2>3. ASSUME NEW p \in page, NEW f \in rows', f.seq > cursor, f \notin page PROVE f.seq > p.seq
    BY <1>a, <1>b, <1>c, <1>d, <2>3 DEF PageHeld
  <2>4. \A d \in queue : d[2] = cursor
    BY <1>a DEF PageHeld
  <2> QED BY <1>0, <2>1, <2>2, <2>3, <2>4 DEF PageHeld
<1>4. ASSUME NEW h \in HookIds, ReceiverHeld(h) PROVE ReceiverHeld(h)'
  <2>1. UnderWay' = UnderWay
    BY <1>0 DEF UnderWay
  <2>2. ASSUME NEW m \in DOMAIN recv[h] PROVE recv[h][m] <= lastSeq' /\ (pc # "start" => recv[h][m] <= cursor)
    <3>1. recv[h][m] \in Nat /\ recv[h][m] <= lastSeq /\ (pc # "start" => recv[h][m] <= cursor)
      BY <1>4, <1>a DEF ReceiverHeld, DispatchTypes
    <3> QED BY <1>b, <3>1
  <2>3. /\ \A m, n \in DOMAIN recv[h] : m < n => recv[h][m] <= recv[h][n]
        /\ \A n \in Nat : Count(recv[h], n) <= MaxAttempts
        /\ \A d \in queue : d[1] = h => Count(recv[h], cursor) <= IF d = UnderWay THEN tries ELSE 0
    BY <1>4 DEF ReceiverHeld
  <2> QED BY <1>0, <2>1, <2>2, <2>3, Zenon DEF ReceiverHeld, Count
<1>5. ReceiversHeld'
  BY <1>0, <1>a, <1>4 DEF ReceiversHeld
<1>6. NoEventSkipped'
  <2>1. ASSUME NEW h \in DOMAIN snap, NEW e \in rows',
               since[h] # -1, since[h] < e.seq, e.seq <= cursor, Matches(snap[h], e.type)
        PROVE  e.seq \in ToSet(recv[h]) \/ <<h, e.seq>> \in given \cup queue
    <3>1. e \in rows
      BY <1>b, <1>c, <2>1
    <3> QED BY <1>a, <2>1, <3>1 DEF NoEventSkipped
  <2> QED BY <1>0, <2>1 DEF NoEventSkipped
<1> QED
  BY <1>1, <1>2, <1>3, <1>5, <1>6 DEF DispatchInv

LEMMA AppendStep ==
  ASSUME DispatchInv, NEW t \in Types, NEW p \in Procs, AppendEvent(t, p), UNCHANGED <<regVars, dispVars>>
  PROVE  DispatchInv'
<1>0. LogHeld /\ DispatchTypes /\ lastSeq \in Nat
  BY DEF DispatchInv, LogHeld
<1>1. lastSeq' = lastSeq + 1 /\ LogHeld' /\ \A e \in rows' : e \in rows \/ e.seq = lastSeq'
  BY <1>0, Appended_
<1>2. lastSeq <= lastSeq' /\ lastSeq' > lastSeq
  BY <1>0, <1>1
<1>3. \A e \in rows' : e \in rows \/ e.seq > lastSeq
  BY <1>1, <1>2, Zenon
<1>4. DOMAIN hooks' \subseteq HookIds /\ upd' \in [Reqs -> {<<>>} \cup (HookIds \X Filters)] /\ UNCHANGED dispVars
  BY <1>0 DEF DispatchTypes, regVars
<1> QED
  BY <1>1, <1>2, <1>3, <1>4, OutsideStep

LEMMA RegistryStep ==
  ASSUME DispatchInv, UNCHANGED <<logVars, dispVars>>,
         DOMAIN hooks' \subseteq HookIds, upd' \in [Reqs -> {<<>>} \cup (HookIds \X Filters)]
  PROVE  DispatchInv'
<1>0. LogHeld /\ lastSeq \in Nat
  BY DEF DispatchInv, LogHeld
<1>1. rows' = rows /\ lastSeq' = lastSeq
  BY DEF logVars
<1>2. LogHeld'
  BY <1>0, <1>1 DEF LogHeld, Seqs
<1>3. lastSeq <= lastSeq'
  BY <1>0, <1>1
<1> QED
  BY <1>1, <1>2, <1>3, OutsideStep

LEMMA RegistrySteps ==
  ASSUME DispatchInv, RegistryNext
  PROVE  DispatchInv'
<1>0. DOMAIN hooks \subseteq HookIds /\ upd \in [Reqs -> {<<>>} \cup (HookIds \X Filters)]
  BY DEF DispatchInv, DispatchTypes
<1>1. ASSUME NEW h \in HookIds, NEW f \in Filters, CreateHook(h, f) PROVE DispatchInv'
  BY <1>0, <1>1, RegistryStep DEF CreateHook, PutHook
<1>2. ASSUME NEW h \in HookIds, DeleteHook(h) PROVE DispatchInv'
  BY <1>0, <1>2, RegistryStep DEF DeleteHook
<1>3. ASSUME NEW r \in Reqs, NEW h \in HookIds, NEW f \in Filters, UpdateGet(r, h, f) PROVE DispatchInv'
  BY <1>0, <1>3, RegistryStep DEF UpdateGet
<1>4. ASSUME NEW r \in Reqs, UpdatePut(r) PROVE DispatchInv'
  <2>1. upd[r] \in HookIds \X Filters
    BY <1>0, <1>4 DEF UpdatePut
  <2>2. DOMAIN hooks' \subseteq HookIds
    BY <1>0, <1>4, <2>1 DEF UpdatePut, PutHook
  <2> QED BY <1>0, <1>4, <2>2, RegistryStep DEF UpdatePut
<1> QED
  BY <1>1, <1>2, <1>3, <1>4 DEF RegistryNext

\* Without deliveries left, a receiver is only concerned with where the cursor is.
LEMMA Resting ==
  ASSUME NEW h \in HookIds, ReceiverHeld(h), recv' = recv, lastSeq' = lastSeq, queue' = {},
         pc' # "start" => \A m \in DOMAIN recv[h] : recv[h][m] <= cursor'
  PROVE  ReceiverHeld(h)'
<1>1. /\ \A m \in DOMAIN recv[h] : recv[h][m] <= lastSeq
      /\ \A m, n \in DOMAIN recv[h] : m < n => recv[h][m] <= recv[h][n]
      /\ \A n \in Nat : Count(recv[h], n) <= MaxAttempts
  BY DEF ReceiverHeld
<1> QED
  BY <1>1, Zenon DEF ReceiverHeld, Count

LEMMA ReseedStep ==
  ASSUME DispatchInv, pc \in {"start", "skip"}, Reseed, pc' = "idle",
         UNCHANGED <<rows, lastSeq, regVars, snap, page, queue, tries, recv, since, given>>
  PROVE  DispatchInv'
<1>a. LogHeld /\ DispatchTypes /\ PlaceHeld /\ PageHeld /\ ReceiversHeld /\ NoEventSkipped
  BY DEF DispatchInv
<1>0. /\ lastSeq \in Nat /\ page = {} /\ queue = {} /\ DOMAIN snap = {}
      /\ hooks' = hooks /\ upd' = upd
  BY <1>a DEF LogHeld, PlaceHeld, regVars
<1>1. \/ cursor' = lastSeq /\ blind' = blind
      \/ cursor' = 0 /\ blind' = TRUE
  BY <1>a, LatestIsLast DEF Reseed
<1>2. cursor' \in Nat /\ cursor' <= lastSeq
  BY <1>0, <1>1
<1>3. LogHeld'
  BY <1>a DEF LogHeld, Seqs
<1>4. DispatchTypes'
  BY <1>0, <1>1, <1>2, <1>a DEF DispatchTypes
<1>5. PlaceHeld'
  BY <1>0, <1>2, <1>a DEF PlaceHeld
<1>6. PageHeld'
  BY <1>0 DEF PageHeld
<1>7. ReceiversHeld'
  <2>1. ASSUME ~blind', NEW h \in HookIds PROVE ReceiverHeld(h)'
    <3>1. ~blind /\ cursor' = lastSeq
      BY <1>1, <2>1
    <3>2. ReceiverHeld(h)
      BY <1>a, <3>1 DEF ReceiversHeld
    <3>3. \A m \in DOMAIN recv[h] : recv[h][m] <= cursor'
      BY <3>1, <3>2 DEF ReceiverHeld
    <3> QED BY <1>0, <3>2, <3>3, Resting
  <2> QED BY <2>1 DEF ReceiversHeld
<1>8. NoEventSkipped'
  BY <1>0 DEF NoEventSkipped
<1> QED
  BY <1>3, <1>4, <1>5, <1>6, <1>7, <1>8 DEF DispatchInv

LEMMA TickStep ==
  ASSUME DispatchInv, Tick
  PROVE  DispatchInv'
<1>a. LogHeld /\ DispatchTypes /\ PlaceHeld /\ PageHeld /\ ReceiversHeld /\ NoEventSkipped
  BY DEF DispatchInv
<1>0. /\ lastSeq \in Nat /\ pc = "idle" /\ page = {} /\ queue = {}
      /\ rows' = rows /\ lastSeq' = lastSeq /\ cursor' = cursor /\ page' = page /\ queue' = queue
      /\ tries' = tries /\ recv' = recv /\ given' = given /\ blind' = blind /\ hooks' = hooks /\ upd' = upd
      /\ snap' = hooks
  BY <1>a DEF LogHeld, PlaceHeld, Tick, logVars, regVars
<1>1. pc' \in {"skip", "query"} /\ (pc' = "skip" => DOMAIN snap' = {})
  <2>1. DOMAIN NoHook = {}
    BY DEF NoHook
  <2> QED BY <2>1 DEF Tick
<1>2. ASSUME NEW h \in HookIds
      PROVE  /\ since'[h] \in Int /\ since'[h] <= lastSeq
             /\ since'[h] = -1 <=> h \notin DOMAIN hooks
             /\ h \in DOMAIN hooks => \/ since'[h] = lastSeq
                                      \/ since'[h] = since[h] /\ since[h] # -1 /\ snap[h] = hooks[h]
  <2>1. since[h] \in Int /\ since[h] <= lastSeq
    BY <1>a DEF DispatchTypes, PlaceHeld
  <2>2. since'[h] = IF h \notin DOMAIN hooks THEN -1
                    ELSE IF since[h] = -1 \/ snap[h] # hooks[h] THEN lastSeq ELSE since[h]
    BY DEF Tick
  <2>3. CASE h \notin DOMAIN hooks
    BY <1>0, <2>2, <2>3
  <2>4. CASE h \in DOMAIN hooks /\ (since[h] = -1 \/ snap[h] # hooks[h])
    BY <1>0, <2>2, <2>4
  <2>5. CASE h \in DOMAIN hooks /\ ~(since[h] = -1 \/ snap[h] # hooks[h])
    BY <2>1, <2>2, <2>5
  <2> QED BY <2>3, <2>4, <2>5
<1>3. LogHeld'
  BY <1>0, <1>a DEF LogHeld, Seqs
<1>4. DispatchTypes'
  <2>1. since' \in [HookIds -> Int]
    BY <1>2 DEF Tick
  <2> QED BY <1>0, <1>1, <1>a, <2>1 DEF DispatchTypes
<1>5. PlaceHeld'
  BY <1>0, <1>1, <1>2, <1>a DEF PlaceHeld
<1>6. PageHeld'
  BY <1>0 DEF PageHeld
<1>7. ReceiversHeld'
  <2>1. ASSUME ~blind', NEW h \in HookIds PROVE ReceiverHeld(h)'
    <3>1. ReceiverHeld(h)
      BY <1>0, <1>a, <2>1 DEF ReceiversHeld
    <3>2. \A m \in DOMAIN recv[h] : recv[h][m] <= cursor'
      BY <1>0, <3>1 DEF ReceiverHeld
    <3> QED BY <1>0, <3>1, <3>2, Resting
  <2> QED BY <2>1 DEF ReceiversHeld
<1>8. NoEventSkipped'
  <2>1. ASSUME NEW h \in DOMAIN hooks, NEW e \in rows, since'[h] # -1, since'[h] < e.seq,
               e.seq <= cursor, Matches(hooks[h], e.type)
        PROVE  e.seq \in ToSet(recv[h]) \/ <<h, e.seq>> \in given \cup queue
    <3>1. e.seq \in Nat /\ e.seq <= lastSeq /\ h \in HookIds
      BY <1>a DEF LogHeld, EventRows, DispatchTypes
    <3>2. since'[h] = since[h] /\ since[h] # -1 /\ snap[h] = hooks[h]
      BY <1>0, <1>2, <2>1, <3>1
    <3>3. h \in DOMAIN snap
      BY <1>a, <3>1, <3>2 DEF PlaceHeld
    <3> QED BY <1>a, <2>1, <3>2, <3>3 DEF NoEventSkipped
  <2> QED BY <1>0, <2>1 DEF NoEventSkipped
<1> QED
  BY <1>3, <1>4, <1>5, <1>6, <1>7, <1>8 DEF DispatchInv

LEMMA RestartStep ==
  ASSUME DispatchInv, Restart
  PROVE  DispatchInv'
<1>a. LogHeld /\ DispatchTypes /\ PlaceHeld /\ PageHeld /\ ReceiversHeld /\ NoEventSkipped
  BY DEF DispatchInv
<1>0. /\ lastSeq \in Nat /\ rows' = rows /\ lastSeq' = lastSeq /\ pc' = "start" /\ cursor' = 0
      /\ hooks' = NoHook /\ snap' = NoHook /\ page' = {} /\ queue' = {} /\ tries' = 0
      /\ recv' = recv /\ blind' = blind /\ DOMAIN NoHook = {}
      /\ since' = [h \in HookIds |-> -1] /\ upd' = [r \in Reqs |-> <<>>]
  BY <1>a DEF LogHeld, Restart, logVars, NoHook
<1>3. LogHeld'
  BY <1>0, <1>a DEF LogHeld, Seqs
<1>4. DispatchTypes'
  <2>1. since' \in [HookIds -> Int] /\ upd' \in [Reqs -> {<<>>} \cup (HookIds \X Filters)]
    BY <1>0
  <2> QED BY <1>0, <1>a, <2>1 DEF DispatchTypes
<1>5. PlaceHeld'
  BY <1>0, Bounds_ DEF PlaceHeld
<1>6. PageHeld'
  BY <1>0 DEF PageHeld
<1>7. ReceiversHeld'
  BY <1>0, <1>a, Resting DEF ReceiversHeld
<1>8. NoEventSkipped'
  BY <1>0 DEF NoEventSkipped
<1> QED
  BY <1>3, <1>4, <1>5, <1>6, <1>7, <1>8 DEF DispatchInv

\* A page takes the oldest rows: what it leaves comes after what it has.
LEMMA OldestFirst ==
  ASSUME NEW S, IsFiniteSet(S), NEW n \in Nat, S \subseteq EventRows,
         NEW p \in Oldest(S, n), NEW f \in S \ Oldest(S, n)
  PROVE  f.seq > p.seq
<1> DEFINE below(e) == {g \in S : g.seq < e.seq}
<1>1. p \in S /\ Cardinality(below(p)) < n /\ ~(Cardinality(below(f)) < n)
  BY DEF Oldest
<1>2. p.seq \in Nat /\ f.seq \in Nat /\ \A g \in S : g.seq \in Nat
  BY <1>1 DEF EventRows
<1>3. SUFFICES ASSUME f.seq <= p.seq PROVE FALSE
  BY <1>2
<1>4. below(f) \subseteq below(p)
  BY <1>2, <1>3
<1>5. IsFiniteSet(below(p)) /\ IsFiniteSet(below(f))
  BY FS_Subset
<1> HIDE DEF below
<1>6. /\ Cardinality(below(f)) <= Cardinality(below(p))
      /\ Cardinality(below(f)) \in Nat /\ Cardinality(below(p)) \in Nat
  BY <1>4, <1>5, FS_Subset, FS_CardinalityType
<1> QED
  BY <1>1, <1>6

LEMMA QueryStep ==
  ASSUME DispatchInv, QueryPage
  PROVE  DispatchInv'
<1>a. LogHeld /\ DispatchTypes /\ PlaceHeld /\ PageHeld /\ ReceiversHeld /\ NoEventSkipped
  BY DEF DispatchInv
<1>0. /\ lastSeq \in Nat /\ cursor \in Nat /\ pc = "query" /\ pc' = "page" /\ page = {} /\ queue = {}
      /\ rows' = rows /\ lastSeq' = lastSeq /\ cursor' = cursor /\ queue' = queue /\ snap' = snap
      /\ tries' = tries /\ recv' = recv /\ given' = given /\ blind' = blind /\ hooks' = hooks /\ upd' = upd
      /\ since' = since
  BY <1>a DEF LogHeld, DispatchTypes, PlaceHeld, QueryPage, logVars, regVars
<1> DEFINE S == {e \in rows : e.seq > cursor}
<1>1. page' = Oldest(S, SincePage) \/ page' = {}
  BY DEF QueryPage, QuerySince
<1>2. page' \subseteq S /\ S \subseteq rows
  BY <1>1 DEF Oldest
<1>3. LogHeld'
  BY <1>0, <1>a DEF LogHeld, Seqs
<1>4. DispatchTypes'
  <2>1. page' \subseteq EventRows
    BY <1>2, <1>a DEF LogHeld
  <2> QED BY <1>0, <1>a, <2>1 DEF DispatchTypes
<1>5. PlaceHeld'
  BY <1>0, <1>a DEF PlaceHeld
<1>6. PageHeld'
  <2>1. ASSUME NEW p \in page' PROVE cursor < p.seq /\ p.seq <= lastSeq
    <3>1. p \in rows /\ p.seq > cursor /\ p.seq \in Nat /\ p.seq <= lastSeq
      BY <1>2, <1>a DEF LogHeld, EventRows
    <3> QED BY <1>0, <3>1
  <2>2. ASSUME NEW p \in page', NEW f \in rows \cup page', f.seq = p.seq PROVE f = p
    BY <1>2, <1>a, <2>2 DEF LogHeld
  <2>3. ASSUME NEW p \in page', NEW f \in rows, f.seq > cursor, f \notin page' PROVE f.seq > p.seq
    <3>1. page' = Oldest(S, SincePage)
      BY <1>1
    <3>2. IsFiniteSet(S) /\ S \subseteq EventRows
      BY <1>a, FS_Subset DEF LogHeld
    <3>3. f \in S
      BY <2>3
    <3> HIDE DEF S
    <3> QED BY <2>3, <3>1, <3>2, <3>3, Bounds_, OldestFirst
  <2> QED BY <1>0, <2>1, <2>2, <2>3 DEF PageHeld
<1>7. ReceiversHeld'
  <2>1. ASSUME ~blind', NEW h \in HookIds PROVE ReceiverHeld(h)'
    <3>1. ReceiverHeld(h)
      BY <1>0, <1>a, <2>1 DEF ReceiversHeld
    <3>2. \A m \in DOMAIN recv[h] : recv[h][m] <= cursor'
      BY <1>0, <3>1 DEF ReceiverHeld
    <3> QED BY <1>0, <3>1, <3>2, Resting
  <2> QED BY <2>1 DEF ReceiversHeld
<1>8. NoEventSkipped'
  BY <1>0, <1>a DEF NoEventSkipped
<1> QED
  BY <1>3, <1>4, <1>5, <1>6, <1>7, <1>8 DEF DispatchInv

LEMMA NextRowStep ==
  ASSUME DispatchInv, NextRow
  PROVE  DispatchInv'
<1>a. LogHeld /\ DispatchTypes /\ PlaceHeld /\ PageHeld /\ ReceiversHeld /\ NoEventSkipped
  BY DEF DispatchInv
<1>0. /\ lastSeq \in Nat /\ cursor \in Nat /\ pc = "page" /\ queue = {} /\ tries = 0
      /\ rows' = rows /\ lastSeq' = lastSeq /\ snap' = snap /\ hooks' = hooks /\ upd' = upd
      /\ tries' = tries /\ recv' = recv /\ given' = given /\ blind' = blind /\ since' = since
  BY <1>a DEF LogHeld, DispatchTypes, PlaceHeld, NextRow, logVars, regVars
<1>1. LogHeld'
  BY <1>0, <1>a DEF LogHeld, Seqs
<1>2. CASE page = {} /\ pc' = "idle" /\ UNCHANGED <<cursor, page, queue>>
  <2>1. DispatchTypes' /\ PlaceHeld' /\ PageHeld' /\ NoEventSkipped'
    BY <1>0, <1>2, <1>a DEF DispatchTypes, PlaceHeld, PageHeld, NoEventSkipped
  <2>2. ASSUME ~blind', NEW h \in HookIds PROVE ReceiverHeld(h)'
    <3>1. ReceiverHeld(h)
      BY <1>0, <1>a, <2>2 DEF ReceiversHeld
    <3>2. \A m \in DOMAIN recv[h] : recv[h][m] <= cursor'
      BY <1>0, <1>2, <3>1 DEF ReceiverHeld
    <3> QED BY <1>0, <1>2, <3>1, <3>2, Resting
  <2> QED BY <1>1, <2>1, <2>2 DEF DispatchInv, ReceiversHeld
<1>3. ASSUME NEW e \in page, \A f \in page : e.seq <= f.seq,
             cursor' = (IF e.seq > cursor THEN e.seq ELSE cursor), queue' = Recipients(e) \X {e.seq},
             page' = page \ {e}, pc' = pc
      PROVE  DispatchInv'
  <2>1. /\ e.seq \in Nat /\ cursor < e.seq /\ e.seq <= lastSeq /\ cursor' = e.seq
        /\ \A f \in rows \cup page : f.seq \in Nat
    BY <1>0, <1>3, <1>a DEF PageHeld, DispatchTypes, LogHeld, EventRows
  <2>2. Recipients(e) \subseteq HookIds
    BY <1>a DEF Recipients, DispatchTypes
  <2>3. DispatchTypes'
    BY <1>0, <1>3, <1>a, <2>1, <2>2 DEF DispatchTypes
  <2>4. PlaceHeld'
    BY <1>0, <1>3, <1>a, <2>1 DEF PlaceHeld
  <2>5. PageHeld'
    <3>1. ASSUME NEW p \in page' PROVE e.seq < p.seq /\ p.seq <= lastSeq
      <4>1. p \in page /\ p # e /\ e.seq <= p.seq /\ p.seq # e.seq /\ p.seq \in Nat
        BY <1>3, <1>a, <2>1 DEF PageHeld
      <4> QED BY <1>a, <2>1, <4>1 DEF PageHeld
    <3>2. ASSUME NEW p \in page', NEW f \in rows \cup page', f.seq = p.seq PROVE f = p
      BY <1>3, <1>a, <3>2 DEF PageHeld
    <3>3. ASSUME NEW p \in page', NEW f \in rows, f.seq > e.seq, f \notin page' PROVE f.seq > p.seq
      <4>1. f \notin page /\ f.seq > cursor
        BY <1>0, <1>3, <2>1, <3>3
      <4> QED BY <1>3, <1>a, <4>1 DEF PageHeld
    <3>4. \A d \in queue' : d[2] = e.seq
      BY <1>3
    <3> QED BY <1>0, <2>1, <3>1, <3>2, <3>3, <3>4 DEF PageHeld
  <2>6. ASSUME NEW h \in HookIds, ReceiverHeld(h) PROVE ReceiverHeld(h)'
    <3>1. recv[h] \in Seq(Nat) /\ \A m \in DOMAIN recv[h] : recv[h][m] \in Nat
      BY <1>a DEF DispatchTypes
    <3>2. \A m \in DOMAIN recv[h] : recv[h][m] <= cursor
      BY <1>0, <2>6 DEF ReceiverHeld
    <3>3. \A m \in DOMAIN recv[h] : recv[h][m] < e.seq
      BY <1>0, <2>1, <3>1, <3>2
    <3>4. Count(recv[h], e.seq) = 0
      <4>1. \A m \in DOMAIN recv[h] : recv[h][m] # e.seq
        BY <2>1, <3>1, <3>3
      <4> QED BY <3>1, <4>1, CountNone
    <3>5. \A m \in DOMAIN recv[h] : recv[h][m] <= lastSeq /\ recv[h][m] <= e.seq
      BY <1>0, <2>1, <3>1, <3>3
    <3>6. \A d \in queue' : d[1] = h => Count(recv[h], e.seq) <= IF d = UnderWay' THEN tries ELSE 0
      BY <1>0, <3>4
    <3>7. /\ \A m, n \in DOMAIN recv[h] : m < n => recv[h][m] <= recv[h][n]
          /\ \A n \in Nat : Count(recv[h], n) <= MaxAttempts
      BY <2>6 DEF ReceiverHeld
    <3> QED BY <1>0, <2>1, <3>5, <3>6, <3>7, Zenon DEF ReceiverHeld, Count
  <2>7. NoEventSkipped'
    <3>1. ASSUME NEW h \in DOMAIN snap, NEW f \in rows, since[h] # -1, since[h] < f.seq,
                 f.seq <= e.seq, Matches(snap[h], f.type)
          PROVE  f.seq \in ToSet(recv[h]) \/ <<h, f.seq>> \in given \cup queue'
      <4>1. CASE f.seq <= cursor
        BY <1>0, <1>a, <3>1, <4>1 DEF NoEventSkipped
      <4>2. CASE f.seq > cursor
        <5>1. f \in page
          BY <1>a, <2>1, <3>1, <4>2 DEF PageHeld
        <5>2. f.seq = e.seq
          BY <1>3, <2>1, <3>1, <5>1
        <5>3. f = e
          BY <1>a, <5>1, <5>2 DEF PageHeld
        <5> QED BY <1>3, <3>1, <5>3 DEF Recipients
      <4> QED BY <1>0, <2>1, <4>1, <4>2
    <3> QED BY <1>0, <2>1, <3>1 DEF NoEventSkipped
  <2>8. ReceiversHeld'
    BY <1>0, <1>a, <2>6 DEF ReceiversHeld
  <2> QED BY <1>1, <2>3, <2>4, <2>5, <2>7, <2>8 DEF DispatchInv
<1> QED
  BY <1>2, <1>3 DEF NextRow

LEMMA AttemptStep ==
  ASSUME DispatchInv, Attempt
  PROVE  DispatchInv'
<1>a. LogHeld /\ DispatchTypes /\ PlaceHeld /\ PageHeld /\ ReceiversHeld /\ NoEventSkipped
  BY DEF DispatchInv
<1> DEFINE d == UnderWay
           got == recv' = [recv EXCEPT ![d[1]] = Append(@, d[2])]
<1>0. /\ lastSeq \in Nat /\ cursor \in Nat /\ tries \in Nat /\ tries < MaxAttempts /\ cursor <= lastSeq
      /\ pc = "page" /\ pc' = pc /\ queue # {}
      /\ rows' = rows /\ lastSeq' = lastSeq /\ cursor' = cursor /\ page' = page /\ snap' = snap
      /\ hooks' = hooks /\ upd' = upd /\ blind' = blind /\ since' = since
  BY <1>a DEF LogHeld, DispatchTypes, PlaceHeld, Attempt, logVars, regVars
<1>1. d \in queue /\ d[1] \in HookIds /\ d[2] = cursor /\ d = <<d[1], d[2]>>
  <2>1. d \in queue
    BY <1>0 DEF UnderWay
  <2> QED BY <1>a, <2>1 DEF DispatchTypes, PageHeld
<1>2. recv' = recv \/ got
  BY DEF Attempt
<1>3. \/ queue' = queue /\ tries' = tries + 1 /\ tries + 1 < MaxAttempts /\ given' = given
      \/ queue' = queue \ {d} /\ tries' = 0 /\ given \subseteq given' /\ (got \/ d \in given')
  BY DEF Attempt, AttemptFailed, Delivered
<1> HIDE DEF d
<1>4. LogHeld'
  BY <1>0, <1>a DEF LogHeld, Seqs
<1>5. \A h \in HookIds : recv[h] \in Seq(Nat)
  BY <1>a DEF DispatchTypes
<1>6. ASSUME NEW h \in HookIds
      PROVE  recv'[h] = recv[h] \/ (h = d[1] /\ recv'[h] = Append(recv[h], cursor))
  BY <1>a, <1>1, <1>2 DEF DispatchTypes
<1>7. DispatchTypes'
  <2>1. recv' \in [HookIds -> Seq(Nat)]
    <3>1. Append(recv[d[1]], d[2]) \in Seq(Nat)
      BY <1>0, <1>1, <1>5
    <3> QED BY <1>a, <1>1, <1>2, <3>1 DEF DispatchTypes
  <2>2. queue' \subseteq HookIds \X Nat /\ tries' \in Nat
    BY <1>0, <1>3, <1>a DEF DispatchTypes
  <2> QED BY <1>0, <1>a, <2>1, <2>2 DEF DispatchTypes
<1>8. PlaceHeld'
  <2>1. tries' < MaxAttempts /\ (queue' = {} => tries' = 0)
    BY <1>0, <1>3, Bounds_
  <2> QED BY <1>0, <1>a, <2>1 DEF PlaceHeld
<1>9. PageHeld'
  <2>1. queue' \subseteq queue
    BY <1>3
  <2> QED BY <1>0, <1>a, <2>1 DEF PageHeld
<1>10. ASSUME NEW h \in HookIds, ReceiverHeld(h) PROVE ReceiverHeld(h)'
  <2> DEFINE r == recv[h]
  <2>0. r \in Seq(Nat) /\ Len(r) \in Nat /\ DOMAIN r = 1..Len(r) /\ \A m \in DOMAIN r : r[m] \in Nat
    BY <1>5
  <2>1. /\ \A m \in DOMAIN r : r[m] <= lastSeq /\ r[m] <= cursor
        /\ \A m, n \in DOMAIN r : m < n => r[m] <= r[n]
        /\ \A n \in Nat : Count(r, n) <= MaxAttempts
        /\ \A x \in queue : x[1] = h => Count(r, cursor) <= IF x = d THEN tries ELSE 0
    BY <1>0, <1>10 DEF ReceiverHeld, d
  <2>2. \A n \in Nat : Count(r, n) \in Nat
    BY <2>0, CountType
  <2>3. ASSUME NEW x \in queue, x # d PROVE x[1] # d[1]
    <3>1. x[2] = cursor /\ x = <<x[1], x[2]>>
      BY <1>a DEF PageHeld, DispatchTypes
    <3> QED BY <1>1, <2>3, <3>1
  <2>4. CASE recv'[h] = r
    <3>1. ASSUME NEW x \in queue', x[1] = h PROVE Count(r, cursor) <= IF x = UnderWay' THEN tries' ELSE 0
      <4>1. CASE queue' = queue /\ tries' = tries + 1
        <5>1. UnderWay' = d
          BY <4>1 DEF UnderWay, d
        <5>2. Count(r, cursor) <= IF x = d THEN tries ELSE 0
          BY <2>1, <3>1, <4>1
        <5> QED BY <1>0, <2>2, <4>1, <5>1, <5>2
      <4>2. CASE queue' = queue \ {d} /\ tries' = 0
        <5>1. Count(r, cursor) <= 0
          BY <2>1, <3>1, <4>2
        <5> QED BY <4>2, <5>1
      <4> QED BY <1>3, <4>1, <4>2
    <3> HIDE DEF r
    <3>2. /\ \A m \in DOMAIN recv'[h] : recv'[h][m] <= lastSeq' /\ recv'[h][m] <= cursor'
          /\ \A m, n \in DOMAIN recv'[h] : m < n => recv'[h][m] <= recv'[h][n]
          /\ \A n \in Nat : Count(recv'[h], n) <= MaxAttempts
      BY <1>0, <2>1, <2>4
    <3>3. \A x \in queue' : x[1] = h => Count(recv'[h], cursor') <= IF x = UnderWay' THEN tries' ELSE 0
      BY <1>0, <2>4, <3>1
    <3> QED BY <3>2, <3>3, Zenon DEF ReceiverHeld, Count
  <2>5. CASE h = d[1] /\ recv'[h] = Append(r, cursor)
    <3> DEFINE a == Append(r, cursor)
    <3>0. /\ DOMAIN a = DOMAIN r \cup {Len(r) + 1} /\ a[Len(r) + 1] = cursor
          /\ \A m \in DOMAIN r : a[m] = r[m] /\ m < Len(r) + 1
      BY <1>0, <2>0
    <3>1. Count(r, cursor) <= tries
      BY <1>1, <2>1, <2>5
    <3>2. /\ Count(a, cursor) = Count(r, cursor) + 1
          /\ \A n \in Nat : n # cursor => Count(a, n) = Count(r, n)
      BY <1>0, <2>0, CountAppend
    <3> HIDE DEF a, r
    <3>3. Count(a, cursor) <= tries + 1 /\ tries + 1 <= MaxAttempts /\ Count(a, cursor) \in Nat
      BY <1>0, <2>2, <3>1, <3>2, Bounds_
    <3>4. \A n \in Nat : Count(a, n) <= MaxAttempts
      BY <1>0, <2>1, <3>2, <3>3, Bounds_
    <3>5. ASSUME NEW x \in queue', x[1] = h PROVE Count(a, cursor) <= IF x = UnderWay' THEN tries' ELSE 0
      <4>0. x = d
        BY <1>3, <2>3, <2>5, <3>5
      <4>1. queue' = queue /\ tries' = tries + 1
        BY <1>3, <4>0
      <4>2. UnderWay' = d
        BY <4>1 DEF UnderWay, d
      <4> QED BY <3>3, <4>0, <4>1, <4>2
    <3>6. /\ \A m \in DOMAIN a : a[m] <= lastSeq /\ a[m] <= cursor
          /\ \A m, n \in DOMAIN a : m < n => a[m] <= a[n]
      <4>1. \A m \in DOMAIN a : a[m] <= lastSeq /\ a[m] <= cursor
        BY <1>0, <2>1, <3>0
      <4>2. ASSUME NEW m \in DOMAIN a, NEW n \in DOMAIN a, m < n PROVE a[m] <= a[n]
        <5>1. CASE n = Len(r) + 1
          BY <3>0, <4>1, <5>1
        <5>2. CASE n \in DOMAIN r
          <6>1. m \in DOMAIN r
            BY <2>0, <3>0, <4>2, <5>2
          <6> QED BY <2>1, <3>0, <4>2, <5>2, <6>1
        <5> QED BY <3>0, <5>1, <5>2
      <4> QED BY <4>1, <4>2
    <3>7. recv'[h] = a
      BY <2>5 DEF a
    <3> QED BY <1>0, <3>4, <3>5, <3>6, <3>7, Zenon DEF ReceiverHeld, Count
  <2> QED BY <1>6, <2>4, <2>5
<1>11. NoEventSkipped'
  <2>1. ASSUME NEW h \in DOMAIN snap, NEW e \in rows, since[h] # -1, since[h] < e.seq,
               e.seq <= cursor, Matches(snap[h], e.type)
        PROVE  e.seq \in ToSet(recv'[h]) \/ <<h, e.seq>> \in given' \cup queue'
    <3>0. h \in HookIds /\ recv[h] \in Seq(Nat)
      BY <1>5, <1>a DEF DispatchTypes
    <3>1. ToSet(recv[h]) \subseteq ToSet(recv'[h])
      <4>1. CASE recv'[h] = recv[h]
        BY <4>1
      <4>2. CASE recv'[h] = Append(recv[h], cursor)
        BY <3>0, <4>2 DEF ToSet
      <4> QED BY <1>6, <3>0, <4>1, <4>2
    <3>2. e.seq \in ToSet(recv[h]) \/ <<h, e.seq>> \in given \cup queue
      BY <1>a, <2>1 DEF NoEventSkipped
    <3>3. CASE <<h, e.seq>> = d /\ got
      <4>1. d[1] = h /\ d[2] = e.seq
        BY <3>3
      <4>2. recv'[h] = Append(recv[h], e.seq)
        BY <1>a, <3>0, <3>3, <4>1 DEF DispatchTypes
      <4>3. e.seq \in ToSet(recv'[h])
        <5>1. recv'[h][Len(recv[h]) + 1] = e.seq /\ Len(recv[h]) + 1 \in DOMAIN recv'[h]
          BY <3>0, <4>2
        <5> QED BY <5>1 DEF ToSet
      <4> QED BY <4>3
    <3> QED BY <1>3, <3>1, <3>2, <3>3
  <2> QED BY <1>0, <2>1 DEF NoEventSkipped
<1>12. ReceiversHeld'
  BY <1>0, <1>a, <1>10 DEF ReceiversHeld
<1> QED
  BY <1>4, <1>7, <1>8, <1>9, <1>11, <1>12 DEF DispatchInv

LEMMA DispatchStep == DispatchInv /\ [DispatchNext]_<<logVars, regVars, dispVars>> => DispatchInv'
<1> SUFFICES ASSUME DispatchInv, [DispatchNext]_<<logVars, regVars, dispVars>> PROVE DispatchInv'
  OBVIOUS
<1>1. ASSUME NEW t \in Types, NEW p \in Procs, AppendEvent(t, p), UNCHANGED <<regVars, dispVars>>
      PROVE  DispatchInv'
  BY <1>1, AppendStep
<1>2. CASE Seed
  BY <1>2, ReseedStep DEF Seed
<1>3. CASE SkipBacklog
  BY <1>3, ReseedStep DEF SkipBacklog
<1>4. CASE UNCHANGED <<logVars, regVars, dispVars>>
  BY <1>4, RegistryStep DEF regVars, DispatchInv, DispatchTypes
<1> QED
  BY <1>1, <1>2, <1>3, <1>4, TickStep, QueryStep, NextRowStep, AttemptStep, RestartStep, RegistrySteps
  DEF DispatchNext, Dispatcher

\* For any hooks, filters, page, retention and number of attempts, while hooks come and
\* go, queries fail and the daemon restarts: a receiver gets events in log order, none
\* more often than there are attempts, unless a seed query failed.
THEOREM ReceiversInOrder == DispatchSpec => []HookOrder
<1>1. DispatchInv => HookOrder
  <2> SUFFICES ASSUME DispatchInv, ~blind, NEW h \in HookIds
               PROVE  /\ \A m, n \in DOMAIN recv[h] : m < n => recv[h][m] <= recv[h][n]
                      /\ \A n \in 1..lastSeq :
                           Cardinality({m \in DOMAIN recv[h] : recv[h][m] = n}) <= MaxAttempts
    BY DEF HookOrder
  <2>1. ReceiverHeld(h) /\ 1..lastSeq \subseteq Nat
    BY DEF DispatchInv, ReceiversHeld, LogHeld
  <2> QED BY <2>1 DEF ReceiverHeld, Count
<1> QED
  BY <1>1, DispatchStart, DispatchStep, PTL DEF DispatchSpec

\* Under the same conditions, a retained event that is behind the cursor and newer than
\* a hook's present filter was received, given up after the last attempt, or is queued.
THEOREM EventsAreSettled == DispatchSpec => []NoEventSkipped
<1>1. DispatchInv => NoEventSkipped
  BY DEF DispatchInv
<1> QED
  BY <1>1, DispatchStart, DispatchStep, PTL DEF DispatchSpec

-----------------------------------------------------------------------------
(* Event streams: a poll asks for the newest page again and again, and what is *)
(* in it and was not sent is new.                                             *)

StreamTypes ==
  /\ sent \in [Streams -> Seq(Nat)] /\ outbox \in [Streams -> SUBSET Nat]
  /\ polls \in [Streams -> {-1, 0, 1, 2}] /\ DOMAIN filt = Streams

\* What a stream sent or is about to send is in the log's past, and not both.  From the
\* first poll on a row of the newest page that is neither is newer than all of it: rows
\* leave the table oldest first, so no older row comes into the page again.
Taken(s) == ToSet(sent[s]) \cup outbox[s]
StreamHeld(s) ==
  /\ \A n \in Taken(s) : n <= lastSeq
  /\ ToSet(sent[s]) \cap outbox[s] = {}
  /\ polls[s] = -1 => sent[s] = <<>> /\ outbox[s] = {}
  /\ polls[s] = 2 => \A m \in ToSet(sent[s]), n \in outbox[s] : m < n
  /\ polls[s] \in {1, 2} => \A e \in Newest(About(rows, filt[s]), TailPage) :
                              e.seq \in Taken(s) \/ \A m \in Taken(s) : m < e.seq
StreamsInv == LogHeld /\ StreamTypes /\ \A s \in Streams : StreamHeld(s)

\* A row that outlives an append has all newer rows with it.
LEMMA NewerStay ==
  ASSUME LogHeld, NEW t \in Types, NEW p \in Procs, AppendEvent(t, p), NEW e \in rows, e \in rows',
         NEW f \in rows, f.seq > e.seq
  PROVE  f \in rows'
<1> DEFINE with == rows \cup {[seq |-> lastSeq', type |-> t, proc |-> p]}
<1>1. PICK floor \in 1..lastSeq' : LET young == {g \in with : g.seq >= floor}
                                  IN rows' = SweepCount(young) \/ rows' = young
  BY DEF AppendEvent
<1> DEFINE W == {g \in with : g.seq >= floor}
           Newer(x) == {g \in W : g.seq > x.seq}
<1>2. /\ lastSeq' \in Nat /\ floor \in Nat /\ \A g \in with : g.seq \in Nat
      /\ IsFiniteSet(W)
  <2>1. lastSeq' \in Nat /\ floor \in Nat /\ \A g \in rows : g.seq \in Nat
    BY DEF LogHeld, AppendEvent, EventRows
  <2>2. IsFiniteSet(with)
    BY FS_AddElement DEF LogHeld
  <2> QED BY <2>1, <2>2, FS_Subset
<1>3. e \in W
  BY <1>1 DEF SweepCount, Newest
<1>4. f \in W /\ Newer(f) \subseteq Newer(e)
  <2>1. e.seq >= floor /\ e.seq \in Nat /\ f.seq \in Nat
    BY <1>2, <1>3
  <2> QED BY <1>2, <2>1
<1>5. CASE rows' = W
  BY <1>4, <1>5
<1>6. CASE rows' = SweepCount(W)
  <2>1. rows' = {x \in W : Cardinality(Newer(x)) < MaxKeep}
    BY <1>6 DEF SweepCount, Newest
  <2>2. IsFiniteSet(Newer(e)) /\ IsFiniteSet(Newer(f))
    BY <1>2, FS_Subset
  <2>3. /\ Cardinality(Newer(f)) <= Cardinality(Newer(e))
        /\ Cardinality(Newer(f)) \in Nat /\ Cardinality(Newer(e)) \in Nat
    <3> HIDE DEF Newer
    <3> QED BY <1>4, <2>2, FS_Subset, FS_CardinalityType
  <2>4. Cardinality(Newer(e)) < MaxKeep
    BY <2>1
  <2>5. Cardinality(Newer(f)) < MaxKeep
    <3> HIDE DEF Newer
    <3> QED BY <2>3, <2>4, Bounds_
  <2> QED BY <1>4, <2>1, <2>5
<1> QED
  BY <1>1, <1>5, <1>6

\* So the newest page takes in the new row and no other.
LEMMA PageOnlyGains ==
  ASSUME LogHeld, NEW t \in Types, NEW p \in Procs, AppendEvent(t, p), NEW q,
         NEW e \in Newest(About(rows', q), TailPage)
  PROVE  e \in Newest(About(rows, q), TailPage) \/ e.seq = lastSeq'
<1> SUFFICES ASSUME e.seq # lastSeq'
             PROVE  e \in Newest(About(rows, q), TailPage)
  OBVIOUS
<1> DEFINE Old == {f \in About(rows, q) : f.seq > e.seq}
           New == {f \in About(rows', q) : f.seq > e.seq}
<1>1. e \in About(rows', q) /\ Cardinality(New) < TailPage
  BY DEF Newest
<1>2. e \in rows' /\ e \in rows
  BY <1>1, Appended_ DEF About
<1>3. Old \subseteq New
  BY <1>2, NewerStay DEF About
<1>4. IsFiniteSet(New)
  BY Appended_, FS_Subset DEF LogHeld, About
<1>5. IsFiniteSet(Old) /\ Cardinality(Old) <= Cardinality(New)
  <2> HIDE DEF Old, New
  <2> QED BY <1>3, <1>4, FS_Subset
<1>6. Cardinality(Old) \in Nat /\ Cardinality(New) \in Nat /\ TailPage \in Nat
  <2> HIDE DEF Old, New
  <2> QED BY <1>4, <1>5, FS_CardinalityType, StreamAssumption
<1>7. Cardinality(Old) < TailPage
  <2> HIDE DEF Old, New
  <2> QED BY <1>1, <1>5, <1>6
<1> QED
  BY <1>1, <1>2, <1>7 DEF Newest, About

LEMMA QueryRows ==
  ASSUME LogHeld, NEW q, NEW k
  PROVE  /\ Query(q, k) = Newest(About(rows, q), k) /\ Seqs(Query(q, k)) \subseteq Nat
         /\ \A n \in Seqs(Query(q, k)) : n <= lastSeq
         /\ \A e \in Query(q, k) : e.seq \in Seqs(Query(q, k))
<1>1. Query(q, k) \subseteq rows
  BY DEF Query, Newest, About
<1>2. \A e \in rows : e.seq \in Nat /\ e.seq <= lastSeq
  BY DEF LogHeld, EventRows
<1> QED
  BY <1>1, <1>2 DEF Query, Seqs

LEMMA ToSetAppend ==
  ASSUME NEW q \in Seq(Nat), NEW n \in Nat
  PROVE  ToSet(Append(q, n)) = ToSet(q) \cup {n} /\ Append(q, n) \in Seq(Nat)
<1>1. /\ DOMAIN Append(q, n) = DOMAIN q \cup {Len(q) + 1} /\ Append(q, n)[Len(q) + 1] = n
      /\ \A m \in DOMAIN q : Append(q, n)[m] = q[m]
  OBVIOUS
<1> QED
  BY <1>1 DEF ToSet

\* A step of stream s leaves the others as they are.
LEMMA OneStreamStep ==
  ASSUME StreamsInv, StreamTypes', NEW s \in Streams, UNCHANGED <<rows, lastSeq>>, StreamHeld(s)',
         \A u \in Streams \ {s} : /\ sent'[u] = sent[u] /\ outbox'[u] = outbox[u]
                                  /\ polls'[u] = polls[u] /\ filt'[u] = filt[u]
  PROVE  StreamsInv'
<1>1. ASSUME NEW u \in Streams \ {s} PROVE StreamHeld(u)'
  <2>1. StreamHeld(u)
    BY DEF StreamsInv
  <2> QED BY <2>1 DEF StreamHeld, Taken
<1>2. LogHeld'
  BY DEF StreamsInv, LogHeld, Seqs
<1> QED
  BY <1>1, <1>2 DEF StreamsInv

LEMMA StreamSeedStep ==
  ASSUME StreamsInv, NEW s \in Streams, NEW p, StreamSeed(s, p)
  PROVE  StreamsInv'
<1> USE DEF StreamsInv
<1>1. LogHeld /\ StreamTypes /\ StreamHeld(s) /\ polls[s] = -1 /\ sent[s] = <<>> /\ outbox[s] = {}
  BY DEF StreamSeed, StreamHeld
<1>2. UNCHANGED <<rows, lastSeq, sent>> /\ polls' = [polls EXCEPT ![s] = 0] /\ filt' = [filt EXCEPT ![s] = p]
  BY DEF StreamSeed
<1>3. PICK o \in SUBSET Nat : outbox' = [outbox EXCEPT ![s] = o] /\ \A n \in o : n <= lastSeq
  <2> DEFINE q == Seqs(Query(p, SeedPage))
  <2>1. q \in SUBSET Nat /\ \A n \in q : n <= lastSeq
    BY <1>1, QueryRows
  <2>2. outbox' = [outbox EXCEPT ![s] = q] \/ outbox' = outbox
    BY DEF StreamSeed
  <2>3. outbox = [outbox EXCEPT ![s] = {}]
    BY <1>1 DEF StreamTypes
  <2> HIDE DEF q
  <2>4. \E o \in {q, {}} : outbox' = [outbox EXCEPT ![s] = o]
    BY <2>2, <2>3, Zenon
  <2> QED BY <2>1, <2>4
<1>4. /\ StreamTypes' /\ sent'[s] = <<>> /\ outbox'[s] = o /\ polls'[s] = 0
      /\ \A u \in Streams \ {s} : /\ sent'[u] = sent[u] /\ outbox'[u] = outbox[u]
                                  /\ polls'[u] = polls[u] /\ filt'[u] = filt[u]
  BY <1>1, <1>2, <1>3 DEF StreamTypes
<1>5. StreamHeld(s)'
  <2>1. ToSet(<<>>) = {}
    BY DEF ToSet
  <2>2. ToSet(sent'[s]) = {} /\ Taken(s)' = o
    BY <1>4, <2>1 DEF Taken
  <2>3. polls'[s] # -1 /\ polls'[s] # 2 /\ polls'[s] \notin {1, 2} /\ lastSeq' = lastSeq
    BY <1>2, <1>4
  <2> QED BY <1>3, <2>2, <2>3 DEF StreamHeld
<1> QED
  BY <1>2, <1>4, <1>5, OneStreamStep

LEMMA StreamPollStep ==
  ASSUME StreamsInv, NEW s \in Streams, StreamPoll(s)
  PROVE  StreamsInv'
<1>1. LogHeld /\ StreamTypes /\ StreamHeld(s) /\ outbox[s] = {}
  BY DEF StreamPoll, StreamsInv
<1> DEFINE q == Seqs(Query(filt[s], TailPage))
           o == q \ ToSet(sent[s])
<1>2. q \subseteq Nat /\ \A n \in q : n <= lastSeq
  BY <1>1, QueryRows
<1>3. /\ UNCHANGED <<rows, lastSeq, sent, filt>> /\ outbox' = [outbox EXCEPT ![s] = o]
      /\ polls[s] \in {0, 1, 2} /\ polls' = [polls EXCEPT ![s] = IF polls[s] < 2 THEN polls[s] + 1 ELSE 2]
  BY <1>1 DEF StreamPoll, Unsent, StreamTypes, logVars
<1>4. o \in SUBSET Nat /\ \A n \in o : n <= lastSeq
  BY <1>2
<1>5. \A e \in Newest(About(rows, filt[s]), TailPage) : e.seq \in q
  BY <1>1, QueryRows
<1>6. ASSUME polls[s] \in {1, 2}, NEW m \in ToSet(sent[s]), NEW n \in o PROVE m < n
  <2>1. PICK e \in Query(filt[s], TailPage) : e.seq = n
    BY DEF Seqs
  <2>2. e \in Newest(About(rows, filt[s]), TailPage)
    BY <2>1 DEF Query
  <2>3. e.seq \notin Taken(s) /\ m \in Taken(s)
    BY <1>1, <1>6, <2>1 DEF Taken
  <2> QED BY <1>1, <1>6, <2>1, <2>2, <2>3 DEF StreamHeld
<1> HIDE DEF o, q
<1>7. /\ StreamTypes' /\ sent'[s] = sent[s] /\ outbox'[s] = o /\ filt'[s] = filt[s]
      /\ polls'[s] \in {1, 2} /\ (polls'[s] = 2 => polls[s] \in {1, 2})
      /\ \A u \in Streams \ {s} : /\ sent'[u] = sent[u] /\ outbox'[u] = outbox[u]
                                  /\ polls'[u] = polls[u] /\ filt'[u] = filt[u]
  BY <1>1, <1>3, <1>4 DEF StreamTypes
<1>8. StreamHeld(s)'
  <2>1. Taken(s)' = ToSet(sent[s]) \cup o /\ q \subseteq Taken(s)'
    BY <1>7 DEF Taken, o
  <2>2. \A n \in Taken(s)' : n <= lastSeq'
    BY <1>1, <1>3, <1>4, <2>1 DEF StreamHeld, Taken
  <2>3. ToSet(sent'[s]) \cap outbox'[s] = {}
    BY <1>7 DEF o
  <2>4. polls'[s] = 2 => \A m \in ToSet(sent'[s]), n \in outbox'[s] : m < n
    BY <1>6, <1>7
  <2>5. \A e \in Newest(About(rows', filt'[s]), TailPage) : e.seq \in Taken(s)'
    BY <1>3, <1>5, <1>7, <2>1
  <2> QED BY <1>7, <2>2, <2>3, <2>4, <2>5 DEF StreamHeld
<1> QED
  BY <1>3, <1>7, <1>8, OneStreamStep DEF StreamsInv

\* The row that is sent next, and what it does to what was sent.
LEMMA SendFacts ==
  ASSUME StreamTypes, NEW s \in Streams, StreamSend(s)
  PROVE  \E n \in outbox[s] :
           /\ n \in Nat /\ \A m \in outbox[s] : n <= m
           /\ sent'[s] = Append(sent[s], n) /\ outbox'[s] = outbox[s] \ {n}
           /\ ToSet(sent'[s]) = ToSet(sent[s]) \cup {n} /\ StreamTypes'
           /\ UNCHANGED <<rows, lastSeq, polls, filt>>
           /\ \A u \in Streams \ {s} : sent'[u] = sent[u] /\ outbox'[u] = outbox[u]
<1>1. PICK n \in outbox[s] : /\ \A m \in outbox[s] : n <= m
                             /\ outbox' = [outbox EXCEPT ![s] = outbox[s] \ {n}]
                             /\ sent' = [sent EXCEPT ![s] = Append(sent[s], n)]
  BY DEF StreamSend
<1>2. n \in Nat /\ sent[s] \in Seq(Nat)
  BY DEF StreamTypes
<1>3. ToSet(Append(sent[s], n)) = ToSet(sent[s]) \cup {n} /\ Append(sent[s], n) \in Seq(Nat)
  BY <1>2, ToSetAppend
<1>4. UNCHANGED <<rows, lastSeq, polls, filt>>
  BY DEF StreamSend, logVars
<1>5. sent'[s] = Append(sent[s], n) /\ outbox'[s] = outbox[s] \ {n}
  BY <1>1 DEF StreamTypes
<1>6. \A u \in Streams \ {s} : sent'[u] = sent[u] /\ outbox'[u] = outbox[u]
  BY <1>1 DEF StreamTypes
<1>7. StreamTypes'
  BY <1>1, <1>3, <1>4 DEF StreamTypes
<1> QED
  BY <1>1, <1>2, <1>3, <1>4, <1>5, <1>6, <1>7

LEMMA StreamSendStep ==
  ASSUME StreamsInv, NEW s \in Streams, StreamSend(s)
  PROVE  StreamsInv'
<1>1. StreamTypes /\ StreamHeld(s)
  BY DEF StreamsInv
<1>2. PICK n \in outbox[s] :
           /\ n \in Nat /\ \A m \in outbox[s] : n <= m
           /\ sent'[s] = Append(sent[s], n) /\ outbox'[s] = outbox[s] \ {n}
           /\ ToSet(sent'[s]) = ToSet(sent[s]) \cup {n} /\ StreamTypes'
           /\ UNCHANGED <<rows, lastSeq, polls, filt>>
           /\ \A u \in Streams \ {s} : sent'[u] = sent[u] /\ outbox'[u] = outbox[u]
  BY <1>1, SendFacts
<1>3. Taken(s)' = Taken(s)
  BY <1>2 DEF Taken
<1>4. polls[s] # -1
  BY <1>1 DEF StreamHeld
<1>5. polls[s] = 2 => \A m \in ToSet(sent'[s]), k \in outbox'[s] : m < k
  <2> SUFFICES ASSUME polls[s] = 2, NEW m \in ToSet(sent[s]) \cup {n}, NEW k \in outbox[s] \ {n}
               PROVE  m < k
    BY <1>2
  <2>1. k \in Nat /\ n <= k /\ n # k
    BY <1>1, <1>2 DEF StreamTypes
  <2> QED BY <1>1, <1>2, <2>1 DEF StreamHeld
<1>6. ToSet(sent'[s]) \cap outbox'[s] = {}
  BY <1>1, <1>2 DEF StreamHeld
<1>7. \A k \in Taken(s)' : k <= lastSeq'
  BY <1>1, <1>2, <1>3 DEF StreamHeld
<1>8. polls[s] \in {1, 2} => \A e \in Newest(About(rows', filt'[s]), TailPage) :
                               e.seq \in Taken(s)' \/ \A m \in Taken(s)' : m < e.seq
  BY <1>1, <1>2, <1>3 DEF StreamHeld
<1>9. StreamHeld(s)'
  BY <1>2, <1>4, <1>5, <1>6, <1>7, <1>8 DEF StreamHeld
<1> QED
  BY <1>2, <1>9, OneStreamStep

LEMMA StreamEndStep ==
  ASSUME StreamsInv, NEW s \in Streams, StreamEnd(s)
  PROVE  StreamsInv'
<1>1. /\ StreamTypes' /\ UNCHANGED <<rows, lastSeq>>
      /\ sent'[s] = <<>> /\ outbox'[s] = {} /\ polls'[s] = -1
      /\ \A u \in Streams \ {s} : /\ sent'[u] = sent[u] /\ outbox'[u] = outbox[u]
                                  /\ polls'[u] = polls[u] /\ filt'[u] = filt[u]
  BY DEF StreamEnd, StreamsInv, StreamTypes, logVars
<1>2. ToSet(<<>>) = {}
  BY DEF ToSet
<1>3. StreamHeld(s)'
  BY <1>1, <1>2 DEF StreamHeld, Taken
<1> QED
  BY <1>1, <1>3, OneStreamStep

LEMMA StreamAppendStep ==
  ASSUME StreamsInv, NEW t \in Types, NEW p \in Procs, AppendEvent(t, p), UNCHANGED strVars
  PROVE  StreamsInv'
<1>1. LogHeld /\ LogHeld' /\ lastSeq' = lastSeq + 1 /\ lastSeq \in Nat
  BY Appended_ DEF StreamsInv, LogHeld
<1>2. StreamTypes /\ StreamTypes' /\ UNCHANGED <<sent, outbox, polls, filt>>
  BY DEF StreamsInv, strVars, StreamTypes
<1>3. ASSUME NEW s \in Streams PROVE StreamHeld(s)'
  <2>1. StreamHeld(s) /\ Taken(s)' = Taken(s) /\ Taken(s) \subseteq Nat
    BY <1>2 DEF StreamsInv, Taken, StreamTypes, ToSet
  <2>2. \A n \in Taken(s) : n <= lastSeq /\ n < lastSeq'
    BY <1>1, <2>1 DEF StreamHeld
  <2>3. ASSUME polls[s] \in {1, 2}, NEW e \in Newest(About(rows', filt[s]), TailPage)
        PROVE  e.seq \in Taken(s) \/ \A m \in Taken(s) : m < e.seq
    <3>1. e \in Newest(About(rows, filt[s]), TailPage) \/ e.seq = lastSeq'
      BY <1>1, <2>3, PageOnlyGains
    <3> QED BY <2>1, <2>2, <2>3, <3>1 DEF StreamHeld
  <2>4. \A n \in Taken(s)' : n <= lastSeq'
    BY <1>1, <2>1, <2>2
  <2> QED BY <1>2, <2>1, <2>3, <2>4 DEF StreamHeld
<1> QED
  BY <1>1, <1>2, <1>3 DEF StreamsInv

\* The steps of the log with its streams.
StreamsStep_ ==
  \/ StreamsNext
  \/ \E t \in Types, p \in Procs : AppendEvent(t, p) /\ UNCHANGED strVars

LEMMA StreamsStep == StreamsInv /\ [StreamsStep_]_<<logVars, strVars>> => StreamsInv'
<1> SUFFICES ASSUME StreamsInv, [StreamsStep_]_<<logVars, strVars>> PROVE StreamsInv'
  OBVIOUS
<1>1. CASE UNCHANGED <<logVars, strVars>>
  BY <1>1 DEF logVars, strVars, StreamsInv, LogHeld, StreamTypes, StreamHeld, Taken
<1> QED
  BY <1>1, StreamSeedStep, StreamPollStep, StreamSendStep, StreamEndStep, StreamAppendStep
  DEF StreamsStep_, StreamsNext

\* What a step sends is new, and newer than all before once the first poll is through.
LEMMA SendsNew ==
  ASSUME StreamsInv, [StreamsStep_]_<<logVars, strVars>>, NEW s \in Streams, polls'[s] >= 0,
         NEW n \in Len(sent[s]) + 1 .. Len(sent'[s]), NEW m \in 1..n - 1
  PROVE  /\ sent'[s][m] # sent'[s][n]
         /\ polls[s] = 2 => sent'[s][m] < sent'[s][n]
<1>1. StreamTypes /\ StreamHeld(s) /\ sent[s] \in Seq(Nat) /\ Len(sent[s]) \in Nat
  BY DEF StreamsInv, StreamTypes
<1>2. CASE StreamSend(s)
  <2>1. PICK k \in outbox[s] : k \in Nat /\ sent'[s] = Append(sent[s], k)
    BY <1>1, <1>2, SendFacts
  <2>2. n = Len(sent[s]) + 1 /\ m \in DOMAIN sent[s] /\ sent'[s][n] = k /\ sent'[s][m] = sent[s][m]
    BY <1>1, <2>1
  <2>3. sent[s][m] \in ToSet(sent[s])
    BY <2>2 DEF ToSet
  <2>4. sent[s][m] # k /\ (polls[s] = 2 => sent[s][m] < k)
    BY <1>1, <2>3 DEF StreamHeld
  <2> QED BY <2>2, <2>4
<1>3. CASE sent'[s] = sent[s]
  BY <1>1, <1>3
<1>4. ASSUME ~StreamSend(s) PROVE sent'[s] = sent[s]
  <2>1. ASSUME NEW u \in Streams, StreamSend(u) PROVE sent'[s] = sent[s]
    <3>1. u # s
      BY <1>4, <2>1
    <3> QED BY <1>1, <2>1, <3>1, SendFacts
  <2>2. ASSUME NEW u \in Streams, StreamEnd(u) PROVE sent'[s] = sent[s]
    BY <1>1, <2>2 DEF StreamEnd, StreamTypes
  <2> QED BY <2>1, <2>2 DEF StreamsStep_, StreamsNext, StreamSeed, StreamPoll, strVars
<1> QED
  BY <1>2, <1>3, <1>4

\* For any pages, filters and retention, while rows are appended and swept and queries
\* fail: no stream sends an event twice, and past its first poll it sends in log order.
THEOREM StreamsSendOnce == StreamsSpec => StreamNeverRepeats
<1> DEFINE Sends(s) == polls'[s] >= 0 =>
             \A n \in Len(sent[s]) + 1 .. Len(sent'[s]) : \A m \in 1..n - 1 :
               /\ sent'[s][m] # sent'[s][n]
               /\ polls[s] = 2 => sent'[s][m] < sent'[s][n]
<1>1. LogInit /\ StreamsInit => StreamsInv
  <2> SUFFICES ASSUME LogInit, StreamsInit PROVE StreamsInv
    OBVIOUS
  <2>1. LogHeld
    BY FS_EmptySet DEF LogInit, LogHeld, EventRows
  <2>2. StreamTypes
    BY DEF StreamsInit, StreamTypes
  <2>3. ToSet(<<>>) = {}
    BY DEF ToSet
  <2>4. ASSUME NEW s \in Streams PROVE StreamHeld(s)
    BY <2>3 DEF StreamsInit, StreamHeld, Taken
  <2> QED BY <2>1, <2>2, <2>4 DEF StreamsInv
<1>2. StreamsInv /\ [StreamsStep_]_<<logVars, strVars>> => \A s \in Streams : Sends(s)
  BY SendsNew
<1> QED
  BY <1>1, <1>2, StreamsStep, PTL DEF StreamsSpec, StreamNeverRepeats, StreamsStep_
=============================================================================
