-------------------------- MODULE WebhookDispatch --------------------------
(* Outgoing webhooks: the in-memory registry (internal/webhook), the webhook.* *)
(* handlers that change it, and the dispatcher goroutine                       *)
(* (internal/daemon/webhook_dispatch.go) that pages through the event log      *)
(* behind a cursor and posts every event to the matching hooks.                *)
EXTENDS EventLog

CONSTANTS HookIds,      \* webhook IDs
          Filters,      \* event filters of hooks; the empty one takes all types
          Reqs,         \* requests that may be inside webhook.update
          SincePage,    \* rows of a dispatcher page (100 in the code)
          MaxAttempts,  \* attempts per delivery (3)
          MaxOps,       \* bound: registry changes
          MaxDown       \* bound: daemon restarts

ASSUME DispatchAssumption ==
  /\ Filters \subseteq SUBSET Types
  /\ {SincePage, MaxAttempts} \subseteq Nat \ {0} /\ {MaxOps, MaxDown} \subseteq Nat

VARIABLES hooks,     \* Registry.hooks: the event filter of every registered hook
          upd,       \* webhook.update between its Get and its Create, per request
          pc,        \* where the dispatcher goroutine is
          cursor,    \* its cursor
          snap,      \* the hooks it listed for this tick
          page,      \* rows of this tick still to dispatch
          queue,     \* deliveries of the current row still to make, <<hook, seq>>
          tries,     \* attempts made for the delivery that is under way
          recv,      \* what every receiver got, in order
          since,     \* history: lastSeq when the dispatcher first listed the hook as it is
          given,     \* history: deliveries given up
          blind,     \* history: a seed query failed, the cursor fell back to 0
          nops, downs

regVars  == <<hooks, upd, nops>>
dispVars == <<pc, cursor, snap, page, queue, tries, recv, since, given, blind, downs>>

NoHook == [h \in {} |-> {}]

\* Hook.Matches: the empty filter takes every type.
Matches(filter, t) == filter = {} \/ t \in filter

PutHook(h, f) == hooks' = [k \in DOMAIN hooks \cup {h} |-> IF k = h THEN f ELSE hooks[k]]

\* webhook.create, also over an existing ID.
CreateHook(h, f) ==
  /\ nops < MaxOps /\ nops' = nops + 1
  /\ PutHook(h, f)
  /\ UNCHANGED <<logVars, upd, dispVars>>

DeleteHook(h) ==
  /\ nops < MaxOps /\ nops' = nops + 1
  /\ h \in DOMAIN hooks
  /\ hooks' = [k \in DOMAIN hooks \ {h} |-> hooks[k]]
  /\ UNCHANGED <<logVars, upd, dispVars>>

\* webhook.update reads the hook, then writes it back with Create.
UpdateGet(r, h, f) ==
  /\ nops < MaxOps /\ nops' = nops + 1
  /\ upd[r] = <<>> /\ h \in DOMAIN hooks
  /\ upd' = [upd EXCEPT ![r] = <<h, f>>]
  /\ UNCHANGED <<logVars, hooks, dispVars>>

UpdatePut(r) ==
  /\ upd[r] # <<>>
  /\ PutHook(upd[r][1], upd[r][2])
  /\ upd' = [upd EXCEPT ![r] = <<>>]
  /\ UNCHANGED <<logVars, nops, dispVars>>

-----------------------------------------------------------------------------
(* runWebhookDispatch                                                         *)

\* latestEventSeq; without rows, and when its query fails, it is 0.
Latest_Oldest == IF rows = {} THEN 0 ELSE CHOOSE n \in Seqs(rows) : \A m \in Seqs(rows) : n <= m
Latest == IF rows = {} THEN 0 ELSE CHOOSE n \in Seqs(rows) : \A m \in Seqs(rows) : m <= n

Reseed ==
  \/ cursor' = Latest /\ UNCHANGED <<faults, blind>>
  \/ DbFails /\ cursor' = 0 /\ blind' = TRUE

\* The goroutine starts: the cursor is seeded, history is not replayed.
Seed ==
  /\ pc = "start" /\ Reseed /\ pc' = "idle"
  /\ UNCHANGED <<rows, lastSeq, regVars, snap, page, queue, tries, recv, since, given, downs>>

\* A tick lists the hooks; what it does next uses this copy.
Tick ==
  /\ pc = "idle"
  /\ snap' = hooks
  /\ pc' = IF hooks = NoHook THEN "skip" ELSE "query"
  /\ since' = [h \in HookIds |->
                 IF h \notin DOMAIN hooks THEN -1
                 ELSE IF since[h] = -1 \/ snap[h] # hooks[h] THEN lastSeq ELSE since[h]]
  /\ UNCHANGED <<logVars, regVars, cursor, page, queue, tries, recv, given, blind, downs>>

\* Without hooks the cursor follows the log, so no backlog builds up.
SkipBacklog ==
  /\ pc = "skip" /\ Reseed /\ pc' = "idle"
  /\ UNCHANGED <<rows, lastSeq, regVars, snap, page, queue, tries, recv, since, given, downs>>

QueryPage ==
  /\ pc = "query"
  /\ \/ page' = QuerySince(cursor, SincePage) /\ UNCHANGED faults
     \/ page' = {} /\ DbFails
  /\ pc' = "page"
  /\ UNCHANGED <<rows, lastSeq, regVars, cursor, snap, queue, tries, recv, since, given, blind, downs>>

\* The hooks a row goes to.
Recipients(e) == {h \in DOMAIN snap : Matches(snap[h], e.type)}

\* The oldest row is next; the cursor passes it before it is delivered.
NextRow ==
  /\ pc = "page" /\ queue = {}
  /\ \/ page = {} /\ pc' = "idle" /\ UNCHANGED <<cursor, page, queue>>
     \/ \E e \in page :
          /\ \A f \in page : e.seq <= f.seq
          /\ cursor' = IF e.seq > cursor THEN e.seq ELSE cursor
          /\ queue' = Recipients(e) \X {e.seq}
          /\ page' = page \ {e} /\ UNCHANGED pc
  /\ UNCHANGED <<logVars, regVars, snap, tries, recv, since, given, blind, downs>>

\* One delivery after the other, in the order of List, which is a fixed one.
UnderWay == CHOOSE d \in queue : TRUE

\* deliverWithRetry: an answer ends it, and so does the last attempt.
Delivered == queue' = queue \ {UnderWay} /\ tries' = 0
AttemptFailed_Forever ==
  tries' = (tries + 1) % MaxAttempts /\ UNCHANGED <<queue, given>>
AttemptFailed ==
  IF tries + 1 < MaxAttempts
  THEN tries' = tries + 1 /\ UNCHANGED <<queue, given>>
  ELSE Delivered /\ given' = given \cup {UnderWay}

\* The receiver answers, does not get the event, or gets it and the answer is
\* lost.
Attempt ==
  /\ pc = "page" /\ queue # {}
  /\ LET got == recv' = [recv EXCEPT ![UnderWay[1]] = Append(@, UnderWay[2])]
     IN \/ got /\ Delivered /\ UNCHANGED given
        \/ (UNCHANGED recv \/ got) /\ AttemptFailed
  /\ UNCHANGED <<logVars, regVars, pc, cursor, snap, page, since, blind, downs>>

\* The daemon stops, gracefully or not, and comes back.  A cancelled context
\* fails every further attempt at once, so what was left of the page is dropped
\* either way.  The table survives, the registry does not.
Restart ==
  /\ downs < MaxDown /\ downs' = downs + 1
  /\ hooks' = NoHook /\ upd' = [r \in Reqs |-> <<>>]
  /\ pc' = "start" /\ cursor' = 0
  /\ snap' = NoHook /\ page' = {} /\ queue' = {} /\ tries' = 0
  /\ since' = [h \in HookIds |-> -1] /\ given' = {}
  /\ UNCHANGED <<logVars, blind, recv, nops>>

DispatchInit ==
  /\ hooks = NoHook /\ upd = [r \in Reqs |-> <<>>]
  /\ pc = "start" /\ cursor = 0
  /\ snap = NoHook /\ page = {} /\ queue = {} /\ tries = 0
  /\ since = [h \in HookIds |-> -1] /\ given = {} /\ blind = FALSE
  /\ recv = [h \in HookIds |-> <<>>]
  /\ nops = 0 /\ downs = 0

Dispatcher == Seed \/ Tick \/ SkipBacklog \/ QueryPage \/ NextRow \/ Attempt

RegistryNext ==
  \/ \E h \in HookIds, f \in Filters : CreateHook(h, f)
  \/ \E h \in HookIds : DeleteHook(h)
  \/ \E r \in Reqs, h \in HookIds, f \in Filters : UpdateGet(r, h, f)
  \/ \E r \in Reqs : UpdatePut(r)

DispatchNext ==
  \/ (\E t \in Types, p \in Procs : AppendEvent(t, p)) /\ UNCHANGED <<regVars, dispVars>>
  \/ Dispatcher \/ RegistryNext \/ Restart
DispatchSpec == LogInit /\ DispatchInit /\ [][DispatchNext]_<<logVars, regVars, dispVars>>

-----------------------------------------------------------------------------
\* A receiver gets events in log order, each at most once per attempt, across
\* retries, deletes and re-creations under one ID, and daemon restarts
\* (webhook_dispatch.go:36 "a daemon restart does not replay history").  The one
\* exception is a seed query that failed: latestEventSeq then answers 0 and the
\* whole table is sent again.
HookOrder ==
  ~blind => \A h \in HookIds :
              /\ \A m, n \in DOMAIN recv[h] : m < n => recv[h][m] <= recv[h][n]
              /\ \A n \in 1..lastSeq :
                   Cardinality({m \in DOMAIN recv[h] : recv[h][m] = n}) <= MaxAttempts

\* What the cursor has passed is settled: a retained event stored after the
\* dispatcher first listed a hook with its present filter was received, was
\* given up after the last attempt, or is queued (runWebhookDispatch,
\* QuerySince "without gaps").
NoEventSkipped ==
  \A h \in DOMAIN snap : \A e \in rows :
    (since[h] # -1 /\ since[h] < e.seq /\ e.seq <= cursor /\ Matches(snap[h], e.type))
      => \/ e.seq \in ToSet(recv[h])
         \/ <<h, e.seq>> \in given \cup queue

\* The dispatcher gets past every stored event: neither a receiver that never
\* answers nor failed queries hold it up for ever (deliverWithRetry "bounded").
EveryRowIsPassed ==
  \A n \in 1..MaxEvents : (n \in Seqs(rows)) ~> (n \notin Seqs(rows) \/ cursor >= n)
=============================================================================
