# pmmcp: specifications and proofs

TLA+ modules, TLC runs and TLAPS proofs for `pmmcp`, a daemon (`pmmcpd`) that
starts, supervises and stops processes for coding agents over a private
socket. Paths below are relative to the repository (`src/`). The modules are
translated from the Go code; where a comment or document says something else,
section 7 says so.

Contents: [1 the system](#1-the-system), [2 modules](#2-modules),
[3 runs](#3-runs), [4 bounds](#4-bounds), [5 fairness](#5-fairness),
[6 proofs](#6-proofs), [7 divergences](#7-divergences-between-code-and-documentation),
[8 not modelled](#8-not-modelled), [9 plan](#9-plan), [10 running it](#10-running-it).

## 1 The system

### 1.1 Components

| component | code | state | operations | modules |
|---|---|---|---|---|
| process contract | `internal/process/manager.go` | - | `Start`, `Stop`, `Wait`, `Inspect`, `Signal` | `ManagerSpec` |
| local driver | `internal/process/local` | `m.procs`: id -> `*proc` (status, pid, reaped flag, job, done channel); one reaper goroutine per child; the kernel's process table | the contract, `reap` | `LocalManager` |
| container driver, router, engine CLI | `internal/process/container`, `router.go`, `drivers`, `internal/engine` | `Router.byID`; per manager one entry (container id, status, exit code, done channel) | the contract; `run`, `stop`, `inspect` | `ContainerManager` |
| lifecycle and process store | `internal/daemon/server.go`, `handlers_ext.go`, `supervise_loops.go`, `internal/store/sqlite` | maps of `Server` under `s.mu`; table `processes` with the unique index `processes_live_name` | `start`, `run`, `stop`, `restart`, `remove`, `enable`, `disable`, `wait`, `update`, `health`, `watch.set`, boot relaunch, `list` | `Lifecycle`, `Listing` |
| supervision policy | `internal/supervise` | restart counters | `RestartCounter`, `NextBackoff`, `CrashLoop`, the daemon's loop | `Supervise` |
| serving and shutdown | `server.go` (`ListenAndServe`, `Close`, `shutdownGRPC`) | `closing`, `runCancel`, `gs`, `ln`, a `sync.Once`, the wait group `bg` | listen, serve, drain, close | `Serving` |
| endpoint | `internal/ipc`, `internal/api` | the socket file and who has bound it; a client's connection and version | listen, probe, remove, dial, hello, call | `Endpoint` |
| file watching | `internal/watch` | stats, snapshots, pending bursts, event channel | add, poll, emit, close | `Watch` |
| event log and streams | `internal/event`, `grpc_server.go` | ordered rows with retention by age and count | append, sweep, query; seed and poll of a stream | `EventLog`, `EventStreams` |
| webhooks | `webhook_dispatch.go`, `internal/webhook` | hook registry, cursor into the event log, delivery queue | register, update, delete, tick, deliver with retry | `WebhookDispatch` |
| outgoing HTTP | `webhook.go`, `deliver.go`, `ProbeHTTPOpts` | requests in flight | admit, resolve, dial, redirect | `Egress` |
| log capture and reading | `internal/logcap`, `follow_logs.go` | active file, archives, partial line | write, rotate, close, follow, export; tail, grep, errors, level filter | `LogCapture`, `LogRead` |
| secrets | `internal/secret` | sources, registry of known values, environments | resolve, register, redact | `Secrets` |
| sessions | `internal/session`, `handlers_ext.go` | two indexes of sessions, `stopOnDisconnect` | open, info, end and stop what hangs on it | `Sessions` |
| groups, declare | `internal/group`, `internal/declare` | group registry | start and stop order, group start/stop/restart, apply of a document | `Groups`, `Declare` |
| profiles | `internal/profile` | two indexes of profiles, selection per session | create, update, delete, use | `Profiles` |
| authorisation, configuration | `internal/authz`, `internal/config` | share book; configuration in force | capability and target checks, share, unshare; load, reload | `Access`, `Config` |
| audit trail | `internal/audit` | table of records with retention by age | append and sweep at the end of a handler, query by target | `Audit` |
| sandbox | `internal/sandbox`, `wrap_linux.go` | the mounts of a launch | choose policy and mounts, apply | `Sandbox` |
| the rest | `cli`, `mcp`, `prompts`, `service`, `doctor`, `observability`, `ports`, `project`, `id`, `version` | none, or files read once | pure functions, host I/O | - |

### 1.2 Interaction

A client's RPC runs a handler of `Server` in a goroutine of its own. A handler
reads a row of the store, calls the driver, writes the row back and touches the
maps. No lock spans two of these: `s.mu` covers the maps only, the driver has
its own mutex, SQLite serialises single statements. The auto-restart loop, one
goroutine per watched process and (before serving) boot relaunch do the same
work next to the handlers. The local driver's reaper goroutines turn the end of
a child into a terminal status; for containers there is no such goroutine, the
end is noticed when somebody calls `Inspect`. Children are started in a process
group of their own and survive the daemon; rows in SQLite survive too, the maps
and the driver's tables do not.

Every handler appends to the event log. Two kinds of consumer page through it:
the webhook dispatcher behind one cursor, and event streams that ask for the
newest page and remember what they sent. A child's output goes through the
redactor into a `RotatingWriter`; readers, followers and exports open the same
files without a lock. A watcher's events make the daemon restart a process. The
session registry, the group and profile stores, the share book and the
configuration are maps under locks of their own, read at one step of a handler
and used at a later one.

### 1.3 What is hard

- **Interleaving.** Two starts of one name, a stop against a child that is
  exiting, the loop against any handler, two opens of one session, a grant
  taken back while a request under it is under way.
- **Stale state.** Whole-row `Update` after a slow driver call; a PID checked
  before a signal; an engine answer older than the entry it updates; a name
  that resolves differently when it is dialled; a cursor whose row is gone.
- **Partial failure.** A child runs but its row cannot be created; the engine
  refuses a stop; a rotation fails between two renames; an apply fails half way.
- **Crash.** The daemon dies between launch and write, or in a rotation; boot
  must tell a live child from a dead one, a start a live socket from a stale one.
- **Time.** Grace periods, drains that run out, back-off that blocks its loop,
  deliveries whose answer is lost.

`PROJECT.json` lists each hazard at its line with the properties for it.

### 1.4 What makes each part correct

- *Local driver:* no running child is lost; `Stop` returning nil means the
  child is dead; `Stop` always returns; the contract.
- *Container driver:* a terminal entry has no running container, stays as it
  is, and wakes its waiters; the done channel is closed once; the contract.
- *Lifecycle:* a running child can be found and stopped; one live process per
  name; a terminal row has no running child; a stopped process stays stopped;
  one instance per id over crashes; requests and boot come to an end. A listing
  repeats nothing and skips nothing that stays.
- *Supervision:* a process is not restarted more often than its budget says.
- *Serving:* nothing uses the store after it is closed; a daemon told to end
  ends; one daemon at the endpoint, and it fits the client; an edit is reported
  once.
- *Events:* receivers get events in order, none repeated but by a retry, none
  skipped; streams likewise; the dispatcher gets past every row; no connection
  leads where the policy forbids.
- *Logs:* archives stay in order, only the oldest output is dropped; followers
  and exports are exact outside rotations; all readers answer what was asked;
  no secret in a log line.
- *Control:* both indexes of a registry agree; ending a session leaves none of
  its processes; dependencies first; a successful apply leaves what it
  declared; a target is touched by its owner or under a grant that stood; a
  looser sandbox only by right; a sandbox hides secrets and not the project.

## 2 Modules

| module | what it is |
|---|---|
| `ManagerSpec` | abstract: what a driver promises about one id |
| `LocalManager` | the local driver, step by step; refines `ManagerSpec` |
| `ContainerManager` | router, container driver and engine; refines `ManagerSpec` |
| `Lifecycle` | daemon handlers, loops, boot and store over any driver that keeps `ManagerSpec` |
| `Supervise` | restart counters and back-off under the daemon's loop and under `CrashLoop` |
| `Listing` | `process.list` page by page while rows come, change and go |
| `Serving`, `Watch`, `Endpoint` | start and end of the daemon; the polling watcher; the socket and its clients |
| `EventLog` | the table both consumers extend |
| `EventStreams`, `WebhookDispatch` | its consumers (both `EXTENDS EventLog`) |
| `Egress` | where deliveries and probes connect to |
| `LogCapture`, `LogRead`, `Secrets` | writing, rotating, following, exporting; reading; redaction |
| `Sessions`, `Groups`, `Declare`, `Profiles` | registries and the multi-step operations on them |
| `Config`, `Access` | configuration; requests checked against it and the share book (`Access` `EXTENDS Config`) |
| `Audit` | the audit table and the four handlers that start and end a process, as their clients see it |
| `Sandbox` | policies, the mounts made of them, and what the child sees |
| `LocalManagerProofs`, `ContainerManagerProofs`, `LifecycleProofs` | TLAPS proofs about the module they are named after |
| `ServingProofs` | ... about `Serving`, `Endpoint` and `Watch` |
| `PolicyProofs` | ... about `Supervise`, `Egress`, `WebhookDispatch` and `EventStreams` |
| `LogProofs` | ... about `LogCapture`, `LogRead` and `Secrets` |
| `ControlProofs` | ... about `Profiles`, `Declare`, `Sessions`, `Listing` and `Groups` |
| `AccessProofs` | ... about `Access` (with `Config`), `Audit` and `Sandbox` |
| `MCLocalManager`, `MCLifecycle` | instances of one module |
| `MCContainerManager`, `MCServing`, `MCEvents`, `MCLogs`, `MCControl` | instances of several that share no state: a variable `part` (`load` in `MCEvents`) is chosen at the start and says which of them a behaviour works, so that their states add rather than multiply |

How they fit together: the two drivers are proved to implement `ManagerSpec`,
for every value of the constants. `Lifecycle` does not contain a driver; it has
the handle of each id, and it is proved that what handlers, loop and watchers do
to those handles is again `ManagerSpec`, as long as the daemon lives (a crash
empties the driver's tables, which no step of the contract does). So what
`Lifecycle` assumes of a driver is what the drivers give.

**`ManagerSpec`.** The handle of an id goes `absent -> running -> stopping ->
exited`; a live instance is never replaced or forgotten; an id is started again
only when its instance has ended.

**`LocalManager`.** A critical section of `m.mu` is one action; everything done
outside the lock (spawn, `kill(2)`, `wait4`, reading the atomic `reaped` flag)
is an action of its own, because that is where the races are. `procs` is the
map; `status`, `job`, `reaped`, `idOf`, `pidOf` are the fields of a `*proc`;
`reaper` is the program counter of `reap`; `child`, `doomed`, `holder` are the
kernel's view, with PIDs that are recycled as soon as a child is reaped; `call`
holds each goroutine's program counter and its last answer. `StartCheck`,
`StartSpawn`, `StartAssign`, `StartRegister`, `StartLose`, `StartAbort` follow
`Start` from its first lookup to its second one; `StopLock` to
`StopKillTimeout` follow the select statements of `Stop`; `ReapWait`,
`ReapFlag`, `ReapFinish` are `reap`. A signal goes to whichever group holds the
PID at that moment (`killTree`).

**`ContainerManager`.** `drivers.Open` makes a new manager for every start with
an image, so an id has one manager with one entry; `byID` says when the router
knows it. Engine commands run outside the lock and take effect in their own
action, so `Inspect` may apply an old answer (`InspectQuery`, then
`InspectApply`). The container can end by itself, turn unhealthy and healthy
again, and is removed some time after it ended because every `run` carries
`--rm`. `RunFails` includes a command killed half way whose container runs all
the same.

**`Lifecycle`.** Every store call, driver call and critical section of `s.mu`
is one action; a handler carries the row it read (`thr[t].rec`) and `Update`
writes all of it back. `store` is the table (name, status, desired, pid,
successor), with the live-name index in `LiveNameTaken`; `live` and `owner` are
the children; `hpid` and `stopping` the driver's handles; `byName`, `auto`,
`url`, `watchers` the maps; `thr` has one thread per handler plus the loop, one
watcher goroutine and boot. A crash empties maps, handles and threads.
Commands, environment, ports, limits, sandbox, profiles and the request's
authorisation are left out here: they decide whether a step fails, which each
launch may anyway, and not what it writes. The restart budget is left to
`Supervise`: the loop of `Lifecycle` may skip a process at any tick. One watcher
goroutine stands for all; the body is `restartByID`, which the loop runs
concurrently with it. Two restarts of one id meet inside the driver's `Start`, so
there it is three steps: `RebootLookup` (the lookup, which forgets a finished
instance), `RebootSpawn`, and `RebootRegister`, the second look under the lock, after
which the loser kills its own child (`RebootKilled`). Boot runs alone and the other
launching handlers start an id they have just made, so their `Start` is one step.

**`Supervise`.** One of the two loops (`loop`) visits the processes in turn;
`counter` is a `RestartCounter` with its count, the start of the healthy stretch
and the stable window. The daemon's loop sleeps the back-off in `Awake`, and
nothing else of it happens meanwhile; `CrashLoop` skips an id that is still in
back-off. Time is a counter of ticks; children turn sick, recover and end, and
requests stop and start them, between any two steps.

**`Serving`.** The goroutine of `ListenAndServe` (`main`), the one waiting for
the signal context, `Close` (`closer`), the `sync.Once` around the drain, the
handlers, the loops counted in `bg` and the watchers' consumers. Each critical
section or blocking call is an action, so `Close` or the signal may come at
every step of the start-up. **`Watch`.** A file's mtime and size are one number,
fresh for every edit; the file system moves also between the stat of a directory
and the reading of its entries. **`Endpoint`.** A socket file is a number, fresh
for every bind, under one name; removing and unlinking act on the name.

**`EventLog`, `EventStreams`, `WebhookDispatch`.** `rows` is the table,
`lastSeq` its sequence; queries may fail. The dispatcher's tick lists the hooks
(`snap`), reads a `page` behind `cursor`, moves the cursor to the next row of it
and fills `queue` with that row's deliveries; `UnderWay` is the one that is tried,
one attempt at a time. Page and queue are sets: rows have their order in their
sequence numbers, and the receivers of a row a fixed one. `recv` is what each
receiver got. A restart of the daemon empties the registry. A stream's query is one
step; the rows of its answer it has not sent before wait in `outbox` and leave it one
by one, oldest first, while others are appended and swept. **`Egress`.** A name
resolves to whatever `dns` says at that moment; the check of the URL, the resolution
at the dial and each redirect are steps.

**`LogCapture`.** The unit of output is what one `emit` writes. `act` and `arch`
are the files; each system call of a rotation is an action that may fail, and a
crash may come after any. The follower and the export are one reader that takes
no lock; an export goes through the names it listed in their order. **`LogRead`.** A line is its length, where the pattern and an error
word end in it, and its levels; a request captures the lines and is compared
with what it is owed, defined without windows or limits of a reader (`Owed`).
**`Secrets`.** Text is a sequence of characters, those of a secret marked, so
that what is left of one in the log can be told from everything else. A value that
is too short or of several lines, which the redactor cannot mask, has marks of its own.

**`Sessions`.** A session has two names, the harness id and the internal one;
`Open` lets its lock go between look and insert; `session.end` is five critical
sections. **`Groups`.** Kahn's algorithm as the code runs it, and calls that
walk its result member by member. **`Declare`.** A diff taken once and applied
service by service. **`Profiles`.** One action per operation of the store, with
both indexes. **`Config`, `Access`.** A load overlays file, environment and
flags; a request is admitted, finds its target, is authorised and acts in
separate steps. **`Sandbox`.** A path is the sequence of its components; the
mounts of a launch lie in layers, in the order in which the code lists them, those
of one layer are of one kind, and the topmost one over a path decides.
**`Audit`.** A handler is two changes and a record (`Act`, `Complete`,
`Insert`, `Sweep`); its client may hang up and the daemon die between any two,
and `told` remembers what was answered. **`Listing`.** A row is its place in the
order of `created_at`, so a page is a set; `got` holds a reader's pages, `last`
its cursor, `stayed` the rows a listing should show since its first page.

## 3 Runs

Runs that name several parts check components that share no state; a behaviour
works one of them (section 2).

| run | instance | checks | what it shows |
|---|---|---|---|
| `local_safety` | 1 id, 2 children, 2 PIDs, 2 callers, job assignment absent, present or failing | `TypeOK`, `NoLostChild`, `StopMeansDead`, `RefinesManager` | two racing calls of any kind lose no child, a nil from `Stop` means the child is reaped, and each step is one the contract allows |
| `local_live` | 1 id, 2 children (one that SIGKILL does not end), 1 recycled PID, 2 callers | `StopEnds` | `Stop` ends whatever the child does; a killed child gets its final status |
| `container_drive` | containers: 1 id, 2 containers, 2 callers, an engine that may fail; supervision: 1 process, 10 ticks, three policies; audit: 2 clients, 1 process, 2 requests, 2 ticks, 1 failing statement | `EntriesSound`, `RefinesManager`, `WaitersWake`; `WithinBudget`; `AuditTells` | late engine answers never revive or falsify a finished entry, no channel is closed twice, waiters wake, the contract; neither restart loop spends more than its budget between two stable stretches; who got an answer finds its record until age or newer records hide it |
| `life_serve` | 2 requests of start, run, stop, restart, remove on 1 name, 3 ids | `NoOrphan`, `OneLivePerName`, `RowsSound` | children and rows agree, whatever the two requests do to each other |
| `life_crash` | 2 requests of start, stop, remove, enable, disable, wait, health, update on 1 id, clients hang up, 1 crash | `OneInstancePerId` | boot adopts or relaunches, and never both |
| `life_supervise` | 1 request (start, remove, watch), the loop, the unhealthy mark and a watcher on 1 id, 3 children | `DriverContract` | the daemon's driver steps are those of `ManagerSpec`, also when loop and watcher are both inside `Start` of one id: the driver knows one running child of it, and any other is in the hands of a restart that registers or kills it |
| `life_live` | 2 requests of start, stop, disable, wait on 1 id, clients hang up, 1 crash, children that never die | `DaemonAnswers` | every request ends; the daemon serves again after a crash |
| `life_autostop` | 1 request, 1 id, the loop | `StoppedStaysStopped`, violated | section 7 |
| `events` | log, dispatcher and streams: 1 hook or 2 processes, 3 events, table of 2; egress: 3 names, 2 redirects | `HookOrder`, `NoEventSkipped`, `EveryRowIsPassed`; `StreamFaithful`; `DialsAdmitted` | delivery in order and without loss while hooks are changed and the daemon restarts; no stream repeats or (unless rows left the table) skips; every dial ends at an address the policy admits |
| `logs` | capture: active file and 2 archives of 2 entries, 7 entries, 1 fault, 1 reader; readers: 3 lines, 2 streams; secrets: 2 references, 2 starts, 2 messages | `ArchivesInOrder`, `OnlyOldestDropped`, `ReadersFaithful`, `FollowerCatchesUp`; `ReadersAgree`; `NoPlainSecret` | a rotation that fails or dies at any step loses only the oldest output; followers and exports are exact outside rotations; tail, grep, errors and level filter return what they owe; a registered value never reaches a log line |
| `serving` | daemon: 2 handlers, 1 loop; watch: a file and a directory of one name, 3 edits; endpoint: 2 daemons, 1 client, 3 versions, 3 binds | `NoUseAfterClose`, `ShutdownEnds`; `ChangeReported`; `EndpointHeld` | the store outlives its users except past a time-out; a daemon told to end ends; an edit is reported, once; an old daemon's socket is not taken while it serves, and a call reaches a compatible daemon |
| `control` | sessions: 1 harness, 2 ids, 2 requests, 2 processes; groups: 3 members; declare: 3 services, 2 applies; profiles: 2 ids, 5 edits; access: 1 request, 4 principals, 2 processes, 1 grant, 1 config edit; sandbox: 7 roots, the root of the file system among them; listing: 3 rows | `SessionIndex`, `SodSettled`; `DependenciesFirst`; `AppliedMeansPresent`; `FoundByKey`; `TargetsAuthorised`, `RelaxedByRight`; `SandboxHolds`; `PagesComplete` | the registries' indexes agree; no operation of several steps leaves behind what its guard excluded; the mounts keep secrets out and the project in; paging skips and repeats nothing |

`EntriesSound` also has the one bound that is not a type, `closes <= 1`: a second
`close` of a Go channel panics. `RowsSound` also says that a handler at a step
which edits a row has read one (no nil dereference).

## 4 Bounds

A bound is a guard of the action it limits and a constant of the module.

- *Two callers or clients.* Every hazard of section 1.3 is a race of two
  activities; the reapers, the loop, the watcher, boot, the engine, the
  dispatcher and the file system move besides them.
- *Two children per id in the driver.* A start that replaces a finished child
  and a start that loses a race each need two. Structs and containers are never
  reused, so the number also bounds the number of starts. Two PIDs, one of them
  recycled, let a signal meet the wrong group.
- *Three ids, three children in `life_serve`:* start, restart (a second id for
  the name) and a competing start or replace (a third). `life_crash` has one id
  and two children, the smallest instance in which "two instances of one id"
  can be said. `life_supervise` has three children: the first, and one for each
  of the loop and the watcher, which may both start the id again; both of theirs
  run between spawn and second look.
- *`MaxCrashes`* is 1: rows and children after a second crash are reachable
  after one, except for a launch whose PID was never stored. That takes a
  process launched twice and does violate `OneInstancePerId` (section 7,
  relaunch); `life_crash` has `AutoRestart = FALSE` and does not contain it.
- *`MaxIds`, `MaxPids`* are guards of the launching actions; a handler that
  cannot launch takes the failing branch, which the code has too.
- *Supervision.* Ten ticks hold two windows of the back-off, a stable stretch
  that resets the count, and a second spending of the budget. The policies are
  a linear one with budget 1, an exponential one, capped and jittered, with
  budget 2, and one that is not enabled. Two processes over five ticks were checked too.
- *Events.* A table of 2 rows under 3 events has one sweep; pages of 1 (ticks,
  seeding) and 2 (polls) make every reader page. Two attempts, one fault of the
  table, one restart, two registry operations. The dispatcher matches types and a
  stream filters processes, so the first sees events of one process and the second
  events of one type.
- *Egress.* The name service changes its answer twice: between registration and
  delivery, and between check and dial. Two redirects, so that one leads to
  another.
- *Logs.* A file of 2 entries and 2 archives hold 6; the seventh entry forces
  the first drop. Two opens of the writer (one continues a former run's file),
  one fault at any step of a rotation. Three lines of three kinds over two
  streams (an empty one, a short error with a level and the pattern, one over the line
  limit) make windows of a match overlap and abut, and an output limit of 5 cut at the
  end of a line, in its middle and after an empty first one. A separator needs four
  lines, and `doLogs` asks for no context: that case is left to the theorem (6.1).
- *Secrets.* A secret and one that extends it, as `${secret:..}` references to
  two keys; a second start registers a second value over a running child.
- *Serving.* One handler can be in each phase relative to the other; one loop
  stands for the members of `bg`, which are alike. *Watch:* a channel of one
  place is full after one event; three edits fall before, in and after a burst.
  *Endpoint:* three binds are old daemon, new daemon, and one that comes back;
  the versions are two minor ones and another major one.
- *Audit.* A page of 1 and a retention of one tick, so that both ways in which a
  record leaves an answer happen; the second request is the newer record.
- *Control.* One harness with two internal ids is the smallest race of `Open`.
  Groups have three members: `a` may depend on `c` or on nothing, `b` and `c` on
  any single one (themselves too, a cycle of one), and `c` also on two, on a
  repeated one and on an unknown one. Declare has two applies of one
  document. Access has one request in progress while the rest moves, in two
  parts: with grants under the default sandbox and a fixed file, and with reloads,
  sandboxes, starts and restarts without grants, because neither of its two
  properties relates a grant to a sandbox. The listing has pages of 1 and 2 over three rows.

Deadlock checking is on except in `logs`, `serving` and `control`: there a part
really comes to an end (the daemon has exited, every bounded operation has been
used), and the state without a successor is not a fault.

Symmetry is used in `local_safety` (callers, children), in the runs of
`MCLifecycle` without liveness (clients) and in `control` (the sessions' ids,
requests and processes), all of which the modules treat alike; never where a liveness property is checked.

## 5 Fairness

- `LocalManager`: weak fairness for each goroutine inside `Start` and `Stop`
  (Go runs every runnable goroutine, timers fire), for the reaper of a child
  that is not stuck, and for the exit of a child that got SIGKILL. Nobody has to
  make a call, no child has to exit by itself, and `Stuck` children never do.
- `ContainerManager`: weak fairness of `WaitDone` only (a goroutine whose
  channel is closed is scheduled). Engine commands owe nothing.
- `Lifecycle`: weak fairness of each handler as a whole and of boot. Every driver
  stop, and a `wait` that names a timeout, is bounded by the code. A `wait` without one
  blocks on its context alone (`handlers_ext.go:392-398`); that context has a deadline,
  because the client puts one on every call (60 s unless it chose another,
  `ipc/client.go:91-94`), so `Deadline` of such a call is weakly fair. Children, the
  loop and the watcher owe nothing, clients nothing else, and crashes are bounded by
  `MaxCrashes`.
- `Serving`: weak fairness of the daemon's goroutines and timers: `MainStep`,
  `CtxStep`, `CloseStep`, the drain and its time-out, and the end of a unary
  call (handlers bound their waits). A stream owes nothing: it is what the drain's
  time-out is for. Nobody has to call `Close` or send the signal.
- `Watch`: weak fairness of the poll ticker and of the consumer that takes from
  the channel. Files owe nothing.
- `WebhookDispatch`, `EventStreams`: weak fairness of the dispatcher (ticker,
  and the time-out of each HTTP attempt) and of each stream's poll ticker.
  Receivers owe nothing, nor do the operations on the registry.
- `LogCapture`: weak fairness of the follower's ticker. The writer owes nothing.

## 6 Proofs

What is proved holds for every value of the constants: any number of clients,
processes, ids, hooks or rows, any size of a page, a file or a budget, and the
counters that bound a run replaced by whatever numbers.

### 6.1 What is proved

| module | theorem | says |
|---|---|---|
| `LocalManagerProofs` | `TypeCorrect` | `TypeOK`: and no call past its lookup has a nil struct |
| | `ChildrenAreKept` | `NoLostChild`: every running child is registered or held by the `Start` that spawned it |
| | `StoppedIsDead` | `StopMeansDead`: a nil from `Stop` means the child is reaped |
| | `Refinement` | `RefinesManager`: the local driver implements `ManagerSpec` |
| `ContainerManagerProofs` | `EntriesAreSound` | `EntriesSound`: no channel closed twice, no terminal entry over a running container |
| | `Refinement` | `RefinesManager`: router, container driver and engine implement `ManagerSpec` |
| `LifecycleProofs` | `LifecycleTypes` | types; a handler that edits a row has read one; ids and handles are of children spawned for them; boot runs alone |
| | `OneServedByDriver` | while the daemon lives: of the running children of a process at most one is known to the driver, and any other is in the hands of a restart that has still to register or kill it |
| | `DriverRefined` | `DriverContract`, while the daemon lives: `ManagerSpec`, and the former |
| | `ServedIsFound` | `NoOrphan`, for `Serving` and `Patient` (6.3) |
| | `ServedNamesAreUnique` | `OneLivePerName`, for `Serving` |
| | `ServedRowsAreSound` | `RowsSound`, for `Serving` |
| | `RowsNameTheirChild` | the PID in a row was spawned for the row's process, over stale writes and crashes |
| | `OneInstanceServed` | `OneInstancePerId`, while the daemon lives, with auto-restart and without watchers (6.3) |
| | `OneInstanceAfterCrash` | `OneInstancePerId`, for `OneCrash` |
| `ServingProofs` | `StoreOutlivesUse` | `NoUseAfterClose`: `Close` releases the store when nothing can be inside it any more |
| | `EndpointIsHeld` | `EndpointHeld`: one daemon answers, and acts for clients its version fits |
| | `OneSaveOneEvent` | `OneEventPerEdit`, the safety half of `ChangeReported`: no edit is reported twice |
| `PolicyProofs` | `BudgetHolds` | `WithinBudget`, for every policy and both loops |
| | `DialsStayAdmitted` | `DialsAdmitted`, whatever names resolve to and wherever redirects lead |
| | `ReceiversInOrder` | `HookOrder`: events in log order, none more often than there are attempts |
| | `EventsAreSettled` | `NoEventSkipped`: what is behind the cursor was received, given up or is queued |
| | `StreamsSendOnce` | `StreamNeverRepeats`, the safety half of `StreamFaithful`: no row twice, and in order from the second poll on |
| `LogProofs` | `ArchivesOrdered` | `ArchivesInOrder`, however many file-system calls fail |
| | `NothingLostButOldest` | `OnlyOldestDropped` |
| | `ReadersSeeWhatIsWritten` | `ReadersFaithful`: followers and exports without a lock |
| | `LogRequestsAnswered` | `ReadersAgree`: tail, grep, errors and the level filter answer with the lines they owe, cut only at the limit, and refuse only what names no stream, level or pattern or whose files cannot be read |
| | `SecretsStayOut` | `NoPlainSecret`, for values of which none can be read across the seam of two others (`Apart`, 6.3) |
| `ControlProofs` | `ProfilesFound` | `FoundByKey`: a profile is found under its own key |
| | `ApplyCompletes` | `AppliedMeansPresent`: a successful apply left what it declared |
| | `SessionsIndexed` | `SessionIndex`: both indexes describe the same sessions |
| | `SessionEndSettles` | `SodSettled`: what `session.end` owed an end is down when it answers |
| | `ListingKeeps` | `PagesComplete`: paging repeats and skips nothing |
| | `GroupsInOrder` | `DependenciesFirst`: every accepted graph is walked dependencies first, or last |
| `AccessProofs` | `AccessAuthorised` | `TargetsAuthorised`: a target is touched by its owner, an operator, or under a grant that stood |
| | `SandboxRelaxedByRight` | `RelaxedByRight`: a looser sandbox descends from a start with the right to it |
| | `AuditKeeps` | `AuditTells`: who was told of a deed finds its record until age or newer records hide it |
| | `SandboxKeeps` | `SandboxHolds`: secrets out of sight, no writing outside the policy's roots, the project writable; for any roots, `/` included, where a standard sandbox masks secrets and a strict one shows everything (section 7) |

### 6.2 Assumptions on constants

Each module names its own, and TLC evaluates them on every run. Null values are
not members of the sets they stand beside (`ManagerAssumption`,
`ContainerAssumption`, `AuditAssumption`, `ProfilesAssumption`,
`SessionsAssumption`, `LogAssumption`, `WatchAssumption`); bounds, pages and versions are numbers
and what the code divides by or indexes with is not zero (`LifecycleAssumption`,
`AccessAssumption`, `EndpointAssumption`, `SuperviseAssumption`,
`ListingAssumption`, `LogAssumption`, `StreamAssumption`, `CaptureAssumption`,
`DispatchAssumption`, `WatchAssumption`, `LogReadAssumption`: the truncation marker
leaves room for a separator);
sets of results, records and switches have the fields or the values the code
gives them (`ManagerAssumption`, `AccessAssumption`, `LifecycleAssumption`,
`DeclareAssumption`, `LogReadAssumption`). `SecretsAssumption`: there are finitely many
variables, and characters are marked as section 2 says, which is a convention of the
model and no demand on real values. `GroupsAssumption`: member names are distinct, which `Create`
checks first, and payloads are lists of names, one for each member.
`SandboxAssumption`: paths are sequences of names; no directory of the system policy
begins with a credential directory or shares a tree with an engine socket, no
project lies below such a socket, and the home is not below a directory `.ssh`. `Serving` and `Egress` assume nothing.

### 6.3 The hypotheses of the theorems

`Lifecycle` has switches for what may happen around its handlers. Most of its
properties do not hold with all of them on, because the code does not have them
there (section 7); the theorems say exactly how far they go:

- `MaxCrashes = 0` (`DriverRefined`, `OneServedByDriver`, `OneInstanceServed`): a crash
  empties the driver's tables under running children, which is not a step of the
  contract, and one between spawn and registration leaves a child that nothing names.
- `"watch" \notin Ops` (`OneInstanceServed` only): the loop and a watcher that restart
  one id both spawn before the driver's second look, so the id has two running
  instances until the loser is killed (`local.go:103-219`). What holds with watchers
  is `OneServedByDriver`.
- `Serving`: no crash, `StopMayFail = FALSE`, `AutoRestart = FALSE` and no
  `watch.set`. A stop that fails lets a `restart` launch its successor beside the
  surviving child, with the name taken by both; the loop and a watcher start a
  process again whose row a `remove` is just deleting.
- `Patient` (`ServedIsFound` only): clients do not hang up. A cancelled call
  cannot stop the child whose row it failed to create.
- `OneCrash`: at most one crash, and nothing starts a process again under its id
  before it. A relaunch whose PID was not stored when the daemon dies leaves boot
  with an older PID, and a second instance.

`LifecycleTypes` and `RowsNameTheirChild` need none of these.

`SecretsStayOut` has `Apart` of `Secrets`: no value begins with an end of one as long
or shorter and goes on as a third does, nor the same from the other side. The code
does not see to it. `RedactLine` replaces one value after the other, so a value that
can be read where two others stand side by side is masked there and leaves the rest
of both. Values with random characters are apart; `ValuesApart` in `MCLogs` has TLC
evaluate the hypothesis on the values of the run, one of which extends another.

### 6.4 The inductive invariants

A property by itself is hardly ever inductive. Each proof has an invariant that is,
three facts (it holds at the start, every step keeps it, it implies the property),
and one lemma or step per action. What the invariants add, and why:

- *`LocalManager`, `Inv`.* `NoLostChild` says nothing of which struct a registered
  id maps to, nor of where the reaper stands. `StagesInv`: a struct's status, its
  reaper, its `reaped` flag and the kernel's state of its child agree.
  `RegisteredInv`: the map points to structs spawned for the id, and a struct with a
  reaper is in the map or finished. `HeldInv`: a struct in the hands of a `Start` is
  in those of one only, running, without a reaper. `CallInv`: a call past its lookup
  has a struct. Most steps move one call and share `QuietInv`; `StepRefines` shows
  each step to be one of `ManagerSpec` or none.
- *`ContainerManager`, `Inv`.* An entry has a container of its own that was run
  (`EntryInv`); a `Start` holds a container nobody else has, for an id without an
  entry (`StartInv`); an end that a `Stop` or `Inspect` is about to write down has
  happened (`StepInv`): that is what makes late answers of the engine harmless.
- *`Lifecycle`.* Four invariants, each resting on `BaseInv` and `BootInv`.
  `ServedInv` (for `Serving`): each known id has had one child; what is launched and
  has no row yet is held by the thread that will write it or stop it; a row that says
  ended, or has a successor, has a dead child; two rows without a successor
  differ in name; and per step of a handler, what it knows of its target.
  `PidInv`: every copy of a row that a thread holds carries a PID of that process, so
  writing it back may make it older but not wrong. `ServiceInv` (while the daemon
  lives): a restart that has spawned and not registered holds a running child which no
  handle names and no other restart holds (`Holding`), and every other running child is
  the one its id's handle names (`OneInService`), because each step that registers finds
  that handle not running. `Sole` (without watchers): a loop that has not registered yet
  still finds the handle not running, so it never has to kill. `SoloInv` (for `OneCrash`): until boot has visited a process, it had
  one child; and the one in boot's hands has none running when boot launches it.
- *`Serving`, `ServeInv`.* Past the drain no server is left that could take a call,
  unless `Close` came early (`DrainHeld`); past a wait that did not give up nothing
  counted by `bg` is left and nothing can be counted any more (`WaitHeld`).
  *`Endpoint`, `EndpointInv`.* While starts do not overlap, the one that is about to
  remove a socket has no daemon behind it. *`Watch`, `WatchInv`.* Each path had an
  edit for each of its events, one for its pending burst and one for what the loop has
  not seen. One edit may be half seen: the stat of a directory comes before an entry
  is created and the snapshot after it, so the burst has the entry and the next tick
  finds the new mtime. `Half` says that such a burst is too young to be emitted before
  that tick, which is where the debounce of at least one tick is needed.
- *`Supervise`, `SuperviseInv`.* The counter's healthy time is no more than the
  healthy visits span, so that it forgets restarts only after a stable window
  (`WindowHeld`), and it has counted what was spent (`CountHeld`). *`Egress`,
  `EgressInv`.* The request under way has a URL that passed its kind's check, also
  after a redirect; with the hosts behind it the name service may do what it likes.
- *`WebhookDispatch`, `DispatchInv`.* The table keeps its newest row whatever is
  swept; a page is what the log has next behind the cursor; the queue is of the row
  the cursor is at; a receiver has got nothing of what is queued for it, except as
  many copies of the delivery under way as there were tries. *`EventStreams`,
  `StreamsInv`.* A row of the newest page that a stream neither sent nor has in its
  outbox is newer than all it sent: rows leave the outbox oldest first, and rows leave
  the table and the page oldest first, so no row comes back into view.
- *`LogCapture`, `LogInv`.* A rotation has made room for its next move (`RoomMade`),
  nothing is newer than the mark (`Marked`), what a follower has not read is newer
  than what it sent (`FollowerHeld`), and what an export owes is in it or in a file
  it has still to add (`ExportHeld`).
- *`LogRead`, `LogReadInv`.* What was read is at most what was written, short lines
  as they are (`ReadHeld`); a request is granted once the files it asked for are
  all read, and refused when one cannot be or for what it asks (`Answering`); an answer given is right for what is owed (`Told`). That the
  readers are right rests on one relation: `Tells(q, P)`, the list shows the lines at
  `P` in order with separators only between lines of one stream. It passes through
  concatenation (`TellsJoin`, `TellsApart`), slices (`SliceTells`, `LastTells`), the
  windows of `Grep` one match at a time (`WindowHeld`) and the cut at the limit
  (`CapRight`); first and last lines are matched with what is owed by counting (`Ranks`).
- *`Secrets`, `SecretsInv`.* A text is in order when known values can be laid over it
  side by side so that every marked character is under one (`Holds`). What a child was
  started with is, since its values were registered before; so is what it prints
  (`JoinHolds`), a piece of it between newlines, in whatever writes it came
  (`PartHolds`, `CutIs`), and what is left when the longest value has been replaced:
  where it occurs it takes those it meets whole (`SeamsHold`, from `Apart`). When the
  last was replaced no value is left to lie over a character. A line that was flushed
  in the middle owes this only behind its end.
- *`Profiles`, `Declare`, `Sessions`, `Listing`.* `FoundByKey` is inductive with the
  types. A declared service is present, was removed, or has its turn ahead
  (`Covered`). What `session.end` collected are the names of the session it ends
  (`NamesInv`), and each process it owes an end is registered under one of them, then
  on its list, unless it is down (`OwedInv`). A page lies behind the former ones, and
  a row that stayed and is not past the cursor is in one (`ListingInv`).
- *`Access`, `AccessInv`.* A request about to act was authorised over a row whose
  owner no step changes, or rests on a grant in its history (`PendingInv`).
  *`Audit`, `AuditInv`.* A client that was told, or is about to be, has a record that
  is no older than the deed and that only age removes.
- *`Sandbox`, `BoxInv`.* What a child runs in is what the code made of its profile, its
  root and the directories that stood at its launch; the rest is about prefixes of
  paths: two covers of a path are comparable, and a secret is below its mask, below a
  dotted directory of the home, or was not there.
- *`Groups`, `GroupsInv`.* What a call has done and has still to do is the order of a
  graph that create accepted. That the order is right is an invariant of Kahn's rounds
  (`Fits`): a counter is the number of dependencies not yet in the order, the queue has
  only members whose dependencies are in it, and each member in it has its dependencies
  before it. An order as long as the group then has every member, by counting.

### 6.5 What stays with TLC

- *Liveness* (`StopEnds`, `WaitersWake`, `DaemonAnswers`, `ShutdownEnds`,
  `EveryRowIsPassed`, `FollowerCatchesUp`, what `ChangeReported` and `StreamFaithful`
  say of reports and rows that must come): fairness and `ENABLED` are out of the prover's reach.
- *`StoppedStaysStopped`* is false (section 7).

No module uses a `RECURSIVE` operator, so none is closed to proofs. Loops are recursive
functions of the number of rounds; the library's induction theorems take an operator,
so induction over rounds goes through least counterexamples instead (`LeastNumber`,
`UpTo` in `ControlProofs` and `LogProofs`).

## 7 Divergences between code and documentation

One is a run that TLC refutes, because the property is said of exactly this
code:

- `life_autostop`. `stop` leaves the id in `s.autoRestart`; the next tick of
  the loop starts the process again. `supervise/loop.go:32-33` says intentional
  stops must not trigger restarts; the `CrashLoop` written there checks
  `Desired`, the daemon's own loop does not.

The others were met while modelling and have no run. Of the life cycle and the
drivers, reachable in the modules unless said otherwise:

- A watcher stays with the predecessor over a `restart` (`server.go:1039`); the
  next change starts the predecessor beside its successor, two live processes
  of one name (`sqlite.go:178` calls the live name unique).
- A client that disconnects between launch and `Create` leaves a running child
  without a row: the clean-up stop uses the same cancelled context
  (`server.go:826`; `README.md:56` "must also be able to see it, stop it").
- A crash between a relaunch and the write of its PID makes boot start a second
  instance (`supervise_loops.go:120`, against `server.go:488-490`).
- `--rm` removes a finished container before it is inspected, so its process
  stays "running" (`container.go:190-193`, `:214`) and its `stop` fails.
- A health check, wait or update that read its row before a stop writes
  `desired=running` back after it (`handlers_ext.go:498`). `UpdateWithCAS`
  (`sqlite.go:281`) is there for this and has no caller.
- The reaper sets `reaped` after `wait4` freed the PID, and `forceKill` reads it
  outside any lock: in both gaps a recycled group can be signalled, which the
  comment at `local.go:336-337` excludes.
- The auto-restart loop and a watcher that restart one id at once both get past the
  driver's lookup and both spawn (`local.go:103-219`); until the second look kills the
  loser, the process runs twice, although `Start` refuses an id that runs.
- `remove` between the `Get` and the `Start` of `restartByID`, or between the
  `Create` and the map update of `doStart`, leaves a child without a row or a
  mapped name without one.
- After a `stop`, `start` of the same name is refused by the unique index, which
  only exempts rows with a successor, although `doStart` treats the name as free
  (`server.go:701-706`): the new child is launched and stopped again.
- A child that boot adopted is unknown to the driver, and `stop` of it answers
  "not found".
- Containers are not attached again after a daemon restart, in spite of the
  labels (`container.go:305-309`); boot relaunches the row with the local driver.
- A permissive start whose job assignment fails goes on to register the child
  (`local.go:194-204`).
- The daemon's loop counts successful restarts, `CrashLoop` attempts; a process
  that cannot start is tried for ever (`supervise_loops.go:74`). `CrashLoop`,
  which the daemon does not call, lets the time a process was stopped count
  toward its stable window. The back-off of one process blocks the others.

Of serving, endpoint and watch:

- `Close` before `ListenAndServe` has published its server and cancel function
  spends the `sync.Once`; `NoUseAfterClose` and `ShutdownEnds` name this case
  (`early`, `server.go:338`).
- Two starts that find the same stale socket at once both remove it by name; the
  later takes what the earlier has bound, against `README.md:248` "One OS user ·
  one daemon" (`contended` in `Endpoint`). `Close` unlinks by name too.
- Two concurrent `watch.set` for one process leak a watcher; `remove` deletes the
  watch's description but not the watcher. Removal of a watched file is never
  reported, and continuous change without a `MaxWait` postpones an event for ever.

Of events, logs and secrets:

- A stream's first poll may send older rows after newer ones: it seeds with 50
  rows and polls 100 (`grpc_server.go:163`, `:181`).
- `latestEventSeq` answers 0 when its query fails, and the next hook is sent the
  whole table (`blind`). A `webhook.update` that read a hook before a
  `webhook.delete` puts it back (`handlers_ext.go:1376`; no property is about it). A delivery whose answer was lost is repeated.
- `Append` reports an error when only its sweep failed, with the event stored.
- A failing `Write` ends the copy of a child's output, so the rest of the run is
  not captured. A follower notices a rotation only by the file having shrunk, and
  a line between its dump and its offset is missed. An export across a rotation
  may miss or repeat entries.
- `Grep` returns the first matches, `Errors` and the level filter the last. A line
  of exactly `maxLineBytes` is marked as truncated.
- A secret of several lines, or shorter than five characters, is never matched; one
  that can be read across the end of another leaves the rest of that one (6.3);
  and a line beyond `maxPartialBytes` may show part of one. Plain values from
  SOPS and env files are not registered. A daemon restart empties the registry
  under running children.

Of the control plane:

- `session.end` with the harness id in its payload opens and ends an anonymous session
  and leaves the named one alive, while it stops the processes registered under that
  id: `ensureSession` looks at the request's own key (`handlers_ext.go:857-866`, `:906`).
- `session.end` ends the session before it checks `process:stop`; a restart that
  races it leaves a running successor, as does a start registered after it. A
  failed stop keeps its entry.
- `declare.apply` counts exited rows as present, ignores `depends_on`, compares
  names across projects, passes over image-only services, and stops at the first
  service that fails with the earlier ones started. A group start goes on after a
  member failed.
- `profile.create` with an existing id overwrites that profile and keeps its old
  key entry; the selection of a session survives delete and rename.
- `update`, `enable`, `disable` and the replace of `start` do not call
  `authorizeTarget`. A restart keeps a sandbox that is looser than a newer
  default, and moves the process to the caller's session.
- Reload ignores the flags, `--config` included, and `[ipc].token_file` wins over
  `--token-file`, although `Load` says flag, then environment, then file.
- Under the standard profile, a missing secret directory puts `--tmpfs` over the
  home directory after the project was bound there, and what is created after the
  launch (the gcloud directory, an engine socket) is visible. `SandboxHolds` says
  which paths it covers for this reason. The policy's own `AllowsRead`, which nothing
  in the daemon calls, denies a marker directory such as `.ssh` at any place; the
  mounts mask those directly in the home. A project at `/` contains nothing by
  `isUnderPath` (`bwrap_test.go:384-388`), so a standard sandbox masks secrets there
  too; a strict one binds the root last, writable, and hides nothing.
- Audit records are appended with the request's context and errors ignored: a
  client that hung up leaves an effect without a record. So does a restart that
  stopped its process and failed to launch the successor (`server.go:1073` "every
  mutation writes an audit record"); against `README.md:221` the trail does not
  prove that nobody touched a process. A refusal is filed under the method, not
  under the process it was about.
- `procfileArgv` runs a Procfile's commands with `/bin/sh -c`;
  `internal/declare/README.md:37` says `-lc`.

## 8 Not modelled

- *Host I/O and pure functions without state that outlives a call:* the command
  line, the MCP catalogue and its translation, service installation, diagnostics,
  ports, project detection, identifiers (taken as fresh everywhere), generated
  code.
- *Of the audit trail:* its ring in memory, filters other than the target, and the
  records of handlers that start or end no process.
- *Of declare:* its policy file and the import of Procfile, Compose and npm files.
- *In the local driver:* sandbox wrapping, resource limits and log wiring are one
  step of `Start` that may fail; how a wrap is composed is `Sandbox`.
- *In containers:* command lines, output parsing, capability probes.
- *Outside the program:* Landlock, seatbelt, job objects' limits, keyrings, SOPS'
  cryptography, gRPC's framing, the peer credential filter, the Windows pipe.
- *Without a caller in the daemon:* `RotateIfNeeded`, `RedactWriter`, the event bus
  in memory, `UpdateWithCAS`, `Router.Forget`, `AllowsRead`, `AllowsWrite`.
- *Left out of modelled operations:* `Lifecycle` has one watcher goroutine and no
  budget (`Watch` and `Supervise` have them); `Access` has one request in progress
  at a time; the probe of a socket does not time out on a full backlog; reading
  logs looks at active files, as the code does.

## 9 Plan

Every safety property that a run finds to hold has a theorem. What remains is model
work at the edges: several requests in progress in `Access`'s run, the removal of a
process's logs.

## 10 Running it

```
tlc -workers 2 -config MCLocalManager_safety.cfg MCLocalManager.tla
tlapm LocalManagerProofs.tla
```

A run takes from a few seconds to about four minutes (`control`, `logs`,
`events`); the run and configuration of each are in `PROJECT.json`. From nothing,
`tlapm` takes about nine minutes for `LifecycleProofs`, about fifteen for `LogProofs`
and at most two to three for each of the other six modules of proofs.

`PROJECT.json` maps every definition to the lines it models and every property
to a mutant of the code that breaks it.
