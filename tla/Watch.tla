-------------------------------- MODULE Watch --------------------------------
(***************************************************************************)
(* The polling file watcher behind watch.set (internal/watch/watch.go).    *)
(*                                                                         *)
(* A tick stats every watched path, compares a directory's entries with    *)
(* the last snapshot, and emits the paths whose burst has been quiet for   *)
(* Debounce ticks (or has lasted MaxWait ticks) into a channel of BufCap   *)
(* places.  The file system moves on its own, also between the stat of a   *)
(* directory and the reading of its entries.                               *)
(*                                                                         *)
(* A path's mtime and size are one number, fresh for every edit; 0 is a    *)
(* path that is not there.  Time is counted in ticks of the poll interval. *)
(***************************************************************************)
EXTENDS Naturals, FiniteSets, FiniteSetsExt, Functions

CONSTANTS Paths, Dirs, Names,
          Debounce, MaxWait,  \* in ticks; MaxWait = 0 is no cap
          BufCap,             \* the places of w.events (64 in the code)
          MaxEdits            \* bound: edits of the file system

\* WithDebounce leaves the window as it is unless the new one is positive.
ASSUME WatchAssumption ==
  Debounce \in Nat \ {0} /\ {MaxWait, BufCap, MaxEdits} \subseteq Nat /\ "none" \notin Paths

VARIABLES
  disk,      \* [Paths -> Nat]: the mtime and size on disk
  entry,     \* [Paths -> [Names -> Nat]]: the entries of a directory
  seen,      \* w.paths
  seenEntry, \* w.dirs
  pending,   \* w.pending: NoChange, or the ages of the burst's first and last change
  queued,    \* [Paths -> Nat]: events of the path in w.events
  phase,     \* "adding", "wait" (for the ticker), "scan", "emit" or "closed"
  todo,      \* paths this tick (or Add) has still to look at
  stated,    \* NoStat, or the directory just statted with what was found
  edits,     \* edits made so far, and the last one's number
  owed,      \* [Paths -> BOOLEAN]: an edit made since Add is not yet reported
  made,      \* [Paths -> Nat]: edits of the path
  emitted    \* [Paths -> Nat]: events emitted for the path

diskVars  == <<disk, entry, edits, owed, made>>
watcherVars == <<seen, seenEntry, pending, queued, emitted>>
watchFileVars == <<diskVars, watcherVars, phase, todo, stated>>

NoChange == [first |-> 0, last |-> 0, on |-> FALSE]
NoStat   == [path |-> "none", found |-> 0]
Empty    == [n \in Names |-> 0]
Oldest   == IF MaxWait > Debounce THEN MaxWait ELSE Debounce

WatchFrom(ph, paths) ==
  /\ disk = [p \in Paths |-> 1] /\ entry = [p \in Paths |-> Empty]
  /\ seen = [p \in Paths |-> 0] /\ seenEntry = [p \in Paths |-> Empty]
  /\ pending = [p \in Paths |-> NoChange]
  /\ queued = [p \in Paths |-> 0] /\ emitted = [p \in Paths |-> 0]
  /\ phase = ph /\ todo = paths /\ stated = NoStat
  /\ edits = 1 /\ owed = [p \in Paths |-> FALSE] /\ made = [p \in Paths |-> 0]
WatchInit == WatchFrom("adding", Paths)

(***************************************************************************)
(* The file system (external)                                              *)
(***************************************************************************)
Touched(p) ==
  /\ edits <= MaxEdits /\ edits' = edits + 1
  /\ made' = [made EXCEPT ![p] = @ + 1]
  /\ owed' = [owed EXCEPT ![p] = @ \/ phase # "adding"]
  /\ UNCHANGED <<watcherVars, phase, todo, stated>>

\* A write to a file, or its return after a removal.
WriteFile(p) ==
  /\ p \notin Dirs /\ disk' = [disk EXCEPT ![p] = edits + 1]
  /\ Touched(p) /\ UNCHANGED entry

\* Neither stat nor the loop reports a path that is gone.
RemoveFile(p) ==
  /\ p \notin Dirs /\ disk[p] # 0 /\ phase # "adding"
  /\ disk' = [disk EXCEPT ![p] = 0]
  /\ UNCHANGED <<entry, edits, owed, made, watcherVars, phase, todo, stated>>

\* A write to an entry leaves the directory alone; creating or removing one
\* changes the directory's mtime too.
WriteEntry(p, n) ==
  /\ p \in Dirs /\ entry' = [entry EXCEPT ![p][n] = edits + 1]
  /\ disk' = IF entry[p][n] = 0 THEN [disk EXCEPT ![p] = edits + 1] ELSE disk
  /\ Touched(p)
RemoveEntry(p, n) ==
  /\ p \in Dirs /\ entry[p][n] # 0
  /\ entry' = [entry EXCEPT ![p][n] = 0] /\ disk' = [disk EXCEPT ![p] = edits + 1]
  /\ Touched(p)

(***************************************************************************)
(* Add: stat, and for a directory a snapshot after it                      *)
(***************************************************************************)
AddStat(p) ==
  /\ phase = "adding" /\ p \in todo /\ stated = NoStat
  /\ seen' = [seen EXCEPT ![p] = disk[p]]
  /\ IF p \in Dirs THEN stated' = [path |-> p, found |-> disk[p]] /\ UNCHANGED todo
                   ELSE todo' = todo \ {p} /\ UNCHANGED stated
  /\ UNCHANGED <<diskVars, seenEntry, pending, queued, emitted, phase>>

AddSnapshot ==
  /\ phase = "adding" /\ stated # NoStat
  /\ seenEntry' = [seenEntry EXCEPT ![stated.path] = entry[stated.path]]
  /\ todo' = todo \ {stated.path} /\ stated' = NoStat
  /\ UNCHANGED <<diskVars, seen, pending, queued, emitted, phase>>

Start ==
  /\ phase = "adding" /\ todo = {} /\ phase' = "wait"
  /\ UNCHANGED <<diskVars, watcherVars, todo, stated>>

(***************************************************************************)
(* The tick                                                                *)
(***************************************************************************)
Aged(c) == IF ~c.on THEN c
           ELSE [c EXCEPT !.first = Min({@ + 1, Oldest}), !.last = Min({@ + 1, Oldest})]

TickBegin ==
  /\ phase = "wait" /\ phase' = "scan" /\ todo' = Paths
  /\ pending' = [p \in Paths |-> Aged(pending[p])]
  /\ UNCHANGED <<diskVars, seen, seenEntry, queued, emitted, stated>>

\* A change starts a burst or extends it: first stays, last is now.
Burst(c) == [first |-> IF c.on THEN c.first ELSE 0, last |-> 0, on |-> TRUE]

\* A path that cannot be statted is passed over.
StatPath(p) ==
  /\ phase = "scan" /\ p \in todo /\ stated = NoStat
  /\ IF p \in Dirs
     THEN stated' = [path |-> p, found |-> disk[p]] /\ UNCHANGED <<todo, seen, pending>>
     ELSE /\ todo' = todo \ {p} /\ UNCHANGED stated
          /\ IF disk[p] \notin {0, seen[p]}
             THEN seen' = [seen EXCEPT ![p] = disk[p]]
                  /\ pending' = [pending EXCEPT ![p] = Burst(@)]
             ELSE UNCHANGED <<seen, pending>>
  /\ UNCHANGED <<diskVars, seenEntry, queued, emitted, phase>>

\* dirChanged: the snapshot is replaced only when an entry differs.
Snapshot(p) == entry[p]

ScanDir ==
  /\ phase = "scan" /\ stated # NoStat
  /\ LET p == stated.path IN
     /\ IF stated.found # seen[p] \/ entry[p] # seenEntry[p]
        THEN seen' = [seen EXCEPT ![p] = stated.found]
             /\ pending' = [pending EXCEPT ![p] = Burst(@)]
        ELSE UNCHANGED <<seen, pending>>
     /\ seenEntry' = [seenEntry EXCEPT ![p] = Snapshot(p)]
     /\ todo' = todo \ {p}
  /\ stated' = NoStat
  /\ UNCHANGED <<diskVars, queued, emitted, phase>>

ScanDone ==
  /\ phase = "scan" /\ todo = {} /\ phase' = "emit"
  /\ UNCHANGED <<diskVars, watcherVars, todo, stated>>

Due(p) == /\ pending[p].on
          /\ \/ pending[p].last >= Debounce
             \/ MaxWait > 0 /\ pending[p].first >= MaxWait
Room == BufCap - SumFunction(queued)

Unseen(p) == \/ disk[p] \notin {0, seen[p]}
             \/ p \in Dirs /\ entry[p] # seenEntry[p]

\* What the emission clears: an entry that found no room stays for the next tick.
Cleared_AllDue(S) == {p \in Paths : Due(p)}
Cleared(S) == S

Emit ==
  /\ phase = "emit" /\ phase' = "wait"
  /\ \E S \in SUBSET {p \in Paths : Due(p)} :
       /\ Cardinality(S) = Min({Room, Cardinality({p \in Paths : Due(p)})})
       /\ queued'  = [p \in Paths |-> queued[p] + (IF p \in S THEN 1 ELSE 0)]
       /\ emitted' = [p \in Paths |-> emitted[p] + (IF p \in S THEN 1 ELSE 0)]
       /\ pending' = [p \in Paths |-> IF p \in Cleared(S) THEN NoChange ELSE pending[p]]
       /\ owed'    = [p \in Paths |-> owed[p] /\ (p \notin S \/ Unseen(p))]
  /\ UNCHANGED <<disk, entry, edits, made, seen, seenEntry, todo, stated>>

\* The consumer in startWatchForProcess takes an event and restarts.
Take(p) ==
  /\ queued[p] > 0 /\ queued' = [queued EXCEPT ![p] = @ - 1]
  /\ UNCHANGED <<diskVars, seen, seenEntry, pending, emitted, phase, todo, stated>>

\* Close waits for the loop, which looks at its context between ticks.
CloseWatcher ==
  /\ phase = "wait" /\ phase' = "closed"
  /\ UNCHANGED <<diskVars, watcherVars, todo, stated>>

FileStep == \E p \in Paths : \/ WriteFile(p) \/ RemoveFile(p)
                             \/ \E n \in Names : WriteEntry(p, n) \/ RemoveEntry(p, n)
PollStep == \/ TickBegin \/ ScanDir \/ ScanDone \/ Emit
            \/ \E p \in Paths : StatPath(p)
WatchNext ==
  \/ FileStep \/ AddSnapshot \/ Start \/ PollStep \/ CloseWatcher
  \/ \E p \in Paths : AddStat(p) \/ Take(p)

\* The ticker ticks and the consumer takes events.
WatchFairness ==
  WF_watchFileVars(PollStep) /\ \A p \in Paths : WF_watchFileVars(Take(p))
WatchSpec == WatchInit /\ [][WatchNext]_watchFileVars /\ WatchFairness

(***************************************************************************)
(* Properties                                                              *)
(***************************************************************************)
\* One edit never gives two events, so one save never restarts a process twice,
\* also when stat and snapshot see two sides of the same edit.
OneEventPerEdit == \A p \in Paths : emitted[p] <= made[p]

\* Every edit after Add is reported once the burst is over, unless the watcher
\* is closed or the file is gone: not lost to a full channel, to the window
\* between the stat of a directory and its snapshot, or to a later edit; and it
\* is not reported twice (watch.go: poll, snapshotDir, Add).
ChangeReported ==
  /\ []OneEventPerEdit
  /\ \A p \in Paths : owed[p] ~> (~owed[p] \/ phase = "closed" \/ disk[p] = 0)
===============================================================================
