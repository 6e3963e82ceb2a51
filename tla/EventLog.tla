------------------------------ MODULE EventLog ------------------------------
(* The domain-event log of internal/event: an append-only table with a        *)
(* monotonic sequence number, bounded by count and by age.  The table is in    *)
(* SQLite and outlives the daemon.                                             *)
EXTENDS Integers, Sequences, FiniteSets, SequencesExt

CONSTANTS Types,        \* event types
          Procs,        \* process IDs events are about
          AnyProc,      \* the empty process filter of a query
          MaxKeep,      \* event.DefaultMaxEvents: rows the count sweep keeps
          MaxEvents,    \* bound: appends
          MaxFaults     \* bound: failed queries and sweeps

ASSUME LogAssumption ==
  AnyProc \notin Procs /\ MaxKeep \in Nat \ {0} /\ {MaxEvents, MaxFaults} \subseteq Nat

VARIABLES rows,      \* the events table
          lastSeq,   \* its AUTOINCREMENT counter
          faults     \* bounded: database errors so far

logVars == <<rows, lastSeq, faults>>

Seqs(S) == {e.seq : e \in S}
\* The n newest, and the n oldest, rows of S.
Newest(S, n) == {e \in S : Cardinality({f \in S : f.seq > e.seq}) < n}
Oldest(S, n) == {e \in S : Cardinality({f \in S : f.seq < e.seq}) < n}
About(S, proc) == {e \in S : proc = AnyProc \/ e.proc = proc}

\* querySQLNewest and the in-memory query: the newest rows.  The order of an answer,
\* here and below, is that of the numbers.
Query(proc, limit) == Newest(About(rows, proc), limit)

\* querySQLSince: rows after the cursor from the oldest on, so a page never
\* skips what it leaves for the next one.
QuerySince_Newest(c, limit) == Newest({e \in rows : e.seq > c}, limit)
QuerySince(c, limit) == Oldest({e \in rows : e.seq > c}, limit)

\* The count sweep deletes every row at or before the (MaxKeep+1)-th newest.
SweepCount(S) == Newest(S, MaxKeep)

\* The database answers an error.  A query then has no rows to show: Query and
\* QuerySince log it and return none.
DbFails == faults < MaxFaults /\ faults' = faults + 1

\* Bus.Append inserts under the next sequence number and sweeps: whatever is past the
\* age bound, the oldest rows, and then by count.  When a sweep fails the row stays
\* stored, and the older ones it had not deleted yet, although the caller is told of
\* an error.
AppendEvent(t, p) ==
  /\ lastSeq < MaxEvents
  /\ lastSeq' = lastSeq + 1
  /\ \E floor \in 1..lastSeq' :
       LET young == {e \in rows \cup {[seq |-> lastSeq', type |-> t, proc |-> p]} : e.seq >= floor}
       IN \/ rows' = SweepCount(young) /\ UNCHANGED faults
          \/ rows' = young /\ DbFails

LogInit == rows = {} /\ lastSeq = 0 /\ faults = 0
=============================================================================
