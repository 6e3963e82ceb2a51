-------------------------------- MODULE Audit --------------------------------
(***************************************************************************)
(* The audit trail (internal/audit): an append-only table, bounded by age  *)
(* and by nothing else, in which a handler of the daemon records at its    *)
(* end what it did for whom.                                               *)
(*                                                                         *)
(* A handler appends under the context of its request and drops the error, *)
(* so what a client does meanwhile and what the database answers decide    *)
(* whether there is a record; the handler's answer is the same.            *)
(***************************************************************************)
EXTENDS Naturals, FiniteSets

CONSTANTS Asking,      \* clients, each a principal of its own
          Audited,     \* IDs of processes
          AuditPage,   \* the limit of a query
          MaxAge,      \* DefaultMaxAge, in ticks
          MaxNow_,     \* bound: ticks
          MaxAsked,    \* bound: requests
          MaxDbErrors  \* bound: failed statements

\* A process has an id: the empty target of a query means every record.
ASSUME AuditAssumption ==
  "" \notin Audited /\ {AuditPage, MaxAge, MaxNow_, MaxAsked, MaxDbErrors} \subseteq Nat

VARIABLES
  trail,   \* the table: [seq, by, op, target, denied, at]
  recseq,  \* its AUTOINCREMENT counter
  hours,
  life,   \* [Audited -> "none", "up", "down" or "gone"]: the process and its row
  task,    \* [Asking -> record]: the request of each client
  told,    \* history: the effects and refusals whose answer a client received
  asked, dbErrors
auditVars == <<trail, recseq, hours, life, task, told, asked, dbErrors>>

AuditOps == {"start", "stop", "restart", "remove"}
NoTask == [step |-> "idle", op |-> "", target |-> "", denied |-> FALSE, open |-> TRUE,
           after |-> 0, acted |-> 0]

AuditInit ==
  /\ trail = {} /\ recseq = 0 /\ hours = 0 /\ told = {} /\ asked = 0 /\ dbErrors = 0
  /\ life = [t \in Audited |-> "none"] /\ task = [c \in Asking |-> NoTask]

-----------------------------------------------------------------------------
(* The log                                                                    *)

\* Query: the newest records about the target (every record without one).
Answer_(target, n) ==
  LET about == {r \in trail : target \in {"", r.target}}
  IN  {r \in about : Cardinality({q \in about : q.seq > r.seq}) < n}

\* sweep: only age counts.
Kept_ByCount(T) == {r \in T : Cardinality({q \in T : q.seq > r.seq}) < AuditPage}
Kept(T) == {r \in T : r.at + MaxAge >= hours}

DbFails == dbErrors < MaxDbErrors /\ dbErrors' = dbErrors + 1
Step(c, s) == task' = [task EXCEPT ![c].step = s]

\* Append inserts under the time and the next number, then sweeps.  A cancelled
\* context or a database error ends it before or after the insert, and the handler
\* goes on to its answer.
Insert(c) ==
  /\ task[c].step = "insert"
  /\ \/ /\ task[c].open /\ recseq' = recseq + 1
        /\ trail' = trail \cup {[seq |-> recseq', by |-> c, op |-> task[c].op, target |-> task[c].target,
                                 denied |-> task[c].denied, at |-> hours]}
        /\ Step(c, "sweep") /\ UNCHANGED <<told, dbErrors>>
     \/ /\ IF task[c].open THEN DbFails ELSE UNCHANGED dbErrors
        /\ task' = [task EXCEPT ![c] = NoTask]
        /\ UNCHANGED <<trail, recseq, told>>
  /\ UNCHANGED <<hours, life, asked>>
Sweep(c) ==
  /\ task[c].step = "sweep"
  /\ \/ task[c].open /\ trail' = Kept(trail) /\ UNCHANGED dbErrors
     \/ UNCHANGED trail /\ IF task[c].open THEN DbFails ELSE UNCHANGED dbErrors
  /\ told' = IF ~task[c].open THEN told
             ELSE told \cup {[by |-> c, op |-> task[c].op, target |-> task[c].target, denied |-> task[c].denied,
                              after |-> task[c].after, acted |-> task[c].acted]}
  /\ task' = [task EXCEPT ![c] = NoTask]
  /\ UNCHANGED <<recseq, hours, life, asked>>

-----------------------------------------------------------------------------
(* The handlers                                                               *)

\* A request that its handler lets through, and one it denies: the target of that
\* record is the method.
Ask(c, op, t) ==
  /\ task[c] = NoTask /\ asked < MaxAsked /\ asked' = asked + 1
  /\ IF op = "start" THEN life[t] = "none" ELSE life[t] \in {"up", "down"}
  /\ LET asking == [NoTask EXCEPT !.step = "act", !.op = op, !.target = t] IN
     \/ task' = [task EXCEPT ![c] = asking]
     \/ task' = [task EXCEPT ![c] = [asking EXCEPT !.step = "insert", !.target = op, !.denied = TRUE,
                                                   !.after = recseq, !.acted = hours]]
  /\ UNCHANGED <<trail, recseq, hours, life, told, dbErrors>>

\* The handler's first change: mgr.Start or mgr.Stop.  An error of it ends start
\* and stop; restart and remove go on whatever Stop answers, and stop has nothing
\* to do for a process that is down.
Next_(c) == IF task[c].op = "stop" THEN "insert" ELSE "finish"
Act(c) ==
  /\ task[c].step = "act"
  /\ LET t == task[c].target IN
     \/ /\ task[c].op = "stop" => life[t] = "up"
        /\ life' = [life EXCEPT ![t] = IF task[c].op = "start" THEN "up" ELSE IF @ = "up" THEN "down" ELSE @]
        /\ task' = [task EXCEPT ![c].step = Next_(c), ![c].after = recseq, ![c].acted = hours]
     \/ /\ task[c].op \in {"start", "stop"} /\ task' = [task EXCEPT ![c] = NoTask]
        /\ UNCHANGED life
  /\ UNCHANGED <<trail, recseq, hours, told, asked, dbErrors>>

\* The second change: Create, Delete, or the launch of the successor.  If it fails
\* the answer is an error, and what the first one did has no record.
Complete(c) ==
  /\ task[c].step = "finish"
  /\ LET t == task[c].target IN
     \/ /\ life' = [life EXCEPT ![t] = IF task[c].op = "remove" THEN "gone" ELSE @]
        /\ Step(c, "insert")
     \/ /\ life' = [life EXCEPT ![t] = IF task[c].op = "start" THEN "gone" ELSE @]
        /\ task' = [task EXCEPT ![c] = NoTask]
  /\ UNCHANGED <<trail, recseq, hours, told, asked, dbErrors>>

HangUp(c) ==
  /\ task[c].step # "idle" /\ task[c].open /\ task' = [task EXCEPT ![c].open = FALSE]
  /\ UNCHANGED <<trail, recseq, hours, life, told, asked, dbErrors>>
DaemonDies ==
  /\ task' = [c \in Asking |-> NoTask]
  /\ UNCHANGED <<trail, recseq, hours, life, told, asked, dbErrors>>
Time ==
  /\ hours < MaxNow_ /\ hours' = hours + 1
  /\ UNCHANGED <<trail, recseq, life, task, told, asked, dbErrors>>

AuditNext ==
  \/ \E c \in Asking : \/ \E op \in AuditOps, t \in Audited : Ask(c, op, t)
                       \/ Act(c) \/ Complete(c) \/ Insert(c) \/ Sweep(c) \/ HangUp(c)
  \/ DaemonDies \/ Time
AuditSpec == AuditInit /\ [][AuditNext]_auditVars

-----------------------------------------------------------------------------
\* Who was told that the daemon did something, or refused to, finds it in an audit
\* query about its target, by its own name and made after the deed, until it is
\* older than the retention or that many newer records of the target have come;
\* other requests, crashes, clients that hang up and sweeps do not take it away
\* (audit.go:87 "never truncates by count", server.go:1073 "every mutation writes
\* an audit record").  What it cannot say anything of are the requests that
\* answer an error, and an insert the database refused.
AuditTells ==
  \A e \in told : hours <= e.acted + MaxAge =>
    LET own == {r \in trail : /\ r.by = e.by /\ r.op = e.op /\ r.denied = e.denied
                              /\ r.target = e.target /\ r.seq > e.after}
    IN  \E r \in own :
          \/ r \in Answer_(e.target, AuditPage)
          \/ Cardinality({q \in trail : q.target = e.target /\ q.seq > r.seq}) >= AuditPage
===============================================================================
