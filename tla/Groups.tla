-------------------------------- MODULE Groups --------------------------------
(***************************************************************************)
(* Process groups: the order in which members start and stop               *)
(* (internal/group/group.go) and the group.start, group.stop and           *)
(* group.restart calls that walk it member by member                       *)
(* (internal/daemon/handlers_ext.go).                                      *)
(*                                                                         *)
(* A call is not atomic: it resolves the group, computes the order from    *)
(* the registry in a second critical section, and then treats one member   *)
(* after the other whatever became of the one before, while other calls    *)
(* run and members exit by themselves.                                     *)
(***************************************************************************)
EXTENDS Naturals, Sequences, FiniteSets, SequencesExt

CONSTANTS Members,   \* member names in the order of the create payload, a sequence
          DependsOn, \* the depends_on lists offered to group.create
          Calls      \* lifecycle calls in flight

Names == Range(Members)
NoGroup == <<>>

\* The create payload is checked for repeated names before anything else.  A
\* group without members has no order to keep.
ASSUME GroupsAssumption ==
  /\ Members \in Seq(STRING) /\ IsInjective(Members)
  /\ \A g \in DependsOn : DOMAIN g = Names /\ \A m \in Names : g[m] \in Seq(STRING)
  /\ NoGroup \notin DependsOn

Position(m) == CHOOSE i \in DOMAIN Members : Members[i] = m

VARIABLES
  group,    \* the registered depends_on lists, or NoGroup
  member,   \* [Names -> "none" (no row), "running" or "exited"]
  gcall     \* [Calls -> record]
groupVars == <<group, member, gcall>>

Free == [op |-> "none", deps |-> NoGroup, order |-> <<>>, done |-> <<>>]

(***************************************************************************)
(* startOrder: Kahn's algorithm over indegree counters.  doGroupCreate     *)
(* numbers the members, so the tie-break is the payload's order.           *)
(***************************************************************************)
Deps(g, m) == Range(g[m])

\* How often m stands in the list of the dependents of d: once, however often
\* m names d.
Edges_Counted(g, d, m) == Cardinality({i \in DOMAIN g[m] : g[m][i] = d})
Edges(g, d, m) == IF d \in Deps(g, m) THEN 1 ELSE 0

Pop(g, s) ==
  IF s.ready = {} THEN s
  ELSE LET n == CHOOSE x \in s.ready : \A y \in s.ready : Position(x) <= Position(y)
           freed == {m \in Names : Edges(g, n, m) > 0 /\ s.indegree[m] \in 1..Edges(g, n, m)}
       IN [out |-> Append(s.out, n),
           ready |-> (s.ready \ {n}) \cup freed,
           indegree |-> [m \in Names |-> s.indegree[m] - Edges(g, n, m)]]

KahnStart(g) ==
  [out |-> <<>>, ready |-> {m \in Names : g[m] = <<>>},
   indegree |-> [m \in Names |-> Cardinality(Deps(g, m))]]

\* A round takes one member from the queue, as long as there is one.
Kahn(g) ==
  LET run[n \in 0..Len(Members)] == IF n = 0 THEN KahnStart(g) ELSE Pop(g, run[n - 1])
  IN run[Len(Members)].out

\* A self-dependency, an unknown name or a cycle is an error.
WellFormed(g) == \A m \in Names : Deps(g, m) \subseteq Names \ {m}
StartOrder(g) == Kahn(g)
Valid(g) == WellFormed(g) /\ Len(Kahn(g)) = Len(Members)

Accepted == {g \in DependsOn : Valid(g)}

OrderOf(g, op) == IF op = "stop" THEN Reverse(StartOrder(g)) ELSE StartOrder(g)

(***************************************************************************)
(* The registry and the calls                                              *)
(***************************************************************************)
GroupsInit ==
  /\ group = NoGroup
  /\ member \in [Names -> {"none", "running", "exited"}]
  /\ gcall = [c \in Calls |-> Free]

\* Create validates the graph under the registry's lock.
GroupCreate ==
  /\ group = NoGroup
  /\ \E g \in Accepted : group' = g
  /\ UNCHANGED <<member, gcall>>
GroupRemove ==
  /\ group # NoGroup /\ group' = NoGroup /\ UNCHANGED <<member, gcall>>

Resolve(c, op) ==
  /\ gcall[c].op = "none" /\ group # NoGroup
  /\ gcall' = [gcall EXCEPT ![c] = [Free EXCEPT !.op = op]]
  /\ UNCHANGED <<group, member>>

\* The order is computed from the registry again; a group removed meanwhile is
\* an error answer.
Order(c) ==
  /\ gcall[c].op # "none" /\ gcall[c].deps = NoGroup
  /\ gcall' = [gcall EXCEPT ![c] =
       IF group = NoGroup THEN Free
       ELSE [@ EXCEPT !.deps = group, !.order = OrderOf(group, gcall[c].op)]]
  /\ UNCHANGED <<group, member>>

\* What one member's step makes of its process.  start leaves a running member
\* alone and restarts any other; each may fail, which is a line in the answer
\* and nothing more.  A name without a row is such a failure.
Treated(op, st) ==
  IF st = "none" THEN {"none"}
  ELSE CASE op = "stop" -> {"exited", st}
         [] op = "start" -> IF st = "running" THEN {st} ELSE {"running", st}
         [] op = "restart" -> {"running", "exited"}

MemberStep(c) ==
  /\ gcall[c].order # <<>>
  /\ LET m == Head(gcall[c].order) IN
     /\ member' \in {[member EXCEPT ![m] = st] : st \in Treated(gcall[c].op, member[m])}
     /\ gcall' = [gcall EXCEPT ![c].order = Tail(@), ![c].done = Append(@, m)]
  /\ UNCHANGED group

Answer(c) ==
  /\ gcall[c].deps # NoGroup /\ gcall[c].order = <<>>
  /\ gcall' = [gcall EXCEPT ![c] = Free] /\ UNCHANGED <<group, member>>

MemberExits(m) ==
  /\ member[m] = "running" /\ member' = [member EXCEPT ![m] = "exited"]
  /\ UNCHANGED <<group, gcall>>

GroupsNext ==
  \/ GroupCreate \/ GroupRemove
  \/ \E c \in Calls : \/ \E op \in {"start", "stop", "restart"} : Resolve(c, op)
                      \/ Order(c) \/ MemberStep(c) \/ Answer(c)
  \/ \E m \in Names : MemberExits(m)

GroupsSpec == GroupsInit /\ [][GroupsNext]_groupVars

(***************************************************************************)
(* Property                                                                *)
(***************************************************************************)
\* Every call comes by every member once, and by a dependency before its
\* dependents when it starts them, after them when it stops them, whatever is
\* repeated in the depends_on lists and whoever removes the group meanwhile.
DependenciesFirst ==
  \A c \in Calls : gcall[c].deps # NoGroup =>
    LET way == gcall[c].done \o gcall[c].order
        first(a, b) == \E i, j \in DOMAIN way : i < j /\ way[i] = a /\ way[j] = b
    IN /\ Len(way) = Len(Members) /\ Range(way) = Names
       /\ \A m \in Names : \A d \in Deps(gcall[c].deps, m) :
            IF gcall[c].op = "stop" THEN first(m, d) ELSE first(d, m)
===============================================================================
