------------------------------- MODULE Declare -------------------------------
(***************************************************************************)
(* declare.apply and declare.diff (internal/daemon/handlers_ext.go,        *)
(* internal/declare/apply.go): the services of a pmmcp.yaml against the    *)
(* names of the store.                                                     *)
(*                                                                         *)
(* Apply reads the store once, computes the difference and starts what is  *)
(* missing one service at a time, in the order of the names, ending at the *)
(* first that fails.  Two applies, clients and exits interleave with it.   *)
(***************************************************************************)
EXTENDS Naturals, Sequences, FiniteSets, SequencesExt

CONSTANTS Services, \* the declared names in sorted order, a sequence
          Appliers

Declared == Range(Services)
ASSUME DeclareAssumption == Services \in Seq(Declared)

VARIABLES
  argv,    \* the declared services that have an argv; the others only an image
  row,     \* [Declared -> "absent", "running" or "exited"]: the store's row
  applier, \* [Appliers -> record]; todo holds positions in Services
  dropped  \* names removed from the store since the applier listed it
declareVars == <<argv, row, applier, dropped>>

Resting == [at |-> "idle", todo |-> {}]

DeclareInit ==
  /\ argv \in SUBSET Declared
  /\ row \in [Declared -> {"absent", "running", "exited"}]
  /\ applier = [a \in Appliers |-> Resting]
  /\ dropped = [a \in Appliers |-> {}]

\* DiffServices: any row counts as present, an exited one too.
Missing == {i \in 1..Len(Services) : row[Services[i]] = "absent"}

ApplyList(a) ==
  /\ applier[a].at = "idle"
  /\ applier' = [applier EXCEPT ![a] = [at |-> "apply", todo |-> Missing]]
  /\ dropped' = [dropped EXCEPT ![a] = {}]
  /\ UNCHANGED <<argv, row>>

\* The first service still to create.
First(todo) == CHOOSE i \in todo : \A j \in todo : i <= j
Turn(a) == Services[First(applier[a].todo)]
Rest(todo) == todo \ {First(todo)}

\* The services to create that have no argv are passed over.
Skip(a) ==
  /\ applier[a].at = "apply" /\ applier[a].todo # {}
  /\ Turn(a) \notin argv
  /\ applier' = [applier EXCEPT ![a].todo = Rest(@)]
  /\ UNCHANGED <<argv, row, dropped>>

\* doStart: a name with a process that is not terminal is a conflict; the
\* launch or the store may fail.  Either ends the apply with that error.
AfterFailure_GoesOn(q) == [q EXCEPT !.todo = Rest(@)]
AfterFailure(q) == Resting

StartService(a) ==
  /\ applier[a].at = "apply" /\ applier[a].todo # {}
  /\ LET n == Turn(a) IN
     /\ n \in argv
     /\ \/ /\ row[n] # "running"
           /\ row' = [row EXCEPT ![n] = "running"]
           /\ applier' = [applier EXCEPT ![a].todo = Rest(@)]
        \/ /\ UNCHANGED row
           /\ applier' = [applier EXCEPT ![a] = AfterFailure(@)]
  /\ UNCHANGED <<argv, dropped>>

ApplyDone(a) ==
  /\ applier[a].at = "apply" /\ applier[a].todo = {}
  /\ applier' = [applier EXCEPT ![a].at = "applied"]
  /\ UNCHANGED <<argv, row, dropped>>
ApplyReply(a) ==
  /\ applier[a].at = "applied" /\ applier' = [applier EXCEPT ![a] = Resting]
  /\ UNCHANGED <<argv, row, dropped>>

Exit(n) ==
  /\ row[n] = "running" /\ row' = [row EXCEPT ![n] = "exited"]
  /\ UNCHANGED <<argv, applier, dropped>>
RemoveRow(n) ==
  /\ row[n] # "absent" /\ row' = [row EXCEPT ![n] = "absent"]
  /\ dropped' = [a \in Appliers |-> dropped[a] \cup {n}]
  /\ UNCHANGED <<argv, applier>>

DeclareNext ==
  \/ \E a \in Appliers : \/ ApplyList(a) \/ Skip(a) \/ StartService(a)
                         \/ ApplyDone(a) \/ ApplyReply(a)
  \/ \E n \in Declared : Exit(n) \/ RemoveRow(n)

DeclareSpec == DeclareInit /\ [][DeclareNext]_declareVars

(***************************************************************************)
(* Property                                                                *)
(***************************************************************************)
\* An apply that answers success leaves every declared service that has an argv
\* in the store, unless a client removed it since the apply began.
AppliedMeansPresent ==
  \A a \in Appliers : applier[a].at = "applied" =>
    \A n \in argv : row[n] # "absent" \/ n \in dropped[a]
===============================================================================
