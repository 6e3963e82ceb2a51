------------------------------ MODULE MCServing ------------------------------
(***************************************************************************)
(* The daemon's endpoint, its start and end, and the file watcher, in one  *)
(* run.  They share no state here (Serving sees a watcher as "on" or       *)
(* "off", Endpoint sees serving as one step), so a behaviour is one of     *)
(* them and part says which.                                               *)
(***************************************************************************)
EXTENDS Serving, Watch, Endpoint

VARIABLE part

\* Two minor versions and a major one.
V(major, minor) == [major |-> major, minor |-> minor]
VersionsDef == {V(1, 0), V(1, 1), V(2, 0)}

\* A part that is not run has come to its end.
Done(p) ==
  /\ (p # "serve" => ServeFrom("failed", "done"))
  /\ (p # "watch" => WatchFrom("closed", {}))
  /\ (p # "endpoint" => EndpointFrom({NoName}, {"private"}))
MCInit ==
  \/ part = "serve" /\ ServeInit /\ Done(part)
  \/ part = "watch" /\ WatchInit /\ Done(part)
  \/ part = "endpoint" /\ EndpointInit /\ Done(part)
MCNext ==
  /\ UNCHANGED part
  /\ \/ part = "serve" /\ ServeNext /\ UNCHANGED <<watchFileVars, endpointVars>>
     \/ part = "watch" /\ WatchNext /\ UNCHANGED <<vars, endpointVars>>
     \/ part = "endpoint" /\ EndpointNext /\ UNCHANGED <<vars, watchFileVars>>

Spec == /\ MCInit /\ [][MCNext]_<<vars, watchFileVars, endpointVars, part>>
        /\ ServeFairness /\ WatchFairness
===============================================================================
