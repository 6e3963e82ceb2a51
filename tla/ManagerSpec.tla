---------------------------- MODULE ManagerSpec ----------------------------
(***************************************************************************)
(* What a process driver promises its callers, whatever goes on inside it  *)
(* (internal/process/manager.go): the handle Inspect shows for an id moves *)
(* only along absent -> running -> stopping -> exited, a live instance is  *)
(* never replaced or forgotten, and an id is started again only once its   *)
(* last instance has ended.  The daemon (module Lifecycle) relies on this  *)
(* and on nothing else of a driver.                                        *)
(***************************************************************************)
CONSTANTS Ids, Instances, NoInstance

VARIABLES
  inst,    \* id -> the instance the driver knows under this id
  handle   \* id -> its status, "absent" when there is none

Init ==
  /\ inst = [i \in Ids |-> NoInstance]
  /\ handle = [i \in Ids |-> "absent"]

\* Start succeeds with an instance that no id has.
Launch(i, x) ==
  /\ handle[i] \in {"absent", "exited"}
  /\ \A j \in Ids : inst[j] # x
  /\ inst' = [inst EXCEPT ![i] = x]
  /\ handle' = [handle EXCEPT ![i] = "running"]

\* Start has dropped the finished instance and may still fail.
Forget(i) ==
  /\ handle[i] = "exited"
  /\ inst' = [inst EXCEPT ![i] = NoInstance]
  /\ handle' = [handle EXCEPT ![i] = "absent"]

BeginStop(i) ==
  /\ handle[i] = "running"
  /\ handle' = [handle EXCEPT ![i] = "stopping"]
  /\ UNCHANGED inst

\* The instance ended, stopped or not.
Finish(i) ==
  /\ handle[i] \in {"running", "stopping"}
  /\ handle' = [handle EXCEPT ![i] = "exited"]
  /\ UNCHANGED inst

Next ==
  \E i \in Ids :
    \/ \E x \in Instances : Launch(i, x)
    \/ Forget(i) \/ BeginStop(i) \/ Finish(i)

Spec == Init /\ [][Next]_<<inst, handle>>
=============================================================================
