------------------------- MODULE MCContainerManager -------------------------
(***************************************************************************)
(* Small instances of the container driver, of restart supervision and of  *)
(* the audit trail.  The policy loops see a child only as up, sick or      *)
(* down, the trail sees only what requests do, so a behaviour is one of    *)
(* the three and part says which.  No symmetry: the run also checks a      *)
(* liveness property.                                                      *)
(***************************************************************************)
EXTENDS ContainerManager, Supervise, Audit

VARIABLE part

\* A budget of one with a linear back-off, a budget of two with an exponential
\* one that is capped and jittered, and a policy that is not enabled.
PoliciesDef ==
  {[enabled |-> FALSE, max |-> 1, backoff |-> 1, window |-> 2,
    multiplier |-> 1, maxBackoff |-> 0, jitter |-> FALSE],
   [enabled |-> TRUE, max |-> 1, backoff |-> 1, window |-> 2,
    multiplier |-> 1, maxBackoff |-> 0, jitter |-> FALSE],
   [enabled |-> TRUE, max |-> 2, backoff |-> 1, window |-> 2,
    multiplier |-> 2, maxBackoff |-> 2, jitter |-> TRUE]}

\* The part that is not run keeps one initial state.
MCInit ==
  /\ part \in {"driver", "policy", "audit"} /\ Init /\ SuperviseInit /\ AuditInit
  /\ part # "policy" => loop = "daemon" /\ ~policy.enabled
MCNext ==
  /\ UNCHANGED part
  /\ \/ part = "driver" /\ Next /\ UNCHANGED <<superviseVars, auditVars>>
     \/ part = "policy" /\ SuperviseNext /\ UNCHANGED <<vars, auditVars>>
     \/ part = "audit" /\ AuditNext /\ UNCHANGED <<vars, superviseVars>>

MCSpec ==
  /\ MCInit /\ [][MCNext]_<<part, vars, superviseVars, auditVars>>
  /\ \A c \in Callers : WF_vars(WaitDone(c))
=============================================================================
