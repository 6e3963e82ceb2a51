------------------------------- MODULE Sessions -------------------------------
(***************************************************************************)
(* Client sessions and what hangs on them: the session registry            *)
(* (internal/session) and the processes started with stop_on_disconnect    *)
(* that session.end takes down (internal/daemon/handlers_ext.go).          *)
(*                                                                         *)
(* A client names its session by a harness id of its own or by the         *)
(* internal id the daemon gave it, so the same session has two names and   *)
(* every map keyed by "the session" may hold either.  A request is a       *)
(* process of its own: its critical sections interleave with the others'.  *)
(***************************************************************************)
EXTENDS Naturals, FiniteSets, FiniteSetsExt, Functions

CONSTANTS Harness,  \* harness ids
          Ids,      \* internal session ids, minted once each (bound)
          Reqs,     \* requests in flight
          Procs     \* process ids, one start each (bound)

None == "none"
Keys == Harness \cup Ids  \* what a request may carry; an ended id counts as a harness id

\* Internal ids are generated, so no client invents one; the markers are neither.
ASSUME SessionsAssumption == Harness \cap Ids = {} /\ {None, "anon"} \cap Keys = {}

VARIABLES
  byID,       \* [Ids -> Keys \cup {None, "anon"}]: the live session's harness id
  byHarness,  \* [Keys -> Ids \cup {None}]
  minted,     \* ids in use or used up
  known,      \* ids some client has been told
  req,        \* [Reqs -> record]: where a request is and what it holds
  child,      \* [Procs -> "none", "live" or "dead"]
  sod,        \* [Procs -> Keys \cup {None}]: s.stopOnDisconnect
  unstopped   \* processes whose Stop failed once

sessVars == <<byID, byHarness, minted, known>>
procVars == <<child, sod, unstopped>>
sessionVars == <<sessVars, req, procVars>>

Idle == [at |-> "idle", key |-> None, keys |-> {}, sid |-> None, todo |-> {},
         then |-> None, owed |-> {}]

SessionsInit ==
  /\ byID = [i \in Ids |-> None] /\ byHarness = [k \in Keys |-> None]
  /\ minted = {} /\ known = {}
  /\ req = [r \in Reqs |-> Idle]
  /\ child = [p \in Procs |-> "none"] /\ sod = [p \in Procs |-> None]
  /\ unstopped = {}

Live(k) == k \in Ids /\ byID[k] # None

(***************************************************************************)
(* session.Registry.  Open looks the harness id up, lets the lock go to    *)
(* mint an id, and looks again before it inserts.                          *)
(***************************************************************************)
\* What a request still holds once its session is open.
Opened(q, then, i) == [q EXCEPT !.at = then, !.then = None, !.key = None, !.sid = i]

\* ensureSession: a live internal id is taken as it is, anything else is a
\* harness id.
Lookup(r, q, then) ==
  LET found == IF q.key = "anon" THEN None
               ELSE IF Live(q.key) THEN q.key ELSE byHarness[q.key] IN
  req' = [req EXCEPT ![r] = IF found # None THEN Opened(q, then, found)
                            ELSE [q EXCEPT !.at = "mint", !.then = then]]

\* The second look under the lock.
Recheck_Skipped(k) == FALSE
Recheck(k) == k # "anon" /\ byHarness[k] # None

Mint(r) ==
  /\ req[r].at = "mint"
  /\ LET k == req[r].key IN
     \/ /\ Recheck(k)
        /\ req' = [req EXCEPT ![r] = Opened(@, req[r].then, byHarness[k])]
        /\ UNCHANGED <<byID, byHarness, minted>>
     \/ /\ ~Recheck(k)
        /\ \E i \in Ids \ minted :
             /\ minted' = minted \cup {i}
             /\ byID' = [byID EXCEPT ![i] = k]
             /\ byHarness' = IF k = "anon" THEN byHarness
                             ELSE [byHarness EXCEPT ![k] = i]
             /\ req' = [req EXCEPT ![r] = Opened(@, req[r].then, i)]
  /\ UNCHANGED <<known, procVars>>

\* End(internalID): whether it existed, and both indexes without it.
Ended(i) ==
  /\ byHarness' = [k \in Keys |-> IF byID[i] = k THEN None ELSE byHarness[k]]
  /\ byID' = [byID EXCEPT ![i] = None]
  /\ UNCHANGED <<minted, known>>

(***************************************************************************)
(* Requests                                                                *)
(***************************************************************************)
Finish(r) == req' = [req EXCEPT ![r] = Idle]

\* The keys a client can send: its harness ids and the ids it was told.
Sendable == Harness \cup known

\* session.info, which opens an anonymous session for a request without a key.
Info(r, k) ==
  /\ req[r].at = "idle" /\ k \in Sendable \cup {"anon"}
  /\ Lookup(r, [Idle EXCEPT !.key = k], "answer")
  /\ UNCHANGED <<sessVars, procVars>>
InfoDone(r) ==
  /\ req[r].at = "answer" /\ known' = known \cup {req[r].sid} /\ Finish(r)
  /\ UNCHANGED <<byID, byHarness, minted, procVars>>

\* session.end, first part: the Get by internal id collects both names.  The session is
\* named by the request, or by its payload when the request carries no key.
Named(i) == {i, byID[i]} \cap Keys
Aliases_KeyOnly(k) == {k}
Aliases(k) == IF Live(k) THEN Named(k) ELSE {k}

EndGet(r, k) ==
  /\ req[r].at = "idle" /\ k \in Sendable
  /\ \E named \in {"end", "endPayload"} :
       req' = [req EXCEPT ![r] = [Idle EXCEPT !.at = named, !.key = k, !.keys = Aliases(k)]]
  /\ UNCHANGED <<sessVars, procVars>>

\* Then End; when there was none, ensureSession and End what that gives: the key of
\* the request counts here, so a payload's opens an anonymous session.  From here the request owes the session it ended every process registered under
\* either of its names.
Owed(i) == {p \in Procs : sod[p] \in Named(i) /\ child[p] = "live"}

EndSession(r) ==
  /\ req[r].at \in {"end", "endPayload"}
  /\ IF Live(req[r].key)
     THEN /\ req' = [req EXCEPT ![r].at = "check", ![r].key = None, ![r].sid = req[r].key,
                                ![r].owed = Owed(req[r].key)]
          /\ Ended(req[r].key)
     ELSE /\ Lookup(r, IF req[r].at = "end" THEN req[r] ELSE [req[r] EXCEPT !.key = "anon"], "opened")
          /\ UNCHANGED sessVars
  /\ UNCHANGED procVars

EndOpened(r) ==
  /\ req[r].at = "opened"
  /\ LET i == req[r].sid IN
     /\ req' = [req EXCEPT ![r].at = "check", ![r].keys = @ \cup {i},
                           ![r].owed = IF Live(i) THEN Owed(i) ELSE {}]
     /\ IF Live(i) THEN Ended(i) ELSE UNCHANGED sessVars
  /\ UNCHANGED procVars

\* The driver's Stop of a process: it ends the child, or fails over a live one.
StopProc(p) ==
  \/ child' = [child EXCEPT ![p] = "dead"] /\ unstopped' = unstopped \ {p}
  \/ child[p] = "live" /\ unstopped' = unstopped \cup {p} /\ UNCHANGED child

SodIDs(keys) == {p \in Procs : sod[p] \in keys}

\* Stopping anything needs process:stop, which the client may not have; the
\* session is already gone.
EndCheck(r) ==
  /\ req[r].at = "check"
  /\ \/ SodIDs(req[r].keys) # {} /\ Finish(r)
     \/ req' = [req EXCEPT ![r].at = "collect"]
  /\ UNCHANGED <<sessVars, procVars>>

EndCollect(r) ==
  /\ req[r].at = "collect"
  /\ req' = [req EXCEPT ![r].at = "stop", ![r].todo = SodIDs(req[r].keys), ![r].keys = {}]
  /\ UNCHANGED <<sessVars, procVars>>

\* One Stop, the row's update and the removal from the map.  A process whose
\* Stop fails keeps its entry.
EndStop(r) ==
  /\ req[r].at = "stop"
  /\ \E p \in req[r].todo :
       /\ req' = [req EXCEPT ![r].todo = @ \ {p}]
       /\ StopProc(p)
       /\ sod' = IF p \in unstopped' THEN sod ELSE [sod EXCEPT ![p] = None]
  /\ UNCHANGED sessVars

EndReply(r) ==
  /\ req[r].at = "stop" /\ req[r].todo = {} /\ known' = known \cup {req[r].sid} /\ Finish(r)
  /\ UNCHANGED <<byID, byHarness, minted, procVars>>

(***************************************************************************)
(* Processes that carry the flag                                           *)
(***************************************************************************)
\* doStart launches and stores, and registers the flag in a later section.
StartLaunch(r, p, k) ==
  /\ req[r].at = "idle" /\ child[p] = "none" /\ k \in Sendable
  /\ child' = [child EXCEPT ![p] = "live"]
  /\ req' = [req EXCEPT ![r] = [Idle EXCEPT !.at = "register", !.key = k, !.todo = {p}]]
  /\ UNCHANGED <<sessVars, sod, unstopped>>
StartRegister(r) ==
  /\ req[r].at = "register"
  /\ sod' = [p \in Procs |-> IF p \in req[r].todo THEN req[r].key ELSE sod[p]]
  /\ Finish(r)
  /\ UNCHANGED <<sessVars, child, unstopped>>

\* doRestart: Stop (its error is dropped), the flag read, the successor
\* launched; then both ids change over under mu.
RestartLaunch(r, p, q) ==
  /\ req[r].at = "idle" /\ child[p] # "none" /\ child[q] = "none"
  /\ \/ child' = [child EXCEPT ![p] = "dead", ![q] = "live"] /\ unstopped' = unstopped \ {p}
     \/ /\ child[p] = "live" /\ unstopped' = unstopped \cup {p}
        /\ child' = [child EXCEPT ![q] = "live"]
  /\ req' = [req EXCEPT ![r] = [Idle EXCEPT
               !.at = "moveFlag", !.key = sod[p], !.sid = p, !.todo = {q}]]
  /\ UNCHANGED <<sessVars, sod>>
RestartMove(r) ==
  /\ req[r].at = "moveFlag"
  /\ sod' = [p \in Procs |-> IF p \in req[r].todo /\ req[r].key # None THEN req[r].key
                             ELSE IF p = req[r].sid THEN None ELSE sod[p]]
  /\ Finish(r)
  /\ UNCHANGED <<sessVars, child, unstopped>>

\* doRemove, and a start that replaces: Stop, its error dropped, and the entry.
RemoveProc(p) ==
  /\ child[p] # "none" /\ StopProc(p)
  /\ sod' = [sod EXCEPT ![p] = None]
  /\ UNCHANGED <<sessVars, req>>

SessionsNext ==
  \/ \E r \in Reqs :
       \/ \E k \in Keys \cup {"anon"} : Info(r, k)
       \/ \E k \in Keys : \/ EndGet(r, k)
                          \/ \E p \in Procs : StartLaunch(r, p, k)
       \/ Mint(r) \/ InfoDone(r) \/ EndSession(r) \/ EndOpened(r) \/ EndCheck(r)
       \/ EndCollect(r) \/ EndStop(r) \/ EndReply(r)
       \/ StartRegister(r) \/ RestartMove(r)
       \/ \E p, q \in Procs : RestartLaunch(r, p, q)
  \/ \E p \in Procs : RemoveProc(p)

SessionsSpec == SessionsInit /\ [][SessionsNext]_sessionVars

(***************************************************************************)
(* Properties                                                              *)
(***************************************************************************)
\* A harness id keeps one identity however many requests open it at once: the
\* two indexes of the registry describe the same sessions.
SessionIndex ==
  /\ \A k \in Keys : byHarness[k] # None => byID[byHarness[k]] = k
  /\ \A i \in Ids : byID[i] \in Keys => byHarness[byID[i]] = i

\* When session.end is about to answer, no process that was registered under either
\* name of the session it ended is still running, except one whose Stop failed.
SodSettled ==
  \A r \in Reqs : req[r].at = "stop" /\ req[r].todo = {} =>
    \A p \in req[r].owed : child[p] = "live" => p \in unstopped
===============================================================================
