------------------------------ MODULE Endpoint ------------------------------
(* The daemon's private endpoint (internal/ipc): who listens on its socket, and  *)
(* what a client's connection reaches when the daemon behind the socket changes. *)
(*                                                                               *)
(* A socket file is a number, fresh for every bind; 0 is no file.  Only the      *)
(* socket's name is shared: a daemon that removes or unlinks it takes whatever   *)
(* has that name then.                                                           *)
EXTENDS Naturals, FiniteSets

CONSTANTS Daemons,   \* processes that run pmmcpd, one start after the other
          Callers,   \* clients of the daemon
          Versions,  \* API versions: [major, minor]
          MaxBinds   \* bound: sockets ever made

ASSUME EndpointAssumption == MaxBinds \in Nat /\ Versions \subseteq [major : Nat, minor : Nat]

VARIABLES
  dstep,     \* each daemon: "down", "look", "probe", "remove", "bind", "chmod", "serve"
  dver,      \* and its API version
  sock,      \* the socket it listens on, or 0
  name,      \* what the endpoint's path is: [kind: "none", "socket" or "other", at]
  binds,     \* sockets made so far
  dir,       \* the socket's directory: "missing", "private", "open" or "foreign"
  contended, \* two starts went on at once
  cstep,     \* each client: "idle", "hello", "ready" or "call"
  cver,      \* and its API version
  link,      \* the socket its connection reached, or 0
  ran        \* the version of the daemon that last did something for it

dirVars    == <<name, binds, dir>>
daemonVars == <<dstep, dver, sock, dirVars, contended>>
callerVars == <<cstep, cver, link, ran>>
endpointVars == <<daemonVars, callerVars>>

NoVersion == [major |-> 0, minor |-> 0]
NoName == [kind |-> "none", at |-> 0]
Starting(d) == dstep[d] \in {"look", "probe", "remove", "bind", "chmod"}
Listener(i) == {d \in Daemons : sock[d] = i /\ i # 0}

Compatible(client, daemon) == client.major = daemon.major /\ client.minor <= daemon.minor

EndpointFrom(names, dirs) ==
  /\ dstep = [d \in Daemons |-> "down"] /\ dver = [d \in Daemons |-> NoVersion]
  /\ sock = [d \in Daemons |-> 0] /\ binds = 0 /\ contended = FALSE
  /\ name \in names /\ dir \in dirs
  /\ cstep = [c \in Callers |-> "idle"] /\ cver = [c \in Callers |-> NoVersion]
  /\ link = [c \in Callers |-> 0] /\ ran = [c \in Callers |-> NoVersion]
EndpointInit ==
  EndpointFrom({NoName, [kind |-> "other", at |-> 0]}, {"missing", "private", "open", "foreign"})

-----------------------------------------------------------------------------
(* A daemon                                                                   *)

At(d, s) == dstep' = [dstep EXCEPT ![d] = s]

\* A connection ends with its listener; a call that waits on it fails, and so does
\* a Dial whose handshake it was.
Hangup(i) ==
  /\ link' = [c \in Callers |-> IF link[c] = i THEN 0 ELSE link[c]]
  /\ cstep' = [c \in Callers |-> IF link[c] # i THEN cstep[c]
                                 ELSE CASE cstep[c] = "hello" -> "idle" [] cstep[c] = "call" -> "ready" [] OTHER -> cstep[c]]
  /\ UNCHANGED <<cver, ran>>

\* runDaemon.  secureSocketDir: a directory that is not there is made, one that is
\* open to others is tightened, a link or a file in its place ends the start.
BeginStart(d, v) ==
  /\ dstep[d] = "down"
  /\ IF dir = "foreign" THEN UNCHANGED <<dstep, dir>> ELSE At(d, "look") /\ dir' = "private"
  /\ dver' = [dver EXCEPT ![d] = v]
  /\ contended' = (contended \/ \E e \in Daemons : Starting(e))
  /\ UNCHANGED <<sock, name, binds, callerVars>>

\* prepareSocketPath: Lstat.
Look_NoProbe(d) ==
  /\ dstep[d] = "look"
  /\ At(d, CASE name.kind = "none" -> "bind" [] name.kind = "socket" -> "remove" [] OTHER -> "down")
  /\ UNCHANGED <<dver, sock, dirVars, contended, callerVars>>
Look(d) ==
  /\ dstep[d] = "look"
  /\ At(d, CASE name.kind = "none" -> "bind" [] name.kind = "socket" -> "probe" [] OTHER -> "down")
  /\ UNCHANGED <<dver, sock, dirVars, contended, callerVars>>

\* Dial what has the name now: someone who answers ends the start.
Answers == Listener(name.at) # {}
Probe(d) ==
  /\ dstep[d] = "probe"
  /\ At(d, IF Answers THEN "down" ELSE "remove")
  /\ UNCHANGED <<dver, sock, dirVars, contended, callerVars>>

RemoveStale(d) ==
  /\ dstep[d] = "remove"
  /\ At(d, IF name.kind = "none" THEN "down" ELSE "bind")
  /\ name' = NoName
  /\ UNCHANGED <<dver, sock, binds, dir, contended, callerVars>>

\* net.Listen: connections are accepted from here on.
BindSocket(d) ==
  /\ dstep[d] = "bind" /\ binds < MaxBinds
  /\ IF name.kind # "none" THEN At(d, "down") /\ UNCHANGED <<sock, name, binds>>
     ELSE /\ binds' = binds + 1 /\ name' = [kind |-> "socket", at |-> binds + 1]
          /\ sock' = [sock EXCEPT ![d] = binds + 1]
          /\ At(d, "chmod")
  /\ UNCHANGED <<dver, dir, contended, callerVars>>

\* Close unlinks the name before it closes the socket.
Unlisten(d) ==
  /\ sock' = [sock EXCEPT ![d] = 0] /\ name' = (IF name.kind = "socket" THEN NoName ELSE name)
  /\ Hangup(sock[d])

Chmod(d) ==
  /\ dstep[d] = "chmod"
  /\ IF name.kind = "none" THEN At(d, "down") /\ Unlisten(d)
     ELSE At(d, "serve") /\ UNCHANGED <<sock, name, callerVars>>
  /\ UNCHANGED <<dver, binds, dir, contended>>

\* shutdownGRPC closes the listener; what it does besides is module Serving's.
StopListening(d) ==
  /\ dstep[d] = "serve" /\ At(d, "down") /\ Unlisten(d)
  /\ UNCHANGED <<dver, binds, dir, contended>>

Crash(d) ==
  /\ dstep[d] # "down" /\ At(d, "down") /\ sock' = [sock EXCEPT ![d] = 0]
  /\ IF sock[d] # 0 THEN Hangup(sock[d]) ELSE UNCHANGED callerVars
  /\ UNCHANGED <<dver, dirVars, contended>>

-----------------------------------------------------------------------------
(* A client                                                                   *)

DialDaemon(c, v) ==
  /\ cstep[c] = "idle"
  /\ cstep' = [cstep EXCEPT ![c] = "hello"] /\ cver' = [cver EXCEPT ![c] = v]
  /\ ran' = [ran EXCEPT ![c] = NoVersion]
  /\ UNCHANGED <<link, daemonVars>>

Call(c) ==
  /\ cstep[c] = "ready"
  /\ cstep' = [cstep EXCEPT ![c] = "call"]
  /\ UNCHANGED <<cver, link, ran, daemonVars>>

\* gRPC connects when it has no connection, also again after one that ended; no
\* handshake goes with it.
Connect(c) ==
  /\ cstep[c] \in {"hello", "call"} /\ link[c] = 0
  /\ IF Answers THEN link' = [link EXCEPT ![c] = name.at] /\ UNCHANGED cstep
     ELSE cstep' = [cstep EXCEPT ![c] = IF @ = "hello" THEN "idle" ELSE "ready"] /\ UNCHANGED link
  /\ UNCHANGED <<cver, ran, daemonVars>>

\* handle: a call whose version does not fit gets an error and nothing is done.
\* Dial also fails if the daemon's answer to hello does not fit.
Admits(c, d) == Compatible(cver[c], dver[d])
Handle(c, d) ==
  /\ cstep[c] \in {"hello", "call"} /\ d \in Listener(link[c]) /\ dstep[d] = "serve"
  /\ IF Admits(c, d)
       THEN /\ ran' = [ran EXCEPT ![c] = dver[d]]
            /\ cstep' = [cstep EXCEPT ![c] = "ready"] /\ UNCHANGED link
       ELSE /\ cstep' = [cstep EXCEPT ![c] = IF @ = "hello" THEN "idle" ELSE "ready"]
            /\ link' = (IF cstep[c] = "hello" THEN [link EXCEPT ![c] = 0] ELSE link)
            /\ UNCHANGED ran
  /\ UNCHANGED <<cver, daemonVars>>

CloseClient(c) ==
  /\ cstep[c] = "ready"
  /\ cstep' = [cstep EXCEPT ![c] = "idle"] /\ link' = [link EXCEPT ![c] = 0]
  /\ UNCHANGED <<cver, ran, daemonVars>>

EndpointNext ==
  \/ \E d \in Daemons : \/ \E v \in Versions : BeginStart(d, v)
                        \/ Look(d) \/ Probe(d) \/ RemoveStale(d) \/ BindSocket(d) \/ Chmod(d)
                        \/ StopListening(d) \/ Crash(d)
  \/ \E c \in Callers : \/ \E v \in Versions : DialDaemon(c, v)
                        \/ Call(c) \/ Connect(c) \/ CloseClient(c)
                        \/ \E d \in Daemons : Handle(c, d)

EndpointSpec == EndpointInit /\ [][EndpointNext]_endpointVars

-----------------------------------------------------------------------------
\* One daemon: a start never takes the socket of a daemon that listens, nor a
\* daemon that goes down the socket of its successor ("probing first so a live
\* daemon's socket is not silently stolen", listener.go).  Two starts that find the
\* same stale socket at once do not keep this: the later removes by name what the
\* earlier has bound.
OneListener ==
  ~contended => \A d \in Daemons : sock[d] # 0 =>
    /\ name = [kind |-> "socket", at |-> sock[d]]
    /\ \A e \in Daemons \ {d} : sock[e] = 0

\* A daemon does something only for clients it fits, also for one whose handshake
\* was with the daemon that ran before an upgrade.
NoSkewedCall == \A c \in Callers : ran[c] # NoVersion => Compatible(cver[c], ran[c])

\* Both: what answers at the endpoint is the one daemon, and fits who asks.
EndpointHeld == OneListener /\ NoSkewedCall
=============================================================================
