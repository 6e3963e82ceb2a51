-------------------------------- MODULE Egress --------------------------------
(* Outgoing HTTP: webhook deliveries (internal/webhook/webhook.go, deliver.go)  *)
(* and health probes (ProbeHTTPOpts of internal/supervise).  Both check a       *)
(* destination before the call and again when they connect; the name service    *)
(* may answer differently each time, and the other side may redirect.           *)
(*                                                                             *)
(* A URL is [http, host, listed]: whether its scheme is http or https, its host *)
(* and whether the allowlist matches it.                                       *)
EXTENDS Naturals, Sequences, FiniteSets

CONSTANTS Urls,     \* destinations a hook, a probe or a redirect may name
          Names,    \* hosts that are names; other hosts are addresses
          Blocked_, \* names that isBlockedHostname knows
          Answers,  \* lists of addresses the name service may give
          MaxHops,  \* maxRedirects
          MaxMoves  \* bound: changes of the name service

\* Kinds of address.
Loopback(ip) == ip = "127.0.0.1"
IsBlockedIP(ip) == Loopback(ip) \/ ip = "169.254.169.254"

VARIABLES hookUrls, \* URLs of registered hooks
          dns,      \* dns[n]: answer of the name service
          flight,   \* the request in progress
          conn,     \* the connection that was just made: [kind, ip, url]
          moves

egressVars == <<hookUrls, dns, flight, conn, moves>>
NoFlight == [kind |-> "none", url |-> "", step |-> "", hops |-> 0, ips |-> <<>>]
NoConn == [kind |-> "none", ip |-> "", url |-> ""]

Lookup(host) == IF host \in Names THEN dns[host] ELSE <<host>>
Literal(host) == host \notin Names

-----------------------------------------------------------------------------
(* Policies                                                                   *)

ParseHTTPURL(u) == u.http /\ u.host # ""
ValidHost(u) == u.host \notin Blocked_ /\ (Literal(u.host) => ~IsBlockedIP(u.host))

\* Registry.Create: an empty allowlist matches nothing.
Admit(u) == ParseHTTPURL(u) /\ u.listed /\ ValidHost(u)

\* Deliverer.validate: the daemon's deliverer has no allowlist of its own.
Validate(u) == ParseHTTPURL(u) /\ ValidHost(u)

\* validateLoopbackURL resolves the name, and wants loopback addresses only.
ValidateLoopbackURL(u) ==
  /\ ParseHTTPURL(u)
  /\ Lookup(u.host) # <<>> /\ \A n \in DOMAIN Lookup(u.host) : Loopback(Lookup(u.host)[n])

Check(kind, u) == IF kind = "hook" THEN Validate(u) ELSE ValidateLoopbackURL(u)

\* dialContext passes over an address that is blocked; the probe's Control refuses it.
DialControl_Unchecked(kind, ip) == TRUE
DialControl(kind, ip) == IF kind = "hook" THEN ~IsBlockedIP(ip) ELSE Loopback(ip)

-----------------------------------------------------------------------------
Resolves(n, a) ==
  /\ moves < MaxMoves /\ dns[n] # a
  /\ dns' = [dns EXCEPT ![n] = a] /\ moves' = moves + 1
  /\ conn' = NoConn /\ UNCHANGED <<hookUrls, flight>>

\* webhook.create and webhook.update.
RegisterHook(u) ==
  /\ Admit(u) /\ u \notin hookUrls /\ hookUrls' = hookUrls \cup {u}
  /\ conn' = NoConn /\ UNCHANGED <<dns, flight, moves>>

\* DeliverEvent and ProbeHTTPOpts check the URL first.
Send(kind, u) ==
  /\ flight = NoFlight /\ kind = "hook" => u \in hookUrls
  /\ Check(kind, u)
  /\ flight' = [kind |-> kind, url |-> u, step |-> "resolve", hops |-> 0, ips |-> <<>>]
  /\ conn' = NoConn /\ UNCHANGED <<hookUrls, dns, moves>>

\* The name is looked up again for the dial.
DialLookup ==
  /\ flight.step = "resolve"
  /\ flight' = [flight EXCEPT !.step = "dial", !.ips = Lookup(flight.url.host)]
  /\ conn' = NoConn /\ UNCHANGED <<hookUrls, dns, moves>>

\* Addresses in turn: one that is refused or does not answer leads to the next.
DialNext ==
  /\ flight.step = "dial" /\ flight.ips # <<>>
  /\ LET ip == Head(flight.ips)
         next == [flight EXCEPT !.ips = Tail(@)]
     IN  \/ flight' = next /\ conn' = NoConn
         \/ /\ DialControl(flight.kind, ip)
            /\ flight' = [flight EXCEPT !.step = "answer", !.ips = <<>>]
            /\ conn' = [kind |-> flight.kind, ip |-> ip, url |-> flight.url]
  /\ UNCHANGED <<hookUrls, dns, moves>>
DialFails ==
  /\ flight.step = "dial" /\ flight.ips = <<>> /\ flight' = NoFlight
  /\ conn' = NoConn /\ UNCHANGED <<hookUrls, dns, moves>>

\* checkRedirect counts the hops and checks the next URL; a redirect to the host it
\* is connected to may stay on the connection.
Redirected(u) ==
  /\ flight.step = "answer"
  /\ IF flight.hops + 1 >= MaxHops \/ ~Check(flight.kind, u) THEN flight' = NoFlight
     ELSE \E step \in {"resolve"} \cup IF u.host = flight.url.host THEN {"answer"} ELSE {} :
            flight' = [flight EXCEPT !.url = u, !.hops = @ + 1, !.step = step]
  /\ conn' = NoConn /\ UNCHANGED <<hookUrls, dns, moves>>
Answered ==
  /\ flight.step = "answer" /\ flight' = NoFlight
  /\ conn' = NoConn /\ UNCHANGED <<hookUrls, dns, moves>>

EgressInit ==
  /\ hookUrls = {} /\ dns \in [Names -> Answers] /\ flight = NoFlight /\ conn = NoConn /\ moves = 0

EgressNext ==
  \/ \E n \in Names, a \in Answers : Resolves(n, a)
  \/ \E u \in Urls : RegisterHook(u) \/ Redirected(u) \/ \E kind \in {"hook", "probe"} : Send(kind, u)
  \/ DialLookup \/ DialNext \/ DialFails \/ Answered

EgressSpec == EgressInit /\ [][EgressNext]_egressVars

\* A delivery connects to no loopback and no link-local address and a probe to
\* nothing but loopback, although the name service changes its answer between the
\* check and the dial and the other side redirects to other hosts (deliver.go:
\* dialContext, checkRedirect; supervise.go: loopbackDialControl).
DialsAdmitted ==
  /\ conn.kind = "hook"  => ~IsBlockedIP(conn.ip) /\ conn.url.host \notin Blocked_
  /\ conn.kind = "probe" => Loopback(conn.ip)
=============================================================================
