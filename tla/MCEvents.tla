------------------------------ MODULE MCEvents ------------------------------
(* The event log with its two kinds of consumer, and the connections that a     *)
(* delivery makes.  They share nothing but the table, so a behaviour has hooks  *)
(* to register, streams to serve, or requests to send.                          *)
EXTENDS EventStreams, WebhookDispatch, Egress

VARIABLE load

vars == <<logVars, strVars, regVars, dispVars, egressVars, load>>

\* Destinations: listed and not, by name and by address, one of another scheme; the
\* name service mixes addresses that may be used with others.
Url(host, listed) == [http |-> TRUE, host |-> host, listed |-> listed]
UrlsDef == {Url("hooks.example", TRUE), Url("other.example", FALSE), Url("localhost", TRUE),
            Url("127.0.0.1", TRUE), Url("169.254.169.254", FALSE),
            [Url("hooks.example", TRUE) EXCEPT !.http = FALSE]}
AnswersDef == {<<>>, <<"127.0.0.1">>, <<"10.0.0.1">>, <<"127.0.0.1", "10.0.0.1">>}

Init ==
  /\ load \in {"streams", "hooks", "egress"}
  /\ LogInit /\ StreamsInit /\ DispatchInit
  /\ EgressInit
  /\ load = "egress" \/ dns = [n \in Names |-> <<>>]

\* Hooks filter by type only, streams by process.
Appended(t, p) == IF load = "hooks" THEN p = CHOOSE q \in Procs : TRUE ELSE t = CHOOSE u \in Types : TRUE

Dispatching == load # "egress" /\ Dispatcher /\ UNCHANGED <<strVars, egressVars, load>>
Polling(s) == (StreamPoll(s) \/ StreamSend(s)) /\ UNCHANGED <<regVars, dispVars, egressVars, load>>

Next ==
  \/ /\ load # "egress"
     /\ \E t \in Types, p \in Procs : Appended(t, p) /\ AppendEvent(t, p)
     /\ UNCHANGED <<strVars, regVars, dispVars, egressVars, load>>
  \/ Dispatching
  \/ load = "hooks" /\ (RegistryNext \/ Restart) /\ UNCHANGED <<strVars, egressVars, load>>
  \/ load = "streams" /\ StreamsNext /\ UNCHANGED <<regVars, dispVars, egressVars, load>>
  \/ load = "egress" /\ EgressNext /\ UNCHANGED <<logVars, strVars, regVars, dispVars, load>>

\* The dispatcher's ticker keeps firing and its attempts end by the client's
\* timeout; a stream's ticker keeps firing, and its rows go out, while the
\* stream lives.
Spec == Init /\ [][Next]_vars /\ WF_vars(Dispatching) /\ \A s \in Streams : WF_vars(Polling(s))
=============================================================================
