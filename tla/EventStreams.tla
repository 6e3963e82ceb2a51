---------------------------- MODULE EventStreams ----------------------------
(* SubscribeEvents (internal/daemon/grpc_server.go): a stream is seeded with   *)
(* the newest rows and then polls, sending what it has not sent before.        *)
EXTENDS EventLog

CONSTANTS Streams,      \* SubscribeEvents calls
          SeedPage,     \* rows a stream is seeded with (50)
          TailPage      \* rows a stream polls (100)

ASSUME StreamAssumption == {SeedPage, TailPage} \subseteq Nat \ {0}

VARIABLES filt,      \* the process filter of every stream
          sent,      \* what every stream sent, in order; `seen' is its range
          outbox,    \* what its last query returned and it has still to look at
          polls      \* -1 before the stream is seeded, then its polls so far, up to 2

strVars == <<filt, sent, outbox, polls>>

Unsent_Last(s, q) == {n \in q : sent[s] = <<>> \/ n # sent[s][Len(sent[s])]}
Unsent(s, q) == q \ ToSet(sent[s])

StreamSeed(s, p) ==
  /\ polls[s] = -1
  /\ filt' = [filt EXCEPT ![s] = p]
  /\ polls' = [polls EXCEPT ![s] = 0]
  /\ \/ outbox' = [outbox EXCEPT ![s] = Seqs(Query(p, SeedPage))] /\ UNCHANGED faults
     \/ DbFails /\ UNCHANGED outbox
  /\ UNCHANGED <<rows, lastSeq, sent>>

\* A poll whose query fails sends nothing.
StreamPoll(s) ==
  /\ polls[s] >= 0 /\ outbox[s] = {}
  /\ outbox' = [outbox EXCEPT ![s] = Unsent(s, Seqs(Query(filt[s], TailPage)))]
  /\ polls' = [polls EXCEPT ![s] = IF @ < 2 THEN @ + 1 ELSE 2]
  /\ UNCHANGED <<logVars, filt, sent>>

\* The rows of an answer go out one by one, oldest first, while others are appended.
StreamSend(s) ==
  /\ \E n \in outbox[s] :
       /\ \A m \in outbox[s] : n <= m
       /\ outbox' = [outbox EXCEPT ![s] = @ \ {n}]
       /\ sent' = [sent EXCEPT ![s] = Append(@, n)]
  /\ UNCHANGED <<logVars, filt, polls>>

\* The client leaves, also between two rows, or its time is up; the next call is a
\* new stream.
StreamEnd(s) ==
  /\ polls[s] >= 0
  /\ polls' = [polls EXCEPT ![s] = -1]
  /\ outbox' = [outbox EXCEPT ![s] = {}]
  /\ sent' = [sent EXCEPT ![s] = <<>>]
  /\ filt' = [filt EXCEPT ![s] = AnyProc]
  /\ UNCHANGED logVars

StreamsInit ==
  /\ sent = [s \in Streams |-> <<>>] /\ polls = [s \in Streams |-> -1]
  /\ filt = [s \in Streams |-> AnyProc] /\ outbox = [s \in Streams |-> {}]

StreamsNext ==
  \/ \E s \in Streams, p \in Procs \cup {AnyProc} : StreamSeed(s, p)
  \/ \E s \in Streams : StreamPoll(s) \/ StreamSend(s)
  \/ \E s \in Streams : StreamEnd(s)

\* The log with its streams.
StreamsSpec ==
  /\ LogInit /\ StreamsInit
  /\ [][\/ StreamsNext
        \/ \E t \in Types, p \in Procs : AppendEvent(t, p) /\ UNCHANGED strVars]_<<logVars, strVars>>

-----------------------------------------------------------------------------
\* A stream never repeats an event, and what its second and later polls send is newer
\* than all before.  The first poll may go back: it asks for more rows than the seed
\* did (grpc_server.go:163 and :181).
StreamNeverRepeats ==
  [][\A s \in Streams : polls'[s] >= 0 =>
       \A n \in Len(sent[s]) + 1 .. Len(sent'[s]) : \A m \in 1..n - 1 :
         /\ sent'[s][m] # sent'[s][n]
         /\ polls[s] = 2 => sent'[s][m] < sent'[s][n]]_<<logVars, strVars>>

\* A row a stream asks for is sent, unless the stream ends first, the row is
\* swept, or so many follow before the next poll that it no longer fits a page.
StreamCatchesUp ==
  \A s \in Streams, n \in 1..MaxEvents :
    (polls[s] >= 0 /\ n \in Seqs(About(rows, filt[s])))
      ~> \/ polls[s] = -1 \/ n \in ToSet(sent[s])
         \/ n \notin Seqs(Newest(About(rows, filt[s]), TailPage))

\* A subscriber gets each event once, in order after its first poll, and misses
\* none: what SubscribeEvents promises, both ways.
StreamFaithful == StreamNeverRepeats /\ StreamCatchesUp
=============================================================================
