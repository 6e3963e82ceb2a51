------------------------------ MODULE LogRead ------------------------------
(* Reading a process's captured logs (internal/logcap/read.go, structured.go    *)
(* and the handler doLogs): tail, grep, errors and the level filter over the    *)
(* active stdout and stderr files, which the child goes on writing meanwhile.   *)
(*                                                                             *)
(* A line is a record: its length, where in it the pattern and an error word   *)
(* end (0: nowhere), the level of its JSON object (0: none) and the levels its *)
(* text shows.                                                                 *)
EXTENDS Integers, Sequences, FiniteSets, SequencesExt, FiniteSetsExt

CONSTANTS Kinds,       \* lines a child may write
          MaxLine,     \* maxLineBytes
          MaxOutput,   \* DefaultMaxOutputBytes
          Marker,      \* length of truncateMarker
          GrepMatches, \* MaxMatches doLogs asks for
          DefaultLines,\* lines doLogs asks for when the request names none
          Asks,        \* requests; a pattern is one that compiles or not
          MaxWritten   \* bound: lines the child writes

ASSUME LogReadAssumption ==
  /\ {MaxLine, MaxOutput, Marker, GrepMatches, DefaultLines} \subseteq Nat \ {0}
  /\ MaxWritten \in Nat /\ Marker + 3 < MaxOutput  \* room for a separator
  /\ Kinds \subseteq [len : Nat, hit : Nat, err : Nat, json : Nat, marks : SUBSET Nat]
  /\ Asks \subseteq [mode : {"tail", "grep", "errors"}, stream : STRING, pattern : BOOLEAN,
                     level : Nat, lines : Int, context : Nat]

VARIABLES text,    \* text[s]: the lines of a stream's active file
          unended, \* streams whose last line has no newline yet
          ask,     \* the request being answered
          unread,  \* stream files still to read
          seen,    \* seen[s]: the lines as readAllLines returned them
          answer   \* the text returned

logReadVars == <<text, unended, ask, unread, seen, answer>>

Both == <<"stdout", "stderr">>
NoAsk == [mode |-> "none", stream |-> "", pattern |-> FALSE, level |-> 0, lines |-> 0, context |-> 0]

-----------------------------------------------------------------------------
(* readAllLines                                                               *)

\* readLimitedLine keeps MaxLine bytes, the newline among them: a line of
\* exactly MaxLine bytes with its newline already counts as cut.
Total(l, ended) == l.len + (IF ended THEN 1 ELSE 0)
Cut(l, ended) == Total(l, ended) > MaxLine
LimitedLine(l, ended) ==
  LET within(at) == IF at <= MaxLine THEN at ELSE 0
  IN  [len |-> IF l.len <= MaxLine THEN l.len ELSE MaxLine, cut |-> Cut(l, ended),
       hit |-> within(l.hit), err |-> within(l.err),
       json |-> IF Cut(l, ended) THEN 0 ELSE l.json, marks |-> l.marks]

\* A stream without a file, or with an empty one, has no lines; an unterminated
\* last line counts as one unless it is empty.
ReadAllLines(s) ==
  LET ended(i) == i < Len(text[s]) \/ s \notin unended
      lines == [i \in DOMAIN text[s] |-> LimitedLine(text[s][i], ended(i))]
  IN  IF lines # <<>> /\ ~ended(Len(lines)) /\ Last(lines).len = 0 THEN Front(lines) ELSE lines

-----------------------------------------------------------------------------
(* The four readers.  A line of output is [s, i]: line i of stream s.         *)

Entry(s, i) == [s |-> s, i |-> i, len |-> seen[s][i].len]
Separator == [s |-> "--", i |-> 0, len |-> 2]
Entries(s, idx) == [n \in DOMAIN idx |-> Entry(s, idx[n])]

\* The loops over a file take its lines in order; those that pass Test.
Ascending(S) ==
  CHOOSE q \in [1..Cardinality(S) -> S] : \A m, n \in DOMAIN q : m < n => q[m] < q[n]
Selected(s, Test(_)) == Ascending({i \in DOMAIN seen[s] : Test(seen[s][i])})

LastLines(q, n) == SubSeq(q, Max({1, Len(q) - n + 1}), Len(q))
FirstLines(q, n) == SubSeq(q, 1, Min({n, Len(q)}))
AllStreams(F(_)) == F("stdout") \o F("stderr")

\* A stream that was not asked for contributes nothing: its seen is empty.
Tail_(n) == AllStreams(LAMBDA s : Entries(s, LastLines(Selected(s, LAMBDA l : TRUE), n)))

\* One window of context lines around a match; a window that meets no earlier
\* one of the file is set off by a separator.
AddWindow(acc, s, m, c) ==
  LET win == Max({1, m - c}) .. Min({Len(seen[s]), m + c})
      new == Ascending(win \ acc.done)
      gap == c > 0 /\ ~acc.first /\ win \cap acc.done = {} /\ acc.out # <<>>
  IN  [out |-> acc.out \o (IF gap THEN <<Separator>> ELSE <<>>) \o Entries(s, new),
       done |-> acc.done \cup win, first |-> FALSE]

\* The lines around the given matches, after what is in out.
Windows(out, s, c, idx) ==
  LET after[n \in 0..Len(idx)] ==
        IF n = 0 THEN [out |-> out, done |-> {}, first |-> TRUE]
        ELSE AddWindow(after[n - 1], s, idx[n], c)
  IN  after[Len(idx)].out

\* The matches of a stream that still count: stdout uses the allowance first.
Matches(s, n) == FirstLines(Selected(s, LAMBDA l : l.hit > 0), n)
Grep_PerFile(c) ==
  Windows(Windows(<<>>, "stdout", c, Matches("stdout", GrepMatches)),
          "stderr", c, Matches("stderr", GrepMatches))
Grep(c) ==
  LET first == Matches("stdout", GrepMatches)
  IN  Windows(Windows(<<>>, "stdout", c, first),
              "stderr", c, Matches("stderr", GrepMatches - Len(first)))

Errors(n) == LastLines(AllStreams(LAMBDA s : Entries(s, Selected(s, LAMBDA l : l.err > 0))), n)

\* lineLevelRank: the JSON level, else the most severe mark, else info.
LevelOrder == {10, 20, 30, 40, 50, 60, 70}
Info == 30
Rank(l) == IF l.json # 0 THEN l.json ELSE IF l.marks # {} THEN Max(l.marks) ELSE Info
FilterLevel(min, n) ==
  LastLines(AllStreams(LAMBDA s : Entries(s, Selected(s, LAMBDA l : Rank(l) >= min))), n)

Reply(q, cut, ok) == [lines |-> q, truncated |-> cut, ok |-> ok, done |-> TRUE]
NoReply == [lines |-> <<>>, truncated |-> FALSE, ok |-> FALSE, done |-> FALSE]

\* capOutput cuts after the last whole line that leaves room for the marker, the
\* newline of an empty first line not counting; a line too long for that is cut
\* in its middle.
SizeOfText(q) ==
  LET size[n \in 0..Len(q)] == IF n = 0 THEN -1 ELSE size[n - 1] + q[n].len + 1
  IN  size[Len(q)]
Fits(q, k) == SizeOfText(SubSeq(q, 1, k)) \in 1..(MaxOutput - Marker - 1)
CutLine(q, n) ==
  Append(SubSeq(q, 1, n - 1), [q[n] EXCEPT !.len = MaxOutput - Marker - (n - 1)])
CapOutput(q) ==
  IF q = <<>> \/ SizeOfText(q) <= MaxOutput THEN Reply(q, FALSE, TRUE)
  ELSE LET k == Max({0} \cup {j \in 1..Len(q) - 1 : Fits(q, j)})
       IN  Reply(IF k > 0 THEN SubSeq(q, 1, k)
                 ELSE CutLine(q, IF q[1].len = 0 THEN 2 ELSE 1), TRUE, TRUE)

-----------------------------------------------------------------------------
(* The child and the handler                                                  *)

LogLine(s, l) ==
  /\ Len(text["stdout"]) + Len(text["stderr"]) < MaxWritten
  /\ s \notin unended
  /\ text' = [text EXCEPT ![s] = Append(@, l)]
  /\ unended' \in {unended, unended \cup {s}}
  /\ UNCHANGED <<ask, unread, seen, answer>>

EndLine(s) ==
  /\ s \in unended /\ unended' = unended \ {s}
  /\ UNCHANGED <<text, ask, unread, seen, answer>>

\* normalizeStream; an empty stream means both.
StreamFiles(stream) ==
  CASE stream = "stdout" -> <<"stdout">> [] stream = "stderr" -> <<"stderr">> [] OTHER -> Both
ValidStream(stream) == stream \in {"", "both", "stdout", "stderr"}

\* The readers refuse a stream or a level there is no such name for, and Grep a
\* pattern that is empty or does not compile.
ValidAsk(a) ==
  /\ ValidStream(a.stream)
  /\ a.mode = "grep" => a.pattern
  /\ a.mode = "level" => a.level \in LevelOrder

\* doLogs: a level asked for overrides the method.
AskLogs(a) ==
  /\ ask = NoAsk \/ answer.done
  /\ ask' = [a EXCEPT !.mode = IF a.level # 0 THEN "level" ELSE a.mode,
                      !.lines = IF a.lines <= 0 THEN DefaultLines ELSE a.lines]
  /\ seen' = [s \in ToSet(Both) |-> <<>>]
  /\ IF ValidAsk(ask') THEN unread' = StreamFiles(a.stream) /\ answer' = NoReply
     ELSE unread' = <<>> /\ answer' = Reply(<<>>, FALSE, FALSE)
  /\ UNCHANGED <<text, unended>>

\* Files are read one after the other; the child may write in between.  One that
\* cannot be opened or read fails the request.
ReadFile ==
  /\ unread # <<>> /\ ~answer.done /\ unread' = Tail(unread)
  /\ seen' = [seen EXCEPT ![Head(unread)] = ReadAllLines(Head(unread))]
  /\ UNCHANGED <<text, unended, ask, answer>>

ReadFails ==
  /\ unread # <<>> /\ ~answer.done
  /\ answer' = Reply(<<>>, FALSE, FALSE)
  /\ UNCHANGED <<text, unended, ask, unread, seen>>

Uncapped ==
  CASE ask.mode = "level"  -> FilterLevel(ask.level, ask.lines)
    [] ask.mode = "grep"   -> Grep(ask.context)
    [] ask.mode = "errors" -> Errors(ask.lines)
    [] OTHER               -> Tail_(ask.lines)

AnswerLogs ==
  /\ ask # NoAsk /\ unread = <<>> /\ ~answer.done
  /\ answer' = CapOutput(Uncapped)
  /\ UNCHANGED <<text, unended, unread, ask, seen>>

LogReadInit ==
  /\ text = [s \in ToSet(Both) |-> <<>>] /\ unended = {}
  /\ ask = NoAsk /\ unread = <<>>
  /\ seen = [s \in ToSet(Both) |-> <<>>] /\ answer = NoReply

LogReadNext ==
  \/ \E s \in ToSet(Both), l \in Kinds : LogLine(s, l)
  \/ \E s \in ToSet(Both) : EndLine(s)
  \/ \E a \in Asks : AskLogs(a)
  \/ ReadFile \/ ReadFails \/ AnswerLogs

LogReadSpec == LogReadInit /\ [][LogReadNext]_logReadVars

-----------------------------------------------------------------------------
\* Lines as positions; stdout comes before stderr.
Positions == {[s |-> s, i |-> i] : s \in ToSet(Both), i \in 1..MaxWritten}
Lines == {p \in Positions : p.i <= Len(seen[p.s])}
Line(p) == seen[p.s][p.i]
Earlier(p, q) == \/ p.s = "stdout" /\ q.s = "stderr"
                 \/ p.s = q.s /\ p.i < q.i
FirstOf(P, n) == {p \in P : Cardinality({q \in P : Earlier(q, p)}) < n}
LastOf(P, n) == {p \in P : Cardinality({q \in P : Earlier(p, q)}) < n}

\* What a request is owed, whatever the way it is computed.
Owed(a) ==
  CASE a.mode = "tail" ->
         {p \in Lines : Cardinality({q \in Lines : q.s = p.s /\ Earlier(p, q)}) < a.lines}
    [] a.mode = "grep" ->
         {p \in Lines : \E m \in FirstOf({q \in Lines : Line(q).hit > 0}, GrepMatches) :
                          m.s = p.s /\ p.i \in m.i - a.context .. m.i + a.context}
    [] a.mode = "errors" -> LastOf({p \in Lines : Line(p).err > 0}, a.lines)
    [] a.mode = "level" -> LastOf({p \in Lines : Rank(Line(p)) >= a.level}, a.lines)

Position(e) == [s |-> e.s, i |-> e.i]
Shown == {Position(e) : e \in ToSet(answer.lines) \ {Separator}}

\* Every reader answers with exactly the lines its request is owed, in the order
\* of the streams and of their lines, each once, "--" only between two of one
\* stream; an answer over the size limit is cut to a first part of them that
\* leaves room for the marker, and only then (read.go: Tail, Grep, Errors,
\* capOutput; structured.go: FilterLevel).  A line shorter than the limit is
\* never cut.  A request is refused when its stream, level or pattern is not one,
\* or when a file of it could not be read, and for nothing else.
ReadersAgree ==
  answer.done =>
    /\ answer.ok <=> ValidAsk(ask) /\ unread = <<>>
    /\ answer.ok =>
         /\ \A m, n \in DOMAIN answer.lines :
              m < n /\ Separator \notin {answer.lines[m], answer.lines[n]} =>
                Earlier(Position(answer.lines[m]), Position(answer.lines[n]))
         /\ \A n \in DOMAIN answer.lines : answer.lines[n] = Separator =>
              /\ 1 < n /\ answer.lines[n - 1] # Separator
              /\ n < Len(answer.lines) => answer.lines[n - 1].s = answer.lines[n + 1].s
         /\ IF answer.truncated
            THEN /\ Shown \subseteq Owed(ask)
                 /\ \A p \in Shown, q \in Owed(ask) \ Shown : Earlier(p, q)
                 /\ SizeOfText(answer.lines) + Marker <= MaxOutput
            ELSE Shown = Owed(ask) /\ SizeOfText(answer.lines) <= MaxOutput
    /\ \A p \in Lines : text[p.s][p.i].len < MaxLine =>
         ~Line(p).cut /\ Line(p).len = text[p.s][p.i].len
=============================================================================
