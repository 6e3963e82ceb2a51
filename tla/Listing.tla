------------------------------ MODULE Listing -------------------------------
(* process.list page by page (doList, and List of the SQLite store), while rows *)
(* are created, change status and are deleted between the pages.  A page goes on *)
(* after the row the cursor names, if the query still returns that row.          *)
(*                                                                               *)
(* A row is its place in the order of created_at.  A start takes the time first  *)
(* and creates the row later, so rows come in any order.                         *)
EXTENDS Naturals, Sequences, FiniteSets

CONSTANTS Rows,    \* 1..n: rows there may be, in the order of created_at
          Readers, \* clients that list
          Limits   \* page sizes

ASSUME ListingAssumption == Rows \cup Limits \subseteq Nat \ {0}

VARIABLES status, \* status[n]: of row n; "none" before Create, "gone" after Delete
          ask,    \* ask[c]: what reader c lists, [status, exited, limit], or NoAsk
          got,    \* got[c]: its pages so far, each the set of its rows
          last,   \* last[c]: the last row of its last page, its cursor; 0 before it
          stayed  \* history, stayed[c]: rows its listing should hold since its first page

listingVars == <<status, ask, got, last, stayed>>

Statuses == {"running", "stopping", "exited", "failed"}
Asks == [status : {"", "running", "exited"}, exited : BOOLEAN, limit : Limits]
NoAsk == [status |-> "", exited |-> FALSE, limit |-> 0]

\* The store's query, and what doList hides from its answer.
Stored(a, n) == status[n] \in Statuses /\ a.status \in {"", status[n]}
Hidden(a, n) == ~a.exited /\ a.status = "" /\ status[n] \in {"exited", "failed"}
Result(a) == {n \in Rows : Stored(a, n)}

\* Without a cursor everything; else what follows its row, or nothing without it.
Behind(list, k) == IF k = 0 THEN list ELSE IF k \in list THEN {n \in list : n > k} ELSE {}
After_Shown(a, k) == Behind({n \in Result(a) : ~Hidden(a, n)}, k)
After(a, k) == Behind(Result(a), k)
Remaining(a, k) == {n \in After(a, k) : ~Hidden(a, n)}

Shown(a, n) == Stored(a, n) /\ ~Hidden(a, n)
Keep == stayed' = [c \in Readers |-> {n \in stayed[c] : Shown(ask[c], n)'}]

CreateRow(n) ==
  /\ status[n] = "none" /\ status' = [status EXCEPT ![n] = "running"]
  /\ UNCHANGED <<ask, got, last>> /\ Keep
UpdateRow(n, s) ==
  /\ status[n] \in Statuses \ {s} /\ status' = [status EXCEPT ![n] = s]
  /\ UNCHANGED <<ask, got, last>> /\ Keep
DeleteRow(n) ==
  /\ status[n] \in Statuses /\ status' = [status EXCEPT ![n] = "gone"]
  /\ UNCHANGED <<ask, got, last>> /\ Keep

\* What remains, up to row k, if these fill a page or are all there is.
Page(c, a, k) ==
  LET page == {n \in Remaining(a, last[c]) : n <= k} IN
  /\ k \in page
  /\ Cardinality(page) = a.limit \/ (page = Remaining(a, last[c]) /\ Cardinality(page) < a.limit)
  /\ got' = [got EXCEPT ![c] = Append(@, page)] /\ last' = [last EXCEPT ![c] = k]

FirstPage(c, a) ==
  /\ ask[c] = NoAsk /\ ask' = [ask EXCEPT ![c] = a]
  /\ IF Remaining(a, 0) = {} THEN UNCHANGED <<got, last>> ELSE \E k \in Rows : Page(c, a, k)
  /\ stayed' = [stayed EXCEPT ![c] = {n \in Rows : Shown(a, n)}]
  /\ UNCHANGED status
NextPage(c) ==
  /\ ask[c] # NoAsk /\ last[c] # 0 /\ \E k \in Rows : Page(c, ask[c], k)
  /\ UNCHANGED <<status, ask, stayed>>

ListingInit ==
  /\ status = [n \in Rows |-> "none"] /\ ask = [c \in Readers |-> NoAsk]
  /\ got = [c \in Readers |-> <<>>] /\ last = [c \in Readers |-> 0]
  /\ stayed = [c \in Readers |-> {}]
ListingNext ==
  \/ \E n \in Rows : CreateRow(n) \/ DeleteRow(n) \/ \E s \in Statuses : UpdateRow(n, s)
  \/ \E c \in Readers : NextPage(c) \/ \E a \in Asks : FirstPage(c, a)
ListingSpec == ListingInit /\ [][ListingNext]_listingVars

\* What "best-effort under churn" leaves (api/types.go): no row comes twice, and
\* a reader's pages, each full, have left out no row before its cursor that was in
\* the listing all the time; so it misses such a row only by ending on a cursor
\* whose own row is gone from the query (removed or, when a status is asked for,
\* no longer of it).
PagesComplete ==
  \A c \in Readers :
    LET listed == UNION {got[c][j] : j \in DOMAIN got[c]}
    IN  /\ \A j, k \in DOMAIN got[c] : j < k => \A m \in got[c][j], n \in got[c][k] : m < n
        /\ \A n \in stayed[c] : n <= last[c] => n \in listed
        /\ (last[c] # 0 /\ Remaining(ask[c], last[c]) = {} /\ Stored(ask[c], last[c]))
             => stayed[c] \subseteq listed
=============================================================================
