----------------------------- MODULE AccessProofs ------------------------------
(***************************************************************************)
(* Proofs about who may do what to a process, what the audit trail keeps   *)
(* of it, and what a process in a sandbox can reach: TargetsAuthorised and *)
(* RelaxedByRight from one invariant over requests, rows and settings,     *)
(* AuditTells from one over the trail, SandboxHolds from the mounts.       *)
(***************************************************************************)
EXTENDS Access, Audit, Sandbox, FiniteSetTheorems, SequenceTheorems, WellFoundedInduction, TLAPS

(***************************************************************************)
(* Access: what a request that passed its check may rely on.               *)
(***************************************************************************)
Owners == {p.session : p \in Principals} \cup {""}
Whos == [role : {p.role : p \in Principals} \cup {"full"}, session : Owners]
Capabilities == {CapOf[op] : op \in DOMAIN CapOf} \cup {""}
BoxNames == Targets \cup SandboxNames \cup {""}
RequestOps == DOMAIN CapOf \ {"share", "unshare", "reload"}
GrantRecords == [target : Procs_, cap : Capabilities, to : Owners]
RowRecords == [owner : Owners, live : BOOLEAN, sandbox : BoxNames, entitled : BOOLEAN, there : BOOLEAN]
PendingRecords ==
  [op : RequestOps, by : Whos, id : 0..MaxProcs, box : BoxNames, live : BOOLEAN,
   step : {"resolve", "sandbox", "check", "act"}, seen : SUBSET GrantRecords]

AccessTypeOK ==
  /\ proc \in [Procs_ -> RowRecords]
  /\ shares \in SUBSET GrantRecords
  /\ pending \in [Requests -> PendingRecords \cup {NoRequest}]
  /\ loosest \in Nat
  /\ DOMAIN conf = Keys_ /\ conf.sandbox \in BoxNames

\* A request that is to act on a process found it and was authorised for it, over a
\* row whose owner no step changes afterwards; every grant it could rest on is in
\* its history.
Authorised(q) ==
  \/ proc[q.id].owner \in {"", q.by.session}
  \/ q.by.role \in {"full", "operator"}
  \/ Grant(q.id, CapOf[q.op], q.by.session) \in q.seen
PendingInv(q) ==
  /\ Mine(q.by, q.op, shares) \subseteq q.seen
  /\ q.step = "resolve" => q.op # "start"
  /\ q.step = "act" /\ q.op # "start" => q.id \in Procs_
  /\ q.step = "act" /\ q.op \in Guarded => Authorised(q)
  /\ q.step = "act" /\ q.op = "start" =>
       Rank(q.box) <= loosest \/ Require(q.by, "sandbox:relax")
RequestsInv == \A r \in Requests : pending[r] # NoRequest => PendingInv(pending[r])

\* The default never gets looser than the loosest so far, and a row looser than that,
\* whether still there or not, came from a start that was entitled to it.
SandboxInv ==
  /\ Rank(conf.sandbox) <= loosest
  /\ \A i \in Procs_ : Rank(proc[i].sandbox) > loosest => proc[i].entitled

AccessInv == AccessTypeOK /\ RequestsInv /\ SandboxInv /\ TargetsAuthorised

LEMMA RankRange == \A box : Rank(box) \in 0..3
BY DEF Rank

LEMMA RankUnset == Rank("") = 0
BY DEF Rank

LEMMA MaxOfTwo ==
  ASSUME NEW a \in Nat, NEW b \in Nat
  PROVE  Max({a, b}) \in Nat /\ Max({a, b}) >= a /\ Max({a, b}) >= b
<1>1. \E x \in {a, b} : \A y \in {a, b} : x >= y
  OBVIOUS
<1> QED BY <1>1 DEF Max

LEMMA RequestRecords ==
  /\ NoRow \in RowRecords /\ Rank(NoRow.sandbox) = 0
  /\ NoRequest \notin PendingRecords
  /\ NoRequest.op = "idle" /\ NoRequest.step = "" /\ NoRequest.id = 0
BY RankUnset DEF NoRow, RowRecords, NoRequest, PendingRecords, BoxNames, Owners

LEMMA Operations ==
  /\ RequestOps = {"start", "stop", "restart", "remove", "update", "disable"}
  /\ \A op \in RequestOps : CapOf[op] \in Capabilities
  /\ CapOf["update"] = CapOf["restart"]
  /\ "process:stop" \in Capabilities
<1>1. DOMAIN CapOf = {"start", "stop", "restart", "remove", "update", "disable",
                      "share", "unshare", "reload"}
  BY DEF CapOf
<1>2. CapOf.update = CapOf.restart /\ CapOf.stop = "process:stop"
  BY DEF CapOf
<1> QED
  BY <1>1, <1>2 DEF RequestOps, Capabilities

LEMMA PrincipalIsKnown == \A p \in Principals : principal(p) \in Whos /\ p.session \in Owners
BY AccessAssumption DEF principal, Whos, Owners

LEMMA LeastNatural ==
  ASSUME NEW S \in SUBSET Nat, S # {}
  PROVE  \E i \in S : \A j \in S : i <= j
<1> DEFINE R == OpToRel(<, Nat)
<1>1. IsWellFoundedOn(R, Nat)
  BY NatLessThanWellFounded
<1>2. \A i, j \in Nat : i < j => <<i, j>> \in R
  BY DEF OpToRel
<1> HIDE DEF R
<1>3. PICK i \in S : \A j \in S : <<j, i>> \notin R
  BY <1>1, WFMin
<1>4. \A j \in S : ~ (j < i)
  BY <1>2, <1>3
<1>5. \A j \in S : i <= j
  BY <1>4
<1> QED
  BY <1>5

LEMMA NewIdIsFresh ==
  ASSUME Fresh # {}
  PROVE  /\ NewId \in Procs_ /\ proc[NewId] = NoRow
         /\ \A r \in Requests : pending[r].id # NewId
<1>1. Fresh \in SUBSET Nat
  BY AccessAssumption DEF Fresh, Procs_
<1>2. \E i \in Fresh : \A j \in Fresh : i <= j
  BY <1>1, LeastNatural
<1>3. NewId \in Fresh
  BY <1>2 DEF NewId
<1> QED
  BY <1>3, AccessAssumption DEF Fresh, Procs_

\* A load gives a known sandbox or is refused; a reload keeps what it does not take.
LEMMA ConfStep ==
  ASSUME DOMAIN conf = Keys_, conf.sandbox \in BoxNames, ConfNext \/ Reload_
  PROVE  DOMAIN conf' = Keys_ /\ conf'.sandbox \in BoxNames
<1>1. ASSUME NEW fl, NEW path
      PROVE  /\ DOMAIN Load(fl, path) = Keys_
             /\ Load(fl, path) # NoConf => Load(fl, path).sandbox \in SandboxNames
  BY DEF Load, NoConf, Unset, Settings, Valid_
<1>2. ASSUME NEW fl \in FlagSets, Boot(fl) PROVE DOMAIN conf' = Keys_ /\ conf'.sandbox \in BoxNames
  BY <1>1, <1>2 DEF Boot, BoxNames
<1>3. ASSUME NEW s \in ToSet(Slots), EditFile(s) PROVE conf' = conf
  BY <1>3 DEF EditFile
<1>4. ASSUME Reload_ PROVE DOMAIN conf' = Keys_ /\ conf'.sandbox \in BoxNames
  <2>1. CASE conf' = conf
    BY <2>1
  <2>2. CASE /\ Load(Unset, confEnv.path) # NoConf
             /\ conf' = [conf EXCEPT !.sandbox = Load(Unset, confEnv.path).sandbox,
                                     !.level = Load(Unset, confEnv.path).level]
    <3>1. "sandbox" \in DOMAIN conf
      BY DEF Keys_
    <3> QED BY <1>1, <2>2, <3>1 DEF BoxNames
  <2> QED BY <1>4, <2>1, <2>2 DEF Reload_
<1> QED
  BY <1>2, <1>3, <1>4 DEF ConfNext

\* A request that a step leaves alone keeps what it relies on, as long as the step
\* adds no grant and changes the owner of no process the request found.
LEMMA RequestsKept ==
  ASSUME AccessTypeOK, RequestsInv,
         shares' \subseteq shares, loosest' \in Nat, loosest' >= loosest,
         \A d \in Requests : pending[d].id \in Procs_ =>
           proc'[pending[d].id].owner = proc[pending[d].id].owner
  PROVE  \A d \in Requests :
           pending[d] # NoRequest /\ pending'[d] = pending[d] => PendingInv(pending[d])'
<1> SUFFICES ASSUME NEW d \in Requests, pending[d] # NoRequest, pending'[d] = pending[d]
             PROVE  PendingInv(pending[d])'
  OBVIOUS
<1>1. PendingInv(pending[d]) /\ pending[d] \in PendingRecords
  BY DEF RequestsInv, AccessTypeOK
<1>2. Mine(pending[d].by, pending[d].op, shares') \subseteq pending[d].seen
  BY <1>1 DEF PendingInv, Mine
<1>3. pending[d].step = "act" /\ pending[d].op \in Guarded => Authorised(pending[d])'
  <2> SUFFICES ASSUME pending[d].step = "act", pending[d].op \in Guarded
               PROVE  Authorised(pending[d])'
    OBVIOUS
  <2>1. pending[d].id \in Procs_ /\ Authorised(pending[d])
    BY <1>1 DEF PendingInv, Guarded
  <2> QED BY <2>1 DEF Authorised
<1>4. pending[d].step = "act" /\ pending[d].op = "start" =>
        Rank(pending[d].box) <= loosest' \/ Require(pending[d].by, "sandbox:relax")
  BY <1>1, RankRange DEF PendingInv, AccessTypeOK
<1> QED
  BY <1>1, <1>2, <1>3, <1>4 DEF PendingInv

LEMMA NoEffectIsAuthorised == did' = NoEffect => TargetsAuthorised'
<1>1. NoEffect.op = "none"
  BY DEF NoEffect
<1> QED
  BY <1>1 DEF TargetsAuthorised, Guarded

\* A step that changes neither grants, rows nor settings and of the requests only
\* one, to a state of it that is in order.
LEMMA RequestStep ==
  ASSUME AccessInv, NEW r \in Requests,
         pending' \in [Requests -> PendingRecords \cup {NoRequest}],
         \A d \in Requests \ {r} : pending'[d] = pending[d],
         pending'[r] # NoRequest => PendingInv(pending[r])',
         UNCHANGED <<proc, shares, loosest, conf>>, did' = NoEffect
  PROVE  AccessInv'
<1>1. AccessTypeOK' /\ SandboxInv'
  BY DEF AccessInv, AccessTypeOK, SandboxInv
<1>2. ASSUME NEW d \in Requests, pending'[d] # NoRequest PROVE PendingInv(pending[d])'
  BY <1>2, RequestsKept DEF AccessInv, AccessTypeOK
<1>3. TargetsAuthorised'
  BY NoEffectIsAuthorised
<1> QED
  BY <1>1, <1>2, <1>3 DEF AccessInv, RequestsInv

LEMMA Begun ==
  ASSUME AccessTypeOK, NEW r \in Requests, NEW p \in Principals, NEW op \in RequestOps, Begin(r, p, op)
  PROVE  /\ pending' \in [Requests -> PendingRecords \cup {NoRequest}]
         /\ \A d \in Requests \ {r} : pending'[d] = pending[d]
         /\ pending'[r].op = op /\ pending'[r].by = principal(p)
         /\ pending'[r].seen = Mine(principal(p), op, shares)
         /\ pending'[r].step = IF op = "start" THEN "sandbox" ELSE "resolve"
<1> DEFINE m == Mine(p, op, shares)
           st == IF op = "start" THEN "sandbox" ELSE "resolve"
<1>1. m \in SUBSET GrantRecords
  BY DEF AccessTypeOK, Mine
<1>2. st \in {"resolve", "sandbox"}
  OBVIOUS
<1>3. pending' = [pending EXCEPT ![r] = [NoRequest EXCEPT !.op = op, !.by = principal(p), !.seen = m, !.step = st]]
  BY DEF Begin
<1>p. m = Mine(principal(p), op, shares)
  BY AccessAssumption DEF principal, Mine
<1> HIDE DEF m, st
<1>4. NoRequest \in [op : {"idle"}, by : {NoRequest.by}, id : 0..MaxProcs, box : BoxNames,
                     live : BOOLEAN, step : {""}, seen : SUBSET GrantRecords]
  BY AccessAssumption DEF NoRequest, BoxNames
<1>5. pending'[r] = [NoRequest EXCEPT !.op = op, !.by = principal(p), !.seen = m, !.step = st]
  BY <1>3 DEF AccessTypeOK
<1>6. pending'[r] \in PendingRecords
  BY <1>1, <1>2, <1>4, <1>5, PrincipalIsKnown DEF PendingRecords
<1>7. pending'[r].op = op /\ pending'[r].by = principal(p) /\ pending'[r].seen = m /\ pending'[r].step = st
  BY <1>4, <1>5
<1> QED
  BY <1>3, <1>6, <1>7, <1>p DEF AccessTypeOK, st

LEMMA ResolvedRecord ==
  ASSUME NEW q \in PendingRecords, NEW i \in 0..MaxProcs, NEW live \in BOOLEAN
  PROVE  [q EXCEPT !.id = i, !.live = live, !.step = "act"] \in PendingRecords
BY DEF PendingRecords

LEMMA Resolved ==
  ASSUME AccessTypeOK, NEW r \in Requests, pending[r] # NoRequest, NEW i \in Procs_,
         pending' = [pending EXCEPT ![r].id = i, ![r].live = proc[i].live, ![r].step = "act"]
  PROVE  /\ pending' \in [Requests -> PendingRecords \cup {NoRequest}]
         /\ \A d \in Requests \ {r} : pending'[d] = pending[d]
         /\ pending'[r].id = i /\ pending'[r].op = pending[r].op /\ pending'[r].by = pending[r].by
         /\ pending'[r].seen = pending[r].seen /\ pending'[r].step = "act"
<1> DEFINE live == proc[i].live
<1>1. pending[r] \in PendingRecords /\ i \in 0..MaxProcs /\ live \in BOOLEAN
  BY AccessAssumption DEF AccessTypeOK, RowRecords, Procs_
<1>2. pending'[r] = [pending[r] EXCEPT !.id = i, !.live = live, !.step = "act"]
  BY DEF AccessTypeOK
<1>4. /\ \A d \in Requests \ {r} : pending'[d] = pending[d]
      /\ pending' = [d \in Requests |-> pending'[d]]
  BY DEF AccessTypeOK
<1> HIDE DEF live
<1>3. pending'[r] \in PendingRecords
  <2> DEFINE q == pending[r]
  <2>1. [q EXCEPT !.id = i, !.live = live, !.step = "act"] \in PendingRecords
    <3> HIDE DEF q
    <3>1. q \in PendingRecords
      BY <1>1 DEF q
    <3> QED BY <3>1, <1>1, ResolvedRecord, Zenon
  <2> QED BY <2>1, <1>2, Zenon
<1> QED
  BY <1>1, <1>2, <1>3, <1>4 DEF AccessTypeOK, PendingRecords

\* The steps that only move a request on.
LEMMA RequestMoves ==
  ASSUME AccessInv, NEW r \in Requests, UNCHANGED confVars,
         \/ \E p \in Principals, op \in RequestOps : Begin(r, p, op)
         \/ ResolveTarget(r) \/ StartSandbox(r) \/ StartCheck(r)
  PROVE  AccessInv'
<1> DEFINE q == pending[r]
<1>q. q # NoRequest => q \in PendingRecords /\ PendingInv(q)
  BY DEF AccessInv, AccessTypeOK, RequestsInv
<1>u. UNCHANGED <<proc, shares, loosest, conf>> /\ did' = NoEffect
  BY DEF Begin, ResolveTarget, StartSandbox, StartCheck, confVars
<1>t. AccessTypeOK
  BY DEF AccessInv
<1>d. ASSUME Done(r) PROVE AccessInv'
  <2>1. /\ pending' \in [Requests -> PendingRecords \cup {NoRequest}]
        /\ \A d \in Requests \ {r} : pending'[d] = pending[d]
        /\ pending'[r] = NoRequest
    BY <1>d, <1>t DEF Done, AccessTypeOK
  <2> QED BY <2>1, <1>u, RequestStep
<1>1. ASSUME NEW p \in Principals, NEW op \in RequestOps, Begin(r, p, op) PROVE AccessInv'
  <2>1. PendingInv(pending[r])'
    BY <1>1, <1>t, <1>u, Begun DEF PendingInv
  <2> QED BY <1>1, <1>t, <1>u, <2>1, Begun, RequestStep
<1>2. ASSUME ResolveTarget(r) PROVE AccessInv'
  <2>1. q # NoRequest
    BY <1>2, RequestRecords DEF ResolveTarget
  <2>2. ASSUME NEW i \in Procs_, q.op \in Guarded => AuthorizeTarget(q.by, CapOf[q.op], i, proc[i]),
               pending' = [pending EXCEPT ![r].id = i, ![r].live = proc[i].live, ![r].step = "act"]
        PROVE  AccessInv'
    <3>1. /\ pending' \in [Requests -> PendingRecords \cup {NoRequest}]
          /\ \A d \in Requests \ {r} : pending'[d] = pending[d]
          /\ pending'[r].id = i /\ pending'[r].op = q.op /\ pending'[r].by = q.by
          /\ pending'[r].seen = q.seen /\ pending'[r].step = "act"
      BY <1>t, <2>1, <2>2, Resolved
    <3>2. q.op # "start" /\ Mine(q.by, q.op, shares) \subseteq q.seen
      BY <1>q, <1>2, <2>1 DEF PendingInv, ResolveTarget
    <3>3. q.op \in Guarded => Authorised(pending[r])'
      <4> SUFFICES ASSUME q.op \in Guarded PROVE Authorised(pending[r])'
        OBVIOUS
      <4>1. Allowed(i, q.by.session, CapOf[q.op]) => Grant(i, CapOf[q.op], q.by.session) \in q.seen
        BY <3>2 DEF Allowed, Mine, Grant
      <4> QED BY <1>u, <2>2, <3>1, <4>1 DEF AuthorizeTarget, Authorised
    <3>4. PendingInv(pending[r])'
      BY <1>u, <3>1, <3>2, <3>3 DEF PendingInv, Mine
    <3> QED BY <1>u, <3>1, <3>4, RequestStep
  <2>3. \/ Done(r)
        \/ \E i \in Procs_ :
             /\ q.op \in Guarded => AuthorizeTarget(q.by, CapOf[q.op], i, proc[i])
             /\ pending' = [pending EXCEPT ![r].id = i, ![r].live = proc[i].live, ![r].step = "act"]
    BY <1>2, Zenon DEF ResolveTarget
  <2> QED BY <2>2, <2>3, <1>d
<1>3. ASSUME StartSandbox(r) PROVE AccessInv'
  <2>1. q # NoRequest /\ q.op = "start"
    BY <1>3, RequestRecords DEF StartSandbox, At
  <2>2. PICK box \in BoxNames : pending' = [pending EXCEPT ![r].box = box, ![r].step = "check"]
    <3>1. PICK target \in Targets :
            pending' = [pending EXCEPT ![r].box = IF target = "" THEN conf.sandbox ELSE target, ![r].step = "check"]
      BY <1>3, Zenon DEF StartSandbox
    <3>2. (IF target = "" THEN conf.sandbox ELSE target) \in BoxNames
      BY <1>t DEF AccessTypeOK, BoxNames
    <3> QED BY <3>1, <3>2
  <2>3. /\ pending' \in [Requests -> PendingRecords \cup {NoRequest}]
        /\ pending'[r].step = "check" /\ pending'[r].by = q.by
        /\ pending'[r].op = q.op /\ pending'[r].seen = q.seen
    BY <1>q, <1>t, <2>1, <2>2 DEF AccessTypeOK, PendingRecords
  <2>4. \A d \in Requests \ {r} : pending'[d] = pending[d]
    BY <2>2, <1>t DEF AccessTypeOK
  <2>5. PendingInv(pending[r])'
    BY <1>q, <1>u, <2>1, <2>3 DEF PendingInv
  <2> QED BY <1>u, <2>3, <2>4, <2>5, RequestStep
<1>4. ASSUME StartCheck(r) PROVE AccessInv'
  <2>1. q # NoRequest /\ q.op = "start"
    BY <1>4, RequestRecords DEF StartCheck, At
  <2>2. ASSUME ~ (SandboxIsRelaxation(conf.sandbox, q.box) /\ ~Require(q.by, "sandbox:relax")), Go(r, "act")
        PROVE  AccessInv'
    <3>1. /\ pending' \in [Requests -> PendingRecords \cup {NoRequest}]
          /\ pending'[r].step = "act" /\ pending'[r].by = q.by /\ pending'[r].box = q.box
          /\ pending'[r].op = q.op /\ pending'[r].seen = q.seen
      BY <1>q, <1>t, <2>1, <2>2 DEF AccessTypeOK, PendingRecords, Go
    <3>2. \A d \in Requests \ {r} : pending'[d] = pending[d]
      BY <2>2, <1>t DEF AccessTypeOK, Go
    <3>3. Rank(q.box) <= loosest \/ Require(q.by, "sandbox:relax")
      BY <2>2, RankRange DEF AccessInv, AccessTypeOK, SandboxInv, SandboxIsRelaxation
    <3>4. PendingInv(pending[r])'
      BY <1>q, <1>u, <2>1, <3>1, <3>3 DEF PendingInv, Guarded
    <3> QED BY <1>u, <3>1, <3>2, <3>4, RequestStep
  <2> QED BY <1>4, <2>2, <1>d DEF StartCheck
<1> QED BY <1>1, <1>2, <1>3, <1>4

\* The steps that change rows: they finish their request and keep the owner of every
\* process a request found.
LEMMA RowStep ==
  ASSUME AccessInv, UNCHANGED <<shares, loosest, conf>>,
         pending' \in [Requests -> PendingRecords \cup {NoRequest}],
         \A d \in Requests : pending'[d] \in {pending[d], NoRequest},
         proc' \in [Procs_ -> RowRecords],
         \A d \in Requests : pending[d].id \in Procs_ =>
           proc'[pending[d].id].owner = proc[pending[d].id].owner,
         \A i \in Procs_ : Rank(proc'[i].sandbox) > loosest => proc'[i].entitled
  PROVE  TargetsAuthorised' => AccessInv'
<1>1. AccessTypeOK' /\ SandboxInv'
  BY DEF AccessInv, AccessTypeOK, SandboxInv
<1>2. ASSUME NEW d \in Requests, pending'[d] # NoRequest PROVE PendingInv(pending[d])'
  <2>1. loosest' \in Nat /\ loosest' >= loosest /\ shares' \subseteq shares
    BY DEF AccessInv, AccessTypeOK
  <2> QED BY <1>2, <2>1, RequestsKept DEF AccessInv
<1> QED
  BY <1>1, <1>2 DEF AccessInv, RequestsInv

LEMMA DoneShape ==
  ASSUME AccessTypeOK, NEW r \in Requests, Done(r)
  PROVE  /\ pending' \in [Requests -> PendingRecords \cup {NoRequest}]
         /\ \A d \in Requests : pending'[d] \in {pending[d], NoRequest}
BY DEF Done, AccessTypeOK

LEMMA GuardedEffect ==
  ASSUME AccessInv, NEW r \in Requests, pending[r].op \in Guarded, pending[r].step = "act",
         NEW op, op = pending[r].op, Effect(r, op, pending[r].id)
  PROVE  TargetsAuthorised'
<1>1. pending[r] # NoRequest
  BY RequestRecords
<1>2. Authorised(pending[r])
  BY <1>1 DEF AccessInv, RequestsInv, PendingInv
<1> QED
  BY <1>2 DEF Authorised, Effect, TargetsAuthorised

LEMMA OtherEffect ==
  ASSUME NEW r, NEW i, NEW op, op \notin Guarded, Effect(r, op, i)
  PROVE  TargetsAuthorised'
BY DEF Effect, TargetsAuthorised

\* Ending a child, or removing its row, keeps whose it was and what it was started with.
RowsKept ==
  /\ proc' \in [Procs_ -> RowRecords]
  /\ \A i \in Procs_ : /\ proc'[i].owner = proc[i].owner /\ proc'[i].sandbox = proc[i].sandbox
                       /\ proc'[i].entitled = proc[i].entitled

LEMMA EndedRow ==
  ASSUME AccessTypeOK, NEW i \in Procs_,
         \/ proc' = [proc EXCEPT ![i].live = FALSE]
         \/ proc' = [proc EXCEPT ![i] = Gone(@)]
         \/ UNCHANGED proc
  PROVE  RowsKept
<1> DEFINE row_ == proc[i]
<1>1. row_ \in RowRecords
  BY DEF AccessTypeOK
<1>2. CASE proc' = [proc EXCEPT ![i].live = FALSE]
  <2>1. proc' = [proc EXCEPT ![i] = [row_ EXCEPT !.live = FALSE]]
    BY <1>2
  <2> HIDE DEF row_
  <2>2. [row_ EXCEPT !.live = FALSE] \in RowRecords
    BY <1>1 DEF RowRecords
  <2> QED BY <1>1, <2>1, <2>2 DEF AccessTypeOK, RowsKept, RowRecords, row_
<1>3. CASE proc' = [proc EXCEPT ![i] = Gone(@)]
  <2>1. proc' = [proc EXCEPT ![i] = Gone(row_)]
    BY <1>3
  <2> HIDE DEF row_
  <2>2. /\ Gone(row_) \in RowRecords /\ Gone(row_).owner = row_.owner
        /\ Gone(row_).sandbox = row_.sandbox /\ Gone(row_).entitled = row_.entitled
    BY <1>1 DEF RowRecords, Gone
  <2> QED BY <1>1, <2>1, <2>2 DEF AccessTypeOK, RowsKept, row_
<1>4. CASE UNCHANGED proc
  BY <1>4 DEF AccessTypeOK, RowsKept
<1> QED BY <1>2, <1>3, <1>4

LEMMA StopRemoveUpdate ==
  ASSUME AccessInv, NEW r \in Requests, UNCHANGED confVars,
         DoStop(r) \/ DoRemove(r) \/ DoUpdate(r)
  PROVE  AccessInv'
<1> DEFINE q == pending[r]
<1>q. q # NoRequest /\ q \in PendingRecords /\ PendingInv(q) /\ q.step = "act"
  BY RequestRecords DEF AccessInv, AccessTypeOK, RequestsInv, DoStop, DoRemove, DoUpdate, At
<1>u. UNCHANGED <<shares, loosest, conf>> /\ AccessTypeOK
  BY DEF DoStop, DoRemove, DoUpdate, confVars, AccessInv
<1>i. q.id \in Procs_
  BY <1>q DEF PendingInv, DoStop, DoRemove, DoUpdate, At
<1>r. \A i \in Procs_ : Rank(proc[i].sandbox) > loosest => proc[i].entitled
  BY DEF AccessInv, SandboxInv
<1>1. ASSUME DoStop(r) PROVE AccessInv'
  <2>1. RowsKept
    BY <1>1, <1>u, <1>i, EndedRow DEF DoStop
  <2>2. TargetsAuthorised'
    <3>1. CASE did' = NoEffect
      BY <3>1, NoEffectIsAuthorised
    <3>2. CASE Effect(r, q.op, q.id) /\ q.op = "stop"
      BY <1>q, <3>2, GuardedEffect DEF Guarded
    <3>3. CASE Effect(r, q.op, q.id) /\ q.op = "disable"
      BY <3>3, OtherEffect DEF Guarded
    <3> QED BY <1>1, <3>1, <3>2, <3>3 DEF DoStop
  <2> QED BY <1>1, <1>u, <1>r, <2>1, <2>2, DoneShape, RowStep DEF DoStop, RowsKept
<1>2. ASSUME DoRemove(r) PROVE AccessInv'
  <2>1. RowsKept
    BY <1>2, <1>u, <1>i, EndedRow DEF DoRemove
  <2>2. TargetsAuthorised'
    <3>1. CASE did' = NoEffect
      BY <3>1, NoEffectIsAuthorised
    <3>2. CASE Effect(r, "remove", q.id)
      BY <1>2, <1>q, <3>2, GuardedEffect DEF Guarded, DoRemove, At
    <3> QED BY <1>2, <3>1, <3>2 DEF DoRemove
  <2> QED BY <1>2, <1>u, <1>r, <2>1, <2>2, DoneShape, RowStep DEF DoRemove, RowsKept
<1>3. ASSUME DoUpdate(r) PROVE AccessInv'
  <2>1. TargetsAuthorised' /\ proc' = proc
    BY <1>3, OtherEffect DEF DoUpdate, Guarded
  <2>2. CASE Done(r)
    <3>1. /\ proc' \in [Procs_ -> RowRecords]
          /\ \A i \in Procs_ : proc'[i] = proc[i]
      BY <1>u, <2>1 DEF AccessTypeOK
    <3> QED BY <2>2, <1>u, <1>r, <2>1, <3>1, DoneShape, RowStep
  <2>3. CASE pending' = [pending EXCEPT ![r].op = "restart", ![r].step = "resolve"]
    <3>1. /\ pending' \in [Requests -> PendingRecords \cup {NoRequest}]
          /\ pending'[r].step = "resolve" /\ pending'[r].by = q.by
          /\ pending'[r].op = "restart" /\ pending'[r].seen = q.seen
      BY <1>q, <1>u, <2>3, Operations DEF AccessTypeOK, PendingRecords
    <3>2. \A d \in Requests \ {r} : pending'[d] = pending[d]
      BY <2>3, <1>u DEF AccessTypeOK
    <3>3. Mine(q.by, "restart", shares) \subseteq q.seen
      BY <1>3, <1>q, Operations DEF DoUpdate, At, Mine, PendingInv
    <3>4. PendingInv(pending[r])'
      BY <1>u, <3>1, <3>3 DEF PendingInv
    <3>5. AccessTypeOK' /\ SandboxInv'
      BY <1>u, <2>1, <3>1 DEF AccessInv, AccessTypeOK, SandboxInv
    <3>6. ASSUME NEW d \in Requests, pending'[d] # NoRequest PROVE PendingInv(pending[d])'
      BY <1>u, <2>1, <3>2, <3>4, <3>6, RequestsKept DEF AccessInv, AccessTypeOK
    <3> QED BY <2>1, <3>5, <3>6 DEF AccessInv, RequestsInv
  <2> QED BY <1>3, <2>2, <2>3 DEF DoUpdate
<1> QED
  BY <1>1, <1>2, <1>3

\* A fresh process may take any owner, since no request has found it.
LEMMA FreshStep ==
  ASSUME AccessInv, NEW r \in Requests, Done(r), UNCHANGED <<shares, loosest, conf>>, Fresh # {},
         proc' \in [Procs_ -> RowRecords],
         \A i \in Procs_ \ {NewId} : /\ proc'[i].owner = proc[i].owner /\ proc'[i].sandbox = proc[i].sandbox
                                   /\ proc'[i].entitled = proc[i].entitled,
         Rank(proc'[NewId].sandbox) > loosest => proc'[NewId].entitled,
         TargetsAuthorised'
  PROVE  AccessInv'
<1>1. AccessTypeOK /\ \A i \in Procs_ : Rank(proc[i].sandbox) > loosest => proc[i].entitled
  BY DEF AccessInv, SandboxInv
<1>2. \A d \in Requests : pending[d].id # NewId
  BY NewIdIsFresh
<1>3. \A d \in Requests : pending[d].id \in Procs_ =>
        proc'[pending[d].id].owner = proc[pending[d].id].owner
  BY <1>2
<1>4. \A i \in Procs_ : Rank(proc'[i].sandbox) > loosest => proc'[i].entitled
  BY <1>1
<1> QED BY <1>1, <1>3, <1>4, DoneShape, RowStep

LEMMA RestartStep ==
  ASSUME AccessInv, NEW r \in Requests, UNCHANGED confVars, DoRestart(r)
  PROVE  AccessInv'
<1> DEFINE q == pending[r]
           old == proc[q.id]
           who == q.by.session
           successor == [old EXCEPT !.there = TRUE, !.owner = who, !.live = TRUE]
           ended == [old EXCEPT !.live = FALSE]
<1>q. q # NoRequest /\ q \in PendingRecords /\ PendingInv(q) /\ q.step = "act" /\ q.op = "restart"
  BY RequestRecords DEF AccessInv, AccessTypeOK, RequestsInv, DoRestart, At
<1>u. UNCHANGED <<shares, loosest, conf>> /\ AccessTypeOK /\ Fresh # {} /\ Done(r)
  BY DEF DoRestart, confVars, AccessInv
<1>i. q.id \in Procs_ /\ q.id # NewId /\ NewId \in Procs_
  BY <1>q, <1>u, NewIdIsFresh DEF PendingInv
<1>1. old \in RowRecords /\ who \in Owners
  BY <1>q, <1>u, <1>i DEF AccessTypeOK, PendingRecords, Whos
<1>2. proc' = [proc EXCEPT ![q.id] = ended, ![NewId] = successor]
  BY <1>i, <1>u DEF DoRestart, AccessTypeOK
<1>3. /\ successor \in RowRecords /\ successor.sandbox = old.sandbox /\ successor.entitled = old.entitled
      /\ ended \in RowRecords /\ ended.sandbox = old.sandbox /\ ended.entitled = old.entitled
      /\ ended.owner = old.owner
  <2> HIDE DEF old, who
  <2> QED BY <1>1 DEF RowRecords
<1>4. /\ proc' \in [Procs_ -> RowRecords]
      /\ \A i \in Procs_ \ {NewId} : /\ proc'[i].owner = proc[i].owner /\ proc'[i].sandbox = proc[i].sandbox
                                    /\ proc'[i].entitled = proc[i].entitled
      /\ proc'[NewId].sandbox = old.sandbox /\ proc'[NewId].entitled = old.entitled
  <2> HIDE DEF successor, ended
  <2> QED BY <1>2, <1>3, <1>i, <1>u DEF AccessTypeOK
<1>5. TargetsAuthorised'
  BY <1>q, GuardedEffect DEF DoRestart, Guarded
<1>6. Rank(old.sandbox) > loosest => old.entitled
  BY <1>i DEF AccessInv, SandboxInv
<1> QED
  BY <1>u, <1>4, <1>5, <1>6, FreshStep

LEMMA LaunchStep ==
  ASSUME AccessInv, NEW r \in Requests, UNCHANGED confVars, AccessLaunch(r)
  PROVE  AccessInv'
<1> DEFINE q == pending[r]
<1>q. q # NoRequest /\ q \in PendingRecords /\ PendingInv(q) /\ q.step = "act" /\ q.op = "start"
  BY RequestRecords DEF AccessInv, AccessTypeOK, RequestsInv, AccessLaunch, At
<1>u. UNCHANGED <<shares, loosest, conf>> /\ AccessTypeOK /\ Done(r)
  BY DEF AccessLaunch, confVars, AccessInv
<1>r. \A i \in Procs_ : Rank(proc[i].sandbox) > loosest => proc[i].entitled
  BY DEF AccessInv, SandboxInv
<1>1. CASE did' = NoEffect /\ UNCHANGED proc
  <2>1. proc' \in [Procs_ -> RowRecords] /\ \A i \in Procs_ : proc'[i] = proc[i]
    BY <1>1, <1>u DEF AccessTypeOK
  <2> QED BY <1>1, <1>u, <1>r, <2>1, NoEffectIsAuthorised, DoneShape, RowStep
<1>2. ASSUME NEW gone \in SUBSET Procs_,
             LET cleared == [i \in Procs_ |-> IF i \in gone THEN Gone(proc[i]) ELSE proc[i]]
                 new == [owner |-> q.by.session, live |-> TRUE, sandbox |-> q.box, there |-> TRUE,
                         entitled |-> Require(q.by, "sandbox:relax")]
                 known == q.box \in SandboxNames
             IN  /\ known => Fresh # {}
                 /\ proc' = IF known THEN [cleared EXCEPT ![NewId] = new] ELSE cleared
                 /\ IF gone = {} THEN did' = NoEffect
                    ELSE Effect(r, "replace", CHOOSE i \in gone : TRUE)
      PROVE  AccessInv'
  <2> DEFINE cleared == [i \in Procs_ |-> IF i \in gone THEN Gone(proc[i]) ELSE proc[i]]
             entitled == Require(q.by, "sandbox:relax")
             new == [owner |-> q.by.session, live |-> TRUE, sandbox |-> q.box, there |-> TRUE,
                     entitled |-> entitled]
  <2>1. TargetsAuthorised'
    BY <1>2, NoEffectIsAuthorised, OtherEffect DEF Guarded
  <2>2. /\ cleared \in [Procs_ -> RowRecords]
        /\ \A i \in Procs_ : /\ cleared[i].owner = proc[i].owner /\ cleared[i].sandbox = proc[i].sandbox
                             /\ cleared[i].entitled = proc[i].entitled
    BY <1>u DEF AccessTypeOK, RowRecords, Gone
  <2>3. CASE q.box \notin SandboxNames
    <3>1. proc' = cleared
      BY <1>2, <2>3
    <3> HIDE DEF cleared
    <3> QED BY <1>u, <1>r, <2>1, <2>2, <3>1, DoneShape, RowStep
  <2>4. CASE q.box \in SandboxNames
    <3>1. proc' = [cleared EXCEPT ![NewId] = new] /\ Fresh # {}
      BY <1>2, <2>4
    <3>2. q.by.session \in Owners /\ q.box \in BoxNames /\ entitled \in BOOLEAN
      BY <1>q DEF PendingRecords, Whos, Require
    <3>3. new \in RowRecords /\ new.sandbox = q.box /\ new.entitled = entitled
      <4> HIDE DEF entitled
      <4> QED BY <3>2 DEF RowRecords
    <3>4. Rank(new.sandbox) > loosest => new.entitled
      BY <1>q, <3>3, RankRange DEF PendingInv, AccessInv, AccessTypeOK
    <3> HIDE DEF cleared, new
    <3>5. /\ proc' \in [Procs_ -> RowRecords] /\ proc'[NewId] = new
          /\ \A i \in Procs_ \ {NewId} : proc'[i] = cleared[i]
      BY <2>2, <3>1, <3>3, NewIdIsFresh
    <3> QED BY <1>u, <2>1, <2>2, <3>1, <3>4, <3>5, FreshStep
  <2> QED BY <2>3, <2>4
<1>3. \A g \in {{}} \cup {{i} : i \in {j \in Procs_ : proc[j].live}} : g \in SUBSET Procs_
  OBVIOUS
<1> QED
  BY <1>1, <1>2, <1>3 DEF AccessLaunch

\* A grant joins the history of every request it could help.
LEMMA ShareStep ==
  ASSUME AccessInv, NEW p \in Principals, UNCHANGED confVars, DoShare(p)
  PROVE  AccessInv'
<1> USE DEF AccessInv
<1>u. UNCHANGED <<proc, loosest, conf>> /\ did' = NoEffect
  BY DEF DoShare, confVars
<1>1. PICK g \in GrantRecords :
        /\ shares' = shares \cup {g}
        /\ pending' = [q \in Requests |-> IF pending[q] = NoRequest THEN NoRequest
                         ELSE [pending[q] EXCEPT !.seen = @ \cup Mine(pending[q].by, pending[q].op, shares')]]
  <2>1. \A i \in Procs_, to \in Sessions_, c \in {"", "process:stop"} : Grant(i, c, to) \in GrantRecords
    BY Operations DEF Grant, GrantRecords, Sessions_, Owners, Capabilities
  <2> QED BY <2>1, Zenon DEF DoShare
<1>2. shares' \in SUBSET GrantRecords
  BY <1>1 DEF AccessTypeOK
<1>3. ASSUME NEW d \in Requests, pending[d] # NoRequest
      PROVE  /\ pending'[d] \in PendingRecords
             /\ pending'[d].op = pending[d].op /\ pending'[d].by = pending[d].by
             /\ pending'[d].id = pending[d].id /\ pending'[d].box = pending[d].box
             /\ pending'[d].step = pending[d].step
             /\ pending'[d].seen = pending[d].seen \cup Mine(pending[d].by, pending[d].op, shares')
  <2> DEFINE q == pending[d]
             m == Mine(q.by, q.op, shares')
  <2>1. q \in PendingRecords /\ m \in SUBSET GrantRecords
    BY <1>2, <1>3 DEF AccessTypeOK, Mine
  <2>2. pending'[d] = [q EXCEPT !.seen = q.seen \cup m]
    BY <1>1, <1>3
  <2> HIDE DEF q, m
  <2>3. /\ pending'[d] \in PendingRecords
        /\ pending'[d].op = q.op /\ pending'[d].by = q.by /\ pending'[d].id = q.id
        /\ pending'[d].box = q.box /\ pending'[d].step = q.step /\ pending'[d].seen = q.seen \cup m
    BY <2>1, <2>2 DEF PendingRecords
  <2> QED BY <2>3 DEF q, m
<1>4. ASSUME NEW d \in Requests, pending[d] = NoRequest PROVE pending'[d] = NoRequest
  BY <1>1, <1>4
<1>5. AccessTypeOK' /\ SandboxInv' /\ TargetsAuthorised'
  <2>1. pending' \in [Requests -> PendingRecords \cup {NoRequest}]
    BY <1>1, <1>3, <1>4
  <2> QED BY <1>u, <1>2, <2>1, NoEffectIsAuthorised DEF AccessTypeOK, SandboxInv
<1>6. ASSUME NEW d \in Requests, pending'[d] # NoRequest PROVE PendingInv(pending[d])'
  <2>1. pending[d] # NoRequest /\ PendingInv(pending[d])
    BY <1>4, <1>6 DEF RequestsInv
  <2>2. pending[d].step = "act" /\ pending[d].op \in Guarded => Authorised(pending[d])'
    BY <1>3, <1>u, <2>1 DEF PendingInv, Authorised
  <2> QED BY <1>3, <1>u, <2>1, <2>2 DEF PendingInv
<1> QED
  BY <1>5, <1>6 DEF RequestsInv

LEMMA AccessStep == AccessInv /\ [AccessNext]_accessFileVars => AccessInv'
<1> SUFFICES ASSUME AccessInv, [AccessNext]_accessFileVars PROVE AccessInv'
  OBVIOUS
<1>t. AccessTypeOK /\ RequestsInv /\ SandboxInv
  BY DEF AccessInv
<1>1. ASSUME ConfNext \/ Reload_, loosest' = Max({loosest, Rank(conf'.sandbox)}), did' = NoEffect,
             UNCHANGED <<proc, shares, pending>>
      PROVE  AccessInv'
  <2>1. DOMAIN conf' = Keys_ /\ conf'.sandbox \in BoxNames
    BY <1>1, <1>t, ConfStep DEF AccessTypeOK
  <2>2. loosest' \in Nat /\ loosest' >= loosest /\ loosest' >= Rank(conf'.sandbox)
    BY <1>1, <1>t, RankRange, MaxOfTwo DEF AccessTypeOK
  <2>3. AccessTypeOK'
    BY <1>1, <1>t, <2>1, <2>2 DEF AccessTypeOK
  <2>5. SandboxInv'
    <3>1. \A i \in Procs_ : Rank(proc'[i].sandbox) > loosest' => Rank(proc[i].sandbox) > loosest
      BY <1>1, <1>t, <2>2, RankRange DEF AccessTypeOK
    <3> QED BY <1>1, <1>t, <2>2, <3>1, RankRange DEF AccessTypeOK, SandboxInv
  <2>4. RequestsInv'
    BY <1>1, <1>t, <2>2, RequestsKept DEF RequestsInv
  <2> QED BY <1>1, <2>3, <2>4, <2>5, NoEffectIsAuthorised DEF AccessInv
<1>2. ASSUME NEW p \in Principals, ReloadHandler(p) PROVE AccessInv'
  BY <1>1, <1>2 DEF ReloadHandler
<1>3. ASSUME NEW r \in Requests, Handlers_(r), UNCHANGED confVars PROVE AccessInv'
  BY <1>3, RequestMoves, StopRemoveUpdate, RestartStep, LaunchStep DEF Handlers_, RequestOps
<1>4. ASSUME NEW p \in Principals, DoShare(p), UNCHANGED confVars PROVE AccessInv'
  BY <1>4, ShareStep
<1>5. ASSUME NEW p \in Principals, DoUnshare(p), UNCHANGED confVars PROVE AccessInv'
  <2>1. shares' \subseteq shares /\ UNCHANGED <<proc, pending, loosest, conf>> /\ did' = NoEffect
    BY <1>5 DEF DoUnshare, confVars
  <2>2. AccessTypeOK'
    BY <1>t, <2>1 DEF AccessTypeOK
  <2>3. SandboxInv'
    BY <1>t, <2>1 DEF SandboxInv
  <2>4. RequestsInv'
    BY <1>t, <2>1, RequestsKept DEF RequestsInv, AccessTypeOK
  <2> QED BY <2>1, <2>2, <2>3, <2>4, NoEffectIsAuthorised DEF AccessInv
<1>6. ASSUME NEW i \in Procs_, Exit_(i), UNCHANGED confVars PROVE AccessInv'
  <2>1. RowsKept /\ pending' \in [Requests -> PendingRecords \cup {NoRequest}]
    BY <1>t, <1>6, EndedRow DEF Exit_, AccessTypeOK
  <2> QED BY <1>6, <1>t, <2>1, NoEffectIsAuthorised, RowStep DEF Exit_, confVars, RowsKept, SandboxInv
<1>7. ASSUME UNCHANGED accessFileVars PROVE AccessInv'
  <2>1. UNCHANGED <<proc, shares, pending, loosest, did, conf>>
    BY <1>7 DEF accessFileVars, accessVars, confVars
  <2>2. AccessTypeOK' /\ SandboxInv' /\ TargetsAuthorised'
    BY <2>1 DEF AccessInv, AccessTypeOK, SandboxInv, TargetsAuthorised
  <2>3. RequestsInv'
    BY <1>t, <2>1, RequestsKept DEF RequestsInv, AccessTypeOK
  <2> QED BY <2>2, <2>3 DEF AccessInv
<1> QED
  BY <1>1, <1>2, <1>3, <1>4, <1>5, <1>6, <1>7 DEF AccessNext

LEMMA AccessStart == AccessInit => AccessInv
<1> SUFFICES ASSUME AccessInit PROVE AccessInv
  OBVIOUS
<1>1. AccessTypeOK
  BY RequestRecords DEF AccessInit, ConfInit, AccessTypeOK, NoConf, Unset, Keys_, BoxNames
<1>2. RequestsInv
  BY DEF AccessInit, RequestsInv
<1>4. SandboxInv
  <2>1. loosest = 0
    BY DEF AccessInit
  <2>2. Rank(conf.sandbox) = 0
    <3>1. conf.sandbox = ""
      BY DEF AccessInit, ConfInit, NoConf, Unset, Keys_
    <3> QED BY <3>1, RankUnset
  <2>3. ASSUME NEW i \in Procs_ PROVE Rank(proc[i].sandbox) = 0
    BY RequestRecords DEF AccessInit
  <2> QED BY <2>1, <2>2, <2>3 DEF SandboxInv
<1>3. TargetsAuthorised
  BY DEF AccessInit, NoEffect, TargetsAuthorised, Guarded
<1> QED BY <1>1, <1>2, <1>3, <1>4 DEF AccessInv

\* For any principals, requests, processes and grants, among reloads, exits and
\* restarts: a stop, restart or removal reaches a process of another session only for
\* an operator, for full, or under a grant for that capability on that process.
THEOREM AccessAuthorised == AccessSpec => []TargetsAuthorised
<1> QED
  BY AccessStart, AccessStep, PTL DEF AccessSpec, AccessInv

\* For any sandboxes, files and reloads: a child in a looser sandbox than every default
\* so far descends from a start whose principal had the right to relax it.
THEOREM SandboxRelaxedByRight == AccessSpec => []RelaxedByRight
<1>1. AccessInv => RelaxedByRight
  BY DEF AccessInv, SandboxInv, RelaxedByRight
<1> QED
  BY <1>1, AccessStart, AccessStep, PTL DEF AccessSpec

(***************************************************************************)
(* Audit: what a client was told stands in the trail.                      *)
(***************************************************************************)
Tasks ==
  [step : {"idle", "act", "finish", "insert", "sweep"}, op : AuditOps \cup {""},
   target : Audited \cup AuditOps \cup {""}, denied : BOOLEAN, open : BOOLEAN,
   after : Nat, acted : Nat]

\* The record of a deed is there until it is too old, and a record is no older than
\* the deed it is of.
Recorded(by, op, target, denied, after, acted) ==
  hours <= acted + MaxAge =>
    \E r \in trail : /\ r.by = by /\ r.op = op /\ r.target = target /\ r.denied = denied
                     /\ r.seq > after /\ r.at >= acted

AuditTypes ==
  /\ recseq \in Nat /\ hours \in Nat
  /\ IsFiniteSet(trail)
  /\ \A r \in trail : r.seq \in Nat /\ r.seq <= recseq /\ r.at \in Nat
  /\ task \in [Asking -> Tasks]
TaskHeld(c) ==
  /\ task[c].step = "act" => task[c].target \in Audited
  /\ task[c].step \in {"finish", "insert", "sweep"} =>
       task[c].target # "" /\ task[c].after <= recseq /\ task[c].acted <= hours
  /\ task[c].step = "sweep" =>
       Recorded(c, task[c].op, task[c].target, task[c].denied, task[c].after, task[c].acted)
TasksHeld == \A c \in Asking : TaskHeld(c)
ToldHeld ==
  \A e \in told : /\ e.target # "" /\ e.acted \in Nat
                  /\ Recorded(e.by, e.op, e.target, e.denied, e.after, e.acted)
AuditInv == AuditTypes /\ TasksHeld /\ ToldHeld

\* Nothing but age takes a record away.
LEMMA RecordedStays ==
  ASSUME AuditTypes, hours' \in Nat, hours <= hours',
         \A r \in trail : r \in trail' \/ r.at + MaxAge < hours',
         NEW by, NEW op, NEW target, NEW denied, NEW after, NEW acted \in Nat,
         Recorded(by, op, target, denied, after, acted)
  PROVE  Recorded(by, op, target, denied, after, acted)'
<1>1. MaxAge \in Nat
  BY AuditAssumption
<1>2. SUFFICES ASSUME hours' <= acted + MaxAge
               PROVE  \E r \in trail' :
                        /\ r.by = by /\ r.op = op /\ r.target = target /\ r.denied = denied
                        /\ r.seq > after /\ r.at >= acted
  BY DEF Recorded
<1>3. hours <= acted + MaxAge
  BY <1>1, <1>2 DEF AuditTypes
<1>4. PICK r \in trail :
        /\ r.by = by /\ r.op = op /\ r.target = target /\ r.denied = denied
        /\ r.seq > after /\ r.at >= acted
  BY <1>3 DEF Recorded
<1>5. ~(r.at + MaxAge < hours')
  <2>1. r.at \in Nat
    BY DEF AuditTypes
  <2> QED BY <1>1, <1>2, <1>4, <2>1
<1> QED
  BY <1>4, <1>5

LEMMA IdleTask == NoTask \in Tasks /\ NoTask.step = "idle"
  BY DEF NoTask, Tasks

LEMMA AuditStart == AuditInit => AuditInv
<1> SUFFICES ASSUME AuditInit PROVE AuditInv
  OBVIOUS
<1>1. IsFiniteSet(trail)
  BY FS_EmptySet DEF AuditInit
<1>2. task \in [Asking -> Tasks]
  BY IdleTask DEF AuditInit
<1>3. AuditTypes
  BY <1>1, <1>2 DEF AuditInit, AuditTypes
<1>4. TasksHeld
  BY IdleTask DEF AuditInit, TasksHeld, TaskHeld
<1>5. ToldHeld
  BY DEF AuditInit, ToldHeld
<1> QED
  BY <1>3, <1>4, <1>5 DEF AuditInv

LEMMA AuditBounds == AuditPage \in Nat /\ MaxAge \in Nat /\ "" \notin Audited
  BY AuditAssumption

LEMMA Expiries == \A m \in Nat : m + MaxAge \in Nat
<1>1. MaxAge \in Nat
  BY AuditBounds
<1> QED
  BY <1>1

LEMMA EitherWay == \A m, n \in Nat : m < n \/ m >= n
  OBVIOUS

LEMMA InOrder == \A m \in Nat : m <= m /\ \A k, n \in Nat : k <= m /\ m <= n => k <= n
  OBVIOUS

\* A step that leaves the trail's old records, the clients told and every task but
\* one alone, and takes that one to a task that fits.
LEMMA OneTask ==
  ASSUME AuditInv, NEW c \in Asking, NEW w \in Tasks,
         task' = [task EXCEPT ![c] = w],
         AuditTypes', recseq <= recseq', hours' = hours, told' = told,
         \A r \in trail : r \in trail' \/ r.at + MaxAge < hours',
         w.step = "act" => w.target \in Audited,
         w.step \in {"finish", "insert", "sweep"} =>
           w.target # "" /\ w.after <= recseq' /\ w.acted <= hours',
         w.step = "sweep" => Recorded(c, w.op, w.target, w.denied, w.after, w.acted)'
  PROVE  AuditInv'
<1>1. hours' \in Nat /\ hours <= hours' /\ recseq \in Nat /\ recseq' \in Nat /\ AuditTypes
  <2>1. AuditTypes
    BY DEF AuditInv
  <2>2. hours \in Nat /\ recseq \in Nat
    BY <2>1 DEF AuditTypes
  <2>3. recseq' \in Nat
    BY DEF AuditTypes
  <2>4. hours' \in Nat
    BY <2>2
  <2>5. hours <= hours'
    BY <2>2, InOrder, Zenon
  <2> QED BY <2>1, <2>2, <2>3, <2>4, <2>5, Zenon
<1>2. ASSUME NEW d \in Asking
      PROVE  TaskHeld(d)'
  <2>1. CASE d = c
    <3>1. task'[d] = w
      BY <2>1, <1>1 DEF AuditTypes
    <3> QED BY <2>1, <3>1 DEF TaskHeld
  <2>2. CASE d # c
    <3>1. task'[d] = task[d] /\ task[d] \in Tasks
      BY <2>2, <1>1 DEF AuditTypes
    <3>2. task[d].after \in Nat /\ task[d].acted \in Nat
      BY <3>1 DEF Tasks
    <3>3. ASSUME NEW v \in Tasks, v = task[d], v.step = "sweep"
          PROVE  Recorded(d, v.op, v.target, v.denied, v.after, v.acted)'
      <4>1. Recorded(d, v.op, v.target, v.denied, v.after, v.acted)
        BY <3>3 DEF AuditInv, TasksHeld, TaskHeld
      <4>2. v.after \in Nat /\ v.acted \in Nat
        BY DEF Tasks
      <4> QED BY <4>1, <4>2, <1>1, RecordedStays
    <3>4. TaskHeld(d)
      BY DEF AuditInv, TasksHeld
    <3>5. task[d].step = "sweep" => (Recorded(d, task[d].op, task[d].target, task[d].denied, task[d].after, task[d].acted))'
      BY <3>1, <3>3 DEF Recorded
    <3>6. task[d].step = "act" => task[d].target \in Audited
      BY <3>4 DEF TaskHeld
    <3>7. task[d].step \in {"finish", "insert", "sweep"} =>
            task[d].target # "" /\ task[d].after <= recseq' /\ task[d].acted <= hours'
      <4>1. SUFFICES ASSUME task[d].step \in {"finish", "insert", "sweep"}
                     PROVE  task[d].target # "" /\ task[d].after <= recseq' /\ task[d].acted <= hours'
        OBVIOUS
      <4>2. task[d].target # "" /\ task[d].after <= recseq /\ task[d].acted <= hours
        BY <3>4, <4>1 DEF TaskHeld
      <4> QED BY <1>1, <3>2, <4>2, InOrder, Zenon
    <3> QED BY <3>1, <3>5, <3>6, <3>7 DEF TaskHeld
  <2> QED BY <2>1, <2>2
<1>3. TasksHeld'
  BY <1>2 DEF TasksHeld
<1>4. ToldHeld'
  BY <1>1, RecordedStays DEF AuditInv, ToldHeld
<1> QED
  BY <1>3, <1>4 DEF AuditInv

\* The same for a step that leaves the trail and the time alone.
LEMMA QuietTask ==
  ASSUME AuditInv, NEW c \in Asking, NEW w \in Tasks,
         task' = [task EXCEPT ![c] = w],
         UNCHANGED <<trail, recseq, hours, told>>,
         w.step = "act" => w.target \in Audited,
         w.step \in {"finish", "insert", "sweep"} =>
           w.target # "" /\ w.after <= recseq /\ w.acted <= hours,
         w.step = "sweep" => Recorded(c, w.op, w.target, w.denied, w.after, w.acted)
  PROVE  AuditInv'
<1>1. AuditTypes'
  BY DEF AuditInv, AuditTypes
<1>2. recseq <= recseq'
  BY InOrder, Zenon DEF AuditInv, AuditTypes
<1>3. w.step = "sweep" => Recorded(c, w.op, w.target, w.denied, w.after, w.acted)'
  BY Zenon DEF Recorded
<1>4. \A r \in trail : r \in trail' \/ r.at + MaxAge < hours'
  OBVIOUS
<1>5. w.step \in {"finish", "insert", "sweep"} =>
        w.target # "" /\ w.after <= recseq' /\ w.acted <= hours'
  BY Zenon
<1> QED
  BY <1>1, <1>2, <1>3, <1>4, <1>5, OneTask

LEMMA AskStep ==
  ASSUME AuditInv, NEW c \in Asking, NEW op \in AuditOps, NEW t \in Audited, Ask(c, op, t)
  PROVE  AuditInv'
<1>0. recseq \in Nat /\ hours \in Nat
  BY DEF AuditInv, AuditTypes
<1>a. "" \notin AuditOps /\ "" \notin Audited
  BY AuditAssumption DEF AuditOps
<1> DEFINE let == [NoTask EXCEPT !.step = "act", !.op = op, !.target = t]
           deny == [let EXCEPT !.step = "insert", !.target = op, !.denied = TRUE,
                               !.after = recseq, !.acted = hours]
<1>1. let \in Tasks /\ let.step = "act" /\ let.target = t
  BY DEF Tasks, NoTask
<1>2. deny \in Tasks /\ deny.step = "insert" /\ deny.target = op /\ deny.after = recseq /\ deny.acted = hours
  BY <1>0 DEF Tasks, NoTask
<1>3. UNCHANGED <<trail, recseq, hours, told>>
  BY DEF Ask
<1>4. CASE task' = [task EXCEPT ![c] = let]
  <2> HIDE DEF let
  <2> QED BY <1>1, <1>3, <1>4, QuietTask
<1>5. CASE task' = [task EXCEPT ![c] = deny]
  <2> HIDE DEF let, deny
  <2>1. deny.target # "" /\ deny.after <= recseq /\ deny.acted <= hours
    BY <1>0, <1>2, <1>a, InOrder
  <2> QED BY <1>2, <1>3, <1>5, <2>1, QuietTask
<1> QED
  BY <1>4, <1>5 DEF Ask

LEMMA IdleStep ==
  ASSUME AuditInv, NEW c \in Asking, task' = [task EXCEPT ![c] = NoTask],
         UNCHANGED <<trail, recseq, hours, told>>
  PROVE  AuditInv'
  BY IdleTask, QuietTask

LEMMA ActStep ==
  ASSUME AuditInv, NEW c \in Asking, Act(c)
  PROVE  AuditInv'
<1>0. recseq \in Nat /\ hours \in Nat /\ task[c] \in Tasks /\ task \in [Asking -> Tasks]
  BY DEF AuditInv, AuditTypes
<1>1. UNCHANGED <<trail, recseq, hours, told>>
  BY DEF Act
<1>2. CASE task' = [task EXCEPT ![c].step = Next_(c), ![c].after = recseq, ![c].acted = hours]
  <2> DEFINE w == [task[c] EXCEPT !.step = Next_(c), !.after = recseq, !.acted = hours]
  <2>1. /\ w \in Tasks /\ w.step \in {"insert", "finish"} /\ w.target = task[c].target
        /\ w.after = recseq /\ w.acted = hours
    BY <1>0 DEF Next_, Tasks
  <2>2. task' = [task EXCEPT ![c] = w]
    BY <1>0, <1>2
  <2>3. task[c].target # ""
    BY AuditAssumption DEF AuditInv, TasksHeld, TaskHeld, Act
  <2> HIDE DEF w
  <2>4. w.target # "" /\ w.after <= recseq /\ w.acted <= hours
    BY <1>0, <2>1, <2>3, InOrder
  <2> QED BY <1>1, <2>1, <2>2, <2>4, QuietTask
<1>3. CASE task' = [task EXCEPT ![c] = NoTask]
  BY <1>1, <1>3, IdleStep
<1> QED
  BY <1>2, <1>3 DEF Act

LEMMA CompleteStep ==
  ASSUME AuditInv, NEW c \in Asking, Complete(c)
  PROVE  AuditInv'
<1>0. task[c] \in Tasks /\ task \in [Asking -> Tasks]
  BY DEF AuditInv, AuditTypes
<1>1. UNCHANGED <<trail, recseq, hours, told>>
  BY DEF Complete
<1>2. CASE task' = [task EXCEPT ![c].step = "insert"]
  <2> DEFINE w == [task[c] EXCEPT !.step = "insert"]
  <2>1. /\ w \in Tasks /\ w.step = "insert" /\ w.target = task[c].target
        /\ w.after = task[c].after /\ w.acted = task[c].acted
    BY <1>0 DEF Tasks
  <2>2. task' = [task EXCEPT ![c] = w]
    BY <1>0, <1>2
  <2>3. task[c].target # "" /\ task[c].after <= recseq /\ task[c].acted <= hours
    BY DEF AuditInv, TasksHeld, TaskHeld, Complete
  <2> HIDE DEF w
  <2> QED BY <1>1, <2>1, <2>2, <2>3, QuietTask
<1>3. CASE task' = [task EXCEPT ![c] = NoTask]
  BY <1>1, <1>3, IdleStep
<1> QED
  BY <1>2, <1>3 DEF Complete, Step

LEMMA HangUpStep ==
  ASSUME AuditInv, NEW c \in Asking, HangUp(c)
  PROVE  AuditInv'
<1> DEFINE w == [task[c] EXCEPT !.open = FALSE]
<1>0. task[c] \in Tasks /\ task \in [Asking -> Tasks]
  BY DEF AuditInv, AuditTypes
<1>1. UNCHANGED <<trail, recseq, hours, told>> /\ task' = [task EXCEPT ![c] = w]
  BY <1>0 DEF HangUp
<1>2. /\ w \in Tasks /\ w.step = task[c].step /\ w.target = task[c].target /\ w.op = task[c].op
      /\ w.denied = task[c].denied /\ w.after = task[c].after /\ w.acted = task[c].acted
  BY <1>0 DEF Tasks
<1>3. TaskHeld(c)
  BY DEF AuditInv, TasksHeld
<1> HIDE DEF w
<1> QED
  BY <1>1, <1>2, <1>3, QuietTask DEF TaskHeld

LEMMA InsertStep ==
  ASSUME AuditInv, NEW c \in Asking, Insert(c)
  PROVE  AuditInv'
<1>0. /\ recseq \in Nat /\ hours \in Nat /\ task[c] \in Tasks /\ task \in [Asking -> Tasks]
      /\ IsFiniteSet(trail)
      /\ \A r \in trail : r.seq \in Nat /\ r.seq <= recseq /\ r.at \in Nat
  BY DEF AuditInv, AuditTypes
<1>1. hours' = hours
  BY DEF Insert
<1> DEFINE new == [seq |-> recseq', by |-> c, op |-> task[c].op, target |-> task[c].target,
                   denied |-> task[c].denied, at |-> hours]
           w == [task[c] EXCEPT !.step = "sweep"]
<1>2. CASE /\ recseq' = recseq + 1 /\ trail' = trail \cup {new}
           /\ Step(c, "sweep") /\ UNCHANGED <<told, dbErrors>>
  <2>1. /\ w \in Tasks /\ w.step = "sweep" /\ w.target = task[c].target /\ w.op = task[c].op
        /\ w.denied = task[c].denied /\ w.after = task[c].after /\ w.acted = task[c].acted
    BY <1>0 DEF Tasks
  <2>2. task' = [task EXCEPT ![c] = w]
    BY <1>0, <1>2 DEF Step
  <2>3. /\ task[c].target # "" /\ task[c].after <= recseq /\ task[c].acted <= hours
        /\ task[c].after \in Nat /\ task[c].acted \in Nat
    BY <1>0 DEF AuditInv, TasksHeld, TaskHeld, Insert, Tasks
  <2>4. /\ new.seq = recseq + 1 /\ new.by = c /\ new.op = w.op /\ new.target = w.target
        /\ new.denied = w.denied /\ new.at = hours /\ new \in trail' /\ trail \subseteq trail'
    BY <1>2, <2>1
  <2> HIDE DEF w, new
  <2>5. IsFiniteSet(trail')
    BY <1>0, <1>2, FS_AddElement
  <2>6. \A r \in trail' : r.seq \in Nat /\ r.seq <= recseq' /\ r.at \in Nat
    <3>1. ASSUME NEW r \in trail PROVE r.seq \in Nat /\ r.seq <= recseq' /\ r.at \in Nat
      <4>1. r.seq \in Nat /\ r.seq <= recseq /\ r.at \in Nat
        BY <1>0
      <4> QED BY <1>0, <1>2, <4>1
    <3>2. new.seq \in Nat /\ new.seq <= recseq' /\ new.at \in Nat
      BY <1>0, <1>2, <2>4
    <3> QED BY <1>2, <3>1, <3>2
  <2>7. task' \in [Asking -> Tasks]
    BY <1>0, <2>1, <2>2
  <2>8. recseq' \in Nat /\ recseq <= recseq'
    BY <1>0, <1>2
  <2>9. AuditTypes'
    BY <1>0, <1>1, <2>5, <2>6, <2>7, <2>8 DEF AuditTypes
  <2>10. w.after <= recseq' /\ w.acted <= hours'
    BY <1>0, <1>1, <2>1, <2>3, <2>8, InOrder, Zenon
  <2>11. new.seq > w.after /\ new.at >= w.acted
    <3>1. task[c].after \in Nat /\ task[c].acted \in Nat /\ task[c].after <= recseq /\ task[c].acted <= hours
      BY <2>3
    <3>2. recseq + 1 > task[c].after /\ hours >= task[c].acted
      BY <1>0, <3>1
    <3> QED BY <2>1, <2>4, <3>2, Zenon
  <2>12. PICK v \in Tasks : v = w
    BY <2>1
  <2>14. Recorded(c, v.op, v.target, v.denied, v.after, v.acted)'
    BY <2>4, <2>11, <2>12 DEF Recorded
  <2>15. /\ task' = [task EXCEPT ![c] = v] /\ v.step = "sweep" /\ v.target # ""
         /\ v.after <= recseq' /\ v.acted <= hours'
    BY <2>1, <2>2, <2>3, <2>10, <2>12
  <2>13. told' = told /\ \A r \in trail : r \in trail' \/ r.at + MaxAge < hours'
    BY <1>2, <2>4
  <2> QED BY <1>1, <2>8, <2>9, <2>13, <2>14, <2>15, OneTask
<1>3. CASE task' = [task EXCEPT ![c] = NoTask] /\ UNCHANGED <<trail, recseq, told>>
  BY <1>1, <1>3, IdleStep
<1> QED
  BY <1>2, <1>3 DEF Insert

\* Steps that only forget requests, let time pass or take away old records.
LEMMA LossStep ==
  ASSUME AuditInv, AuditTypes', hours <= hours', recseq' = recseq,
         \A r \in trail : r \in trail' \/ r.at + MaxAge < hours',
         \A c \in Asking : task'[c] = task[c] \/ task'[c] = NoTask,
         \A e \in told' : \/ e \in told
                          \/ \E c \in Asking :
                               /\ task[c].step = "sweep" /\ e.by = c /\ e.op = task[c].op
                               /\ e.target = task[c].target /\ e.denied = task[c].denied
                               /\ e.after = task[c].after /\ e.acted = task[c].acted
  PROVE  AuditInv'
<1>1. AuditTypes /\ TasksHeld /\ ToldHeld
  BY DEF AuditInv
<1>2. hours \in Nat /\ recseq \in Nat /\ \A c \in Asking : task[c] \in Tasks
  BY <1>1 DEF AuditTypes
<1>3. hours' \in Nat
  BY DEF AuditTypes
<1>4. ASSUME NEW c \in Asking PROVE TaskHeld(c)'
  <2>1. CASE task'[c] = NoTask
    BY <2>1, IdleTask DEF TaskHeld
  <2>2. CASE task'[c] = task[c]
    <3>1. task[c] \in Tasks /\ task[c].after \in Nat /\ task[c].acted \in Nat
      BY <1>2 DEF Tasks
    <3>2. TaskHeld(c)
      BY <1>1 DEF TasksHeld
    <3>3. ASSUME NEW v, v = task[c], v.step = "sweep"
          PROVE  Recorded(c, v.op, v.target, v.denied, v.after, v.acted)'
      <4>1. Recorded(c, v.op, v.target, v.denied, v.after, v.acted)
        BY <3>2, <3>3 DEF TaskHeld
      <4>2. v.after \in Nat /\ v.acted \in Nat
        BY <3>1, <3>3
      <4> QED BY <1>1, <1>3, <4>1, <4>2, RecordedStays
    <3>5. task[c].step = "sweep" => (Recorded(c, task[c].op, task[c].target, task[c].denied, task[c].after, task[c].acted))'
      BY <2>2, <3>3 DEF Recorded
    <3>6. task[c].step = "act" => task[c].target \in Audited
      BY <3>2 DEF TaskHeld
    <3>7. ASSUME task[c].step \in {"finish", "insert", "sweep"}
          PROVE  task[c].target # "" /\ task[c].after <= recseq' /\ task[c].acted <= hours'
      <4>1. task[c].target # "" /\ task[c].after <= recseq /\ task[c].acted <= hours
        BY <3>2, <3>7 DEF TaskHeld
      <4> QED BY <1>2, <1>3, <3>1, <4>1, InOrder, Zenon
    <3> QED BY <2>2, <3>5, <3>6, <3>7 DEF TaskHeld
  <2> QED BY <2>1, <2>2
<1>5. ASSUME NEW e \in told'
      PROVE  /\ e.target # "" /\ e.acted \in Nat
             /\ Recorded(e.by, e.op, e.target, e.denied, e.after, e.acted)'
  <2>1. /\ e.target # "" /\ e.acted \in Nat
        /\ Recorded(e.by, e.op, e.target, e.denied, e.after, e.acted)
    <3>1. CASE e \in told
      BY <1>1, <3>1 DEF ToldHeld
    <3>2. CASE e \notin told
      <4>1. PICK c \in Asking :
              /\ task[c].step = "sweep" /\ e.by = c /\ e.op = task[c].op
              /\ e.target = task[c].target /\ e.denied = task[c].denied
              /\ e.after = task[c].after /\ e.acted = task[c].acted
        BY <3>2
      <4>2. TaskHeld(c) /\ task[c] \in Tasks
        BY <1>1, <1>2 DEF TasksHeld
      <4>3. task[c].acted \in Nat
        BY <4>2 DEF Tasks
      <4> QED BY <4>1, <4>2, <4>3 DEF TaskHeld
    <3> QED BY <3>1, <3>2
  <2> QED BY <1>1, <1>3, <2>1, RecordedStays
<1>6. TasksHeld'
  BY <1>4 DEF TasksHeld
<1>7. ToldHeld'
  BY <1>5 DEF ToldHeld
<1> QED
  BY <1>6, <1>7 DEF AuditInv

LEMMA SweepStep ==
  ASSUME AuditInv, NEW c \in Asking, Sweep(c)
  PROVE  AuditInv'
<1>0. /\ recseq \in Nat /\ hours \in Nat /\ task \in [Asking -> Tasks] /\ IsFiniteSet(trail)
      /\ \A r \in trail : r.seq \in Nat /\ r.seq <= recseq /\ r.at \in Nat
  BY DEF AuditInv, AuditTypes
<1>1. hours' = hours /\ recseq' = recseq /\ task' = [task EXCEPT ![c] = NoTask] /\ task[c].step = "sweep"
  BY DEF Sweep
<1>2. trail' \subseteq trail /\ \A r \in trail : r \in trail' \/ r.at + MaxAge < hours'
  <2>1. CASE trail' = Kept(trail)
    <3>1. trail' = {r \in trail : r.at + MaxAge >= hours}
      BY <2>1 DEF Kept
    <3>2. ASSUME NEW r \in trail PROVE r.at + MaxAge >= hours \/ r.at + MaxAge < hours
      <4>1. r.at + MaxAge \in Nat
        BY <1>0, Expiries, Zenon
      <4> QED BY <1>0, <4>1, EitherWay, Zenon
    <3> QED BY <1>1, <3>1, <3>2
  <2>2. CASE trail' = trail
    BY <2>2
  <2> QED BY <2>1, <2>2 DEF Sweep
<1>3. AuditTypes'
  <2>1. IsFiniteSet(trail')
    BY <1>0, <1>2, FS_Subset
  <2>2. \A r \in trail' : r.seq \in Nat /\ r.seq <= recseq' /\ r.at \in Nat
    BY <1>0, <1>1, <1>2
  <2>3. task' \in [Asking -> Tasks]
    BY <1>0, <1>1, IdleTask
  <2> QED BY <1>0, <1>1, <2>1, <2>2, <2>3 DEF AuditTypes
<1>4. \A d \in Asking : task'[d] = task[d] \/ task'[d] = NoTask
  BY <1>0, <1>1
<1>5. ASSUME NEW e \in told', e \notin told
      PROVE  /\ task[c].step = "sweep" /\ e.by = c /\ e.op = task[c].op
             /\ e.target = task[c].target /\ e.denied = task[c].denied
             /\ e.after = task[c].after /\ e.acted = task[c].acted
  BY <1>1, <1>5 DEF Sweep
<1>6. hours <= hours'
  BY <1>0, <1>1
<1> QED
  BY <1>1, <1>2, <1>3, <1>4, <1>5, <1>6, LossStep

LEMMA AuditStep == AuditInv /\ [AuditNext]_auditVars => AuditInv'
<1> SUFFICES ASSUME AuditInv, [AuditNext]_auditVars PROVE AuditInv'
  OBVIOUS
<1>0. /\ recseq \in Nat /\ hours \in Nat /\ task \in [Asking -> Tasks] /\ IsFiniteSet(trail)
      /\ \A r \in trail : r.seq \in Nat /\ r.seq <= recseq /\ r.at \in Nat
  BY DEF AuditInv, AuditTypes
<1>1. CASE DaemonDies
  <2>1. UNCHANGED <<trail, recseq, hours, told>> /\ task' = [c \in Asking |-> NoTask]
    BY <1>1 DEF DaemonDies
  <2>2. AuditTypes'
    BY <1>0, <2>1, IdleTask DEF AuditTypes
  <2>3. hours <= hours' /\ \A c \in Asking : task'[c] = NoTask
    BY <1>0, <2>1
  <2> QED BY <2>1, <2>2, <2>3, LossStep
<1>2. CASE Time
  <2>1. UNCHANGED <<trail, recseq, told, task>> /\ hours' = hours + 1
    BY <1>2 DEF Time
  <2>2. AuditTypes'
    BY <1>0, <2>1 DEF AuditTypes
  <2>3. hours <= hours'
    BY <1>0, <2>1
  <2> QED BY <2>1, <2>2, <2>3, LossStep
<1>3. CASE UNCHANGED auditVars
  <2>1. UNCHANGED <<trail, recseq, hours, told, task>>
    BY <1>3 DEF auditVars
  <2>2. AuditTypes'
    BY <1>0, <2>1 DEF AuditTypes
  <2>3. hours <= hours'
    BY <1>0, <2>1
  <2> QED BY <2>1, <2>2, <2>3, LossStep
<1>4. ASSUME NEW c \in Asking, NEW op \in AuditOps, NEW t \in Audited, Ask(c, op, t) PROVE AuditInv'
  BY <1>4, AskStep
<1>5. ASSUME NEW c \in Asking, Act(c) \/ Complete(c) \/ Insert(c) \/ Sweep(c) \/ HangUp(c)
      PROVE  AuditInv'
  BY <1>5, ActStep, CompleteStep, InsertStep, SweepStep, HangUpStep
<1> QED
  BY <1>1, <1>2, <1>3, <1>4, <1>5 DEF AuditNext

\* For any clients, processes, retention and page: whoever was told of a deed or of a
\* refusal finds its record in a query about the target until age or enough newer
\* records of that target hide it.
THEOREM AuditKeeps == AuditSpec => []AuditTells
<1>1. AuditInv => AuditTells
  <2> SUFFICES ASSUME AuditInv, NEW e \in told, hours <= e.acted + MaxAge
               PROVE  \E r \in {x \in trail : /\ x.by = e.by /\ x.op = e.op /\ x.denied = e.denied
                                              /\ x.target = e.target /\ x.seq > e.after} :
                        \/ r \in Answer_(e.target, AuditPage)
                        \/ Cardinality({q \in trail : q.target = e.target /\ q.seq > r.seq}) >= AuditPage
    BY Zenon DEF AuditTells
  <2>1. e.target # "" /\ Recorded(e.by, e.op, e.target, e.denied, e.after, e.acted)
    BY DEF AuditInv, ToldHeld
  <2>2. PICK r \in trail : /\ r.by = e.by /\ r.op = e.op /\ r.target = e.target /\ r.denied = e.denied
                           /\ r.seq > e.after
    BY <2>1 DEF Recorded
  <2> DEFINE about == {x \in trail : e.target \in {"", x.target}}
             newer == {q \in about : q.seq > r.seq}
  <2>3. newer = {q \in trail : q.target = e.target /\ q.seq > r.seq} /\ r \in about
    BY <2>1, <2>2
  <2>4. Cardinality(newer) \in Nat
    BY FS_Subset, FS_CardinalityType DEF AuditInv, AuditTypes
  <2>5. Cardinality(newer) < AuditPage => r \in Answer_(e.target, AuditPage)
    BY <2>3 DEF Answer_
  <2>6. Cardinality(newer) < AuditPage \/ Cardinality(newer) >= AuditPage
    BY <2>4, AuditBounds, EitherWay, Zenon
  <2> QED BY <2>2, <2>3, <2>5, <2>6
<1> QED
  BY <1>1, AuditStart, AuditStep, PTL DEF AuditSpec
-----------------------------------------------------------------------------
(* Sandbox: what the mounts make of a path                                    *)

\* The components of the paths there are, and the paths.
Word == STRING \cup {".ssh", ".gnupg", ".aws", ".config", "gcloud", "tmp", "docker.sock"}
PathNames == Seq(Word)

LEMMA UnderMeans ==
  ASSUME NEW p \in PathNames, NEW q \in PathNames
  PROVE  Under(p, q) <=> Len(q) <= Len(p) /\ \A i \in 1 .. Len(q) : p[i] = q[i]
<1>1. Len(p) \in Nat /\ Len(q) \in Nat
  BY DEF PathNames
<1>2. SubSeq(q, 1, Len(q)) = q
  BY SubSeqFull DEF PathNames
<1>3. CASE Len(q) <= Len(p)
  <2> DEFINE r == SubSeq(p, 1, Len(q))
  <2>1. r \in Seq(Word) /\ Len(r) = Len(q) /\ \A i \in 1 .. Len(q) : r[i] = p[i]
    <3>1. \A i \in 1 .. Len(q) : p[i] \in Word
      BY <1>1, <1>3 DEF PathNames
    <3>2. 1 \in Int /\ Len(q) \in Int
      BY <1>1
    <3>3. /\ r \in Seq(Word) /\ Len(r) = IF 1 <= Len(q) THEN Len(q) - 1 + 1 ELSE 0
          /\ \A i \in 1 .. Len(q) - 1 + 1 : r[i] = p[1 + i - 1]
      BY <3>1, <3>2, SubSeqProperties
    <3> QED BY <1>1, <3>3
  <2> HIDE DEF r
  <2>2. r = q <=> \A i \in 1 .. Len(q) : r[i] = q[i]
    BY <2>1, SeqEqual DEF PathNames
  <2>3. Under(p, q) <=> q = r
    BY <1>2, <1>3 DEF Under, IsPrefix, r
  <2> QED BY <1>3, <2>1, <2>2, <2>3
<1>4. CASE ~(Len(q) <= Len(p))
  BY <1>4 DEF Under, IsPrefix
<1> QED
  BY <1>3, <1>4

\* What is below a path that is below another is below that one.
LEMMA UnderChain ==
  ASSUME NEW p \in PathNames, NEW q \in PathNames, NEW r \in PathNames, Under(p, q), Under(q, r)
  PROVE  Under(p, r)
<1>1. Len(p) \in Nat /\ Len(q) \in Nat /\ Len(r) \in Nat
  BY DEF PathNames
<1> QED BY <1>1, UnderMeans

\* Two paths with something below both lie on one line.
LEMMA UnderLine ==
  ASSUME NEW p \in PathNames, NEW q \in PathNames, NEW r \in PathNames, Under(p, q), Under(p, r)
  PROVE  Under(q, r) \/ Under(r, q)
<1>1. Len(p) \in Nat /\ Len(q) \in Nat /\ Len(r) \in Nat
  BY DEF PathNames
<1> QED BY <1>1, UnderMeans

LEMMA PathsTyped ==
  /\ Home \in PathNames /\ <<>> \in PathNames /\ <<"tmp">> \in PathNames
  /\ Temps \subseteq PathNames /\ Roots \subseteq PathNames /\ SystemRO \subseteq PathNames
  /\ Sockets \subseteq PathNames /\ Later \subseteq PathNames /\ HostFiles \subseteq PathNames
<1>1. \A s \in Seq(STRING) : s \in PathNames
  BY SeqMonotonic DEF PathNames, Word
<1>2. <<>> \in PathNames /\ <<"tmp">> \in PathNames
  BY DEF PathNames, Word
<1> QED BY <1>1, <1>2, SandboxAssumption

LEMMA UnderEmpty == ASSUME NEW p \in PathNames PROVE Under(p, <<>>)
<1>1. <<>> \in PathNames /\ Len(<<>>) = 0 /\ Len(p) \in Nat
  BY PathsTyped DEF PathNames
<1> QED BY <1>1, UnderMeans

\* One more component: where it leads, and what is before it.
LEMMA Below ==
  ASSUME NEW p \in PathNames, NEW w \in Word
  PROVE  LET q == p \o <<w>>
         IN  /\ q \in PathNames /\ Under(q, p) /\ Last(q) = w /\ Front(q) = p
             /\ p = <<>> => q[1] = w
<1> DEFINE q == p \o <<w>>
<1>1. <<w>> \in Seq(Word) /\ Len(<<w>>) = 1 /\ <<w>>[1] = w
  OBVIOUS
<1>2. /\ q \in Seq(Word) /\ Len(q) = Len(p) + 1 /\ Len(p) \in Nat
      /\ \A i \in 1 .. Len(p) + 1 : q[i] = IF i <= Len(p) THEN p[i] ELSE <<w>>[i - Len(p)]
  BY <1>1, ConcatProperties DEF PathNames
<1>3. Len(p) + 1 \in 1 .. Len(p) + 1 /\ ~(Len(p) + 1 <= Len(p)) /\ Len(p) + 1 - Len(p) = 1
  BY <1>2
<1> HIDE DEF q
<1>4. Last(q) = w
  BY <1>1, <1>2, <1>3 DEF Last
<1>5. \A i \in 1 .. Len(p) : q[i] = p[i]
  BY <1>2
<1>6. Under(q, p)
  BY <1>2, <1>5, UnderMeans DEF PathNames
<1>7. Front(q) = p
  <2>1. Front(q) = SubSeq(q, 1, Len(p))
    BY <1>2 DEF Front
  <2>2. SubSeq(p, 1, Len(p)) = p
    BY SubSeqFull DEF PathNames
  <2> QED BY <1>2, <1>6, <2>1, <2>2 DEF Under, IsPrefix
<1>8. p = <<>> => q[1] = w
  BY <1>2, <1>4 DEF Last
<1> QED
  BY <1>2, <1>4, <1>6, <1>7, <1>8 DEF PathNames, q

DotDirs == {Home \o <<".ssh">>, Home \o <<".gnupg">>, Home \o <<".aws">>}
Gcloud == Home \o <<".config", "gcloud">>

LEMMA SecretShape ==
  /\ DenyMountPaths \subseteq PathNames /\ SecretDirs \subseteq PathNames
  /\ \A p \in SecretDirs : Under(p, Home) /\ (Dotted(p) => Front(p) = Home)
  /\ \A p \in DenyMountPaths : Dotted(p) => p \in SecretDirs
  /\ Home = <<>> => \A p \in SecretDirs : p[1] \in {".ssh", ".gnupg", ".aws", ".config"} /\ Len(p) >= 1
<1>1. Home \in PathNames /\ <<>> \in PathNames
  BY PathsTyped
<1>2. ASSUME NEW w \in {".ssh", ".gnupg", ".aws"}, NEW p, p = Home \o <<w>>
      PROVE  /\ p \in PathNames /\ Under(p, Home) /\ Front(p) = Home
             /\ Home = <<>> => p[1] = w /\ Len(p) >= 1
  <2>1. w \in Word
    BY DEF Word
  <2>2. p \in PathNames /\ Under(p, Home) /\ Front(p) = Home /\ Last(p) = w /\ (Home = <<>> => p[1] = w)
    BY <1>1, <1>2, <2>1, Below
  <2>3. Len(p) >= 1
    BY <1>1, <1>2, <2>1 DEF PathNames
  <2> QED BY <2>2, <2>3
<1>3. PICK c : c = Home \o <<".config">>
  OBVIOUS
<1>4. c \in PathNames /\ Under(c, Home) /\ (Home = <<>> => c[1] = ".config") /\ Len(c) >= 1
  <2>1. ".config" \in Word
    BY DEF Word
  <2>2. Len(c) >= 1
    BY <1>1, <1>3, <2>1 DEF PathNames
  <2> QED BY <1>1, <1>3, <2>1, <2>2, Below
<1>5. Gcloud = c \o <<"gcloud">>
  <2>1. <<".config">> \in Seq(Word) /\ <<"gcloud">> \in Seq(Word)
    BY DEF Word
  <2>2. <<".config", "gcloud">> = <<".config">> \o <<"gcloud">>
    OBVIOUS
  <2> QED BY <1>1, <1>3, <2>1, <2>2, ConcatAssociative DEF Gcloud, PathNames
<1>6. /\ Gcloud \in PathNames /\ Under(Gcloud, Home) /\ ~Dotted(Gcloud)
      /\ Home = <<>> => Gcloud[1] = ".config" /\ Len(Gcloud) >= 1
  <2>1. "gcloud" \in Word
    BY DEF Word
  <2>2. Gcloud \in PathNames /\ Under(Gcloud, c) /\ Last(Gcloud) = "gcloud"
    BY <1>4, <1>5, <2>1, Below
  <2>3. Under(Gcloud, Home)
    BY <1>1, <1>4, <2>2, UnderChain
  <2>4. Len(c) <= Len(Gcloud) /\ \A i \in 1 .. Len(c) : Gcloud[i] = c[i]
    BY <1>4, <2>2, UnderMeans
  <2>5. Len(Gcloud) \in Nat /\ Len(c) \in Nat
    BY <1>4, <2>2 DEF PathNames
  <2> QED BY <1>4, <2>2, <2>3, <2>4, <2>5 DEF Dotted
<1>7. \A m \in Markers : <<m>> \in PathNames /\ ~Dotted(<<m>>)
  <2> SUFFICES ASSUME NEW m \in Markers PROVE <<m>> \in PathNames /\ ~Dotted(<<m>>)
    OBVIOUS
  <2>1. m \in Word
    BY DEF Markers, Word
  <2>2. <<>> \o <<m>> = <<m>>
    BY <2>1
  <2> QED BY <1>1, <2>1, <2>2, Below DEF Dotted
<1>8. SecretDirs = DotDirs \cup {Gcloud}
  BY DEF SecretDirs, DotDirs, Gcloud
<1>9. \A p \in DotDirs : /\ p \in PathNames /\ Under(p, Home) /\ Front(p) = Home
                         /\ Home = <<>> => p[1] \in {".ssh", ".gnupg", ".aws"} /\ Len(p) >= 1
  BY <1>2 DEF DotDirs
<1>10. \A p \in SecretDirs : /\ p \in PathNames /\ Under(p, Home) /\ (Dotted(p) => Front(p) = Home)
                             /\ Home = <<>> => p[1] \in {".ssh", ".gnupg", ".aws", ".config"} /\ Len(p) >= 1
  BY <1>6, <1>8, <1>9
<1> QED
  BY <1>7, <1>10 DEF DenyMountPaths

\* The mounts of one layer.
LEMMA MountOf ==
  ASSUME NEW l, NEW k, NEW P
  PROVE  /\ \A m \in On(l, k, P) : m.layer = l /\ m.kind = k /\ m.at \in P
         /\ \A p \in P : \E m \in On(l, k, P) : m.layer = l /\ m.kind = k /\ m.at = p
<1>1. ASSUME NEW p \in P PROVE \E m \in On(l, k, P) : m.layer = l /\ m.kind = k /\ m.at = p
  <2>1. PICK m : m = [layer |-> l, kind |-> k, at |-> p]
    OBVIOUS
  <2>2. m \in On(l, k, P)
    BY <2>1 DEF On
  <2> QED BY <2>1, <2>2
<1> QED
  BY <1>1 DEF On

\* What a set of mounts shows of a path: the one on top decides.
View(M, f, k) ==
  \E m \in {n \in M : Under(f, n.at)} : m.kind = k /\ \A n \in {o \in M : Under(f, o.at)} : n.layer <= m.layer

LEMMA StrictView ==
  ASSUME NEW root \in Roots, NEW f \in PathNames, NEW M, M = StrictMounts(root)
  PROVE  /\ Under(f, root) => View(M, f, "rw")
         /\ View(M, f, "rw") => Under(f, root) \/ Under(f, temp)
         /\ View(M, f, "ro") => /\ \E p \in SystemRO : Under(f, p)
                                /\ Home \notin {<<>>, root} => ~Under(f, Home)
<1>1. \A m \in M : /\ m.layer \in 1 .. 5
                   /\ m.layer = 1 => m.kind = "ro" /\ m.at \in SystemRO
                   /\ m.layer \in {2, 3} => m.kind = "tmpfs"
                   /\ m.layer = 4 => m.kind = "rw" /\ m.at = temp
                   /\ m.layer = 5 => m.kind = "rw" /\ m.at = root
  BY MountOf DEF StrictMounts
<1>2. /\ Home \notin {<<>>, root} => \E m \in M : m.layer = 2 /\ m.at = Home
      /\ \E m \in M : m.layer = 5 /\ m.at = root
  BY MountOf DEF StrictMounts
<1> QED
  BY <1>1, <1>2 DEF View

LEMMA StandardView ==
  ASSUME NEW root \in Roots, NEW dirs \in SUBSET Later, NEW f \in PathNames,
         NEW M, M = StandardMounts(root, dirs)
  PROVE  /\ View(M, f, "rw") => Under(f, root) \/ Under(f, temp)
         /\ Under(f, root)
            /\ (\A p \in DenyMountPaths : ~isUnderPath(p, root) => \A q \in MaskOf(p, dirs) : ~Under(f, q))
            /\ (\A s \in Sockets : ~isUnderPath(s, root) => ~Under(f, s))
              => View(M, f, "rw")
         /\ \A p \in DenyMountPaths : ~isUnderPath(p, root) /\ (\E q \in MaskOf(p, dirs) : Under(f, q)) =>
              ~View(M, f, "rw") /\ ~View(M, f, "ro")
         /\ \A s \in Sockets \cap dirs : ~isUnderPath(s, root) /\ Under(f, s) =>
              ~View(M, f, "rw") /\ ~View(M, f, "ro")
<1> DEFINE masks == UNION {MaskOf(p, dirs) : p \in {q \in DenyMountPaths : ~isUnderPath(q, root)}}
           nulls == {s \in Sockets \cap dirs : ~isUnderPath(s, root)}
<1>1. \A m \in M : /\ m.layer \in 1 .. 5
                   /\ m.layer = 1 => m.kind = "ro"
                   /\ m.layer = 2 => m.kind = "rw" /\ m.at = root
                   /\ m.layer = 3 => m.kind = "rw" /\ m.at = temp
                   /\ m.layer = 4 => m.kind = "tmpfs" /\ m.at \in masks
                   /\ m.layer = 5 => m.kind = "null" /\ m.at \in nulls
  BY MountOf DEF StandardMounts
<1>2. /\ \E m \in M : m.layer = 2 /\ m.at = root
      /\ \A q \in masks : \E m \in M : m.layer = 4 /\ m.at = q
      /\ \A s \in nulls : \E m \in M : m.layer = 5 /\ m.at = s
  <2>1. On(2, "rw", {root}) \subseteq M /\ On(4, "tmpfs", masks) \subseteq M /\ On(5, "null", nulls) \subseteq M
    BY DEF StandardMounts
  <2> HIDE DEF masks, nulls
  <2>2. \E m \in On(2, "rw", {root}) : m.layer = 2 /\ m.at = root
    BY MountOf
  <2>3. \A q \in masks : \E m \in On(4, "tmpfs", masks) : m.layer = 4 /\ m.at = q
    BY MountOf
  <2>4. \A s \in nulls : \E m \in On(5, "null", nulls) : m.layer = 5 /\ m.at = s
    BY MountOf
  <2> QED BY <2>1, <2>2, <2>3, <2>4
<1>3. \A q : q \in masks <=> \E p \in DenyMountPaths : ~isUnderPath(p, root) /\ q \in MaskOf(p, dirs)
  OBVIOUS
<1>4. \A s : s \in nulls <=> s \in Sockets \cap dirs /\ ~isUnderPath(s, root)
  OBVIOUS
<1> HIDE DEF masks, nulls
<1>5. View(M, f, "rw") => Under(f, root) \/ Under(f, temp)
  BY <1>1 DEF View
<1>6. ASSUME Under(f, root), \A q \in masks : ~Under(f, q), \A s \in nulls : ~Under(f, s)
      PROVE  View(M, f, "rw")
  <2>1. \A m \in M : Under(f, m.at) => m.layer \in 1 .. 3
    BY <1>1, <1>6
  <2>2. PICK r \in M : r.layer = 2 /\ r.at = root
    BY <1>2
  <2>3. CASE \E m \in M : Under(f, m.at) /\ m.layer = 3
    BY <1>1, <2>1, <2>3 DEF View
  <2>4. CASE ~\E m \in M : Under(f, m.at) /\ m.layer = 3
    <3>1. \A m \in M : Under(f, m.at) => m.layer <= 2
      BY <2>1, <2>4
    <3> QED BY <1>1, <1>6, <2>2, <3>1 DEF View
  <2> QED BY <2>3, <2>4
<1>7. ASSUME NEW m \in M, m.layer \in {4, 5}, Under(f, m.at)
      PROVE  ~View(M, f, "rw") /\ ~View(M, f, "ro")
  BY <1>1, <1>7 DEF View
<1> QED
  BY <1>2, <1>3, <1>4, <1>5, <1>6, <1>7

\* What a child was launched with is what the code makes of its profile, its root and
\* what existed then.
Launched(dirs, root, profile) ==
  [profile |-> profile, root |-> root, mounts |-> Mounts(profile, root, dirs), had |-> dirs]
BoxInv ==
  /\ temp \in Temps /\ there \subseteq Later
  /\ DOMAIN boxed = Boxes
  /\ \A b \in Boxes : boxed[b] = NoBox
                      \/ \E dirs \in SUBSET Later, root \in Roots, profile \in Profiles_ :
                           boxed[b] = Launched(dirs, root, profile)

LEMMA LaunchedSame ==
  ASSUME temp' = temp, NEW dirs, NEW root, NEW profile
  PROVE  Launched(dirs, root, profile)' = Launched(dirs, root, profile)
  BY DEF Launched, Mounts, StrictMounts, StandardMounts

LEMMA BoxStep == BoxInv /\ [SandboxNext]_sandboxVars => BoxInv'
<1> SUFFICES ASSUME BoxInv, [SandboxNext]_sandboxVars PROVE BoxInv'
  OBVIOUS
<1>1. temp' = temp
  BY DEF SandboxNext, Appears, LaunchBox, sandboxVars
<1>2. ASSUME boxed' = boxed, there' \subseteq Later PROVE BoxInv'
  <2>1. temp' \in Temps /\ DOMAIN boxed' = Boxes
    BY <1>1, <1>2 DEF BoxInv
  <2>2. ASSUME NEW b \in Boxes, boxed[b] # NoBox
        PROVE  \E dirs \in SUBSET Later, root \in Roots, profile \in Profiles_ :
                 boxed'[b] = Launched(dirs, root, profile)'
    BY <1>1, <1>2, <2>2, LaunchedSame DEF BoxInv
  <2> QED BY <1>2, <2>1, <2>2 DEF BoxInv
<1>3. ASSUME NEW p \in Later, Appears(p) PROVE BoxInv'
  BY <1>2, <1>3 DEF Appears, BoxInv
<1>4. ASSUME NEW b \in Boxes, NEW root \in Roots, NEW profile \in Profiles_, LaunchBox(b, profile, root)
      PROVE  BoxInv'
  <2>1. /\ boxed' = [boxed EXCEPT ![b] = Launched(there, root, profile)] /\ there' = there
        /\ there \in SUBSET Later
    BY <1>4 DEF LaunchBox, Launched, BoxInv
  <2>2. DOMAIN boxed' = Boxes /\ boxed'[b] = Launched(there, root, profile)
        /\ \A c \in Boxes \ {b} : boxed'[c] = boxed[c]
    BY <2>1 DEF BoxInv
  <2>3. PICK dirs \in SUBSET Later : dirs = there
    BY <2>1
  <2>4. boxed'[b] = Launched(dirs, root, profile)'
    BY <1>1, <2>2, <2>3, LaunchedSame
  <2>5. ASSUME NEW c \in Boxes \ {b}, boxed[c] # NoBox
        PROVE  \E d \in SUBSET Later, r \in Roots, q \in Profiles_ : boxed'[c] = Launched(d, r, q)'
    BY <1>1, <2>2, <2>5, LaunchedSame DEF BoxInv
  <2>6. ASSUME NEW c \in Boxes
        PROVE  boxed'[c] = NoBox
               \/ \E d \in SUBSET Later, r \in Roots, q \in Profiles_ : boxed'[c] = Launched(d, r, q)'
    BY <2>2, <2>4, <2>5
  <2> QED BY <1>1, <2>1, <2>2, <2>6 DEF BoxInv
<1>5. CASE UNCHANGED sandboxVars
  BY <1>2, <1>5 DEF BoxInv, sandboxVars
<1> QED
  BY <1>3, <1>4, <1>5 DEF SandboxNext

\* A confined child: how it was launched, and what its mounts show.
LEMMA ConfinedBox ==
  ASSUME BoxInv, NEW b \in Boxes, Confined(b)
  PROVE  /\ boxed[b].root \in Roots /\ boxed[b].had \in SUBSET Later
         /\ boxed[b].profile \in {"strict", "standard"}
         /\ boxed[b].mounts = IF boxed[b].profile = "strict" THEN StrictMounts(boxed[b].root)
                              ELSE StandardMounts(boxed[b].root, boxed[b].had)
<1>1. boxed[b] # NoBox
  BY DEF Confined, NoBox
<1>2. PICK dirs \in SUBSET Later, root \in Roots, profile \in Profiles_ : boxed[b] = Launched(dirs, root, profile)
  BY <1>1 DEF BoxInv
<1>3. /\ boxed[b].profile = profile /\ boxed[b].root = root /\ boxed[b].had = dirs
      /\ boxed[b].mounts = Mounts(profile, root, dirs)
  BY <1>2 DEF Launched
<1> QED
  BY <1>3 DEF Confined, Mounts

LEMMA ShowsView ==
  \A b, f, k : Shows(b, f, k) <=> View(boxed[b].mounts, f, k)
  BY DEF Shows, View, Covering

LEMMA HiddenSecrets ==
  ASSUME BoxInv, NEW b \in Boxes, NEW f \in HostFiles, Confined(b), Sees(b, f)
  PROVE  /\ Shows(b, f, "rw") => \E r \in WritableRoots(boxed[b].profile, boxed[b].root) : Under(f, r)
         /\ boxed[b].profile = "strict" /\ ~Under(f, boxed[b].root) /\ ~Under(f, temp) =>
              (\E p \in SystemRO : Under(f, p)) /\ (Under(f, Home) => Home = <<>>) /\ ~Secret(f)
         /\ boxed[b].profile = "standard" /\ Secret(f) /\ ~InProject(b, f) /\ ~Under(f, temp) =>
              \E p \in (SecretDirs \cup Sockets) \ boxed[b].had :
                Under(f, p) /\ (p \in SecretDirs => ~Dotted(p))
<1> PICK root \in Roots, had \in SUBSET Later : root = boxed[b].root /\ had = boxed[b].had
  BY ConfinedBox
<1> PICK M : M = boxed[b].mounts
  OBVIOUS
<1>1. /\ boxed[b].profile \in {"strict", "standard"}
      /\ M = IF boxed[b].profile = "strict" THEN StrictMounts(root) ELSE StandardMounts(root, had)
  BY ConfinedBox
<1>2. /\ Shows(b, f, "rw") <=> View(M, f, "rw")
      /\ Shows(b, f, "ro") <=> View(M, f, "ro")
      /\ View(M, f, "rw") \/ View(M, f, "ro")
  BY ShowsView DEF Sees
<1>3. f \in PathNames /\ root \in PathNames /\ Home \in PathNames
  BY PathsTyped
<1>4. Shows(b, f, "rw") => Under(f, root) \/ Under(f, temp)
  BY <1>1, <1>2, <1>3, StrictView, StandardView
<1>5. \A r \in {root, temp} : r \in WritableRoots(boxed[b].profile, boxed[b].root)
  BY <1>1 DEF WritableRoots, ProjectAndTemp
<1>6. \A p \in SecretDirs \cup Sockets : p \in PathNames /\ p # <<>>
  <2>1. ASSUME NEW p \in SecretDirs  PROVE p \in PathNames /\ p # <<>>
    <3>1. p \in PathNames /\ Under(p, Home) /\ (Home = <<>> => Len(p) >= 1)
      BY <2>1, SecretShape
    <3>2. Len(Home) <= Len(p) /\ Len(Home) \in Nat /\ (Home # <<>> => Len(Home) # 0)
      BY <1>3, <3>1, UnderMeans DEF PathNames
    <3> QED BY <3>1, <3>2
  <2>2. ASSUME NEW p \in Sockets  PROVE p \in PathNames /\ p # <<>>
    BY <1>3, PathsTyped, UnderEmpty, SandboxAssumption
  <2> QED BY <2>1, <2>2
<1>7. ASSUME boxed[b].profile = "strict", ~Under(f, root), ~Under(f, temp)
      PROVE  (\E p \in SystemRO : Under(f, p)) /\ (Under(f, Home) => Home = <<>>) /\ ~Secret(f)
  <2>0. View(M, f, "ro")
    BY <1>2, <1>4, <1>7
  <2>1. PICK s \in SystemRO : Under(f, s)
    BY <1>1, <1>3, <2>0, <1>7, StrictView
  <2>2. Under(f, Home) => Home = <<>>
    BY <1>1, <1>3, <2>0, <1>7, StrictView
  <2>3. s \in PathNames /\ s # <<>>
    BY PathsTyped, SandboxAssumption
  <2>4. ASSUME NEW p \in SecretDirs, Under(f, p) PROVE FALSE
    <3>1. p \in PathNames /\ Under(f, Home)
      BY <1>3, <2>4, SecretShape, UnderChain
    <3>2. p[1] \in {".ssh", ".gnupg", ".aws", ".config"} /\ Len(p) >= 1 /\ Len(p) \in Nat
      BY <2>2, <3>1, SecretShape DEF PathNames
    <3>3. Len(s) \in Nat /\ Len(s) >= 1 /\ Head(s) = s[1]
      BY <2>3 DEF PathNames
    <3>4. f[1] = p[1] /\ f[1] = s[1]
      BY <1>3, <2>1, <2>3, <2>4, <3>1, <3>2, <3>3, UnderMeans
    <3> QED BY <3>2, <3>3, <3>4, SandboxAssumption
  <2>5. ASSUME NEW p \in Sockets, Under(f, p) PROVE FALSE
    <3>1. p \in PathNames
      BY PathsTyped
    <3>2. Under(p, s) \/ Under(s, p)
      BY <1>3, <2>1, <2>3, <2>5, <3>1, UnderLine
    <3> QED BY <3>2, SandboxAssumption
  <2> QED BY <2>1, <2>2, <2>4, <2>5 DEF Secret
<1>8. ASSUME boxed[b].profile = "standard", Secret(f), ~InProject(b, f)
      PROVE  \E p \in (SecretDirs \cup Sockets) \ boxed[b].had : Under(f, p) /\ (p \in SecretDirs => ~Dotted(p))
  <2>1. PICK p \in SecretDirs \cup Sockets : Under(f, p)
    BY <1>8 DEF Secret
  <2>0. ~isUnderPath(p, root)
    <3>1. p \in PathNames /\ p # <<>> /\ (Under(p, root) => Under(f, root))
      BY <1>3, <1>6, <2>1, UnderChain
    <3> QED BY <1>8, <2>1, <3>1 DEF InProject, isUnderPath
  <2>2. M = StandardMounts(root, had) /\ ~isUnderPath(p, root) /\ (View(M, f, "rw") \/ View(M, f, "ro"))
    BY <1>1, <1>2, <1>8, <2>0
  <2>3. p \in SecretDirs => p \in DenyMountPaths
    BY DEF DenyMountPaths
  <2>4. p \in SecretDirs => \A q \in MaskOf(p, had) : ~Under(f, q)
    BY <1>3, <2>2, <2>3, StandardView
  <2>5. p \in SecretDirs => p \notin had /\ ~Dotted(p)
    <3>1. p \in SecretDirs /\ p \in had => p \in MaskOf(p, had)
      BY DEF MaskOf
    <3>2. p \in SecretDirs /\ p \notin had /\ Dotted(p) => Home \in MaskOf(p, had) /\ Under(f, Home)
      BY <1>3, <2>1, SecretShape, UnderChain DEF MaskOf
    <3> QED BY <2>1, <2>4, <3>1, <3>2
  <2>6. p \in Sockets => p \notin had
    BY <1>3, <2>1, <2>2, StandardView
  <2> QED BY <2>1, <2>5, <2>6
<1> QED
  BY <1>1, <1>4, <1>5, <1>7, <1>8

LEMMA OpenProject ==
  ASSUME BoxInv, NEW b \in Boxes, NEW f \in HostFiles, Confined(b), Under(f, boxed[b].root),
         boxed[b].profile = "standard" =>
           /\ ~\E p \in DenyMountPaths \cup Sockets : Under(f, p) /\ ~InProject(b, p)
           /\ Under(f, Home) /\ ~InProject(b, Home)
                => \A p \in SecretDirs : Dotted(p) => p \in boxed[b].had
  PROVE  Shows(b, f, "rw")
<1> PICK root \in Roots, had \in SUBSET Later : root = boxed[b].root /\ had = boxed[b].had
  BY ConfinedBox
<1> PICK M : M = boxed[b].mounts
  OBVIOUS
<1>1. /\ boxed[b].profile \in {"strict", "standard"}
      /\ M = IF boxed[b].profile = "strict" THEN StrictMounts(root) ELSE StandardMounts(root, had)
  BY ConfinedBox
<1>2. f \in PathNames /\ root \in PathNames /\ Home \in PathNames /\ Sockets \subseteq PathNames
      /\ DenyMountPaths \subseteq PathNames
  BY PathsTyped, SecretShape
<1>3. CASE boxed[b].profile = "strict"
  BY <1>1, <1>2, <1>3, StrictView, ShowsView
<1>4. CASE boxed[b].profile = "standard"
  <2>0. \A p : InProject(b, p) => isUnderPath(p, root)
    BY DEF InProject, isUnderPath
  <2>1. \A s \in Sockets : ~isUnderPath(s, root) => ~Under(f, s)
    BY <1>4, <2>0
  <2>2. ASSUME NEW p \in DenyMountPaths, ~isUnderPath(p, root), NEW q \in MaskOf(p, had), Under(f, q)
        PROVE  FALSE
    <3>1. CASE q = p
      BY <1>4, <2>0, <2>2, <3>1
    <3>2. CASE q # p
      <4>1. p \notin had /\ Dotted(p) /\ q = Front(p)
        BY <2>2, <3>2 DEF MaskOf
      <4>2. p \in SecretDirs /\ q = Home /\ Under(p, Home)
        BY <4>1, SecretShape
      <4>3. InProject(b, Home)
        BY <1>4, <2>2, <4>1, <4>2
      <4>4. root # <<>> /\ Under(p, root)
        BY <1>2, <2>2, <4>2, <4>3, UnderChain DEF InProject
      <4> QED BY <2>2, <4>4 DEF isUnderPath
    <3> QED BY <3>1, <3>2
  <2>3. \A p \in DenyMountPaths : ~isUnderPath(p, root) => \A q \in MaskOf(p, had) : ~Under(f, q)
    BY <2>2
  <2>4. Under(f, root) /\ M = StandardMounts(root, had)
    BY <1>1, <1>4
  <2>5. View(M, f, "rw")
    BY <1>2, <2>1, <2>3, <2>4, StandardView
  <2> QED BY <2>5, ShowsView
<1> QED
  BY <1>1, <1>3, <1>4

\* For any home, roots, temporary directory and files, whatever exists at a launch and
\* appears after it: outside its project a confined child sees no secret but those that
\* nothing stood for at its launch, writes only where its policy has a root, and can
\* write its project; under the standard profile a project at the root of the file
\* system does not open the secrets below it (bwrap.go: strictBwrapArgv,
\* standardBwrapArgv, isUnderPath).
THEOREM SandboxKeeps == SandboxSpec => []SandboxHolds
<1>1. SandboxInit => BoxInv
  BY DEF SandboxInit, BoxInv
<1>2. BoxInv => SandboxHolds
  <2> SUFFICES ASSUME BoxInv PROVE SecretsHidden /\ ProjectOpen
    BY DEF SandboxHolds
  <2>1. SecretsHidden
    BY HiddenSecrets DEF SecretsHidden
  <2>2. ProjectOpen
    BY OpenProject DEF ProjectOpen
  <2> QED BY <2>1, <2>2
<1> QED
  BY <1>1, <1>2, BoxStep, PTL DEF SandboxSpec
=============================================================================
