----------------------------- MODULE ControlProofs -----------------------------
(***************************************************************************)
(* Proofs about what a request changes besides processes: the profile      *)
(* store, declared services, client sessions with what hangs on them, the  *)
(* listing of rows page by page, and the order in which groups are walked. *)
(***************************************************************************)
EXTENDS Profiles, Declare, Sessions, Listing, Groups,
        FiniteSetTheorems, WellFoundedInduction, TLAPS

(***************************************************************************)
(* Profiles: the type invariant and FoundByKey together are inductive.     *)
(***************************************************************************)
ProfilesInv == ProfilesTypeOK /\ FoundByKey

LEMMA KeysInRange ==
  ASSUME NEW p \in ProfileRecords
  PROVE  KeyOf(p) \in ProfileKeys
BY DEF ProfileRecords, KeyOf, ProfileKeys

LEMMA ProfilesStep == ProfilesInv /\ [ProfilesNext]_profileVars => ProfilesInv'
<1> SUFFICES ASSUME ProfilesInv, [ProfilesNext]_profileVars PROVE ProfilesInv'
  OBVIOUS
<1> USE ProfilesAssumption DEF ProfilesInv
<1>k. \A i \in ProfileIds : profileByID[i] # NoProfile =>
        profileByID[i] \in ProfileRecords /\ KeyOf(profileByID[i]) \in ProfileKeys
  BY KeysInRange DEF ProfilesTypeOK, ProfileRecords, KeyOf, ProfileKeys
<1>1. ASSUME NEW chosen \in ProfileIds \cup {""}, NEW name \in ProfileNames \cup {""},
             NEW project \in Projects_, NEW env \in Tags,
             CreateProfile(chosen, name, project, env)
      PROVE  ProfilesInv'
  <2> DEFINE key == <<project, OrDefault(name)>>
             new == [name |-> OrDefault(name), project |-> project, env |-> env]
  <2>1. key \in ProfileKeys /\ new \in ProfileRecords /\ KeyOf(new) = key
    BY DEF ProfileKeys, ProfileRecords, OrDefault, KeyOf
  <2>2. PICK i \in ProfileIds : /\ profileByID' = [profileByID EXCEPT ![i] = new]
                                /\ byKey' = [byKey EXCEPT ![key] = i]
    BY <1>1 DEF CreateProfile
  <2>3. byKey[key] = ""
    BY <1>1 DEF CreateProfile
  <2> HIDE DEF key, new
  <2>4. ProfilesTypeOK'
    BY <2>1, <2>2 DEF ProfilesTypeOK
  <2>5. FoundByKey'
    <3> SUFFICES ASSUME NEW j \in ProfileIds, profileByID'[j] # NoProfile
                 PROVE  byKey'[KeyOf(profileByID'[j])] = j
      BY DEF FoundByKey
    <3>1. CASE j = i
      BY <3>1, <2>1, <2>2 DEF ProfilesTypeOK
    <3>2. CASE j # i
      <4>1. profileByID'[j] = profileByID[j]
        BY <3>2, <2>2 DEF ProfilesTypeOK
      <4>2. byKey[KeyOf(profileByID[j])] = j /\ KeyOf(profileByID[j]) # key
        BY <4>1, <2>3 DEF FoundByKey
      <4> QED BY <4>1, <4>2, <2>2, <1>k DEF ProfilesTypeOK
    <3> QED BY <3>1, <3>2
  <2> QED BY <2>4, <2>5
<1>2. ASSUME NEW i \in ProfileIds, NEW name \in ProfileNames \cup {""}, NEW env \in Tags \cup {""},
             UpdateProfile(i, name, env)
      PROVE  ProfilesInv'
  <2> DEFINE cur == profileByID[i]
             renamed == name # "" /\ name # cur.name
             new == [cur EXCEPT !.name = IF renamed THEN name ELSE @, !.env = IF env = "" THEN @ ELSE env]
  <2>1. /\ cur # NoProfile /\ profileByID' = [profileByID EXCEPT ![i] = new]
        /\ renamed => byKey[KeyOf(new)] = ""
        /\ byKey' = IF renamed THEN [byKey EXCEPT ![KeyOf(cur)] = "", ![KeyOf(new)] = i] ELSE byKey
    BY <1>2 DEF UpdateProfile, RenameTarget
  <2>2. cur \in ProfileRecords /\ KeyOf(cur) \in ProfileKeys /\ byKey[KeyOf(cur)] = i
    BY <2>1, <1>k DEF FoundByKey
  <2>3. new \in ProfileRecords /\ (~renamed => KeyOf(new) = KeyOf(cur))
    BY <2>2 DEF ProfileRecords, KeyOf
  <2>4. KeyOf(new) \in ProfileKeys
    BY <2>3, KeysInRange DEF ProfileRecords, KeyOf, ProfileKeys
  <2> HIDE DEF cur, new, renamed
  <2>5. ProfilesTypeOK'
    BY <2>1, <2>2, <2>3, <2>4 DEF ProfilesTypeOK
  <2>6. FoundByKey'
    <3> SUFFICES ASSUME NEW j \in ProfileIds, profileByID'[j] # NoProfile
                 PROVE  byKey'[KeyOf(profileByID'[j])] = j
      BY DEF FoundByKey
    <3>1. CASE j = i
      BY <3>1, <2>1, <2>2, <2>3, <2>4 DEF ProfilesTypeOK
    <3>2. CASE j # i
      <4>1. profileByID'[j] = profileByID[j]
        BY <3>2, <2>1 DEF ProfilesTypeOK
      <4>2. byKey[KeyOf(profileByID[j])] = j
        BY <4>1 DEF FoundByKey
      <4> QED BY <3>2, <4>1, <4>2, <2>1, <2>2, <1>k DEF ProfilesTypeOK
    <3> QED BY <3>1, <3>2
  <2> QED BY <2>5, <2>6
<1>3. ASSUME NEW i \in ProfileIds, DeleteProfile(i) PROVE ProfilesInv'
  <2>1. ProfilesTypeOK'
    BY <1>3, <1>k DEF DeleteProfile, ProfilesTypeOK
  <2>2. FoundByKey'
    <3> SUFFICES ASSUME NEW j \in ProfileIds, profileByID'[j] # NoProfile
                 PROVE  byKey'[KeyOf(profileByID'[j])] = j
      BY DEF FoundByKey
    <3>1. j # i /\ profileByID'[j] = profileByID[j]
      BY <1>3 DEF DeleteProfile, ProfilesTypeOK
    <3>2. byKey[KeyOf(profileByID[j])] = j /\ byKey[KeyOf(profileByID[i])] = i
      BY <3>1, <1>3 DEF DeleteProfile, FoundByKey
    <3> QED BY <1>3, <1>k, <3>1, <3>2 DEF DeleteProfile, ProfilesTypeOK
  <2> QED BY <2>1, <2>2
<1>4. ASSUME UNCHANGED <<profileByID, byKey>> PROVE ProfilesInv'
  BY <1>4 DEF ProfilesTypeOK, FoundByKey
<1> QED
  BY <1>1, <1>2, <1>3, <1>4 DEF ProfilesNext, profileVars, RemoveSession, UseProfile

\* For any ids, names and projects, and however many edits: every profile of the
\* store is found under its own key, so a project never holds two of one name.
THEOREM ProfilesFound == ProfilesSpec => []FoundByKey
<1>1. ProfilesInit => ProfilesInv
  BY ProfilesAssumption DEF ProfilesInit, ProfilesInv, ProfilesTypeOK, FoundByKey
<1> QED
  BY <1>1, ProfilesStep, PTL DEF ProfilesSpec, ProfilesInv

(***************************************************************************)
(* Declare: while an apply is under way, a declared service with an argv   *)
(* is present, was removed since, or still has its turn ahead.             *)
(***************************************************************************)
ApplyRecords == [at : {"idle", "apply", "applied"}, todo : SUBSET (1..Len(Services))]
DeclareTypeOK ==
  /\ argv \subseteq Declared
  /\ row \in [Declared -> {"absent", "running", "exited"}]
  /\ applier \in [Appliers -> ApplyRecords]
  /\ dropped \in [Appliers -> SUBSET Declared]
Covered(a, n) ==
  \/ row[n] # "absent" \/ n \in dropped[a]
  \/ applier[a].at = "apply" /\ \E i \in applier[a].todo : Services[i] = n
DeclareInv ==
  /\ DeclareTypeOK
  /\ \A a \in Appliers : applier[a].at # "idle" => \A n \in argv : Covered(a, n)

LEMMA ServiceAtPosition ==
  /\ \A i \in 1..Len(Services) : Services[i] \in Declared
  /\ \A n \in Declared : \E i \in 1..Len(Services) : Services[i] = n
BY DeclareAssumption DEF Declared, Range

LEMMA DeclareStep == DeclareInv /\ [DeclareNext]_declareVars => DeclareInv'
<1> SUFFICES ASSUME DeclareInv, [DeclareNext]_declareVars PROVE DeclareInv'
  OBVIOUS
<1> USE DEF DeclareInv
<1>r. Resting \in ApplyRecords /\ Resting.at = "idle"
  BY DEF Resting, ApplyRecords
<1>1. ASSUME NEW a \in Appliers, ApplyList(a) PROVE DeclareInv'
  <2>1. DeclareTypeOK'
    BY <1>1 DEF ApplyList, DeclareTypeOK, ApplyRecords, Missing
  <2>2. ASSUME NEW d \in Appliers, applier'[d].at # "idle", NEW n \in argv PROVE Covered(d, n)'
    <3>1. n \in Declared
      BY DEF DeclareTypeOK
    <3>2. PICK i \in 1..Len(Services) : Services[i] = n
      BY <3>1, ServiceAtPosition
    <3>3. CASE d = a
      BY <1>1, <3>2, <3>3 DEF ApplyList, DeclareTypeOK, Covered, Missing
    <3>4. CASE d # a
      BY <1>1, <2>2, <3>4 DEF ApplyList, DeclareTypeOK, Covered
    <3> QED BY <3>3, <3>4
  <2>3. argv' = argv
    BY <1>1 DEF ApplyList
  <2> QED BY <2>1, <2>2, <2>3
<1>2. ASSUME NEW a \in Appliers, Skip(a) PROVE DeclareInv'
  BY <1>2 DEF Skip, DeclareTypeOK, ApplyRecords, Covered, Rest, Turn
<1>3. ASSUME NEW a \in Appliers, StartService(a) PROVE DeclareInv'
  <2>1. CASE UNCHANGED row
    BY <1>3, <2>1, <1>r DEF StartService, DeclareTypeOK, AfterFailure, Covered
  <2>2. CASE /\ row' = [row EXCEPT ![Turn(a)] = "running"]
             /\ applier' = [applier EXCEPT ![a].todo = Rest(@)]
    BY <1>3, <2>2 DEF StartService, DeclareTypeOK, ApplyRecords, Covered, Rest, Turn
  <2> QED BY <1>3, <2>1, <2>2 DEF StartService
<1>4. ASSUME NEW a \in Appliers, ApplyDone(a) \/ ApplyReply(a) PROVE DeclareInv'
  BY <1>4, <1>r DEF ApplyDone, ApplyReply, DeclareTypeOK, ApplyRecords, Covered
<1>5. ASSUME NEW n \in Declared, Exit(n) \/ RemoveRow(n) PROVE DeclareInv'
  BY <1>5 DEF Exit, RemoveRow, DeclareTypeOK, Covered
<1>6. CASE UNCHANGED declareVars
  BY <1>6 DEF declareVars, DeclareTypeOK, Covered
<1> QED
  BY <1>1, <1>2, <1>3, <1>4, <1>5, <1>6 DEF DeclareNext

\* For any list of services and any number of applies, among which clients remove
\* rows and processes exit: an apply that answers success left every declared
\* service with an argv in the store, or a client removed it since.
THEOREM ApplyCompletes == DeclareSpec => []AppliedMeansPresent
<1>1. DeclareInit => DeclareInv
  BY DEF DeclareInit, DeclareInv, DeclareTypeOK, ApplyRecords, Resting, Covered
<1>2. DeclareInv => AppliedMeansPresent
  BY DEF DeclareInv, Covered, AppliedMeansPresent
<1> QED
  BY <1>1, <1>2, DeclareStep, PTL DEF DeclareSpec

(***************************************************************************)
(* Sessions: the two indexes, and what a session.end owes.                 *)
(***************************************************************************)
ReqRecords ==
  [at : {"idle", "mint", "answer", "end", "endPayload", "opened", "check", "collect", "stop",
         "register", "moveFlag"},
   key : Keys \cup {None, "anon"}, keys : SUBSET Keys, sid : Ids \cup Procs \cup {None},
   todo : SUBSET Procs, then : {None, "answer", "opened"}, owed : SUBSET Procs]
SessionsTypeOK ==
  /\ byID \in [Ids -> Keys \cup {None, "anon"}] /\ byHarness \in [Keys -> Ids \cup {None}]
  /\ minted \in SUBSET Ids /\ known \in SUBSET minted /\ \A i \in Ids : byID[i] # None => i \in minted
  /\ req \in [Reqs -> ReqRecords]
  /\ child \in [Procs -> {"none", "live", "dead"}] /\ sod \in [Procs -> Keys \cup {None}]
  /\ unstopped \in SUBSET Procs

\* A process that runs although its Stop was asked for and reported done.
Escaped(p) == child[p] = "live" /\ p \notin unstopped

\* What a request holds of sessions: the names it collected are the names of the
\* session it is to end, as long as that one lives.
NamesInv(q) ==
  /\ q.at \in {"answer", "opened", "check", "collect", "stop"} => q.sid \in minted
  /\ q.at = "mint" => /\ q.key # None /\ q.then # None
                      /\ q.then = "opened" => q.key \in q.keys \cup {"anon"}
  /\ q.at \in {"end", "endPayload"} =>
                     /\ q.key \in q.keys /\ q.key \in Harness \cup minted
                     /\ Live(q.key) => Named(q.key) \subseteq q.keys
  /\ q.at = "opened" /\ Live(q.sid) => byID[q.sid] \in q.keys \cup {"anon"}

\* What it holds of processes: each one it owes an end is still registered under those
\* names, then on its list, unless it was ended or its Stop failed.
OwedInv(q) ==
  /\ \A p \in q.owed : child[p] # "none"
  /\ q.at \in {"check", "collect"} => \A p \in q.owed : Escaped(p) => sod[p] \in q.keys
  /\ q.at = "stop" => \A p \in q.owed : Escaped(p) => p \in q.todo

\* A process that was never started, or whose start has still to register its flag, has
\* none; the latter is no other's to register and owed by nobody; a restart has already
\* stopped its predecessor.
Registering(r, p) == req[r].at \in {"register", "moveFlag"} /\ p \in req[r].todo
RegisterInv ==
  /\ \A p \in Procs : child[p] = "none" => sod[p] = None
  /\ \A r \in Reqs :
      /\ req[r].at = "register" => req[r].key \in Keys
      /\ req[r].at = "moveFlag" => /\ req[r].key # "anon" /\ req[r].sid \in Procs
                                   /\ child[req[r].sid] # "none" /\ ~Escaped(req[r].sid)
      /\ \A p \in Procs : Registering(r, p) =>
           /\ child[p] # "none" /\ sod[p] = None
           /\ \A d \in Reqs : p \notin req[d].owed /\ (Registering(d, p) => d = r)

SessionsInv ==
  /\ SessionsTypeOK /\ SessionIndex /\ RegisterInv
  /\ \A r \in Reqs : NamesInv(req[r]) /\ OwedInv(req[r])

\* An id stays in use, and while it lives it keeps its name.
NamesKept ==
  /\ minted \subseteq minted'
  /\ \A i \in minted : byID'[i] # None => byID'[i] = byID[i]

\* A process that was started never runs unasked again, and only the start that has
\* still to register a flag gives one.
ProcsKept(registered) ==
  \A p \in Procs :
    /\ child[p] # "none" => child'[p] # "none" /\ (Escaped(p)' => Escaped(p))
    /\ p \in registered \/ sod'[p] = None \/ sod'[p] = sod[p]
    /\ child[p] # "none" /\ Escaped(p)' => p \in registered \/ sod'[p] = sod[p]

LEMMA OtherRequests ==
  ASSUME SessionsInv, NamesKept, NEW registered, ProcsKept(registered),
         NEW d \in Reqs, req'[d] = req[d], \A p \in req[d].owed : p \notin registered
  PROVE  NamesInv(req[d])' /\ OwedInv(req[d])'
<1> DEFINE q == req[d]
<1>1. q \in ReqRecords /\ NamesInv(q) /\ OwedInv(q)
  BY DEF SessionsInv, SessionsTypeOK
<1>2. ASSUME NEW i \in minted PROVE Live(i)' => Live(i) /\ Named(i)' = Named(i)
  BY DEF SessionsInv, SessionsTypeOK, NamesKept, Live, Named
<1>3. Live(q.key)' /\ q.key \in Harness \cup minted => q.key \in minted
  BY SessionsAssumption DEF Live
<1>4. NamesInv(req[d])'
  <2>1. q.at \in {"answer", "opened", "check", "collect", "stop"} => q.sid \in minted'
    BY <1>1 DEF NamesInv, NamesKept
  <2>2. q.at \in {"end", "endPayload"} =>
                        /\ q.key \in q.keys /\ q.key \in Harness \cup minted'
                        /\ Live(q.key)' => Named(q.key)' \subseteq q.keys
    BY <1>1, <1>2, <1>3 DEF NamesInv, NamesKept
  <2>3. q.at = "opened" /\ Live(q.sid)' => byID'[q.sid] \in q.keys \cup {"anon"}
    BY <1>1, <1>2 DEF NamesInv, NamesKept, Live
  <2>4. q.at = "mint" => q.key # None /\ q.then # None /\ (q.then = "opened" => q.key \in q.keys \cup {"anon"})
    BY <1>1 DEF NamesInv
  <2> QED BY <2>1, <2>2, <2>3, <2>4 DEF NamesInv
<1>5. ASSUME NEW p \in q.owed
      PROVE  child'[p] # "none" /\ (Escaped(p)' => Escaped(p) /\ sod'[p] = sod[p])
  BY <1>1 DEF OwedInv, ProcsKept, ReqRecords
<1>6. OwedInv(req[d])'
  BY <1>1, <1>5 DEF OwedInv
<1> QED BY <1>4, <1>6

LEMMA RegisterKept ==
  ASSUME SessionsInv, SessionsTypeOK', NEW registered, ProcsKept(registered),
         NEW R \in SUBSET Reqs,
         \A d \in Reqs \ R : req'[d] = req[d],
         \A r \in R : req'[r].at \notin {"register", "moveFlag"},
         \A d \in Reqs \ R, p \in Procs : Registering(d, p) =>
           p \notin registered /\ \A r \in R : p \notin req'[r].owed,
         \A p \in Procs : p \in registered => child[p] # "none"
  PROVE  RegisterInv'
<1>n. \A p \in Procs : child'[p] = "none" => sod'[p] = None
  BY DEF SessionsInv, RegisterInv, ProcsKept
<1> SUFFICES ASSUME NEW d \in Reqs
             PROVE  /\ req'[d].at = "register" => req'[d].key \in Keys
                    /\ req'[d].at = "moveFlag" =>
                         /\ req'[d].key # "anon" /\ req'[d].sid \in Procs
                         /\ child'[req'[d].sid] # "none" /\ ~(Escaped(req[d].sid)')
                    /\ \A p \in Procs : Registering(d, p)' =>
                         /\ child'[p] # "none" /\ sod'[p] = None
                         /\ \A e \in Reqs : p \notin req'[e].owed /\ (Registering(e, p)' => e = d)
  BY <1>n DEF RegisterInv
<1>1. CASE d \in R
  BY <1>1 DEF Registering
<1>2. CASE d \notin R
  <2>1. req'[d] = req[d] /\ RegisterInv
    BY <1>2 DEF SessionsInv
  <2>2. /\ req'[d].at = "register" => req'[d].key \in Keys
        /\ req'[d].at = "moveFlag" =>
              /\ req'[d].key # "anon" /\ req'[d].sid \in Procs
              /\ child'[req'[d].sid] # "none" /\ ~(Escaped(req[d].sid)')
    BY <2>1 DEF RegisterInv, ProcsKept, Escaped
  <2>3. ASSUME NEW p \in Procs, Registering(d, p)'
        PROVE  /\ child'[p] # "none" /\ sod'[p] = None
               /\ \A e \in Reqs : p \notin req'[e].owed /\ (Registering(e, p)' => e = d)
    <3>1. Registering(d, p)
      BY <2>1, <2>3 DEF Registering
    <3>2. child'[p] # "none" /\ sod'[p] = None
      BY <1>2, <2>1, <3>1 DEF RegisterInv, ProcsKept
    <3>3. ASSUME NEW e \in Reqs PROVE p \notin req'[e].owed /\ (Registering(e, p)' => e = d)
      <4>1. CASE e \in R
        BY <1>2, <3>1, <4>1 DEF Registering
      <4>2. CASE e \notin R
        <5>1. req'[e] = req[e]
          BY <4>2
        <5> QED BY <2>1, <3>1, <5>1 DEF RegisterInv, Registering
      <4> QED BY <4>1, <4>2
    <3> QED BY <3>2, <3>3
  <2> QED BY <2>2, <2>3
<1> QED BY <1>1, <1>2

LEMMA PlainStep ==
  ASSUME SessionsInv, NEW r \in Reqs, NamesKept, ProcsKept({}), SessionsTypeOK', SessionIndex',
         \A d \in Reqs \ {r} : req'[d] = req[d],
         req'[r].at \notin {"register", "moveFlag"},
         \A d \in Reqs, p \in Procs : Registering(d, p) => p \notin req'[r].owed,
         NamesInv(req[r])', OwedInv(req[r])'
  PROVE  SessionsInv'
<1>1. RegisterInv'
  <2> DEFINE R == {r}
             none == {}
  <2>1. /\ R \in SUBSET Reqs /\ ProcsKept(none)
        /\ \A d \in Reqs \ R : req'[d] = req[d]
        /\ \A e \in R : req'[e].at \notin {"register", "moveFlag"}
        /\ \A d \in Reqs \ R, p \in Procs : Registering(d, p) =>
             p \notin none /\ \A e \in R : p \notin req'[e].owed
        /\ \A p \in Procs : p \in none => child[p] # "none"
    OBVIOUS
  <2> HIDE DEF R, none
  <2> QED BY <2>1, RegisterKept
<1>2. \A d \in Reqs : NamesInv(req[d])' /\ OwedInv(req[d])'
  BY OtherRequests
<1> QED BY <1>1, <1>2 DEF SessionsInv

\* A step that moves one request on and changes neither sessions nor processes.
LEMMA QuietStep ==
  ASSUME SessionsInv, NEW r \in Reqs, UNCHANGED <<byID, byHarness, minted, procVars>>,
         known' \subseteq minted,
         req' \in [Reqs -> ReqRecords], \A d \in Reqs \ {r} : req'[d] = req[d],
         req'[r].at \notin {"register", "moveFlag"}, req'[r].owed \in {{}, req[r].owed},
         NamesInv(req'[r]), OwedInv(req'[r])
  PROVE  SessionsInv'
<1>1. NamesKept /\ ProcsKept({})
  BY DEF NamesKept, ProcsKept, procVars, Escaped
<1>2. SessionsTypeOK'
  BY DEF SessionsInv, SessionsTypeOK, procVars
<1>3. SessionIndex'
  BY DEF SessionsInv, SessionIndex
<1>4. \A d \in Reqs, p \in Procs : Registering(d, p) => p \notin req'[r].owed
  BY DEF SessionsInv, RegisterInv
<1>5. NamesInv(req[r])'
  BY DEF NamesInv, Live, Named
<1>6. OwedInv(req[r])'
  BY DEF OwedInv, Escaped, procVars
<1> QED BY <1>1, <1>2, <1>3, <1>4, <1>5, <1>6, PlainStep

LEMMA IdleRequest ==
  /\ Idle \in ReqRecords /\ Idle.at = "idle" /\ Idle.owed = {} /\ Idle.todo = {} /\ Idle.keys = {}
  /\ NamesInv(Idle) /\ OwedInv(Idle)
<1>1. Idle \in ReqRecords /\ Idle.at = "idle" /\ Idle.owed = {} /\ Idle.todo = {} /\ Idle.keys = {}
  BY DEF Idle, ReqRecords
<1> QED BY <1>1 DEF NamesInv, OwedInv

LEMMA Lookups ==
  ASSUME SessionsInv, NEW r \in Reqs, NEW q \in ReqRecords, q.key \in Keys \cup {"anon"},
         NEW then \in {"answer", "opened"}, Lookup(r, q, then),
         then = "opened" => q.key \in q.keys \cup {"anon"} /\ ~Live(q.key),
         \A p \in q.owed : child[p] # "none"
  PROVE  /\ req' \in [Reqs -> ReqRecords] /\ \A d \in Reqs \ {r} : req'[d] = req[d]
         /\ req'[r].at \notin {"register", "moveFlag"} /\ req'[r].owed = q.owed
         /\ NamesInv(req'[r]) /\ OwedInv(req'[r])
<1> DEFINE found == IF q.key = "anon" THEN None ELSE IF Live(q.key) THEN q.key ELSE byHarness[q.key]
<1>t. SessionsTypeOK /\ SessionIndex
  BY DEF SessionsInv
<1>1. found # None => /\ found \in minted
                      /\ then = "opened" => byID[found] \in q.keys \cup {"anon"}
  BY <1>t, SessionsAssumption DEF SessionsTypeOK, SessionIndex, Live
<1>2. CASE found # None
  <2>1. req' = [req EXCEPT ![r] = [q EXCEPT !.at = then, !.then = None, !.key = None, !.sid = found]]
    BY <1>2 DEF Lookup, Opened
  <2> HIDE DEF found
  <2>2. found \in Ids
    BY <1>t, <1>1, <1>2 DEF SessionsTypeOK
  <2>3. req'[r] = [q EXCEPT !.at = then, !.then = None, !.key = None, !.sid = found]
    BY <1>t, <2>1 DEF SessionsTypeOK
  <2>4. /\ req'[r] \in ReqRecords /\ req'[r].at = then /\ req'[r].owed = q.owed
        /\ req'[r].sid = found /\ req'[r].keys = q.keys
    BY <2>2, <2>3 DEF ReqRecords
  <2>5. NamesInv(req'[r]) /\ OwedInv(req'[r])
    BY <1>1, <1>2, <2>4 DEF NamesInv, OwedInv
  <2> QED BY <1>t, <2>1, <2>4, <2>5 DEF SessionsTypeOK
<1>3. CASE found = None
  <2>1. req' = [req EXCEPT ![r] = [q EXCEPT !.at = "mint", !.then = then]]
    BY <1>3 DEF Lookup
  <2> HIDE DEF found
  <2>2. req'[r] = [q EXCEPT !.at = "mint", !.then = then]
    BY <1>t, <2>1 DEF SessionsTypeOK
  <2>3. /\ req'[r] \in ReqRecords /\ req'[r].at = "mint" /\ req'[r].owed = q.owed
        /\ req'[r].then = then /\ req'[r].keys = q.keys /\ req'[r].key = q.key
    BY <2>2 DEF ReqRecords
  <2>4. NamesInv(req'[r]) /\ OwedInv(req'[r])
    BY <2>3, SessionsAssumption DEF NamesInv, OwedInv, None
  <2> QED BY <1>t, <2>1, <2>3, <2>4 DEF SessionsTypeOK
<1> QED BY <1>2, <1>3

LEMMA InfoSteps ==
  ASSUME SessionsInv, NEW r \in Reqs,
         (\E k \in Keys \cup {"anon"} : Info(r, k)) \/ InfoDone(r)
  PROVE  SessionsInv'
<1>t. SessionsTypeOK /\ req[r] \in ReqRecords /\ NamesInv(req[r]) /\ OwedInv(req[r])
  BY DEF SessionsInv, SessionsTypeOK
<1>1. ASSUME NEW k \in Keys \cup {"anon"}, Info(r, k) PROVE SessionsInv'
  <2>1. PICK q : q = [Idle EXCEPT !.key = k] /\ Lookup(r, q, "answer") /\ UNCHANGED <<sessVars, procVars>>
    BY <1>1 DEF Info
  <2>2. q \in ReqRecords /\ q.key = k /\ q.owed = {}
    BY <2>1, IdleRequest DEF ReqRecords
  <2>3. /\ req' \in [Reqs -> ReqRecords] /\ \A d \in Reqs \ {r} : req'[d] = req[d]
        /\ req'[r].at \notin {"register", "moveFlag"} /\ req'[r].owed = {}
        /\ NamesInv(req'[r]) /\ OwedInv(req'[r])
    BY <2>1, <2>2, Lookups
  <2> QED BY <1>t, <2>1, <2>3, QuietStep DEF sessVars, SessionsTypeOK
<1>2. ASSUME InfoDone(r) PROVE SessionsInv'
  BY <1>t, <1>2, IdleRequest, QuietStep DEF InfoDone, Finish, SessionsTypeOK, NamesInv
<1> QED BY <1>1, <1>2

LEMMA MintStep == ASSUME SessionsInv, NEW r \in Reqs, Mint(r) PROVE SessionsInv'
<1> DEFINE q == req[r]
           k == q.key
<1>t. SessionsTypeOK /\ SessionIndex /\ q \in ReqRecords /\ NamesInv(q) /\ OwedInv(q) /\ q.at = "mint"
  BY DEF SessionsInv, SessionsTypeOK, Mint
<1>k. /\ k \in Keys \cup {"anon"} /\ q.then \in {"answer", "opened"}
      /\ q.then = "opened" => k \in q.keys \cup {"anon"}
  BY <1>t DEF NamesInv, ReqRecords
<1>u. UNCHANGED <<known, procVars>>
  BY DEF Mint
<1>o. ASSUME NEW i \in Ids, req' = [req EXCEPT ![r] = Opened(@, q.then, i)]
      PROVE  /\ req' \in [Reqs -> ReqRecords] /\ \A d \in Reqs \ {r} : req'[d] = req[d]
             /\ req'[r].at = q.then /\ req'[r].sid = i /\ req'[r].owed = q.owed /\ req'[r].keys = q.keys
  <2>1. req'[r] = [q EXCEPT !.at = q.then, !.then = None, !.key = None, !.sid = i]
    BY <1>t, <1>o DEF Opened, SessionsTypeOK
  <2>2. /\ req'[r] \in ReqRecords /\ req'[r].at = q.then /\ req'[r].sid = i
        /\ req'[r].owed = q.owed /\ req'[r].keys = q.keys
    <3> HIDE DEF q
    <3> QED BY <1>t, <1>k, <2>1 DEF ReqRecords
  <2> QED BY <1>t, <1>o, <2>2 DEF SessionsTypeOK
<1>1. ASSUME Recheck(k), req' = [req EXCEPT ![r] = Opened(@, q.then, byHarness[k])],
             UNCHANGED <<byID, byHarness, minted>>
      PROVE  SessionsInv'
  <2>1. byHarness[k] \in Ids /\ byHarness[k] \in minted /\ k \in Keys /\ byID[byHarness[k]] = k
    BY <1>1, <1>k, <1>t, SessionsAssumption DEF Recheck, SessionsTypeOK, SessionIndex
  <2>2. NamesInv(req'[r]) /\ OwedInv(req'[r])
    BY <1>o, <1>1, <1>t, <1>k, <2>1 DEF NamesInv, OwedInv
  <2>3. /\ req' \in [Reqs -> ReqRecords] /\ \A d \in Reqs \ {r} : req'[d] = req[d]
        /\ req'[r].at \notin {"register", "moveFlag"} /\ req'[r].owed = q.owed /\ known' \subseteq minted
    BY <1>o, <1>1, <1>k, <1>t, <1>u, <2>1 DEF SessionsTypeOK
  <2> QED BY <1>1, <1>u, <2>2, <2>3, QuietStep
<1>2. ASSUME ~Recheck(k), NEW i \in Ids \ minted,
             minted' = minted \cup {i}, byID' = [byID EXCEPT ![i] = k],
             byHarness' = IF k = "anon" THEN byHarness ELSE [byHarness EXCEPT ![k] = i],
             req' = [req EXCEPT ![r] = Opened(@, q.then, i)]
      PROVE  SessionsInv'
  <2>1. byID[i] = None /\ byID'[i] = k /\ \A j \in Ids \ {i} : byID'[j] = byID[j]
    BY <1>2, <1>t DEF SessionsTypeOK
  <2>2. NamesKept /\ ProcsKept({})
    BY <1>2, <1>t, <1>u, <2>1 DEF NamesKept, ProcsKept, procVars, Escaped, SessionsTypeOK
  <2>3. SessionsTypeOK'
    BY <1>2, <1>o, <1>t, <1>k, <1>u, SessionsAssumption DEF SessionsTypeOK, procVars
  <2>4. SessionIndex'
    <3>1. CASE k = "anon"
      BY <1>2, <1>t, <2>1, <3>1, SessionsAssumption DEF SessionIndex, SessionsTypeOK
    <3>2. CASE k # "anon"
      <4>1. byHarness[k] = None /\ byHarness' = [byHarness EXCEPT ![k] = i] /\ k \in Keys
        BY <1>2, <1>k, <3>2 DEF Recheck
      <4>2. \A l \in Keys : byHarness'[l] = IF l = k THEN i ELSE byHarness[l]
        BY <1>t, <4>1 DEF SessionsTypeOK
      <4>3. \A l \in Keys : byHarness[l] # None => byHarness[l] \in Ids \ {i}
        BY <1>t, <2>1, SessionsAssumption DEF SessionIndex, SessionsTypeOK
      <4>4. ASSUME NEW l \in Keys, byHarness'[l] # None PROVE byID'[byHarness'[l]] = l
        BY <1>t, <2>1, <4>2, <4>3, <4>4 DEF SessionIndex
      <4>5. ASSUME NEW j \in Ids, byID'[j] \in Keys PROVE byHarness'[byID'[j]] = j
        <5>1. CASE j = i
          BY <2>1, <4>1, <4>2, <5>1
        <5>2. CASE j # i
          <6>1. byID'[j] = byID[j] /\ byHarness[byID[j]] = j
            BY <1>t, <2>1, <4>5, <5>2 DEF SessionIndex
          <6>2. j # None
            BY SessionsAssumption DEF Keys
          <6> QED BY <4>1, <4>2, <4>5, <6>1, <6>2
        <5> QED BY <5>1, <5>2
      <4> QED BY <4>4, <4>5 DEF SessionIndex
    <3> QED BY <3>1, <3>2
  <2>5. NamesInv(req[r])'
    BY <1>2, <1>o, <1>k, <2>1 DEF NamesInv
  <2>6. OwedInv(req[r])'
    BY <1>2, <1>o, <1>t, <1>k, <1>u DEF OwedInv, procVars
  <2>7. \A d \in Reqs, p \in Procs : Registering(d, p) => p \notin req'[r].owed
    BY <1>2, <1>o DEF SessionsInv, RegisterInv
  <2> QED BY <1>2, <1>o, <1>k, <2>2, <2>3, <2>4, <2>5, <2>6, <2>7, PlainStep
<1> QED BY <1>1, <1>2 DEF Mint

LEMMA EndedIndex ==
  ASSUME SessionsInv, NEW i \in Ids, Live(i), Ended(i)
  PROVE  /\ NamesKept /\ SessionIndex' /\ UNCHANGED <<minted, known>>
         /\ byID' \in [Ids -> Keys \cup {None, "anon"}] /\ byHarness' \in [Keys -> Ids \cup {None}]
         /\ \A j \in Ids : byID'[j] # None => byID'[j] = byID[j]
<1>t. SessionsTypeOK /\ SessionIndex /\ None \notin Keys
  BY SessionsAssumption DEF SessionsInv
<1>1. /\ byID'[i] = None /\ \A j \in Ids \ {i} : byID'[j] = byID[j]
      /\ \A k \in Keys : byHarness'[k] = IF byID[i] = k THEN None ELSE byHarness[k]
      /\ byID' \in [Ids -> Keys \cup {None, "anon"}] /\ byHarness' \in [Keys -> Ids \cup {None}]
      /\ UNCHANGED <<minted, known>>
  BY <1>t DEF Ended, SessionsTypeOK
<1>2. NamesKept
  BY <1>1, <1>t DEF NamesKept, SessionsTypeOK
<1>3. ASSUME NEW k \in Keys, byHarness'[k] # None PROVE byID'[byHarness'[k]] = k
  <2>1. byHarness'[k] = byHarness[k] /\ byID[i] # k
    BY <1>1, <1>3
  <2>2. byID[byHarness[k]] = k /\ byHarness[k] \in Ids \ {i}
    BY <1>3, <1>t, <2>1 DEF SessionIndex, SessionsTypeOK
  <2> QED BY <1>1, <2>1, <2>2
<1>4. ASSUME NEW j \in Ids, byID'[j] \in Keys PROVE byHarness'[byID'[j]] = j
  <2>1. j # i /\ byID'[j] = byID[j] /\ byHarness[byID[j]] = j
    BY <1>1, <1>4, <1>t DEF SessionIndex
  <2>2. byID[i] # byID[j]
    BY <1>4, <1>t, <2>1 DEF SessionIndex
  <2> QED BY <1>1, <1>4, <2>1, <2>2
<1> QED BY <1>1, <1>2, <1>3, <1>4 DEF SessionIndex

\* The session is gone and the request owes the end of what was registered under
\* names that it has collected.
LEMMA SessionEnds ==
  ASSUME SessionsInv, NEW r \in Reqs, NEW i \in Ids, Live(i), Ended(i), UNCHANGED procVars,
         req' \in [Reqs -> ReqRecords], \A d \in Reqs \ {r} : req'[d] = req[d],
         req'[r].at = "check", req'[r].sid = i, req'[r].owed = Owed(i), Named(i) \subseteq req'[r].keys
  PROVE  SessionsInv'
<1>t. SessionsTypeOK /\ RegisterInv /\ None \notin Keys
  BY SessionsAssumption DEF SessionsInv
<1>1. NamesKept /\ SessionIndex' /\ SessionsTypeOK'
  BY <1>t, EndedIndex DEF SessionsTypeOK, procVars
<1>2. ProcsKept({})
  BY DEF ProcsKept, procVars, Escaped
<1>3. \A p \in Owed(i) : p \in Procs /\ child[p] = "live" /\ sod[p] \in Named(i) /\ sod[p] # None
  BY <1>t DEF Owed, Named
<1>4. NamesInv(req[r])'
  BY <1>t, EndedIndex DEF NamesInv, SessionsTypeOK, Live
<1>5. OwedInv(req[r])'
  BY <1>3 DEF OwedInv, procVars
<1>6. \A d \in Reqs, p \in Procs : Registering(d, p) => p \notin req'[r].owed
  BY <1>3, <1>t DEF RegisterInv
<1> QED BY <1>1, <1>2, <1>4, <1>5, <1>6, PlainStep

LEMMA EndSteps ==
  ASSUME SessionsInv, NEW r \in Reqs,
         (\E k \in Keys : EndGet(r, k)) \/ EndSession(r) \/ EndOpened(r)
  PROVE  SessionsInv'
<1> DEFINE q == req[r]
           i == q.sid
<1>t. SessionsTypeOK /\ SessionIndex /\ q \in ReqRecords /\ NamesInv(q) /\ OwedInv(q)
  BY DEF SessionsInv, SessionsTypeOK
<1>1. ASSUME NEW k \in Keys, EndGet(r, k) PROVE SessionsInv'
  <2>1. Aliases(k) \in SUBSET Keys /\ k \in Aliases(k) /\ (Live(k) => Named(k) \subseteq Aliases(k))
    BY DEF Aliases, Named
  <2>2. k \in Harness \cup minted
    BY <1>1, <1>t DEF EndGet, Sendable, SessionsTypeOK
  <2>3. PICK named \in {"end", "endPayload"} :
          req' = [req EXCEPT ![r] = [Idle EXCEPT !.at = named, !.key = k, !.keys = Aliases(k)]]
    BY <1>1 DEF EndGet
  <2>e. req'[r] = [Idle EXCEPT !.at = named, !.key = k, !.keys = Aliases(k)]
    BY <2>3, <1>t DEF SessionsTypeOK
  <2>4. /\ req'[r] \in ReqRecords /\ req'[r].at = named /\ req'[r].key = k
        /\ req'[r].keys = Aliases(k) /\ req'[r].owed = {}
    <3>1. CASE named = "end"
      BY <2>1, <2>e, <3>1, IdleRequest DEF ReqRecords
    <3>2. CASE named = "endPayload"
      BY <2>1, <2>e, <3>2, IdleRequest DEF ReqRecords
    <3> QED BY <2>3, <3>1, <3>2
  <2>5. NamesInv(req'[r]) /\ OwedInv(req'[r])
    BY <2>1, <2>2, <2>3, <2>4 DEF NamesInv, OwedInv
  <2>6. req' \in [Reqs -> ReqRecords] /\ \A d \in Reqs \ {r} : req'[d] = req[d]
    BY <1>t, <2>3, <2>4 DEF SessionsTypeOK
  <2> QED BY <1>1, <1>t, <2>3, <2>4, <2>5, <2>6, QuietStep DEF EndGet, sessVars, SessionsTypeOK
<1>2. ASSUME EndSession(r) PROVE SessionsInv'
  <2>1. q.at \in {"end", "endPayload"} /\ q.key \in Keys /\ q.key \in q.keys /\ (Live(q.key) => Named(q.key) \subseteq q.keys)
    BY <1>2, <1>t DEF EndSession, NamesInv, ReqRecords
  <2>2. CASE Live(q.key)
    <3> DEFINE k == q.key
               owes == Owed(k)
    <3>1. req' = [req EXCEPT ![r].at = "check", ![r].key = None, ![r].sid = k, ![r].owed = owes]
      BY <1>2, <2>2 DEF EndSession
    <3>2. k \in Ids /\ owes \in SUBSET Procs
      BY <2>2 DEF Live, Owed
    <3> HIDE DEF k, owes
    <3>3. /\ req' \in [Reqs -> ReqRecords] /\ \A d \in Reqs \ {r} : req'[d] = req[d]
          /\ req'[r].at = "check" /\ req'[r].sid = k /\ req'[r].owed = owes /\ req'[r].keys = q.keys
      BY <1>t, <3>1, <3>2 DEF SessionsTypeOK, ReqRecords
    <3> QED BY <1>2, <2>1, <2>2, <3>2, <3>3, SessionEnds DEF EndSession, k, owes
  <2>3. CASE ~Live(q.key)
    <3>1. PICK w : /\ w = IF q.at = "end" THEN q ELSE [q EXCEPT !.key = "anon"]
                   /\ Lookup(r, w, "opened") /\ UNCHANGED <<sessVars, procVars>>
      BY <1>2, <2>3 DEF EndSession
    <3>w. /\ w \in ReqRecords /\ w.key \in Keys \cup {"anon"} /\ w.owed = q.owed
          /\ w.key \in q.keys \cup {"anon"} /\ w.keys = q.keys /\ ~Live(w.key)
      <4> HIDE DEF q
      <4> QED BY <1>t, <2>1, <2>3, <3>1, SessionsAssumption DEF ReqRecords, Live, Keys
    <3>2. \A p \in q.owed : child[p] # "none"
      BY <1>t DEF OwedInv
    <3>3. /\ req' \in [Reqs -> ReqRecords] /\ \A d \in Reqs \ {r} : req'[d] = req[d]
          /\ req'[r].at \notin {"register", "moveFlag"} /\ req'[r].owed = q.owed
          /\ NamesInv(req'[r]) /\ OwedInv(req'[r])
      BY <1>t, <2>1, <2>3, <3>1, <3>w, <3>2, Lookups
    <3> QED BY <1>t, <3>1, <3>3, QuietStep DEF sessVars, SessionsTypeOK
  <2> QED BY <2>2, <2>3
<1>3. ASSUME EndOpened(r) PROVE SessionsInv'
  <2> DEFINE owes == IF Live(i) THEN Owed(i) ELSE {}
             names == q.keys \cup {i}
  <2>1. q.at = "opened" /\ i \in minted /\ i \in Ids /\ (Live(i) => byID[i] \in q.keys \cup {"anon"})
    BY <1>3, <1>t DEF EndOpened, NamesInv, SessionsTypeOK
  <2>2. names \in SUBSET Keys /\ owes \in SUBSET Procs /\ (Live(i) => Named(i) \subseteq names)
    BY <1>t, <2>1, SessionsAssumption DEF Named, Owed, ReqRecords, Keys
  <2>3. req' = [req EXCEPT ![r].at = "check", ![r].keys = names, ![r].owed = owes]
    BY <1>3 DEF EndOpened
  <2> HIDE DEF owes, names
  <2>4. /\ req' \in [Reqs -> ReqRecords] /\ \A d \in Reqs \ {r} : req'[d] = req[d]
        /\ req'[r].at = "check" /\ req'[r].sid = i /\ req'[r].owed = owes /\ req'[r].keys = names
    BY <1>t, <2>2, <2>3 DEF SessionsTypeOK, ReqRecords
  <2>5. CASE Live(i)
    BY <1>3, <2>1, <2>2, <2>4, <2>5, SessionEnds DEF EndOpened, owes
  <2>6. CASE ~Live(i)
    <3>1. NamesInv(req'[r]) /\ OwedInv(req'[r]) /\ owes = {}
      BY <2>1, <2>4, <2>6 DEF NamesInv, OwedInv, owes
    <3> QED BY <1>3, <1>t, <2>4, <2>6, <3>1, QuietStep DEF EndOpened, sessVars, SessionsTypeOK
  <2> QED BY <2>5, <2>6
<1> QED BY <1>1, <1>2, <1>3

LEMMA EndRest ==
  ASSUME SessionsInv, NEW r \in Reqs, EndCheck(r) \/ EndCollect(r) \/ EndReply(r)
  PROVE  SessionsInv'
<1> DEFINE q == req[r]
<1>t. SessionsTypeOK /\ q \in ReqRecords /\ NamesInv(q) /\ OwedInv(q)
  BY DEF SessionsInv, SessionsTypeOK
<1>f. ASSUME Finish(r), UNCHANGED <<byID, byHarness, minted, procVars>>, known' \subseteq minted
      PROVE  SessionsInv'
  BY <1>t, <1>f, IdleRequest, QuietStep DEF Finish, SessionsTypeOK
<1>1. ASSUME EndCheck(r) PROVE SessionsInv'
  <2>1. CASE Finish(r)
    BY <1>1, <1>f, <1>t, <2>1 DEF EndCheck, sessVars, SessionsTypeOK
  <2>2. CASE req' = [req EXCEPT ![r].at = "collect"]
    <3>1. /\ req' \in [Reqs -> ReqRecords] /\ \A d \in Reqs \ {r} : req'[d] = req[d]
          /\ req'[r].at = "collect" /\ req'[r].sid = q.sid /\ req'[r].owed = q.owed /\ req'[r].keys = q.keys
      BY <1>t, <2>2 DEF SessionsTypeOK, ReqRecords
    <3>2. NamesInv(req'[r]) /\ OwedInv(req'[r])
      BY <1>1, <1>t, <3>1 DEF NamesInv, OwedInv, EndCheck
    <3> QED BY <1>1, <1>t, <3>1, <3>2, QuietStep DEF EndCheck, sessVars, SessionsTypeOK
  <2> QED BY <1>1, <2>1, <2>2 DEF EndCheck
<1>2. ASSUME EndCollect(r) PROVE SessionsInv'
  <2> DEFINE todo == SodIDs(q.keys)
  <2>1. todo \in SUBSET Procs /\ q.at = "collect"
    BY <1>2 DEF SodIDs, EndCollect
  <2>2. \A p \in q.owed : Escaped(p) => p \in todo
    BY <1>t, <2>1 DEF OwedInv, SodIDs, ReqRecords
  <2>3. req' = [req EXCEPT ![r].at = "stop", ![r].todo = todo, ![r].keys = {}]
    BY <1>2 DEF EndCollect
  <2> HIDE DEF todo
  <2>4. /\ req' \in [Reqs -> ReqRecords] /\ \A d \in Reqs \ {r} : req'[d] = req[d]
        /\ req'[r].at = "stop" /\ req'[r].sid = q.sid /\ req'[r].owed = q.owed /\ req'[r].todo = todo
    BY <1>t, <2>1, <2>3 DEF SessionsTypeOK, ReqRecords
  <2>5. NamesInv(req'[r]) /\ OwedInv(req'[r])
    BY <1>t, <2>1, <2>2, <2>4 DEF NamesInv, OwedInv
  <2> QED BY <1>2, <1>t, <2>4, <2>5, QuietStep DEF EndCollect, sessVars, SessionsTypeOK
<1>3. ASSUME EndReply(r) PROVE SessionsInv'
  BY <1>3, <1>f, <1>t DEF EndReply, NamesInv, SessionsTypeOK
<1> QED BY <1>1, <1>2, <1>3

LEMMA StopOfProc ==
  ASSUME SessionsTypeOK, NEW p \in Procs, child[p] # "none", StopProc(p)
  PROVE  /\ child' \in [Procs -> {"none", "live", "dead"}] /\ unstopped' \in SUBSET Procs
         /\ child'[p] # "none" /\ ~(Escaped(p)') /\ (p \notin unstopped' => child'[p] = "dead")
         /\ \A o \in Procs \ {p} : child'[o] = child[o] /\ (o \in unstopped' <=> o \in unstopped)
BY DEF SessionsTypeOK, StopProc, Escaped

LEMMA EndStopStep == ASSUME SessionsInv, NEW r \in Reqs, EndStop(r) PROVE SessionsInv'
<1> DEFINE q == req[r]
<1>t. SessionsTypeOK /\ SessionIndex /\ RegisterInv /\ q \in ReqRecords /\ NamesInv(q) /\ OwedInv(q)
  BY DEF SessionsInv, SessionsTypeOK
<1>1. PICK p \in q.todo : /\ req' = [req EXCEPT ![r].todo = @ \ {p}]
                          /\ StopProc(p)
                          /\ sod' = IF p \in unstopped' THEN sod ELSE [sod EXCEPT ![p] = None]
  BY DEF EndStop
<1>u. q.at = "stop" /\ UNCHANGED sessVars /\ p \in Procs
  BY <1>t DEF EndStop, ReqRecords
<1>2. /\ req' \in [Reqs -> ReqRecords] /\ \A d \in Reqs \ {r} : req'[d] = req[d]
      /\ req'[r].at = "stop" /\ req'[r].sid = q.sid /\ req'[r].owed = q.owed /\ req'[r].todo = q.todo \ {p}
  BY <1>1, <1>t, <1>u DEF SessionsTypeOK, ReqRecords
<1>3. CASE child[p] # "none"
  <2>1. /\ child' \in [Procs -> {"none", "live", "dead"}] /\ unstopped' \in SUBSET Procs
        /\ child'[p] # "none" /\ ~(Escaped(p)')
        /\ \A o \in Procs \ {p} : child'[o] = child[o] /\ (o \in unstopped' <=> o \in unstopped)
    BY <1>1, <1>3, <1>t, <1>u, StopOfProc
  <2>2. /\ sod' \in [Procs -> Keys \cup {None}] /\ sod'[p] \in {sod[p], None}
        /\ \A o \in Procs \ {p} : sod'[o] = sod[o]
    BY <1>1, <1>t, <1>u DEF SessionsTypeOK
  <2>3. NamesKept /\ ProcsKept({})
    BY <1>u, <2>1, <2>2 DEF NamesKept, ProcsKept, sessVars, Escaped
  <2>4. SessionsTypeOK' /\ SessionIndex'
    BY <1>t, <1>u, <1>2, <2>1, <2>2 DEF SessionsTypeOK, SessionIndex, sessVars
  <2>5. NamesInv(req[r])'
    BY <1>t, <1>u, <1>2 DEF NamesInv, sessVars
  <2>6. OwedInv(req[r])'
    BY <1>t, <1>u, <1>2, <2>1 DEF OwedInv, Escaped, ReqRecords
  <2>7. \A d \in Reqs, o \in Procs : Registering(d, o) => o \notin req'[r].owed
    BY <1>t, <1>2 DEF RegisterInv
  <2> QED BY <1>2, <2>3, <2>4, <2>5, <2>6, <2>7, PlainStep
<1>4. CASE child[p] = "none"
  <2>1. /\ child' = [child EXCEPT ![p] = "dead"] /\ unstopped' = unstopped \ {p}
        /\ sod' = [sod EXCEPT ![p] = None]
    BY <1>1, <1>4 DEF StopProc
  <2>2. NamesKept /\ ProcsKept({})
    BY <1>t, <1>u, <2>1 DEF NamesKept, ProcsKept, sessVars, Escaped, SessionsTypeOK
  <2>3. SessionsTypeOK' /\ SessionIndex'
    BY <1>t, <1>u, <1>2, <2>1 DEF SessionsTypeOK, SessionIndex, sessVars
  <2>4. NamesInv(req[r])'
    BY <1>t, <1>u, <1>2 DEF NamesInv, sessVars
  <2>5. OwedInv(req[r])'
    BY <1>t, <1>u, <1>2, <2>1 DEF OwedInv, Escaped, ReqRecords, SessionsTypeOK
  <2>6. \A d \in Reqs, o \in Procs : Registering(d, o) => o \notin req'[r].owed
    BY <1>t, <1>2 DEF RegisterInv
  <2> QED BY <1>2, <2>2, <2>3, <2>4, <2>5, <2>6, PlainStep
<1> QED BY <1>3, <1>4

LEMMA RemoveStep == ASSUME SessionsInv, NEW p \in Procs, RemoveProc(p) PROVE SessionsInv'
<1>t. SessionsTypeOK /\ SessionIndex
  BY DEF SessionsInv
<1>u. UNCHANGED <<sessVars, req>> /\ child[p] # "none" /\ StopProc(p) /\ sod' = [sod EXCEPT ![p] = None]
  BY DEF RemoveProc
<1>1. /\ child' \in [Procs -> {"none", "live", "dead"}] /\ unstopped' \in SUBSET Procs
      /\ child'[p] # "none" /\ ~(Escaped(p)')
      /\ \A o \in Procs \ {p} : child'[o] = child[o] /\ (o \in unstopped' <=> o \in unstopped)
  BY <1>t, <1>u, StopOfProc
<1>2. NamesKept /\ ProcsKept({})
  BY <1>t, <1>u, <1>1 DEF NamesKept, ProcsKept, sessVars, Escaped, SessionsTypeOK
<1>3. SessionsTypeOK' /\ SessionIndex'
  BY <1>t, <1>u, <1>1 DEF SessionsTypeOK, SessionIndex, sessVars
<1>4. RegisterInv'
  <2> DEFINE none == {}
  <2>1. /\ none \in SUBSET Reqs /\ ProcsKept(none) /\ \A d \in Reqs \ none : req'[d] = req[d]
        /\ \A e \in none : req'[e].at \notin {"register", "moveFlag"}
        /\ \A d \in Reqs \ none, o \in Procs : Registering(d, o) =>
             o \notin none /\ \A e \in none : o \notin req'[e].owed
        /\ \A o \in Procs : o \in none => child[o] # "none"
    BY <1>2, <1>u
  <2> HIDE DEF none
  <2> QED BY <1>3, <2>1, RegisterKept
<1>5. \A d \in Reqs : NamesInv(req[d])' /\ OwedInv(req[d])'
  BY <1>2, <1>u, OtherRequests
<1> QED BY <1>3, <1>4, <1>5 DEF SessionsInv

\* A launch: the process is nobody's yet, and this request has its flag to register.
LEMMA LaunchFrame ==
  ASSUME SessionsInv, NEW r \in Reqs, NEW p \in Procs, child[p] = "none",
         UNCHANGED <<sessVars, sod>>, ProcsKept({}), child'[p] = "live",
         child' \in [Procs -> {"none", "live", "dead"}], unstopped' \in SUBSET Procs,
         req' \in [Reqs -> ReqRecords], \A d \in Reqs \ {r} : req'[d] = req[d],
         req'[r].todo = {p}, req'[r].owed = {},
         \/ req'[r].at = "register" /\ req'[r].key \in Keys
         \/ /\ req'[r].at = "moveFlag" /\ req'[r].key # "anon" /\ req'[r].sid \in Procs
            /\ child'[req'[r].sid] # "none" /\ ~(Escaped(req[r].sid)')
  PROVE  SessionsInv'
<1>t. SessionsTypeOK /\ SessionIndex /\ RegisterInv
  BY DEF SessionsInv
<1>1. NamesKept /\ SessionsTypeOK' /\ SessionIndex'
  BY <1>t DEF NamesKept, SessionsTypeOK, SessionIndex, sessVars
<1>2. sod[p] = None /\ \A d \in Reqs : p \notin req[d].owed /\ ~Registering(d, p)
  BY <1>t DEF RegisterInv, SessionsInv, OwedInv
<1>3. NamesInv(req[r])' /\ OwedInv(req[r])'
  BY DEF NamesInv, OwedInv
<1>4. \A d \in Reqs : NamesInv(req[d])' /\ OwedInv(req[d])'
  BY <1>1, <1>3, OtherRequests
<1>5. ASSUME NEW d \in Reqs, NEW o \in Procs, Registering(d, o)'
      PROVE  /\ child'[o] # "none" /\ sod'[o] = None
             /\ \A e \in Reqs : o \notin req'[e].owed /\ (Registering(e, o)' => e = d)
  <2>1. CASE d = r
    <3>1. o = p
      BY <1>5, <2>1 DEF Registering
    <3> QED BY <1>2, <2>1, <3>1 DEF Registering
  <2>2. CASE d # r
    <3>1. Registering(d, o) /\ o # p
      BY <1>2, <1>5, <2>2 DEF Registering
    <3>2. child'[o] # "none" /\ sod'[o] = None
      BY <1>t, <3>1 DEF RegisterInv, ProcsKept
    <3>3. ASSUME NEW e \in Reqs PROVE o \notin req'[e].owed /\ (Registering(e, o)' => e = d)
      BY <1>t, <3>1 DEF RegisterInv, Registering
    <3> QED BY <3>2, <3>3
  <2> QED BY <2>1, <2>2
<1>6. ASSUME NEW d \in Reqs
      PROVE  /\ req'[d].at = "register" => req'[d].key \in Keys
             /\ req'[d].at = "moveFlag" => /\ req'[d].key # "anon" /\ req'[d].sid \in Procs
                                           /\ child'[req'[d].sid] # "none" /\ ~(Escaped(req[d].sid)')
  BY <1>t DEF RegisterInv, ProcsKept
<1>7. \A o \in Procs : child'[o] = "none" => sod'[o] = None
  BY <1>t DEF RegisterInv, ProcsKept
<1> QED BY <1>1, <1>4, <1>5, <1>6, <1>7 DEF SessionsInv, RegisterInv

LEMMA LaunchSteps ==
  ASSUME SessionsInv, NEW r \in Reqs,
         \/ \E p \in Procs, k \in Keys : StartLaunch(r, p, k)
         \/ \E p, q \in Procs : RestartLaunch(r, p, q)
  PROVE  SessionsInv'
<1>t. SessionsTypeOK
  BY DEF SessionsInv
<1>1. ASSUME NEW p \in Procs, NEW k \in Keys, StartLaunch(r, p, k) PROVE SessionsInv'
  <2>1. req'[r] = [Idle EXCEPT !.at = "register", !.key = k, !.todo = {p}]
    BY <1>1, <1>t DEF StartLaunch, SessionsTypeOK
  <2>2. /\ req'[r] \in ReqRecords /\ req'[r].at = "register" /\ req'[r].key = k
        /\ req'[r].todo = {p} /\ req'[r].owed = {}
    <3> DEFINE todo == {p}
    <3>1. todo \in SUBSET Procs
      OBVIOUS
    <3> HIDE DEF todo
    <3>2. req'[r] = [Idle EXCEPT !.at = "register", !.key = k, !.todo = todo]
      BY <2>1 DEF todo
    <3>3. /\ req'[r] \in ReqRecords /\ req'[r].at = "register" /\ req'[r].key = k
          /\ req'[r].todo = todo /\ req'[r].owed = {}
      BY <3>1, <3>2, IdleRequest DEF ReqRecords
    <3> QED BY <3>3 DEF todo
  <2>3. req' \in [Reqs -> ReqRecords] /\ \A d \in Reqs \ {r} : req'[d] = req[d]
    BY <1>1, <1>t, <2>2 DEF StartLaunch, SessionsTypeOK
  <2>4. /\ ProcsKept({}) /\ child'[p] = "live" /\ child' \in [Procs -> {"none", "live", "dead"}]
        /\ unstopped' \in SUBSET Procs
    BY <1>1, <1>t DEF StartLaunch, ProcsKept, Escaped, SessionsTypeOK
  <2>5. child[p] = "none" /\ UNCHANGED <<sessVars, sod>>
    BY <1>1 DEF StartLaunch
  <2> QED BY <2>2, <2>3, <2>4, <2>5, LaunchFrame
<1>2. ASSUME NEW p \in Procs, NEW q \in Procs, RestartLaunch(r, p, q) PROVE SessionsInv'
  <2>1. req'[r] = [Idle EXCEPT !.at = "moveFlag", !.key = sod[p], !.sid = p, !.todo = {q}]
    BY <1>2, <1>t DEF RestartLaunch, SessionsTypeOK
  <2>2. /\ req'[r] \in ReqRecords /\ req'[r].at = "moveFlag" /\ req'[r].key = sod[p]
        /\ req'[r].sid = p /\ req'[r].todo = {q} /\ req'[r].owed = {} /\ sod[p] # "anon"
    <3> DEFINE todo == {q}
               flag == sod[p]
    <3>1. todo \in SUBSET Procs /\ flag \in Keys \cup {None} /\ flag # "anon"
      BY <1>t, SessionsAssumption DEF SessionsTypeOK, None
    <3> HIDE DEF todo, flag
    <3>2. req'[r] = [Idle EXCEPT !.at = "moveFlag", !.key = flag, !.sid = p, !.todo = todo]
      BY <2>1 DEF todo, flag
    <3>3. /\ req'[r] \in ReqRecords /\ req'[r].at = "moveFlag" /\ req'[r].key = flag
          /\ req'[r].sid = p /\ req'[r].todo = todo /\ req'[r].owed = {}
      BY <3>1, <3>2, IdleRequest DEF ReqRecords
    <3> QED BY <3>1, <3>3 DEF todo, flag
  <2>3. req' \in [Reqs -> ReqRecords] /\ \A d \in Reqs \ {r} : req'[d] = req[d]
    BY <1>2, <1>t, <2>2 DEF RestartLaunch, SessionsTypeOK
  <2>4. /\ child' \in [Procs -> {"none", "live", "dead"}] /\ unstopped' \in SUBSET Procs
        /\ child'[q] = "live" /\ p # q /\ child'[p] # "none" /\ ~(Escaped(p)')
        /\ \A o \in Procs \ {p, q} : child'[o] = child[o] /\ (o \in unstopped' <=> o \in unstopped)
    BY <1>2, <1>t DEF RestartLaunch, Escaped, SessionsTypeOK
  <2>5. ProcsKept({})
    BY <1>2, <2>4 DEF ProcsKept, Escaped, RestartLaunch
  <2>6. child[q] = "none" /\ UNCHANGED <<sessVars, sod>>
    BY <1>2 DEF RestartLaunch
  <2>7. child'[req'[r].sid] # "none" /\ ~(Escaped(req[r].sid)') /\ req'[r].key # "anon"
    BY <2>2, <2>4
  <2> QED BY <2>2, <2>3, <2>4, <2>5, <2>6, <2>7, LaunchFrame
<1> QED BY <1>1, <1>2

\* The flag is given to what this request had to register, and the request is over.
LEMMA RegisterSteps ==
  ASSUME SessionsInv, NEW r \in Reqs, StartRegister(r) \/ RestartMove(r)
  PROVE  SessionsInv'
<1> DEFINE q == req[r]
           R == {r}
<1>t. SessionsTypeOK /\ SessionIndex /\ RegisterInv /\ q \in ReqRecords
  BY DEF SessionsInv, SessionsTypeOK
<1>u. /\ UNCHANGED <<sessVars, child, unstopped>>
      /\ req' \in [Reqs -> ReqRecords] /\ \A d \in Reqs \ {r} : req'[d] = req[d] /\ req'[r] = Idle
  BY <1>t, IdleRequest DEF StartRegister, RestartMove, Finish, SessionsTypeOK
<1>1. \A p \in q.todo : p \in Procs /\ Registering(r, p)
  BY <1>t DEF Registering, StartRegister, RestartMove, ReqRecords
<1>2. /\ sod' \in [Procs -> Keys \cup {None}]
      /\ \A p \in Procs \ q.todo : sod'[p] = sod[p] \/ (sod'[p] = None /\ ~Escaped(p))
  <2>1. CASE StartRegister(r)
    BY <1>t, <2>1 DEF StartRegister, RegisterInv, SessionsTypeOK
  <2>2. CASE RestartMove(r)
    BY <1>t, <2>2, SessionsAssumption DEF RestartMove, RegisterInv, SessionsTypeOK, ReqRecords
  <2> QED BY <2>1, <2>2
<1>3. NamesKept /\ SessionsTypeOK' /\ SessionIndex' /\ NamesInv(req[r])' /\ OwedInv(req[r])'
  <2>1. req'[r] = Idle
    BY <1>t, IdleRequest DEF StartRegister, RestartMove, Finish, SessionsTypeOK
  <2>2. NamesInv(req[r])' /\ OwedInv(req[r])'
    BY <2>1, IdleRequest DEF NamesInv, OwedInv
  <2> QED BY <1>t, <1>u, <1>2, <2>2 DEF NamesKept, SessionsTypeOK, SessionIndex, sessVars
<1>4. ProcsKept(q.todo)
  BY <1>u, <1>2 DEF ProcsKept, Escaped
<1>5. \A d \in Reqs, p \in q.todo : p \notin req[d].owed /\ (Registering(d, p) => d = r)
  BY <1>t, <1>1 DEF RegisterInv
<1>6. \A d \in Reqs : NamesInv(req[d])' /\ OwedInv(req[d])'
  BY <1>u, <1>3, <1>4, <1>5, OtherRequests
<1>7. RegisterInv'
  <2> DEFINE todo == q.todo
  <2>1. /\ R \in SUBSET Reqs /\ ProcsKept(todo) /\ \A d \in Reqs \ R : req'[d] = req[d]
        /\ \A e \in R : req'[e].at \notin {"register", "moveFlag"}
        /\ \A d \in Reqs \ R, p \in Procs : Registering(d, p) =>
             p \notin todo /\ \A e \in R : p \notin req'[e].owed
        /\ \A p \in Procs : p \in todo => child[p] # "none"
    <3>1. req'[r] = Idle
      BY <1>t, IdleRequest DEF StartRegister, RestartMove, Finish, SessionsTypeOK
    <3> QED BY <1>t, <1>u, <1>1, <1>4, <1>5, <3>1, IdleRequest DEF RegisterInv
  <2> HIDE DEF R, todo
  <2> QED BY <1>3, <2>1, RegisterKept
<1> QED BY <1>3, <1>6, <1>7 DEF SessionsInv

LEMMA SessionsStep == SessionsInv /\ [SessionsNext]_sessionVars => SessionsInv'
<1> SUFFICES ASSUME SessionsInv, [SessionsNext]_sessionVars PROVE SessionsInv'
  OBVIOUS
<1>1. CASE UNCHANGED sessionVars
  <2>1. SessionsTypeOK' /\ SessionIndex' /\ RegisterInv'
    BY <1>1 DEF SessionsInv, SessionsTypeOK, SessionIndex, RegisterInv, Registering, Escaped,
       sessionVars, sessVars, procVars
  <2>2. \A r \in Reqs : NamesInv(req[r])' /\ OwedInv(req[r])'
    BY <1>1 DEF SessionsInv, NamesInv, OwedInv, Live, Named, Escaped, sessionVars, sessVars, procVars
  <2> QED BY <2>1, <2>2 DEF SessionsInv
<1>2. CASE SessionsNext
  BY <1>2, InfoSteps, MintStep, EndSteps, EndRest, EndStopStep, LaunchSteps, RegisterSteps, RemoveStep
     DEF SessionsNext
<1> QED BY <1>1, <1>2

LEMMA SessionsStart == SessionsInit => SessionsInv
<1> SUFFICES ASSUME SessionsInit PROVE SessionsInv
  OBVIOUS
<1>1. SessionsTypeOK
  BY IdleRequest DEF SessionsInit, SessionsTypeOK
<1>2. SessionIndex /\ RegisterInv
  BY IdleRequest, SessionsAssumption DEF SessionsInit, SessionIndex, RegisterInv, Registering
<1>3. \A r \in Reqs : NamesInv(req[r]) /\ OwedInv(req[r])
  BY IdleRequest DEF SessionsInit
<1> QED BY <1>1, <1>2, <1>3 DEF SessionsInv

\* For any clients, ids and requests in flight: the two indexes of the registry
\* describe the same sessions, so a harness id has one identity.
THEOREM SessionsIndexed == SessionsSpec => []SessionIndex
<1> QED
  BY SessionsStart, SessionsStep, PTL DEF SessionsSpec, SessionsInv

\* For any clients, ids, requests and processes: what a session.end owed an end is down
\* when it is about to answer, except where the Stop failed.
THEOREM SessionEndSettles == SessionsSpec => []SodSettled
<1>1. SessionsInv => SodSettled
  BY DEF SessionsInv, OwedInv, Escaped, SodSettled
<1> QED
  BY <1>1, SessionsStart, SessionsStep, PTL DEF SessionsSpec

(***************************************************************************)
(* Listing: what a reader's pages have behind them.                        *)
(***************************************************************************)
\* The rows of the pages so far.
Listed_(c) == UNION {got[c][j] : j \in DOMAIN got[c]}

ListingTypes ==
  /\ got \in [Readers -> Seq(SUBSET Rows)] /\ last \in [Readers -> Rows \cup {0}]
  /\ stayed \in [Readers -> SUBSET Rows] /\ DOMAIN ask = Readers
ReaderHeld(c) ==
  /\ ask[c] = NoAsk => last[c] = 0
  /\ last[c] = 0 => got[c] = <<>> /\ stayed[c] = {}
  /\ \A j \in DOMAIN got[c] : \A n \in got[c][j] : n <= last[c]
  /\ \A j, k \in DOMAIN got[c] : j < k => \A m \in got[c][j], n \in got[c][k] : m < n
  /\ \A n \in stayed[c] : n <= last[c] => n \in Listed_(c)
  /\ \A n \in stayed[c] : Shown(ask[c], n)
ListingInv == ListingTypes /\ \A c \in Readers : ReaderHeld(c)

LEMMA RowNumbers == Rows \subseteq Nat /\ 0 \notin Rows /\ Rows \cup {0} \subseteq Nat
  BY ListingAssumption

LEMMA ListingStart == ListingInit => ListingInv
<1> SUFFICES ASSUME ListingInit PROVE ListingInv
  OBVIOUS
<1>1. ListingTypes
  BY DEF ListingInit, ListingTypes
<1>2. ASSUME NEW c \in Readers PROVE ReaderHeld(c)
  BY DEF ListingInit, ReaderHeld
<1> QED
  BY <1>1, <1>2 DEF ListingInv

\* A change of a row takes from what stayed the rows that are no longer shown.
LEMMA RowStep ==
  ASSUME ListingInv, UNCHANGED <<ask, got, last>>, Keep
  PROVE  ListingInv'
<1>1. /\ stayed' \in [Readers -> SUBSET Rows]
      /\ \A c \in Readers : \A n \in stayed'[c] : n \in stayed[c] /\ Shown(ask[c], n)'
  BY DEF ListingInv, ListingTypes, Keep
<1>2. ListingTypes'
  BY <1>1 DEF ListingInv, ListingTypes
<1>3. ASSUME NEW c \in Readers PROVE ReaderHeld(c)'
  <2>1. ReaderHeld(c)
    BY DEF ListingInv
  <2>2. stayed'[c] \subseteq stayed[c] /\ (\A n \in stayed[c] : Shown(ask[c], n))'
    BY <1>1
  <2> QED BY <2>1, <2>2 DEF ReaderHeld, Listed_
<1> QED
  BY <1>2, <1>3 DEF ListingInv

\* What another reader does leaves a reader as it is.
LEMMA OtherReader ==
  ASSUME NEW c \in Readers, ReaderHeld(c), status' = status,
         ask'[c] = ask[c], got'[c] = got[c], last'[c] = last[c], stayed'[c] = stayed[c]
  PROVE  ReaderHeld(c)'
  BY DEF ReaderHeld, Listed_, Shown, Stored, Hidden

\* A page of what remains behind the cursor goes behind the pages so far, and leaves
\* out nothing that is shown up to its last row.
LEMMA PageStep ==
  ASSUME ListingInv, NEW c \in Readers, NEW a, NEW k \in Rows, Page(c, a, k),
         status' = status, DOMAIN ask' = Readers, stayed' \in [Readers -> SUBSET Rows],
         ask'[c] = a, a # NoAsk,
         \A n \in stayed'[c] : Shown(a, n),
         last[c] # 0 => stayed'[c] = stayed[c],
         \A d \in Readers \ {c} : ask'[d] = ask[d] /\ stayed'[d] = stayed[d]
  PROVE  ListingInv'
<1> DEFINE page == {n \in Remaining(a, last[c]) : n <= k}
           g == got[c]
           h == Append(g, page)
<1>0. ListingTypes /\ ReaderHeld(c) /\ Rows \subseteq Nat /\ k \in Nat /\ k # 0
  BY RowNumbers DEF ListingInv
<1>1. got' = [got EXCEPT ![c] = h] /\ last' = [last EXCEPT ![c] = k] /\ k \in page
  BY DEF Page
<1>2. page \subseteq Rows /\ \A n \in page : n <= k /\ (last[c] # 0 => n > last[c])
  BY DEF Remaining, After, Behind, Result
<1>3. g \in Seq(SUBSET Rows) /\ Len(g) \in Nat /\ last[c] \in Nat
  <2>1. g \in Seq(SUBSET Rows)
    BY <1>0 DEF ListingTypes
  <2>2. last[c] \in Nat
    <3>1. last[c] \in Rows \cup {0}
      BY <1>0 DEF ListingTypes
    <3> QED BY <3>1, RowNumbers, Zenon
  <2>3. \A s \in Seq(SUBSET Rows) : Len(s) \in Nat
    OBVIOUS
  <2> QED BY <2>1, <2>2, <2>3, Zenon
<1>4. /\ DOMAIN h = DOMAIN g \cup {Len(g) + 1} /\ h[Len(g) + 1] = page
      /\ \A j \in DOMAIN g : h[j] = g[j] /\ j < Len(g) + 1 /\ h[j] \subseteq Rows
  BY <1>2, <1>3
<1>5. h \in Seq(SUBSET Rows)
  BY <1>2, <1>3
<1> HIDE DEF page, h
<1>6. ListingTypes'
  <2>1. got' \in [Readers -> Seq(SUBSET Rows)]
    BY <1>0, <1>1, <1>5 DEF ListingTypes
  <2>2. last' \in [Readers -> Rows \cup {0}]
    BY <1>0, <1>1 DEF ListingTypes
  <2> QED BY <2>1, <2>2 DEF ListingTypes
<1>7. got'[c] = h /\ last'[c] = k
  BY <1>0, <1>1 DEF ListingTypes
<1>8. \A j \in DOMAIN g : \A n \in g[j] : n \in Nat /\ n <= last[c] /\ last[c] # 0
  <2> SUFFICES ASSUME NEW j \in DOMAIN g, NEW n \in g[j] PROVE n \in Nat /\ n <= last[c] /\ last[c] # 0
    OBVIOUS
  <2>1. g[j] \subseteq Rows
    BY <1>4
  <2>2. n <= last[c] /\ (last[c] = 0 => g = <<>>)
    BY <1>0 DEF ReaderHeld
  <2>3. last[c] # 0
    BY <2>2
  <2> QED BY <1>0, <2>1, <2>2, <2>3
<1>9. \A n \in page : n \in Nat
  BY <1>0, <1>2
<1>10. last[c] # 0 => last[c] < k
  BY <1>1, <1>2
<1>11. ASSUME NEW j \in DOMAIN h, NEW n \in h[j] PROVE n <= k
  <2>1. CASE j = Len(g) + 1
    BY <1>2, <1>4, <1>11, <2>1
  <2>2. CASE j \in DOMAIN g
    <3>1. n \in Nat /\ n <= last[c] /\ last[c] < k
      BY <1>4, <1>8, <1>10, <1>11, <2>2
    <3> QED BY <1>0, <1>3, <3>1
  <2> QED BY <1>4, <2>1, <2>2
<1>12. ASSUME NEW i \in DOMAIN h, NEW j \in DOMAIN h, i < j, NEW m \in h[i], NEW n \in h[j]
       PROVE  m < n
  <2>1. i \in DOMAIN g
    BY <1>3, <1>4, <1>12
  <2>2. CASE j = Len(g) + 1
    <3>1. m \in Nat /\ m <= last[c] /\ n \in Nat /\ n > last[c]
      BY <1>2, <1>4, <1>8, <1>9, <1>12, <2>1, <2>2
    <3> QED BY <1>3, <3>1
  <2>3. CASE j \in DOMAIN g
    BY <1>0, <1>4, <1>12, <2>1, <2>3 DEF ReaderHeld
  <2> QED BY <1>4, <2>2, <2>3
<1>13. ASSUME NEW n \in stayed'[c], n <= k PROVE \E j \in DOMAIN h : n \in h[j]
  <2>0. n \in Rows /\ n \in Nat /\ Shown(a, n)
    BY <1>0
  <2>1. CASE last[c] # 0 /\ n <= last[c]
    <3>1. n \in Listed_(c)
      BY <1>0, <1>13, <2>1 DEF ReaderHeld
    <3> QED BY <1>4, <3>1 DEF Listed_
  <2>2. CASE last[c] # 0 /\ n > last[c]
    <3>1. last[c] \in Result(a)
      <4>1. After(a, last[c]) # {}
        BY <1>1 DEF page, Remaining
      <4> QED BY <2>2, <4>1 DEF After, Behind
    <3>2. n \in Remaining(a, last[c])
      BY <2>0, <2>2, <3>1 DEF Remaining, After, Behind, Result, Shown
    <3>3. n \in page
      BY <1>13, <3>2 DEF page
    <3> QED BY <1>4, <3>3
  <2>3. CASE last[c] = 0
    <3>1. n \in Remaining(a, last[c])
      BY <2>0, <2>3 DEF Remaining, After, Behind, Result, Shown
    <3>2. n \in page
      BY <1>13, <3>1 DEF page
    <3> QED BY <1>4, <3>2
  <2> QED BY <1>3, <2>0, <2>1, <2>2, <2>3
<1>14. ReaderHeld(c)'
  <2>1. \A n \in stayed'[c] : Shown(a, n)'
    BY DEF Shown, Stored, Hidden
  <2>2. (Listed_(c))' = UNION {h[j] : j \in DOMAIN h}
    BY <1>7 DEF Listed_
  <2>3. \A n \in stayed'[c] : n <= k => n \in (Listed_(c))'
    BY <1>13, <2>2
  <2>4. \A n \in stayed'[c] : Shown(ask[c], n)'
    BY DEF Shown, Stored, Hidden
  <2> QED BY <1>0, <1>7, <1>11, <1>12, <2>3, <2>4 DEF ReaderHeld
<1>15. ASSUME NEW d \in Readers \ {c} PROVE ReaderHeld(d)'
  <2>1. got'[d] = got[d] /\ last'[d] = last[d] /\ ReaderHeld(d)
    BY <1>0, <1>1 DEF ListingTypes, ListingInv
  <2> QED BY <2>1, OtherReader
<1> QED
  BY <1>6, <1>14, <1>15 DEF ListingInv

LEMMA FirstPageStep ==
  ASSUME ListingInv, NEW c \in Readers, NEW a \in Asks, FirstPage(c, a)
  PROVE  ListingInv'
<1> DEFINE shown == {n \in Rows : Shown(a, n)}
<1>0. ListingTypes /\ ReaderHeld(c) /\ Rows \subseteq Nat /\ 0 \notin Rows
  BY RowNumbers DEF ListingInv
<1>1. a # NoAsk
  <2>1. a.limit # 0 /\ NoAsk.limit = 0
    BY ListingAssumption DEF Asks, NoAsk
  <2> QED BY <2>1
<1>2. /\ ask' = [ask EXCEPT ![c] = a] /\ stayed' = [stayed EXCEPT ![c] = shown] /\ status' = status
      /\ last[c] = 0 /\ got[c] = <<>>
  BY <1>0 DEF FirstPage, ReaderHeld
<1>3. /\ ask'[c] = a /\ stayed'[c] = shown /\ DOMAIN ask' = Readers
      /\ stayed' \in [Readers -> SUBSET Rows]
      /\ \A d \in Readers \ {c} : ask'[d] = ask[d] /\ stayed'[d] = stayed[d]
  BY <1>0, <1>2 DEF ListingTypes
<1>4. \A n \in stayed'[c] : Shown(a, n)
  BY <1>3
<1>5. CASE Remaining(a, 0) = {} /\ UNCHANGED <<got, last>>
  <2>1. shown = {}
    BY <1>5 DEF Remaining, After, Behind, Result, Shown
  <2> HIDE DEF shown
  <2>2. ListingTypes'
    BY <1>0, <1>3, <1>5 DEF ListingTypes
  <2>3. ReaderHeld(c)'
    BY <1>2, <1>3, <1>5, <2>1 DEF ReaderHeld
  <2>4. ASSUME NEW d \in Readers \ {c} PROVE ReaderHeld(d)'
    BY <1>2, <1>3, <1>5, OtherReader DEF ListingInv
  <2> QED BY <2>2, <2>3, <2>4 DEF ListingInv
<1>6. ASSUME NEW k \in Rows, Page(c, a, k) PROVE ListingInv'
  BY <1>1, <1>2, <1>3, <1>4, <1>6, PageStep
<1> QED
  BY <1>5, <1>6 DEF FirstPage

LEMMA NextPageStep ==
  ASSUME ListingInv, NEW c \in Readers, NextPage(c)
  PROVE  ListingInv'
<1>1. PICK k \in Rows : Page(c, ask[c], k)
  BY DEF NextPage
<1>2. /\ ask' = ask /\ stayed' = stayed /\ status' = status /\ ask[c] # NoAsk
      /\ DOMAIN ask' = Readers /\ stayed' \in [Readers -> SUBSET Rows]
  BY DEF NextPage, ListingInv, ListingTypes
<1>3. \A n \in stayed'[c] : Shown(ask[c], n)
  BY <1>2 DEF ListingInv, ReaderHeld
<1> QED
  BY <1>1, <1>2, <1>3, PageStep

LEMMA ListingStep == ListingInv /\ [ListingNext]_listingVars => ListingInv'
<1> SUFFICES ASSUME ListingInv, [ListingNext]_listingVars PROVE ListingInv'
  OBVIOUS
<1>1. ASSUME NEW n \in Rows, CreateRow(n) \/ DeleteRow(n) \/ \E s \in Statuses : UpdateRow(n, s)
      PROVE  ListingInv'
  BY <1>1, RowStep DEF CreateRow, DeleteRow, UpdateRow
<1>2. CASE UNCHANGED listingVars
  <2>1. ListingTypes'
    BY <1>2 DEF listingVars, ListingInv, ListingTypes
  <2>2. ASSUME NEW c \in Readers PROVE ReaderHeld(c)'
    BY <1>2, OtherReader DEF listingVars, ListingInv
  <2> QED BY <2>1, <2>2 DEF ListingInv
<1>3. ASSUME NEW c \in Readers, NextPage(c) \/ \E a \in Asks : FirstPage(c, a)
      PROVE  ListingInv'
  BY <1>3, NextPageStep, FirstPageStep
<1> QED
  BY <1>1, <1>2, <1>3 DEF ListingNext

\* For any rows, readers and page sizes, among rows that come, change and go: no page
\* repeats a row, none is passed over that was in the listing all the time, and the end
\* of a listing leaves none out, unless the row of its cursor left the query.
THEOREM ListingKeeps == ListingSpec => []PagesComplete
<1>1. ListingInv => PagesComplete
  <2> SUFFICES ASSUME ListingInv, NEW c \in Readers
               PROVE  /\ \A j, k \in DOMAIN got[c] : j < k => \A m \in got[c][j], n \in got[c][k] : m < n
                      /\ \A n \in stayed[c] : n <= last[c] => n \in Listed_(c)
                      /\ (last[c] # 0 /\ Remaining(ask[c], last[c]) = {} /\ Stored(ask[c], last[c]))
                           => stayed[c] \subseteq Listed_(c)
    BY DEF PagesComplete, Listed_
  <2>1. ListingTypes /\ ReaderHeld(c) /\ Rows \subseteq Nat
    BY RowNumbers DEF ListingInv
  <2>2. ASSUME last[c] # 0, Remaining(ask[c], last[c]) = {}, Stored(ask[c], last[c]), NEW n \in stayed[c]
        PROVE  n \in Listed_(c)
    <3>1. n \in Rows /\ n \in Nat /\ last[c] \in Rows /\ last[c] \in Nat /\ Shown(ask[c], n)
      BY <2>1, <2>2 DEF ListingTypes, ReaderHeld
    <3>2. CASE n <= last[c]
      BY <2>1, <3>2 DEF ReaderHeld
    <3>3. CASE n > last[c]
      <4>1. n \in Remaining(ask[c], last[c])
        BY <2>2, <3>1, <3>3 DEF Remaining, After, Behind, Result, Shown
      <4> QED BY <2>2, <4>1
    <3> QED BY <3>1, <3>2, <3>3
  <2> QED BY <2>1, <2>2 DEF ReaderHeld
<1> QED
  BY <1>1, ListingStart, ListingStep, PTL DEF ListingSpec

(***************************************************************************)
(* Groups: the rounds of Kahn's algorithm by induction on their number,    *)
(* which rests on every set of numbers having a least one, then the calls. *)
(***************************************************************************)
Before == {s \in Nat \X Nat : s[1] < s[2]}

LEMMA LeastNumber ==
  ASSUME NEW S \in SUBSET Nat, S # {}
  PROVE  \E n \in S : \A m \in S : n <= m
<1>1. IsWellFoundedOn(Before, Nat)
  BY NatLessThanWellFounded DEF OpToRel, Before
<1>2. PICK n \in S : \A m \in S : ~(<<m, n>> \in Before)
  BY <1>1, WFMin, Zenon
<1>3. ASSUME NEW m \in S PROVE n <= m
  <2>1. n \in Nat /\ m \in Nat
    OBVIOUS
  <2>2. ~(m < n)
    BY <1>2, <2>1 DEF Before
  <2> QED BY <2>1, <2>2
<1> QED BY <1>3

LEMMA UpTo ==
  ASSUME NEW N \in Nat, NEW S, 0 \in S, \A n \in 1..N : n - 1 \in S => n \in S
  PROVE  0..N \subseteq S
<1> SUFFICES ASSUME (0..N) \ S # {} PROVE FALSE
  OBVIOUS
<1> DEFINE T == (0..N) \ S
<1>0. T \in SUBSET Nat /\ T # {}
  OBVIOUS
<1>1. PICK n \in T : \A m \in T : n <= m
  <2> HIDE DEF T
  <2> QED BY <1>0, LeastNumber
<1>2. n \in 1..N /\ n - 1 \in 0..N /\ ~(n <= n - 1)
  BY <1>1
<1> QED BY <1>1, <1>2

\* The member at the head of the queue: it is there, and nothing it depends on
\* is still to come.
LEMMA HeadOfQueue ==
  ASSUME NEW ready, ready \subseteq Names, ready # {}
  PROVE  (CHOOSE x \in ready : \A y \in ready : Position(x) <= Position(y)) \in ready
<1>1. \A x \in ready : Position(x) \in Nat
  BY GroupsAssumption DEF Names, Range, Position
<1> DEFINE S == {Position(x) : x \in ready}
<1>2. S \in SUBSET Nat /\ S # {}
  BY <1>1
<1>3. PICK k \in S : \A m \in S : k <= m
  BY <1>2, LeastNumber
<1> QED BY <1>3

Fits(g, s) ==
  /\ s.out \in Seq(Names) /\ IsInjective(s.out)
  /\ s.ready \subseteq Names \ Range(s.out)
  /\ \A m \in Names : s.indegree[m] = Cardinality(Deps(g, m) \ Range(s.out))
  /\ \A m \in s.ready : Deps(g, m) \subseteq Range(s.out)
  /\ \A j \in DOMAIN s.out : \A d \in Deps(g, s.out[j]) : \E i \in 1..(j - 1) : s.out[i] = d

LEMMA FiniteDeps ==
  ASSUME NEW g \in DependsOn, NEW m \in Names
  PROVE  IsFiniteSet(Deps(g, m)) /\ (g[m] = <<>> <=> Deps(g, m) = {})
<1>1. g[m] \in Seq(STRING)
  BY GroupsAssumption
<1> DEFINE q == g[m]
           n == Len(g[m])
<1>2. n \in Nat /\ DOMAIN q = 1..n
  BY <1>1
<1>3. IsFiniteSet(1..n)
  BY <1>2, FS_Interval
<1>4. q \in Surjection(1..n, Range(q))
  BY <1>1, <1>2 DEF Range, Surjection
<1>5. IsFiniteSet(Range(q))
  BY <1>3, <1>4, FS_Surjection
<1>6. ASSUME q # <<>> PROVE Range(q) # {}
  <2>1. n # 0
    BY <1>1, <1>6
  <2>2. 1 \in DOMAIN q
    BY <1>2, <2>1
  <2> QED BY <2>2 DEF Range
<1>7. q = <<>> => Range(q) = {}
  BY DEF Range
<1> QED BY <1>5, <1>6, <1>7 DEF Deps

LEMMA StartFits == ASSUME NEW g \in DependsOn PROVE Fits(g, KahnStart(g))
<1> DEFINE s == KahnStart(g)
<1>1. /\ s.out = <<>> /\ s.ready = {m \in Names : g[m] = <<>>}
      /\ \A m \in Names : s.indegree[m] = Cardinality(Deps(g, m))
  BY DEF KahnStart
<1> HIDE DEF s
<1>2. Range(s.out) = {} /\ s.out \in Seq(Names) /\ IsInjective(s.out) /\ DOMAIN s.out = {}
  BY <1>1 DEF Range, IsInjective
<1>3. \A m \in s.ready : Deps(g, m) = {}
  BY <1>1, FiniteDeps
<1>4. \A m \in Names : Deps(g, m) \ Range(s.out) = Deps(g, m)
  BY <1>2
<1> QED BY <1>1, <1>2, <1>3, <1>4 DEF Fits, s

LEMMA RangeAfter ==
  ASSUME NEW S, NEW q \in Seq(S), NEW n \in S
  PROVE  /\ Append(q, n) \in Seq(S) /\ DOMAIN Append(q, n) = 1..(Len(q) + 1) /\ DOMAIN q = 1..Len(q)
         /\ \A i \in 1..Len(q) : Append(q, n)[i] = q[i]
         /\ Append(q, n)[Len(q) + 1] = n
         /\ Range(Append(q, n)) = Range(q) \cup {n}
         /\ IsInjective(q) /\ n \notin Range(q) => IsInjective(Append(q, n))
<1> DEFINE r == Append(q, n)
           N == Len(q)
<1>1. N \in Nat /\ r \in Seq(S) /\ DOMAIN r = 1..(N + 1) /\ DOMAIN q = 1..N
  OBVIOUS
<1>2. (\A i \in 1..N : r[i] = q[i]) /\ r[N + 1] = n
  OBVIOUS
<1> HIDE DEF r, N
<1>3. Range(r) = Range(q) \cup {n}
  <2>1. 1..(N + 1) = (1..N) \cup {N + 1}
    BY <1>1
  <2> QED BY <1>1, <1>2, <2>1 DEF Range
<1>4. ASSUME IsInjective(q), n \notin Range(q) PROVE IsInjective(r)
  <2>1. \A i \in 1..N : r[i] # n
    BY <1>1, <1>2, <1>4 DEF Range
  <2>2. \A i \in 1..(N + 1) : i \in 1..N \/ i = N + 1
    BY <1>1
  <2> QED BY <1>1, <1>2, <1>4, <2>1, <2>2 DEF IsInjective
<1> QED BY <1>1, <1>2, <1>3, <1>4 DEF r, N

\* A round: the head of the queue joins the order behind all it depends on,
\* and queues those whose last dependency it was.
LEMMA PopFits ==
  ASSUME NEW g \in DependsOn, WellFormed(g), NEW s, Fits(g, s)
  PROVE  Fits(g, Pop(g, s))
<1>e. CASE s.ready = {}
  BY <1>e DEF Pop
<1>r. CASE s.ready # {}
  <2>n. PICK n \in s.ready : n = CHOOSE x \in s.ready : \A y \in s.ready : Position(x) <= Position(y)
    BY <1>r, HeadOfQueue DEF Fits
  <2> DEFINE freed == {m \in Names : Edges(g, n, m) > 0 /\ s.indegree[m] \in 1..Edges(g, n, m)}
             R == Range(s.out)
  <2>p. PICK p : p = Pop(g, s)
    OBVIOUS
  <2>1. /\ p.out = Append(s.out, n) /\ p.ready = (s.ready \ {n}) \cup freed
        /\ \A m \in Names : p.indegree[m] = s.indegree[m] - Edges(g, n, m)
    BY <1>r, <2>n, <2>p DEF Pop
  <2> HIDE DEF freed
  <2>2. n \in Names /\ n \notin R /\ Deps(g, n) \subseteq R
    BY DEF Fits
  <2>3. /\ p.out \in Seq(Names) /\ IsInjective(p.out) /\ Range(p.out) = R \cup {n}
        /\ DOMAIN p.out = 1..(Len(s.out) + 1) /\ DOMAIN s.out = 1..Len(s.out) /\ Len(s.out) \in Nat
        /\ p.out[Len(s.out) + 1] = n /\ \A i \in 1..Len(s.out) : p.out[i] = s.out[i]
    BY <2>1, <2>2, RangeAfter DEF Fits
  <2>4. ASSUME NEW m \in Names
        PROVE  /\ IsFiniteSet(Deps(g, m) \ R)
               /\ Deps(g, m) \ (R \cup {n}) = (Deps(g, m) \ R) \ {n}
               /\ n \in Deps(g, m) \ R <=> n \in Deps(g, m)
    BY <2>2, FiniteDeps, FS_Subset
  <2>5. ASSUME NEW m \in Names
        PROVE  p.indegree[m] = Cardinality(Deps(g, m) \ (R \cup {n}))
    <3>1. s.indegree[m] = Cardinality(Deps(g, m) \ R)
      BY DEF Fits
    <3>2. Cardinality((Deps(g, m) \ R) \ {n}) =
            IF n \in Deps(g, m) \ R THEN Cardinality(Deps(g, m) \ R) - 1 ELSE Cardinality(Deps(g, m) \ R)
      BY <2>4, FS_RemoveElement
    <3>3. Cardinality(Deps(g, m) \ R) \in Nat
      BY <2>4, FS_CardinalityType
    <3>4. CASE n \in Deps(g, m)
      <4>1. p.indegree[m] = s.indegree[m] - 1
        BY <2>1, <3>4 DEF Edges
      <4>2. Cardinality(Deps(g, m) \ (R \cup {n})) = Cardinality(Deps(g, m) \ R) - 1
        BY <2>4, <3>2, <3>4
      <4> QED BY <3>1, <4>1, <4>2
    <3>5. CASE n \notin Deps(g, m)
      <4>1. p.indegree[m] = s.indegree[m] - 0
        BY <2>1, <3>5 DEF Edges
      <4>2. Cardinality(Deps(g, m) \ (R \cup {n})) = Cardinality(Deps(g, m) \ R)
        BY <2>4, <3>2, <3>5
      <4> QED BY <3>1, <3>3, <4>1, <4>2
    <3> QED BY <3>4, <3>5
  <2>6. ASSUME NEW m \in freed
        PROVE  m \in Names /\ n \in Deps(g, m) /\ Deps(g, m) \ R = {n}
    <3>1. m \in Names /\ n \in Deps(g, m) /\ s.indegree[m] = 1
      BY DEF freed, Edges
    <3>2. Cardinality(Deps(g, m) \ R) = 1
      BY <3>1 DEF Fits
    <3>3. PICK x : Deps(g, m) \ R = {x}
      BY <2>4, <3>1, <3>2, FS_Singleton
    <3> QED BY <2>2, <3>1, <3>3
  <2>7. \A j \in DOMAIN s.out : Deps(g, s.out[j]) \subseteq R
    <3> SUFFICES ASSUME NEW j \in DOMAIN s.out, NEW d \in Deps(g, s.out[j]) PROVE d \in R
      OBVIOUS
    <3>1. PICK i \in 1..(j - 1) : s.out[i] = d
      BY DEF Fits
    <3>2. i \in DOMAIN s.out
      BY <2>3
    <3> QED BY <3>1, <3>2 DEF Range
  <2>8. ASSUME NEW m \in p.ready PROVE m \in Names \ (R \cup {n}) /\ Deps(g, m) \subseteq R \cup {n}
    <3>1. CASE m \in s.ready /\ m # n
      BY <3>1 DEF Fits
    <3>2. CASE m \in freed
      <4>1. m \in Names /\ n \in Deps(g, m) /\ Deps(g, m) \ R = {n}
        BY <3>2, <2>6
      <4>2. m # n
        BY <4>1, <2>2
      <4>3. m \notin R
        BY <4>1, <2>2, <2>7 DEF Range
      <4> QED BY <4>1, <4>2, <4>3
    <3> QED BY <2>1, <3>1, <3>2
  <2>9. ASSUME NEW j \in DOMAIN p.out, NEW d \in Deps(g, p.out[j])
        PROVE  \E i \in 1..(j - 1) : p.out[i] = d
    <3>1. CASE j \in 1..Len(s.out)
      <4>1. PICK i \in 1..(j - 1) : s.out[i] = d
        BY <2>3, <3>1 DEF Fits
      <4>2. i \in 1..Len(s.out)
        BY <2>3, <3>1
      <4> QED BY <4>1, <4>2, <2>3
    <3>2. CASE j = Len(s.out) + 1
      <4>1. d \in R
        BY <2>2, <2>3, <3>2
      <4>2. PICK i \in 1..Len(s.out) : s.out[i] = d
        BY <4>1, <2>3 DEF Range
      <4>3. i \in 1..(j - 1) /\ p.out[i] = d
        BY <2>3, <4>2, <3>2
      <4> QED BY <4>3
    <3> QED BY <2>3, <3>1, <3>2
  <2>10. Fits(g, p)
    <3>1. p.ready \subseteq Names \ Range(p.out)
      BY <2>3, <2>8
    <3>2. \A m \in Names : p.indegree[m] = Cardinality(Deps(g, m) \ Range(p.out))
      BY <2>3, <2>5
    <3>3. \A m \in p.ready : Deps(g, m) \subseteq Range(p.out)
      BY <2>3, <2>8
    <3> QED BY <2>3, <2>9, <3>1, <3>2, <3>3 DEF Fits
  <2> QED BY <2>10, <2>p
<1> QED BY <1>e, <1>r

LEMMA RunExists ==
  ASSUME NEW g
  PROVE  \E run : run = [n \in 0..Len(Members) |->
                           IF n = 0 THEN KahnStart(g) ELSE Pop(g, run[n - 1])]
<1> DEFINE N == Len(Members)
           IsRun(r, n) == \A k \in 0..n : r[k] = IF k = 0 THEN KahnStart(g) ELSE Pop(g, r[k - 1])
           S == {n \in 0..N : \E r : IsRun(r, n)}
<1>1. N \in Nat
  BY GroupsAssumption
<1>2. 0 \in S
  <2>1. PICK r : r = [k \in 0..0 |-> KahnStart(g)]
    OBVIOUS
  <2>2. IsRun(r, 0)
    BY <2>1
  <2> QED BY <1>1, <2>2
<1>3. ASSUME NEW n \in 1..N, n - 1 \in S PROVE n \in S
  <2>1. PICK r : IsRun(r, n - 1)
    BY <1>3
  <2>2. PICK t : t = [k \in 0..n |-> IF k = n THEN Pop(g, r[n - 1]) ELSE r[k]]
    OBVIOUS
  <2>3. ASSUME NEW k \in 0..n
        PROVE  t[k] = IF k = 0 THEN KahnStart(g) ELSE Pop(g, t[k - 1])
    <3>1. CASE k = n
      <4>1. k # 0 /\ k - 1 \in 0..n /\ k - 1 # n
        BY <1>1, <3>1
      <4>2. t[k - 1] = r[k - 1] /\ t[k] = Pop(g, r[n - 1])
        BY <2>2, <4>1, <3>1
      <4> QED BY <4>1, <4>2, <3>1
    <3>2. CASE k # n
      <4>1. k \in 0..(n - 1) /\ (k # 0 => k - 1 \in 0..n /\ k - 1 # n)
        BY <1>1, <3>2
      <4>2. t[k] = r[k] /\ (k # 0 => t[k - 1] = r[k - 1])
        BY <2>2, <4>1, <3>2
      <4>3. r[k] = IF k = 0 THEN KahnStart(g) ELSE Pop(g, r[k - 1])
        BY <2>1, <4>1
      <4> QED BY <4>2, <4>3
    <3> QED BY <3>1, <3>2
  <2> QED BY <2>3
<1>4. N \in S
  <2>1. 0..N \subseteq S
    <3> HIDE DEF S
    <3> QED BY <1>1, <1>2, <1>3, UpTo
  <2> QED BY <1>1, <2>1
<1>5. PICK r : IsRun(r, N)
  BY <1>4
<1>6. PICK t : t = [k \in 0..N |-> r[k]]
  OBVIOUS
<1>7. ASSUME NEW k \in 0..N
      PROVE  t[k] = IF k = 0 THEN KahnStart(g) ELSE Pop(g, t[k - 1])
  <2>1. k # 0 => k - 1 \in 0..N
    BY <1>1
  <2> QED BY <1>5, <1>6, <2>1
<1> QED BY <1>6, <1>7

LEMMA KahnFits ==
  ASSUME NEW g \in DependsOn, WellFormed(g)
  PROVE  \E s : Fits(g, s) /\ s.out = Kahn(g)
<1> DEFINE N == Len(Members)
<1>1. N \in Nat
  BY GroupsAssumption
<1>2. PICK run : /\ run = [n \in 0..N |-> IF n = 0 THEN KahnStart(g) ELSE Pop(g, run[n - 1])]
                 /\ Kahn(g) = run[N].out
  <2> DEFINE run == CHOOSE r : r = [n \in 0..N |-> IF n = 0 THEN KahnStart(g) ELSE Pop(g, r[n - 1])]
  <2>1. run = [n \in 0..N |-> IF n = 0 THEN KahnStart(g) ELSE Pop(g, run[n - 1])]
    BY RunExists
  <2>2. Kahn(g) = run[N].out
    BY DEF Kahn
  <2> QED BY <2>1, <2>2
<1> DEFINE S == {n \in 0..N : Fits(g, run[n])}
<1>3. 0 \in S
  BY <1>1, <1>2, StartFits
<1>4. ASSUME NEW n \in 1..N, n - 1 \in S PROVE n \in S
  <2>1. n \in 0..N /\ n # 0
    BY <1>1
  <2>2. run[n] = Pop(g, run[n - 1])
    BY <1>2, <2>1
  <2> QED BY <1>4, <2>1, <2>2, PopFits
<1>5. 0..N \subseteq S
  <2> HIDE DEF S
  <2> QED BY <1>1, <1>3, <1>4, UpTo
<1>6. Fits(g, run[N])
  BY <1>1, <1>5
<1> QED BY <1>2, <1>6

\* An order that has as many members as the group has every one of them.
LEMMA StartOrderSound ==
  ASSUME NEW g \in Accepted
  PROVE  LET q == StartOrder(g)
         IN  /\ q \in Seq(Names) /\ Len(q) = Len(Members) /\ Range(q) = Names
             /\ \A m \in Names : \A d \in Deps(g, m) :
                  \E i, j \in DOMAIN q : i < j /\ q[i] = d /\ q[j] = m
<1>1. g \in DependsOn /\ WellFormed(g) /\ Len(Kahn(g)) = Len(Members)
  BY DEF Accepted, Valid
<1>2. PICK s : Fits(g, s) /\ s.out = Kahn(g)
  BY <1>1, KahnFits
<1> DEFINE q == s.out
           N == Len(Members)
<1>3. /\ q \in Seq(Names) /\ IsInjective(q) /\ Len(q) = N /\ N \in Nat /\ DOMAIN q = 1..N
      /\ Members \in Seq(STRING) /\ IsInjective(Members) /\ DOMAIN Members = 1..N
  BY <1>1, <1>2, GroupsAssumption DEF Fits
<1>4. IsFiniteSet(1..N)
  <2>1. 1 \in Int /\ N \in Int
    BY <1>3
  <2> HIDE DEF N
  <2> QED BY <2>1, FS_Interval
<1>5. Members \in Surjection(1..N, Names) /\ Members \in Injection(1..N, Names)
  BY <1>3 DEF Names, Range, Surjection, Injection, IsInjective
<1>6. IsFiniteSet(Names) /\ Cardinality(Names) = Cardinality(1..N)
  BY <1>4, <1>5, FS_Surjection
<1>7. q \in Injection(1..N, Names)
  BY <1>3 DEF Injection, IsInjective
<1>8. q \in Surjection(1..N, Names)
  BY <1>6, <1>7, FS_Injection
<1>9. Range(q) = Names
  BY <1>3, <1>8 DEF Range, Surjection
<1>10. ASSUME NEW m \in Names, NEW d \in Deps(g, m)
       PROVE  \E i, j \in DOMAIN q : i < j /\ q[i] = d /\ q[j] = m
  <2>1. PICK j \in DOMAIN q : q[j] = m
    BY <1>9 DEF Range
  <2>2. PICK i \in 1..(j - 1) : q[i] = d
    BY <1>2, <2>1 DEF Fits
  <2>3. i \in DOMAIN q /\ i < j
    BY <1>3
  <2> QED BY <2>1, <2>2, <2>3
<1> QED BY <1>2, <1>3, <1>9, <1>10 DEF StartOrder

LEMMA ReverseSound ==
  ASSUME NEW S, NEW q \in Seq(S)
  PROVE  /\ Reverse(q) \in Seq(S) /\ Len(Reverse(q)) = Len(q) /\ Range(Reverse(q)) = Range(q)
         /\ \A a, b : (\E i, j \in DOMAIN q : i < j /\ q[i] = a /\ q[j] = b)
              => \E i, j \in DOMAIN Reverse(q) : i < j /\ Reverse(q)[i] = b /\ Reverse(q)[j] = a
<1> DEFINE N == Len(q)
           r == Reverse(q)
           At(i) == (N - i) + 1
<1>1. N \in Nat /\ DOMAIN q = 1..N
  OBVIOUS
<1>2. \A i \in 1..N : At(i) \in 1..N /\ At(At(i)) = i
  BY <1>1
<1>3. DOMAIN r = 1..N /\ \A i \in 1..N : r[i] = q[At(i)]
  BY <1>1 DEF Reverse
<1>4. r \in Seq(S) /\ Len(r) = N
  BY <1>1, <1>2 DEF Reverse
<1>5. \A i, j \in 1..N : i < j => At(j) < At(i)
  BY <1>1
<1> HIDE DEF At, r, N
<1>6. \A i \in 1..N : r[At(i)] = q[i]
  BY <1>2, <1>3
<1>7. Range(r) = Range(q)
  BY <1>1, <1>2, <1>3, <1>6 DEF Range
<1>8. ASSUME NEW a, NEW b, NEW i \in DOMAIN q, NEW j \in DOMAIN q, i < j, q[i] = a, q[j] = b
      PROVE  \E k, l \in DOMAIN r : k < l /\ r[k] = b /\ r[l] = a
  BY <1>1, <1>2, <1>3, <1>5, <1>6, <1>8
<1> QED BY <1>4, <1>7, <1>8 DEF r, N

\* What a call has done and has still to do is the order of the group it found,
\* which create had accepted.
CallOrdered(c) ==
  /\ gcall[c].op \in {"none", "start", "stop", "restart"}
  /\ gcall[c].deps \in Accepted \cup {NoGroup}
  /\ gcall[c].done \in Seq(Names) /\ gcall[c].order \in Seq(Names)
  /\ gcall[c].deps = NoGroup => gcall[c].done = <<>> /\ gcall[c].order = <<>>
  /\ gcall[c].deps # NoGroup =>
       gcall[c].done \o gcall[c].order = OrderOf(gcall[c].deps, gcall[c].op)
GroupsInv ==
  /\ group \in Accepted \cup {NoGroup}
  /\ DOMAIN gcall = Calls
  /\ \A c \in Calls : CallOrdered(c)

Ahead(way, a, b) == \E i, j \in DOMAIN way : i < j /\ way[i] = a /\ way[j] = b

LEMMA OrderSound ==
  ASSUME NEW g \in Accepted, NEW op, NEW way, way = OrderOf(g, op)
  PROVE  /\ way \in Seq(Names) /\ Len(way) = Len(Members) /\ Range(way) = Names
         /\ \A m \in Names : \A d \in Deps(g, m) :
              IF op = "stop" THEN Ahead(way, m, d) ELSE Ahead(way, d, m)
<1> DEFINE q == StartOrder(g)
<1>1. /\ q \in Seq(Names) /\ Len(q) = Len(Members) /\ Range(q) = Names
      /\ \A m \in Names : \A d \in Deps(g, m) : Ahead(q, d, m)
  BY StartOrderSound DEF Ahead
<1> HIDE DEF q
<1>2. CASE op = "stop"
  <2>1. way = Reverse(q)
    BY <1>2 DEF OrderOf, q
  <2>2. /\ way \in Seq(Names) /\ Len(way) = Len(q) /\ Range(way) = Range(q)
        /\ \A a, b : Ahead(q, a, b) => Ahead(way, b, a)
    BY <1>1, <2>1, ReverseSound DEF Ahead
  <2> QED BY <1>1, <1>2, <2>2
<1>3. CASE op # "stop"
  <2>1. way = q
    BY <1>3 DEF OrderOf, q
  <2> QED BY <1>1, <1>3, <2>1
<1> QED BY <1>2, <1>3

LEMMA OneMore ==
  ASSUME NEW S, NEW done \in Seq(S), NEW order \in Seq(S), order # <<>>
  PROVE  /\ Append(done, Head(order)) \in Seq(S) /\ Tail(order) \in Seq(S)
         /\ Append(done, Head(order)) \o Tail(order) = done \o order
<1>1. Append(done, Head(order)) \in Seq(S) /\ Tail(order) \in Seq(S)
  OBVIOUS
<1> DEFINE a == Append(done, Head(order)) \o Tail(order)
           b == done \o order
<1>2. Len(a) = Len(b) /\ Len(a) \in Nat /\ a \in Seq(S) /\ b \in Seq(S)
  BY <1>1
<1>3. \A i \in 1..Len(b) : a[i] = b[i]
  OBVIOUS
<1>4. a = b
  <2> HIDE DEF a, b
  <2> QED BY <1>2, <1>3
<1> QED BY <1>1, <1>4

LEMMA GroupsStep == GroupsInv /\ [GroupsNext]_groupVars => GroupsInv'
<1> SUFFICES ASSUME GroupsInv, [GroupsNext]_groupVars PROVE GroupsInv'
  OBVIOUS
<1>s. ASSUME group' \in Accepted \cup {NoGroup}, gcall' = gcall PROVE GroupsInv'
  BY <1>s DEF GroupsInv, CallOrdered
<1>c. ASSUME NEW c \in Calls, NEW rec, group' = group, gcall' = [gcall EXCEPT ![c] = rec], CallOrdered(c)'
      PROVE  GroupsInv'
  <2>1. \A d \in Calls \ {c} : gcall'[d] = gcall[d]
    BY <1>c DEF GroupsInv
  <2>2. \A d \in Calls \ {c} : CallOrdered(d)'
    BY <2>1 DEF GroupsInv, CallOrdered
  <2>3. DOMAIN gcall' = Calls
    BY <1>c DEF GroupsInv
  <2> QED BY <1>c, <2>2, <2>3 DEF GroupsInv
<1>1. ASSUME GroupCreate PROVE GroupsInv'
  BY <1>1, <1>s DEF GroupCreate
<1>2. ASSUME GroupRemove PROVE GroupsInv'
  BY <1>2, <1>s DEF GroupRemove
<1>3. ASSUME NEW c \in Calls, NEW op \in {"start", "stop", "restart"}, Resolve(c, op)
      PROVE  GroupsInv'
  <2> DEFINE rec == [Free EXCEPT !.op = op]
  <2>1. group' = group /\ gcall' = [gcall EXCEPT ![c] = rec]
    BY <1>3 DEF Resolve
  <2>2. gcall'[c] = rec
    BY <2>1 DEF GroupsInv
  <2>3. rec.op = op /\ rec.deps = NoGroup /\ rec.order = <<>> /\ rec.done = <<>>
    BY DEF Free
  <2> HIDE DEF rec
  <2>4. CallOrdered(c)'
    BY <2>2, <2>3 DEF CallOrdered
  <2> QED BY <2>1, <2>4, <1>c
<1>f. ASSUME NEW c \in Calls, group' = group, gcall' = [gcall EXCEPT ![c] = Free] PROVE GroupsInv'
  <2>1. gcall'[c] = Free
    BY <1>f DEF GroupsInv
  <2>2. Free.op = "none" /\ Free.deps = NoGroup /\ Free.order = <<>> /\ Free.done = <<>>
    BY DEF Free
  <2>3. CallOrdered(c)'
    BY <2>1, <2>2 DEF CallOrdered
  <2> QED BY <1>f, <2>3, <1>c
<1>4. ASSUME NEW c \in Calls, Order(c) PROVE GroupsInv'
  <2>1. CASE group = NoGroup
    BY <1>4, <1>f, <2>1 DEF Order
  <2>2. CASE group # NoGroup
    <3> DEFINE rec == [gcall[c] EXCEPT !.deps = group, !.order = OrderOf(group, gcall[c].op)]
    <3>1. group' = group /\ gcall' = [gcall EXCEPT ![c] = rec] /\ gcall[c].deps = NoGroup
      BY <1>4, <2>2 DEF Order, GroupsInv
    <3>2. gcall'[c] = rec
      BY <3>1 DEF GroupsInv
    <3>3. rec.op = gcall[c].op /\ rec.deps = group /\ rec.order = OrderOf(group, gcall[c].op)
          /\ rec.done = gcall[c].done
      OBVIOUS
    <3> HIDE DEF rec
    <3>4. group \in Accepted
      BY <2>2 DEF GroupsInv
    <3>5. gcall[c].done = <<>> /\ OrderOf(group, gcall[c].op) \in Seq(Names)
      BY <3>1, <3>4, OrderSound DEF GroupsInv, CallOrdered
    <3>6. <<>> \o OrderOf(group, gcall[c].op) = OrderOf(group, gcall[c].op)
      BY <3>5
    <3>7. CallOrdered(c)'
      BY <3>2, <3>3, <3>4, <3>5, <3>6, <2>2 DEF CallOrdered, GroupsInv
    <3> QED BY <3>1, <3>7, <1>c
  <2> QED BY <2>1, <2>2
<1>5. ASSUME NEW c \in Calls, MemberStep(c) PROVE GroupsInv'
  <2>1. gcall[c].order # <<>> /\ group' = group
        /\ gcall' = [gcall EXCEPT ![c].order = Tail(@), ![c].done = Append(@, Head(gcall[c].order))]
    BY <1>5 DEF MemberStep
  <2> DEFINE rec == [gcall[c] EXCEPT !.order = Tail(@), !.done = Append(@, Head(gcall[c].order))]
  <2>2. gcall' = [gcall EXCEPT ![c] = rec] /\ gcall'[c] = rec
    BY <2>1 DEF GroupsInv
  <2>3. rec.op = gcall[c].op /\ rec.deps = gcall[c].deps /\ rec.order = Tail(gcall[c].order)
        /\ rec.done = Append(gcall[c].done, Head(gcall[c].order))
    OBVIOUS
  <2> HIDE DEF rec
  <2>4. gcall[c].done \in Seq(Names) /\ gcall[c].order \in Seq(Names) /\ gcall[c].deps # NoGroup
    BY <2>1 DEF GroupsInv, CallOrdered
  <2>5. /\ rec.done \in Seq(Names) /\ rec.order \in Seq(Names)
        /\ rec.done \o rec.order = gcall[c].done \o gcall[c].order
    <3>1. PICK d, o : d = gcall[c].done /\ o = gcall[c].order
      OBVIOUS
    <3>2. d \in Seq(Names) /\ o \in Seq(Names) /\ o # <<>>
      BY <2>1, <2>4, <3>1
    <3>3. /\ Append(d, Head(o)) \in Seq(Names) /\ Tail(o) \in Seq(Names)
          /\ Append(d, Head(o)) \o Tail(o) = d \o o
      BY <3>2, OneMore
    <3> QED BY <2>3, <3>1, <3>3
  <2>6. CallOrdered(c)'
    BY <2>2, <2>3, <2>4, <2>5 DEF CallOrdered, GroupsInv
  <2> QED BY <2>1, <2>2, <2>6, <1>c
<1>6. ASSUME NEW c \in Calls, Answer(c) PROVE GroupsInv'
  BY <1>6, <1>f DEF Answer
<1>7. ASSUME NEW m \in Names, MemberExits(m) PROVE GroupsInv'
  BY <1>7, <1>s DEF MemberExits, GroupsInv
<1>8. CASE UNCHANGED groupVars
  BY <1>8, <1>s DEF groupVars, GroupsInv
<1> QED BY <1>1, <1>2, <1>3, <1>4, <1>5, <1>6, <1>7, <1>8 DEF GroupsNext

\* group.start and group.restart treat every member once, each behind all it
\* depends on, and group.stop each before all it depends on, for any payload
\* that group.create accepts.
THEOREM GroupsInOrder == GroupsSpec => []DependenciesFirst
<1>1. GroupsInit => GroupsInv
  <2> SUFFICES ASSUME GroupsInit PROVE GroupsInv
    OBVIOUS
  <2>1. DOMAIN gcall = Calls /\ \A c \in Calls : gcall[c] = Free
    BY DEF GroupsInit
  <2>2. Free.op = "none" /\ Free.deps = NoGroup /\ Free.order = <<>> /\ Free.done = <<>>
    BY DEF Free
  <2>3. ASSUME NEW c \in Calls PROVE CallOrdered(c)
    <3>1. /\ gcall[c].op = "none" /\ gcall[c].deps = NoGroup
          /\ gcall[c].order = <<>> /\ gcall[c].done = <<>>
      BY <2>1, <2>2
    <3>2. <<>> \in Seq(Names)
      OBVIOUS
    <3> QED BY <3>1, <3>2 DEF CallOrdered
  <2> QED BY <2>1, <2>3 DEF GroupsInit, GroupsInv
<1>2. GroupsInv => DependenciesFirst
  <2> SUFFICES ASSUME GroupsInv, NEW c \in Calls, gcall[c].deps # NoGroup
               PROVE  LET way == gcall[c].done \o gcall[c].order
                      IN  /\ Len(way) = Len(Members) /\ Range(way) = Names
                          /\ \A m \in Names : \A d \in Deps(gcall[c].deps, m) :
                               IF gcall[c].op = "stop" THEN Ahead(way, m, d) ELSE Ahead(way, d, m)
    BY DEF DependenciesFirst, Ahead
  <2>1. /\ gcall[c].deps \in Accepted
        /\ gcall[c].done \o gcall[c].order = OrderOf(gcall[c].deps, gcall[c].op)
    BY DEF GroupsInv, CallOrdered
  <2>2. PICK g, op, way : /\ g = gcall[c].deps /\ op = gcall[c].op
                          /\ way = gcall[c].done \o gcall[c].order
    OBVIOUS
  <2>3. /\ Len(way) = Len(Members) /\ Range(way) = Names
        /\ \A m \in Names : \A d \in Deps(g, m) :
             IF op = "stop" THEN Ahead(way, m, d) ELSE Ahead(way, d, m)
    BY <2>1, <2>2, OrderSound
  <2> QED BY <2>2, <2>3
<1> QED BY <1>1, <1>2, GroupsStep, PTL DEF GroupsSpec
=============================================================================
