------------------------------- MODULE Profiles -------------------------------
(* Workspace profiles: the store of internal/profile and the handlers           *)
(* doProfileCreate, doProfileUpdate, doProfileDelete and doProfileUse.  Every   *)
(* operation runs under the store's lock; what is hard is the pair of indexes   *)
(* over clients that choose ids, rename, delete and create again.               *)
EXTENDS Naturals, FiniteSets

CONSTANTS ProfileIds,   \* ids a profile may get
          ProfileNames, \* valid names; "default" is one
          Projects_,    \* project ids
          Tags,         \* values of a profile's env
          UseSessions,  \* sessions that select a profile
          MaxEdits      \* bound: creates, updates and deletes

\* An id is generated when the caller chose none, so no id is the empty one.
ASSUME ProfilesAssumption == "" \notin ProfileIds

VARIABLES profileByID, \* profileByID[i]: [name, project, env], or NoProfile
          byKey,       \* byKey[k]: id, "" when k has no entry
          sessionUse,  \* sessionUse[s]: name, "" when s selected none
          edits

profileVars == <<profileByID, byKey, sessionUse, edits>>

NoProfile == [name |-> "", project |-> "", env |-> ""]
DefaultName == "default"
ProfileKeys == Projects_ \X (ProfileNames \cup {DefaultName})
OrDefault(name) == IF name = "" THEN DefaultName ELSE name
KeyOf(p) == <<p.project, p.name>>
Edit == edits < MaxEdits /\ edits' = edits + 1

\* Create: the key must be free; the id is the caller's, whatever it names, or new.
CreateProfile(chosen, name, project, env) ==
  LET key == <<project, OrDefault(name)>>
  IN  /\ Edit /\ byKey[key] = ""
      /\ \E i \in IF chosen # "" THEN {chosen} ELSE {j \in ProfileIds : profileByID[j] = NoProfile} :
           /\ profileByID' = [profileByID EXCEPT ![i] =
                [name |-> OrDefault(name), project |-> project, env |-> env]]
           /\ byKey' = [byKey EXCEPT ![key] = i]
      /\ UNCHANGED sessionUse

\* Update: an empty name and an empty env mean no change; a rename moves the key.
RenameTarget_Any(key) == TRUE
RenameTarget(key) == byKey[key] = ""
UpdateProfile(i, name, env) ==
  LET cur == profileByID[i]
      renamed == name # "" /\ name # cur.name
      new == [cur EXCEPT !.name = IF renamed THEN name ELSE @, !.env = IF env = "" THEN @ ELSE env]
  IN  /\ Edit /\ cur # NoProfile
      /\ renamed => RenameTarget(KeyOf(new))
      /\ profileByID' = [profileByID EXCEPT ![i] = new]
      /\ byKey' = IF renamed THEN [byKey EXCEPT ![KeyOf(cur)] = "", ![KeyOf(new)] = i] ELSE byKey
      /\ UNCHANGED sessionUse

DeleteProfile(i) ==
  /\ Edit /\ profileByID[i] # NoProfile
  /\ byKey' = [byKey EXCEPT ![KeyOf(profileByID[i])] = ""]
  /\ profileByID' = [profileByID EXCEPT ![i] = NoProfile]
  /\ UNCHANGED sessionUse

\* The selection is of a name, which need not exist; session.end drops it.
UseProfile(s, name) ==
  /\ sessionUse[s] # OrDefault(name) /\ sessionUse' = [sessionUse EXCEPT ![s] = OrDefault(name)]
  /\ UNCHANGED <<profileByID, byKey, edits>>
RemoveSession(s) ==
  /\ sessionUse[s] # "" /\ sessionUse' = [sessionUse EXCEPT ![s] = ""]
  /\ UNCHANGED <<profileByID, byKey, edits>>

ProfilesInit ==
  /\ profileByID = [i \in ProfileIds |-> NoProfile]
  /\ byKey = [k \in ProfileKeys |-> ""]
  /\ sessionUse = [s \in UseSessions |-> ""] /\ edits = 0

ProfilesNext ==
  \/ \E i \in ProfileIds \cup {""}, n \in ProfileNames \cup {""}, p \in Projects_, e \in Tags :
       CreateProfile(i, n, p, e)
  \/ \E i \in ProfileIds, n \in ProfileNames \cup {""}, e \in Tags \cup {""} : UpdateProfile(i, n, e)
  \/ \E i \in ProfileIds : DeleteProfile(i)
  \/ \E s \in UseSessions : RemoveSession(s) \/ \E n \in ProfileNames \cup {""} : UseProfile(s, n)

ProfilesSpec == ProfilesInit /\ [][ProfilesNext]_profileVars

ProfileRecords == [name : ProfileNames \cup {DefaultName}, project : Projects_, env : Tags]
ProfilesTypeOK ==
  /\ profileByID \in [ProfileIds -> ProfileRecords \cup {NoProfile}]
  /\ byKey \in [ProfileKeys -> ProfileIds \cup {""}]

\* Every profile is found under its own key, so a project never has two of a name,
\* although ids are the callers' choice and a create may take over the id of another
\* profile, leaving that one's key behind (profile.go: Create, Update, Delete).
FoundByKey ==
  \A i \in ProfileIds : profileByID[i] # NoProfile => byKey[KeyOf(profileByID[i])] = i
=============================================================================
