------------------------------ MODULE MCControl ------------------------------
(***************************************************************************)
(* What decides over requests and what they change, on small instances:    *)
(* sessions with their processes, process groups, declared services,       *)
(* profiles, the access of principals to processes, the sandboxes that     *)
(* children run in, and the listing of processes page by page.  They share *)
(* no state, so a behaviour works one of them and the others hold still.   *)
(* Access runs once with grants and the default sandbox, once with         *)
(* reloads, sandboxes, starts and restarts and no grants.                  *)
(***************************************************************************)
EXTENDS Sessions, Groups, Declare, Profiles, Access, Sandbox, Listing, TLC

VARIABLE part
vars == <<part, sessionVars, groupVars, declareVars, profileVars, accessFileVars, sandboxVars, listingVars>>

\* depends_on payloads: chains, joins, cycles, an unknown name, and lists that
\* repeat a name before the last one they need.
Single == {<<>>} \cup {<<n>> : n \in {"a", "b", "c"}}
Several == {<<"a", "b">>, <<"b", "a">>, <<"a", "a", "b">>, <<"b", "ghost">>, <<"b", "b", "a">>}
Payloads == {[a |-> x, b |-> y, c |-> z] : x \in {<<>>, <<"c">>}, y \in Single, z \in Single \cup Several}
MembersDef == <<"b", "a", "c">>
ServicesDef == <<"api", "db", "web">>

\* Configurations and principals.
SlotsDef == <<"daemon.toml">>
With(box) == [Unset EXCEPT !.sandbox = box]
FilesDef == {[src |-> With("permissive"), parses |-> TRUE, known |-> TRUE],
             [src |-> With("bogus"), parses |-> TRUE, known |-> TRUE]}
EnvsDef == {Unset}
FlagSetsDef == {[src |-> Unset, path |-> ""]}
Who(role, session) == [role |-> role, session |-> session]
PrincipalsDef == {Who("agent", "s1"), Who("agent", "s2"), Who("", ""), Who("logs", "s1")}

\* A host: its home, the project roots in, above and beside it and at "/", its files.
HomeDef == <<"home", "u">>
In(p) == HomeDef \o p
TempsDef == {<<"tmp">>, In(<<"tmp">>)}
RootsDef == {In(<<"p">>), HomeDef, <<"home">>, <<"srv">>, <<"tmp">>, In(<<".config">>), <<>>}
SystemRODef == {<<"usr">>}
SocketsDef == {<<"run", "docker.sock">>}
LaterDef == {In(<<".ssh">>), In(<<".gnupg">>), In(<<".aws">>), In(<<".config", "gcloud">>)} \cup SocketsDef
HostFilesDef ==
  {In(<<".ssh", "id">>), In(<<".gnupg", "ring">>), In(<<".aws", "keys">>),
   In(<<".config", "gcloud", "token">>), In(<<"p", "main">>), In(<<"notes">>), In(<<"tmp", "x">>),
   <<"tmp", "x">>, <<"usr", "lib">>, <<"srv", "db">>, <<"run", "docker.sock">>}

Parts == {"sessions", "groups", "declare", "profiles", "grants", "sandbox", "mounts", "listing"}

Init ==
  /\ part \in Parts
  /\ SessionsInit
  /\ GroupsInit /\ (IF part = "groups" THEN member["a"] = "running" ELSE member = [m \in Names |-> "none"])
  /\ DeclareInit /\ (part # "declare" => argv = {} /\ row = [n \in Declared |-> "absent"])
  /\ ProfilesInit
  /\ AccessInit /\ (part # "sandbox" => \A s \in ToSet(Slots) : file[s] = NoFile)
  /\ SandboxInit /\ (part # "mounts" => there = {} /\ temp = <<"tmp">>)
  /\ ListingInit

Grants ==
  AccessNext /\ UNCHANGED file
  /\ \A r \in Requests : pending'[r].box # "off" /\ pending'[r].op # "disable"
Sandboxes ==
  AccessNext /\ UNCHANGED shares
  /\ \A r \in Requests : pending'[r].op \in {"idle", "start", "restart", "disable"}

Next ==
  /\ UNCHANGED part
  /\ \/ /\ part = "sessions" /\ SessionsNext
        /\ UNCHANGED <<groupVars, declareVars, profileVars, accessFileVars, sandboxVars, listingVars>>
     \/ /\ part = "groups" /\ GroupsNext
        /\ UNCHANGED <<sessionVars, declareVars, profileVars, accessFileVars, sandboxVars, listingVars>>
     \/ /\ part = "declare" /\ DeclareNext
        /\ UNCHANGED <<sessionVars, groupVars, profileVars, accessFileVars, sandboxVars, listingVars>>
     \/ /\ part = "profiles" /\ ProfilesNext
        /\ UNCHANGED <<sessionVars, groupVars, declareVars, accessFileVars, sandboxVars, listingVars>>
     \/ /\ part \in {"grants", "sandbox"} /\ IF part = "grants" THEN Grants ELSE Sandboxes
        /\ UNCHANGED <<sessionVars, groupVars, declareVars, profileVars, sandboxVars, listingVars>>
     \/ /\ part = "mounts" /\ SandboxNext
        /\ UNCHANGED <<sessionVars, groupVars, declareVars, profileVars, accessFileVars, listingVars>>
     \/ /\ part = "listing" /\ ListingNext
        /\ UNCHANGED <<sessionVars, groupVars, declareVars, profileVars, accessFileVars, sandboxVars>>

Spec == Init /\ [][Next]_vars
Symmetry == Permutations(Ids) \cup Permutations(Reqs) \cup Permutations(Procs)
===============================================================================
