------------------------------- MODULE Sandbox -------------------------------
(* Sandboxes on Linux: the policy of internal/sandbox, and the bubblewrap mounts *)
(* that stand for it while a child runs (internal/sandbox/linux, wrap_linux.go). *)
(* The mounts are chosen from what exists when the child is launched; what the   *)
(* child sees depends on what exists later.                                      *)
(*                                                                               *)
(* A path is the sequence of its components, <<>> the root.                      *)
EXTENDS Naturals, Sequences, FiniteSets, SequencesExt

CONSTANTS Boxes,     \* children that are launched
          Home,      \* the user's home directory
          Temps,     \* temporary directories the daemon may have
          Roots,     \* project roots
          SystemRO,  \* systemROPaths
          Sockets,   \* engineSocketPaths
          Later,     \* secret directories and sockets that may or may not exist
          HostFiles  \* files a child may try to open

Under(path, root) == IsPrefix(root, path)

\* No system path begins with a directory for credentials or lies beside an engine's
\* socket in one tree; a project is a directory, and nothing is below a socket.  The
\* home is not below a directory for keys.
ASSUME SandboxAssumption ==
  /\ {Home} \cup Temps \cup Roots \cup SystemRO \cup Sockets \cup Later \cup HostFiles \subseteq Seq(STRING)
  /\ \A p \in SystemRO : p # <<>> /\ Head(p) \notin {".ssh", ".gnupg", ".aws", ".config"}
  /\ \A p \in SystemRO, s \in Sockets : ~Under(p, s) /\ ~Under(s, p)
  /\ \A r \in Roots, s \in Sockets : ~Under(r, s)
  /\ ".ssh" \notin Range(Home)

VARIABLES temp,  \* os.TempDir()
          there, \* which paths of Later exist
          boxed  \* boxed[b]: [profile, root, mounts, had], or NoBox

sandboxVars == <<temp, there, boxed>>
NoBox == [profile |-> "none", root |-> <<>>, mounts |-> {}, had |-> {}]
Profiles_ == {"strict", "standard", "permissive", "off"}

-----------------------------------------------------------------------------
(* The policy                                                                 *)

ProjectAndTemp(root) == {root, temp}
WritableRoots(profile, root) ==
  CASE profile = "off" -> {}
    [] profile = "permissive" -> ProjectAndTemp(root) \cup {Home}
    [] OTHER -> ProjectAndTemp(root)
HasProjectRoot(profile, root) == WritableRoots(profile, root) \ {temp} # {}

-----------------------------------------------------------------------------
(* The mounts: each covers what is below it, also earlier mounts.  Those of one  *)
(* layer are alike, so their order does not matter.                              *)

On(layer, kind, paths) == {[layer |-> layer, kind |-> kind, at |-> p] : p \in paths}

StrictMounts(root) ==
  On(1, "ro", SystemRO)
  \cup On(2, "tmpfs", {Home} \ {<<>>, root})
  \cup On(3, "tmpfs", {<<"tmp">>} \ {temp})
  \cup On(4, "rw", {temp} \ {root})
  \cup On(5, "rw", {root})

\* The secret directories, and the markers taken as paths below the root.  One that
\* does not exist is covered by its parent, if its name starts with a dot.
SecretDirs == {Home \o <<".ssh">>, Home \o <<".gnupg">>, Home \o <<".aws">>, Home \o <<".config", "gcloud">>}
Markers == {".ssh", "docker.sock", ".gnupg", ".aws"}
DenyMountPaths == SecretDirs \cup {<<m>> : m \in Markers}
Dotted(p) == Last(p) \in {".ssh", ".gnupg", ".aws"} /\ Front(p) # <<>>
MaskOf_OnlyDirs(p, dirs) == {p} \cap dirs
MaskOf(p, dirs) == IF p \in dirs THEN {p} ELSE IF Dotted(p) THEN {Front(p)} ELSE {}

\* What belongs to a project: one at the root of the file system does not contain the
\* rest of it.
isUnderPath(path, root) == path = root \/ (root # <<>> /\ Under(path, root))

StandardMounts(root, dirs) ==
  On(1, "ro", {<<>>})
  \cup On(2, "rw", {root})
  \cup On(3, "rw", {temp} \ {root})
  \cup On(4, "tmpfs", UNION {MaskOf(p, dirs) : p \in {q \in DenyMountPaths : ~isUnderPath(q, root)}})
  \cup On(5, "null", {s \in Sockets \cap dirs : ~isUnderPath(s, root)})

\* The driver wraps only the confining profiles; the others see the host.
Mounts(profile, root, dirs) ==
  CASE profile = "strict" -> StrictMounts(root)
    [] profile = "standard" -> StandardMounts(root, dirs)
    [] OTHER -> On(1, "rw", {<<>>})

Apply(profile, root) == profile \in {"strict", "standard"} => HasProjectRoot(profile, root)

\* doStart applies the policy; the driver wraps the command when it spawns.
LaunchBox(b, profile, root) ==
  /\ Apply(profile, root)
  /\ boxed' = [boxed EXCEPT ![b] = [profile |-> profile, root |-> root,
                                    mounts |-> Mounts(profile, root, there), had |-> there]]
  /\ UNCHANGED <<temp, there>>

\* ssh-keygen, a cloud login or an engine creates what was not there.
Appears(p) == p \in Later \ there /\ there' = there \cup {p} /\ UNCHANGED <<temp, boxed>>

SandboxInit == temp \in Temps /\ there \in SUBSET Later /\ boxed = [b \in Boxes |-> NoBox]
SandboxNext ==
  \/ \E p \in Later : Appears(p)
  \/ \E b \in Boxes, root \in Roots, profile \in Profiles_ : LaunchBox(b, profile, root)
SandboxSpec == SandboxInit /\ [][SandboxNext]_sandboxVars

\* What the mounts make of a path (the kernel).
Covering(b, path) == {m \in boxed[b].mounts : Under(path, m.at)}
Shows(b, path, kind) ==
  \E m \in Covering(b, path) : m.kind = kind /\ \A n \in Covering(b, path) : n.layer <= m.layer
Present(path) == \A p \in Later : Under(path, p) => p \in there
Sees(b, path) == Present(path) /\ (Shows(b, path, "ro") \/ Shows(b, path, "rw"))

-----------------------------------------------------------------------------
Confined(b) == boxed[b].profile \in {"strict", "standard"}
\* A project at the root of the file system does not own what lies below it.
InProject(b, path) == boxed[b].root # <<>> /\ Under(path, boxed[b].root)
Secret(path) == \E p \in SecretDirs \cup Sockets : Under(path, p)

\* Outside its project and the temporary directory, a strict child sees the system's
\* paths and nothing of the home, no credential and no engine socket.  A standard child
\* sees no credential or socket either, also when they appear after its launch and when
\* its project is the root of the file system (bwrap_test.go, TestIsUnderPath), except
\* those that nothing stood for at the launch: an engine socket, the gcloud directory,
\* or one of a home that is the root ("Cover secret path classes so ro-bind of / cannot
\* leak keys", bwrap.go).  And neither can write what the policy has no root for.
SecretsHidden ==
  \A b \in Boxes, f \in HostFiles : Confined(b) /\ Sees(b, f) =>
    /\ Shows(b, f, "rw") => \E r \in WritableRoots(boxed[b].profile, boxed[b].root) : Under(f, r)
    /\ boxed[b].profile = "strict" /\ ~Under(f, boxed[b].root) /\ ~Under(f, temp) =>
         (\E p \in SystemRO : Under(f, p)) /\ (Under(f, Home) => Home = <<>>) /\ ~Secret(f)
    /\ /\ boxed[b].profile = "standard" /\ Secret(f)
       /\ ~InProject(b, f) /\ ~Under(f, temp)
       => \E p \in (SecretDirs \cup Sockets) \ boxed[b].had :
            Under(f, p) /\ (p \in SecretDirs => ~Dotted(p))

\* A confined child can write its project: nothing that hides secrets hides the
\* project too.  The standard sandbox keeps this only where no secret that is not the
\* project's own lies, and in a home that holds the project only if none of the home's
\* secret directories was missing: the cover then lies over the home, after the
\* project's mount.
ProjectOpen ==
  \A b \in Boxes, f \in HostFiles :
    /\ Confined(b) /\ Under(f, boxed[b].root)
    /\ boxed[b].profile = "standard" =>
         /\ ~\E p \in DenyMountPaths \cup Sockets : Under(f, p) /\ ~InProject(b, p)
         /\ Under(f, Home) /\ ~InProject(b, Home)
              => \A p \in SecretDirs : Dotted(p) => p \in boxed[b].had
    => Shows(b, f, "rw")

\* Both at once: a sandbox neither leaks nor locks its child out.
SandboxHolds == SecretsHidden /\ ProjectOpen
=============================================================================
