------------------------------ MODULE LogProofs ------------------------------
(* Proofs about the log directory: whatever size and number of files, however  *)
(* often a file-system call fails or the daemon dies in a rotation, archives    *)
(* keep their order and only the oldest output goes; and what followers and     *)
(* exports hand out, which take no lock, is what was written.  Then about the   *)
(* readers of LogRead: whatever the files hold and the child adds meanwhile, a  *)
(* request is answered with the lines it is owed.  Last about Secrets: whatever *)
(* the values, the envs and the pieces in which a child writes, nothing of a    *)
(* registered value is in a whole line of the log.                              *)
EXTENDS LogCapture, LogRead, Secrets, FiniteSetTheorems, WellFoundedInduction, TLAPS

Number == Nat \ {0}
Contents == Seq(Number) \cup {Absent}

\* Every token up to here has been through emit or is lost.
Mark == tok - Len(wq)

Rotating == {"remove", "shift", "rename", "gzip", "unlink", "reopen"}
CaptureTypeOK ==
  /\ act \in Contents /\ arch \in [Slots -> [Forms -> Contents]]
  /\ wpc \in {"off", "idle", "dead", "emit"} \cup Rotating
  /\ wq \in Seq(Number) /\ tok \in Nat /\ shift \in Nat
  /\ partial \in BOOLEAN /\ moved \in BOOLEAN
  /\ got \in Seq(Number) /\ {off, base, dumped} \subseteq Nat
  /\ names \subseteq AllNames

\* A Write in progress holds the last tokens; a writer that is at rest, or about
\* to write, has its file.
WriterHeld ==
  /\ Len(wq) <= tok /\ \A n \in 1..Len(wq) : wq[n] = Mark + n
  /\ wq # <<>> <=> wpc = "emit" \/ wpc \in Rotating
  /\ partial => wpc \notin {"off", "dead"}
  /\ wpc \in {"idle", "emit"} => act # Absent

\* Nothing on disk, kept or sent is newer than the mark.
Marked == /\ \A n \in OnDisk \cup kept : n \in Number /\ n <= Mark
          /\ \A n \in ToSet(got) : n <= Mark

\* A rotation that has come this far has made room for its next move, which a
\* failure or a crash before it does not leave behind.
RoomMade ==
  /\ wpc = "remove" => shift = MaxFiles - 1
  /\ wpc = "shift" => shift \in 1..MaxFiles - 1 /\ \A s \in Forms : arch[shift + 1][s] = Absent
  /\ wpc = "rename" => \A s \in Forms : arch[1][s] = Absent
  /\ wpc = "gzip" => arch[1]["gz"] = Absent
  /\ wpc = "unlink" => arch[1]["gz"] = arch[1]["plain"]

DirectoryInv == WriterHeld /\ Marked /\ RoomMade /\ ArchivesInOrder /\ OnlyOldestDropped

\* What the follower has not read yet is newer than what it sent, also past a
\* rotation; without one, what it sent since its mark is what lies behind it.
FollowerHeld ==
  /\ IsStrictlyIncreasing(got)
  /\ rpc = "dumped" => dumped = Len(got)
  /\ rpc \in {"poll", "read"} =>
       /\ \A x \in ToSet(got), p \in DOMAIN act : act # Absent /\ p > off => x < act[p]
       /\ off <= SizeOf(act) \/ \A x \in ToSet(got), m \in Tokens(act) : x < m
       /\ ~moved => /\ base <= off /\ off <= SizeOf(act) /\ Len(got) - dumped = off - base
                    /\ \A k \in 1..off - base : got[dumped + k] = act[base + k]

\* What was there when the export listed the files is in the archive or in a file
\* still to add.
ExportHeld ==
  /\ rpc \in {"manifest", "add", "copy", "exported"} /\ ~moved
       => \A n \in there : n \in out \/ \E f \in names : n \in Tokens(File(f))
  /\ rpc = "exported" => names = {}

LogInv == CaptureTypeOK /\ DirectoryInv /\ FollowerHeld /\ ExportHeld

-----------------------------------------------------------------------------
(* Files and the directory                                                    *)

LEMMA FileFacts ==
  /\ Tokens(Absent) = {} /\ SizeOf(Absent) = 0 /\ Absent \notin Seq(Number) /\ Tokens(<<>>) = {}
  /\ \A f \in Seq(Number) :
       /\ f # Absent /\ SizeOf(f) = Len(f) /\ Tokens(f) = {f[n] : n \in 1..Len(f)}
       /\ Tokens(f) \subseteq Number
<1>1. Absent \notin Seq(Number)
  <2>1. Absent[1] = 0 /\ 1 \in DOMAIN Absent BY DEF Absent
  <2> QED BY <2>1 DEF Number
<1>2. \A f \in Seq(Number) : f # Absent /\ Tokens(f) = {f[n] : n \in 1..Len(f)} /\ Tokens(f) \subseteq Number
  BY <1>1 DEF Tokens, ToSet
<1> QED BY <1>1, <1>2 DEF Tokens, SizeOf, ToSet

LEMMA Appended ==
  ASSUME NEW f \in Seq(Number), NEW x \in Number
  PROVE  /\ Append(f, x) \in Seq(Number) /\ Tokens(Append(f, x)) = Tokens(f) \cup {x}
         /\ (\A n \in Tokens(f) : n < x) /\ IsStrictlyIncreasing(f) => IsStrictlyIncreasing(Append(f, x))
<1> DEFINE g == Append(f, x)
<1>1. g \in Seq(Number) /\ Len(g) = Len(f) + 1 /\ g[Len(f) + 1] = x /\ \A n \in 1..Len(f) : g[n] = f[n]
  OBVIOUS
<1>2. Tokens(f) = {f[n] : n \in 1..Len(f)} /\ Tokens(g) = {g[n] : n \in 1..Len(g)} BY <1>1, FileFacts
<1>3. Len(f) \in Nat /\ DOMAIN f = 1..Len(f) /\ DOMAIN g = 1..Len(g) BY <1>1
<1> HIDE DEF g
<1>4. Tokens(g) = Tokens(f) \cup {x}
  <2>1. ASSUME NEW y \in Tokens(g) PROVE y \in Tokens(f) \cup {x}
    <3>1. PICK n \in 1..Len(g) : y = g[n] BY <2>1, <1>2
    <3>2. n \in 1..Len(f) \/ n = Len(f) + 1 BY <1>1, <1>3
    <3> QED BY <3>1, <3>2, <1>1, <1>2
  <2>2. ASSUME NEW y \in Tokens(f) PROVE y \in Tokens(g)
    <3>1. PICK n \in 1..Len(f) : y = f[n] BY <2>2, <1>2
    <3>2. n \in 1..Len(g) BY <1>1, <1>3
    <3> QED BY <3>1, <3>2, <1>1, <1>2
  <2>3. x \in Tokens(g) BY <1>1, <1>2, <1>3
  <2> QED BY <2>1, <2>2, <2>3
<1>5. ASSUME \A n \in Tokens(f) : n < x, IsStrictlyIncreasing(f) PROVE IsStrictlyIncreasing(g)
  <2> SUFFICES ASSUME NEW m \in 1..Len(g), NEW n \in 1..Len(g), m < n PROVE g[m] < g[n]
    BY <1>3 DEF IsStrictlyIncreasing
  <2>1. m \in 1..Len(f) BY <1>1, <1>3
  <2>2. CASE n = Len(f) + 1 BY <2>1, <2>2, <1>1, <1>2, <1>5
  <2>3. CASE n \in 1..Len(f) BY <2>1, <2>3, <1>1, <1>3, <1>5 DEF IsStrictlyIncreasing
  <2> QED BY <2>2, <2>3, <1>1, <1>3
<1> QED BY <1>1, <1>4, <1>5 DEF g

LEMMA EmptyIsSorted == IsStrictlyIncreasing(<<>>) /\ IsStrictlyIncreasing(Absent)
BY DEF IsStrictlyIncreasing, Absent

Archives == [Slots -> [Forms -> Contents]]
Archived(h) == UNION {Tokens(h[i][s]) : i \in Slots, s \in Forms}

LEMMA InArchives == \A h, n : n \in Archived(h) <=> \E i \in Slots, s \in Forms : n \in Tokens(h[i][s])
BY DEF Archived

LEMMA DiskIs == OnDisk = Tokens(act) \cup Archived(arch) /\ OnDisk' = Tokens(act') \cup Archived(arch')
BY DEF OnDisk, Archived, Tokens

\* ArchivesInOrder of any active file and archives.
Agree(f, g) == f \in {g, Absent} \/ g = Absent
Sorted(a, h) ==
  /\ IsStrictlyIncreasing(a)
  /\ \A i \in Slots, s \in Forms :
       /\ Before(h[i][s], a)
       /\ \A u \in Forms : Agree(h[i][u], h[i][s])
       /\ \A j \in 1..i - 1, t \in Forms : h[i][s] # h[j][t] => Before(h[i][s], h[j][t])

LEMMA OrderIs == ArchivesInOrder = Sorted(act, arch) /\ ArchivesInOrder' = Sorted(act', arch')
BY DEF ArchivesInOrder, Sorted, Agree, Before, IsStrictlyIncreasing, Tokens, ToSet, SizeOf

LEMMA NothingBefore == \A f : Before(Absent, f) /\ Before(f, Absent) /\ Before(<<>>, f) /\ Before(f, <<>>)
BY FileFacts DEF Before

\* Removing files leaves the rest in order.
LEMMA SortedWithout ==
  ASSUME NEW a, NEW h \in Archives, NEW k \in Archives, Sorted(a, h),
         \A i \in Slots, s \in Forms : k[i][s] \in {h[i][s], Absent}
  PROVE  Sorted(a, k)
<1>1. \A i \in Slots, s \in Forms : Before(k[i][s], a) BY NothingBefore DEF Sorted
<1>2. \A i \in Slots, s, u \in Forms : Agree(k[i][u], k[i][s]) BY DEF Sorted, Agree
<1>3. ASSUME NEW i \in Slots, NEW s \in Forms, NEW j \in 1..i - 1, NEW t \in Forms, k[i][s] # k[j][t]
      PROVE  Before(k[i][s], k[j][t])
  <2>1. j \in Slots BY CaptureAssumption DEF Slots
  <2>2. CASE k[i][s] = Absent \/ k[j][t] = Absent BY <2>2, NothingBefore
  <2>3. CASE k[i][s] = h[i][s] /\ k[j][t] = h[j][t] BY <2>3, <1>3 DEF Sorted
  <2> QED BY <2>1, <2>2, <2>3
<1> QED BY <1>1, <1>2, <1>3 DEF Sorted

\* Appending what is newer than all files keeps the order.
LEMMA SortedAppend ==
  ASSUME NEW a \in Seq(Number), NEW h \in Archives, NEW x \in Number, Sorted(a, h),
         \A n \in Tokens(a) \cup Archived(h) : n < x
  PROVE  Sorted(Append(a, x), h)
<1>1. \A i \in Slots, s \in Forms : Before(h[i][s], Append(a, x))
  BY Appended, InArchives DEF Sorted, Before
<1>2. IsStrictlyIncreasing(Append(a, x)) BY Appended DEF Sorted
<1> QED BY <1>1, <1>2 DEF Sorted

\* A rename into a place that is empty, or that holds the same, keeps the order
\* and loses nothing.
LEMMA RenamedFacts ==
  ASSUME NEW a, NEW h \in Archives, NEW i \in 1..MaxFiles - 1, NEW s \in Forms, Sorted(a, h),
         \A u \in Forms : h[i + 1][u] \in {h[i][s], Absent}
  PROVE  /\ Renamed(h, i, s) \in Archives /\ Sorted(a, Renamed(h, i, s))
         /\ Archived(Renamed(h, i, s)) = Archived(h)
<1>1. CASE h[i][s] = Absent BY <1>1 DEF Renamed
<1>2. CASE h[i][s] # Absent
  <2> DEFINE k == Renamed(h, i, s)
  <2>0. i \in Slots /\ i + 1 \in Slots /\ i # i + 1 /\ Slots \subseteq Nat BY CaptureAssumption DEF Slots
  <2>1. k = [h EXCEPT ![i + 1][s] = h[i][s], ![i][s] = Absent] BY <1>2 DEF Renamed
  <2>2. /\ k \in Archives /\ k[i + 1][s] = h[i][s] /\ k[i][s] = Absent
        /\ \A u \in Forms : u # s => k[i][u] = h[i][u] /\ k[i + 1][u] = h[i + 1][u]
        /\ \A j \in Slots : j \notin {i, i + 1} => k[j] = h[j]
    <3> DEFINE up == [h EXCEPT ![i + 1] = [h[i + 1] EXCEPT ![s] = h[i][s]]]
    <3>1. h \in [Slots -> [Forms -> Contents]] /\ Absent \in Contents
      BY DEF Archives, Contents
    <3>2. h[i] \in [Forms -> Contents] /\ h[i + 1] \in [Forms -> Contents] /\ h[i][s] \in Contents
      BY <2>0, <3>1
    <3>3. [h[i + 1] EXCEPT ![s] = h[i][s]] \in [Forms -> Contents]
      BY <3>2
    <3>4. up \in [Slots -> [Forms -> Contents]] /\ up[i] = h[i]
      BY <2>0, <3>1, <3>3
    <3>5. k = [up EXCEPT ![i] = [h[i] EXCEPT ![s] = Absent]]
      BY <2>0, <2>1, <3>1, <3>4
    <3>6. [h[i] EXCEPT ![s] = Absent] \in [Forms -> Contents]
      BY <3>1, <3>2
    <3>7. k \in [Slots -> [Forms -> Contents]]
      BY <2>0, <3>4, <3>5, <3>6
    <3>8. k[i] = [h[i] EXCEPT ![s] = Absent] /\ k[i + 1] = [h[i + 1] EXCEPT ![s] = h[i][s]]
      BY <2>0, <3>1, <3>4, <3>5
    <3>9. \A j \in Slots : j \notin {i, i + 1} => k[j] = h[j]
      BY <2>0, <3>1, <3>4, <3>5
    <3> HIDE DEF k, up
    <3> QED BY <3>2, <3>7, <3>8, <3>9 DEF Archives
  <2> HIDE DEF k
  <2>3. \A u \in Forms : k[i + 1][u] \in {h[i][s], Absent} BY <2>2
  <2>4. \A u \in Forms : k[i][u] \in {h[i][s], Absent}
    BY <2>0, <2>2, <1>2 DEF Sorted, Agree
  <2>5. ASSUME NEW j \in Slots, NEW t \in Forms, k[j][t] # Absent
        PROVE  \/ j \in {i, i + 1} /\ k[j][t] = h[i][s]
               \/ j \notin {i, i + 1} /\ k[j][t] = h[j][t]
    <3>1. CASE j = i BY <2>4, <2>5, <3>1
    <3>2. CASE j = i + 1 BY <2>3, <2>5, <3>2
    <3>3. CASE j \notin {i, i + 1}
      <4>1. k[j] = h[j] BY <2>2, <3>3
      <4> QED BY <4>1, <3>3
    <3> QED BY <3>1, <3>2, <3>3
  <2>6. Sorted(a, k)
    <3>1. ASSUME NEW j \in Slots, NEW t \in Forms PROVE Before(k[j][t], a)
      BY <2>0, <2>5, NothingBefore DEF Sorted
    <3>2. \A j \in Slots, t, u \in Forms : Agree(k[j][u], k[j][t])
      BY <2>5 DEF Sorted, Agree
    <3>3. ASSUME NEW m \in Slots, NEW t \in Forms, NEW j \in 1..m - 1, NEW u \in Forms, k[m][t] # k[j][u]
          PROVE  Before(k[m][t], k[j][u])
      <4>0. j \in Slots /\ j \in Nat /\ m \in Nat /\ i \in Nat /\ j < m
        BY CaptureAssumption DEF Slots
      <4>1. CASE k[m][t] = Absent \/ k[j][u] = Absent BY <4>1, NothingBefore
      <4>2. CASE k[m][t] # Absent /\ k[j][u] # Absent
        <5>2. CASE m \in {i, i + 1}
          <6>1. k[m][t] = h[i][s] BY <5>2, <2>5, <4>2
          <6>2. j \notin {i, i + 1} /\ k[j][u] = h[j][u] BY <2>5, <4>0, <4>2, <3>3, <6>1
          <6>3. j \in 1..i - 1 BY <6>2, <5>2, <4>0, <2>0 DEF Slots
          <6> QED BY <6>1, <6>2, <6>3, <2>0, <3>3 DEF Sorted
        <5>3. CASE m \notin {i, i + 1} /\ j \in {i, i + 1}
          <6>1. k[j][u] = h[i][s] /\ k[m][t] = h[m][t] BY <5>3, <2>5, <4>0, <4>2
          <6>2. i \in 1..m - 1 BY <5>3, <4>0, <2>0 DEF Slots
          <6> QED BY <6>1, <6>2, <3>3 DEF Sorted
        <5>4. CASE m \notin {i, i + 1} /\ j \notin {i, i + 1}
          <6>1. k[m][t] = h[m][t] /\ k[j][u] = h[j][u] BY <5>4, <2>5, <4>0, <4>2
          <6> QED BY <6>1, <3>3 DEF Sorted
        <5> QED BY <5>2, <5>3, <5>4
      <4> QED BY <4>1, <4>2
    <3>4. IsStrictlyIncreasing(a) BY DEF Sorted
    <3> QED BY <3>1, <3>2, <3>3, <3>4 DEF Sorted
  <2>7. \A n : n \in Archived(k) <=> n \in Archived(h)
    <3>1. ASSUME NEW n, n \in Archived(k) PROVE n \in Archived(h)
      <4>1. PICK j \in Slots, t \in Forms : n \in Tokens(k[j][t]) BY <3>1, InArchives
      <4>2. k[j][t] # Absent BY <4>1, FileFacts
      <4>3. k[j][t] \in {h[j][t], h[i][s]} BY <4>2, <2>5
      <4> QED BY <4>1, <4>3, <2>0, InArchives
    <3>2. ASSUME NEW n, n \in Archived(h) PROVE n \in Archived(k)
      <4>1. PICK j \in Slots, t \in Forms : n \in Tokens(h[j][t]) BY <3>2, InArchives
      <4>2. h[j][t] # Absent BY <4>1, FileFacts
      <4>3. CASE j = i + 1
        <5>1. h[j][t] = h[i][s] BY <4>2, <4>3
        <5> QED BY <5>1, <4>1, <2>0, <2>2, InArchives
      <4>4. CASE j = i /\ t = s BY <4>1, <4>4, <2>0, <2>2, InArchives
      <4>5. CASE j = i /\ t # s BY <4>1, <4>5, <2>0, <2>2, InArchives
      <4>6. CASE j \notin {i, i + 1}
        <5>1. k[j] = h[j] BY <4>6, <2>2
        <5> QED BY <5>1, <4>1, InArchives
      <4> QED BY <4>3, <4>4, <4>5, <4>6
    <3> QED BY <3>1, <3>2
  <2>8. Archived(k) = Archived(h) BY <2>7 DEF Archived
  <2> QED BY <2>2, <2>6, <2>8 DEF k
<1> QED BY <1>1, <1>2

\* Both forms of an archive move to an index that is free, and leave theirs free.
LEMMA ShiftFacts ==
  ASSUME NEW a, arch \in Archives, NEW i \in 1..MaxFiles - 1, Sorted(a, arch),
         \A u \in Forms : arch[i + 1][u] = Absent
  PROVE  /\ BothRenamed(i) \in Archives /\ Sorted(a, BothRenamed(i))
         /\ Archived(BothRenamed(i)) = Archived(arch)
         /\ \A u \in Forms : BothRenamed(i)[i][u] = Absent
<1> DEFINE h == Renamed(arch, i, "plain")
<1>0. i \in Slots /\ i + 1 \in Slots /\ i # i + 1 /\ {"plain", "gz"} \subseteq Forms BY CaptureAssumption DEF Slots, Forms
<1>1. h \in Archives /\ Sorted(a, h) /\ Archived(h) = Archived(arch) BY <1>0, RenamedFacts
<1>2. /\ h[i]["plain"] = Absent /\ h[i]["gz"] = arch[i]["gz"]
      /\ h[i + 1]["gz"] = Absent /\ h[i + 1]["plain"] = arch[i]["plain"]
  BY <1>0 DEF Renamed, Archives, Forms
<1> HIDE DEF h
<1>3. BothRenamed(i) = Renamed(h, i, "gz") BY DEF BothRenamed, h
<1>4. CASE arch[i]["gz"] = Absent
  <2>1. BothRenamed(i) = h BY <1>2, <1>3, <1>4 DEF Renamed
  <2>2. \A u \in Forms : h[i][u] = Absent BY <1>2, <1>4 DEF Forms
  <2> QED BY <2>1, <2>2, <1>1
<1>5. CASE arch[i]["gz"] # Absent
  <2>1. Agree(arch[i]["plain"], arch[i]["gz"]) BY <1>0 DEF Sorted
  <2>2. \A u \in Forms : h[i + 1][u] \in {h[i]["gz"], Absent} BY <2>1, <1>2, <1>5 DEF Agree, Forms
  <2> DEFINE k == Renamed(h, i, "gz")
  <2>3. k \in Archives /\ Sorted(a, k) /\ Archived(k) = Archived(h) BY <2>2, <1>0, <1>1, RenamedFacts
  <2>4. \A u \in Forms : k[i][u] = Absent
    <3>1. h[i]["gz"] # Absent BY <1>2, <1>5
    <3> QED BY <3>1, <1>0, <1>1, <1>2 DEF Renamed, Archives, Forms
  <2> QED BY <2>3, <2>4, <1>1, <1>3
<1> QED BY <1>4, <1>5

-----------------------------------------------------------------------------
(* The writer's steps                                                         *)

\* What a step of the writer is to a reader.
Seen ==
  /\ Mark <= Mark'
  /\ \/ act' = act
     \/ act # Absent /\ \E n \in Number : Mark < n /\ n <= Mark' /\ act' = Append(act, n)
     \/ act = Absent /\ act' = <<>>
     \/ act' = Absent /\ (rpc # "idle" => moved')
  /\ rpc # "idle" /\ moved => moved'
  /\ (rpc # "idle" => moved') \/ \A f \in AllNames : Tokens(File(f)) \subseteq Tokens(File(f)')

LEMMA MarkIs == CaptureTypeOK => Len(wq) \in Nat /\ Mark \in Int
BY DEF CaptureTypeOK, Mark

LEMMA Readables ==
  ASSUME Tokens(act) \subseteq Tokens(act'),
         \A i \in Slots, s \in Forms : Tokens(arch[i][s]) \subseteq Tokens(arch'[i][s])
  PROVE  \A f \in AllNames : Tokens(File(f)) \subseteq Tokens(File(f)')
<1> SUFFICES ASSUME NEW f \in AllNames PROVE Tokens(File(f)) \subseteq Tokens(File(f)')
  OBVIOUS
<1>1. CASE f[1] = 0 BY <1>1 DEF File
<1>2. CASE f[1] # 0
  <2>1. f[1] \in Slots /\ f[2] \in Forms BY <1>2 DEF AllNames
  <2>2. Tokens(arch[f[1]][f[2]]) \subseteq Tokens(arch'[f[1]][f[2]]) BY <2>1
  <2> QED BY <2>2, <1>2 DEF File
<1> QED BY <1>1, <1>2

\* A step that leaves the files alone.
LEMMA FilesKept ==
  ASSUME LogInv, UNCHANGED <<disk, kept>>, WriterHeld', RoomMade', Mark' \in Int, Mark <= Mark',
         got' \in {got, <<>>}
  PROVE  DirectoryInv'
<1>1. OnDisk' = OnDisk BY DiskIs DEF disk
<1>2. ArchivesInOrder' BY OrderIs DEF disk, LogInv, DirectoryInv
<1>3. OnlyOldestDropped' BY <1>1 DEF OnlyOldestDropped, LogInv, DirectoryInv
<1>4. \A n \in ToSet(got') : n \in ToSet(got) BY DEF ToSet
<1>5. \A n \in ToSet(got) : n \in Number BY DEF ToSet, LogInv, CaptureTypeOK
<1>6. Mark \in Int BY MarkIs DEF LogInv
<1>7. Marked' BY <1>1, <1>4, <1>5, <1>6 DEF Marked, LogInv, DirectoryInv, Number
<1> QED BY <1>2, <1>3, <1>7 DEF DirectoryInv

\* A step that only moves archives about.
LEMMA FilesMoved ==
  ASSUME LogInv, UNCHANGED <<kept, tok, wq, got>>, WriterHeld', RoomMade',
         Sorted(act', arch'), OnDisk' = OnDisk
  PROVE  DirectoryInv'
<1>1. ArchivesInOrder' BY OrderIs
<1>2. OnlyOldestDropped' BY DEF OnlyOldestDropped, LogInv, DirectoryInv
<1>3. Mark' = Mark BY DEF Mark
<1>4. Marked' BY <1>3 DEF Marked, LogInv, DirectoryInv
<1> QED BY <1>1, <1>2, <1>4 DEF DirectoryInv

LEMMA FilesAppended ==
  ASSUME LogInv, act # Absent, NEW n \in Number, Mark < n, n = Mark', act' = Append(act, n), arch' = arch,
         kept' = kept \cup {n}, UNCHANGED <<got, moved>>, WriterHeld', RoomMade'
  PROVE  DirectoryInv' /\ Seen /\ act' \in Contents
<1> USE DEF LogInv, DirectoryInv
<1>0. act \in Seq(Number) /\ arch \in Archives /\ Mark \in Int
  BY MarkIs DEF CaptureTypeOK, Contents, Archives
<1>1. \A m \in OnDisk \cup kept : m \in Number /\ m < n
  BY <1>0 DEF Marked, Number
<1>2. /\ Append(act, n) \in Seq(Number) /\ Tokens(Append(act, n)) = Tokens(act) \cup {n}
  BY <1>0, Appended
<1>3. OnDisk' = OnDisk \cup {n} BY <1>2, DiskIs
<1>4. ArchivesInOrder'
  <2>1. Sorted(act, arch) BY OrderIs
  <2>2. \A m \in Tokens(act) \cup Archived(arch) : m < n BY <1>1, DiskIs
  <2> QED BY <2>1, <2>2, <1>0, SortedAppend, OrderIs
<1>5. OnlyOldestDropped'
  <2>1. ASSUME NEW m \in kept' \ OnDisk', NEW k \in OnDisk' PROVE m < k
    <3>1. m \in kept \ OnDisk BY <2>1, <1>3
    <3>2. CASE k \in OnDisk BY <3>1, <3>2 DEF OnlyOldestDropped
    <3>3. CASE k = n BY <3>1, <3>3, <1>1
    <3> QED BY <2>1, <3>2, <3>3, <1>3
  <2> QED BY <2>1 DEF OnlyOldestDropped
<1>6. Marked'
  <2>1. \A m \in OnDisk' \cup kept' : m \in Number /\ m <= Mark' BY <1>1, <1>3 DEF Number
  <2>2. \A m \in ToSet(got) : m \in Number BY DEF CaptureTypeOK, ToSet
  <2>3. \A m \in ToSet(got') : m <= Mark' BY <2>2, <1>0 DEF Marked, Number
  <2> QED BY <2>1, <2>3 DEF Marked
<1>7. \A f \in AllNames : Tokens(File(f)) \subseteq Tokens(File(f)')
  BY <1>2, Readables
<1>8. \E k \in Number : Mark < k /\ k <= Mark' /\ act' = Append(act, k)
  BY <1>0 DEF Number
<1> QED BY <1>0, <1>2, <1>4, <1>5, <1>6, <1>7, <1>8 DEF Seen, Contents, Number

LEMMA SameFilesSeen ==
  ASSUME UNCHANGED <<disk, moved>>, Mark' \in Int, Mark <= Mark'
  PROVE  Seen
<1>1. \A f \in AllNames : Tokens(File(f)) \subseteq Tokens(File(f)') BY DEF disk, File
<1> QED BY <1>1 DEF Seen, disk

LEMMA OpenStep ==
  ASSUME LogInv, OpenWriter PROVE CaptureTypeOK' /\ DirectoryInv' /\ Seen
<1> USE DEF LogInv, DirectoryInv
<1>0. /\ UNCHANGED <<arch, wq, shift, tok, partial, kept, reader, moved>> /\ wpc = "off" /\ wpc' = "idle"
      /\ act' = IF act = Absent THEN <<>> ELSE act
  BY DEF OpenWriter
<1>1. CaptureTypeOK' BY <1>0 DEF CaptureTypeOK, Contents, reader
<1>2. act' # Absent /\ Tokens(act') = Tokens(act)
  <2>1. <<>> # Absent
    <3>1. <<>> \in Seq(Number) OBVIOUS
    <3> QED BY <3>1, FileFacts
  <2> QED BY <2>1, <1>0, FileFacts
<1>3. WriterHeld' /\ Mark' = Mark BY <1>0, <1>2 DEF WriterHeld, Mark, Rotating
<1>4. RoomMade' BY <1>0 DEF RoomMade
<1>5. OnDisk' = OnDisk BY <1>0, <1>2, DiskIs
<1>6. Sorted(act', arch')
  <2>1. Sorted(act, arch) BY OrderIs
  <2>2. Sorted(<<>>, arch) BY <2>1, NothingBefore, EmptyIsSorted DEF Sorted
  <2> QED BY <2>1, <2>2, <1>0
<1>7. \A f \in AllNames : Tokens(File(f)) \subseteq Tokens(File(f)') BY <1>0, <1>2, Readables
<1>8. got' = got /\ rpc' = rpc BY <1>0 DEF reader
<1>9. DirectoryInv' BY <1>0, <1>3, <1>4, <1>5, <1>6, <1>8, FilesMoved
<1>10. Mark \in Int BY MarkIs
<1> QED BY <1>0, <1>1, <1>3, <1>7, <1>9, <1>10 DEF Seen

LEMMA WriteStep ==
  ASSUME LogInv, NEW k \in 0..2, NEW rest \in BOOLEAN, Write(k, rest)
  PROVE  CaptureTypeOK' /\ DirectoryInv' /\ Seen
<1> USE DEF LogInv, DirectoryInv
<1>0. /\ UNCHANGED <<disk, shift, kept, reader, moved>> /\ wpc = "idle" /\ partial' = rest
      /\ wq' = [n \in 1..k |-> tok + n] /\ tok' = tok + k /\ wpc' = IF k = 0 THEN "idle" ELSE "emit"
  BY DEF Write
<1>1. tok \in Nat /\ wq = <<>> /\ Len(wq) = 0 /\ act # Absent
  <2>1. wq = <<>> BY <1>0 DEF WriterHeld, Rotating
  <2> QED BY <2>1, <1>0 DEF WriterHeld, CaptureTypeOK
<1>2. wq' \in Seq(Number) /\ Len(wq') = k /\ \A n \in 1..k : wq'[n] = tok + n
  BY <1>0, <1>1 DEF Number
<1>3. wq' = <<>> <=> k = 0 BY <1>2
<1>4. Mark' = Mark /\ Mark' = tok BY <1>0, <1>1, <1>2 DEF Mark
<1>5. CaptureTypeOK' BY <1>0, <1>1, <1>2 DEF CaptureTypeOK, disk, reader
<1>6. WriterHeld'
  <2>1. Len(wq') <= tok' BY <1>0, <1>1, <1>2
  <2>2. \A n \in 1..Len(wq') : wq'[n] = Mark' + n BY <1>2, <1>4
  <2> QED BY <2>1, <2>2, <1>0, <1>1, <1>3 DEF WriterHeld, Rotating, disk
<1>7. RoomMade' BY <1>0 DEF RoomMade
<1>8. got' = got BY <1>0 DEF reader
<1>9. Mark' \in Int /\ Mark <= Mark' BY <1>4, <1>1
<1>10. DirectoryInv' BY <1>0, <1>6, <1>7, <1>8, <1>9, FilesKept
<1>11. Seen BY <1>0, <1>9, SameFilesSeen
<1> QED BY <1>5, <1>10, <1>11

\* The copy ends.
LEMMA DieFacts ==
  ASSUME LogInv, Die, tok' = tok
  PROVE  WriterHeld' /\ RoomMade' /\ Mark' \in Int /\ Mark <= Mark' /\ wq' \in Seq(Number)
<1>1. wpc' = "dead" /\ wq' = <<>> /\ partial' = FALSE BY DEF Die
<1>2. tok \in Nat /\ Len(wq) \in Nat /\ Len(wq') = 0 BY <1>1 DEF LogInv, CaptureTypeOK
<1>3. Mark' = tok BY <1>2 DEF Mark
<1>4. Mark <= tok BY <1>2 DEF Mark
<1>5. WriterHeld' BY <1>1, <1>2 DEF WriterHeld, Rotating
<1>6. RoomMade' BY <1>1 DEF RoomMade
<1> QED BY <1>1, <1>2, <1>3, <1>4, <1>5, <1>6

\* The first token of the Write goes out.
LEMMA HeadFacts ==
  ASSUME LogInv, wq # <<>>, wq' = Tail(wq), tok' = tok
  PROVE  /\ Head(wq) \in Number /\ Head(wq) = Mark' /\ Mark < Head(wq)
         /\ wq' \in Seq(Number) /\ Len(wq') = Len(wq) - 1 /\ Len(wq') <= tok'
         /\ \A n \in 1..Len(wq') : wq'[n] = Mark' + n
<1> USE DEF LogInv, DirectoryInv, CaptureTypeOK
<1>1. /\ Len(wq) \in Nat \ {0} /\ Head(wq) = wq[1] /\ Len(Tail(wq)) = Len(wq) - 1
      /\ Tail(wq) \in Seq(Number) /\ \A n \in 1..Len(wq) - 1 : Tail(wq)[n] = wq[n + 1]
  OBVIOUS
<1>2. tok \in Nat /\ Mark = tok - Len(wq) BY DEF Mark
<1>3. Mark' = tok - (Len(wq) - 1) BY <1>1 DEF Mark
<1>4. wq[1] = Mark + 1 BY <1>1 DEF WriterHeld
<1>5. Head(wq) = Mark' /\ Mark < Mark' BY <1>1, <1>2, <1>3, <1>4
<1>6. Head(wq) \in Number BY <1>1
<1>7. ASSUME NEW n \in 1..Len(wq') PROVE wq'[n] = Mark' + n
  <2>1. n + 1 \in 1..Len(wq) /\ wq'[n] = wq[n + 1] BY <1>1
  <2>2. wq[n + 1] = Mark + (n + 1) BY <2>1 DEF WriterHeld
  <2> QED BY <2>1, <2>2, <1>1, <1>2, <1>3
<1> QED BY <1>1, <1>5, <1>6, <1>7 DEF WriterHeld

LEMMA EmitStep ==
  ASSUME LogInv, Emit, UNCHANGED reader PROVE CaptureTypeOK' /\ DirectoryInv' /\ Seen
<1> USE DEF LogInv, DirectoryInv
<1>0. wpc = "emit" /\ UNCHANGED <<arch, shift, tok, reader, moved>> /\ act # Absent /\ wq # <<>> /\ got' = got
  BY DEF Emit, WriterHeld, reader
<1>1. CASE /\ act' = Append(act, Head(wq)) /\ kept' = kept \cup {Head(wq)}
           /\ wq' = Tail(wq) /\ wpc' = IF Tail(wq) = <<>> THEN "idle" ELSE "emit"
           /\ UNCHANGED partial
  <2>1. /\ Head(wq) \in Number /\ Head(wq) = Mark' /\ Mark < Head(wq) /\ wq' \in Seq(Number)
        /\ Len(wq') <= tok' /\ \A n \in 1..Len(wq') : wq'[n] = Mark' + n
    BY <1>0, <1>1, HeadFacts
  <2>2. act \in Seq(Number) BY <1>0 DEF CaptureTypeOK, Contents
  <2>3. act' # Absent BY <2>1, <2>2, <1>1, Appended, FileFacts
  <2>4. WriterHeld' BY <2>1, <2>3, <1>0, <1>1 DEF WriterHeld, Rotating
  <2>5. RoomMade' BY <1>1 DEF RoomMade
  <2>6. DirectoryInv' /\ Seen /\ act' \in Contents BY <2>1, <2>4, <2>5, <1>0, <1>1, FilesAppended
  <2>7. CaptureTypeOK' BY <2>1, <2>6, <1>0, <1>1 DEF CaptureTypeOK, reader
  <2> QED BY <2>6, <2>7
<1>2. CASE Die /\ UNCHANGED <<act, kept>>
  <2>1. WriterHeld' /\ RoomMade' /\ Mark' \in Int /\ Mark <= Mark' /\ wq' \in Seq(Number) BY <1>0, <1>2, DieFacts
  <2>2. CaptureTypeOK' BY <2>1, <1>0, <1>2 DEF CaptureTypeOK, reader, Die
  <2>3. DirectoryInv' BY <2>1, <1>0, <1>2, FilesKept DEF disk
  <2> QED BY <2>1, <2>2, <2>3, <1>0, <1>2, SameFilesSeen DEF disk
<1> QED BY <1>0, <1>1, <1>2 DEF Emit

LEMMA CloseStep ==
  ASSUME LogInv, CloseWriter PROVE CaptureTypeOK' /\ DirectoryInv' /\ Seen
<1> USE DEF LogInv, DirectoryInv
<1>0. /\ UNCHANGED <<arch, wq, shift, reader, moved, got>> /\ wpc \in {"idle", "dead"} /\ wpc' = "off" /\ partial' = FALSE
  BY DEF CloseWriter, reader
<1>1. wq = <<>> /\ Len(wq) = 0 /\ tok \in Nat
  <2>1. wq = <<>> BY <1>0 DEF WriterHeld, Rotating
  <2> QED BY <2>1 DEF CaptureTypeOK
<1>2. Mark = tok /\ Mark' = tok'
  <2>1. tok' = tok + 1 \/ tok' = tok BY DEF CloseWriter
  <2>2. Len(wq') = 0 BY <1>0, <1>1
  <2> QED BY <2>1, <2>2, <1>1 DEF Mark
<1>3. RoomMade' BY <1>0 DEF RoomMade
<1>4. CASE partial /\ tok' = tok + 1 /\ kept' = kept \cup {tok'} /\ act' = Append(act, tok')
  <2>1. act # Absent BY <1>0, <1>4 DEF WriterHeld
  <2>2. tok' \in Number /\ Mark < tok' /\ tok' = Mark' BY <1>1, <1>2, <1>4 DEF Number
  <2>3. WriterHeld' BY <1>0, <1>1, <2>2, <1>4 DEF WriterHeld, Rotating
  <2>4. DirectoryInv' /\ Seen /\ act' \in Contents BY <2>1, <2>2, <2>3, <1>0, <1>3, <1>4, FilesAppended
  <2>5. CaptureTypeOK' BY <2>2, <2>4, <1>0 DEF CaptureTypeOK, reader, Number
  <2> QED BY <2>4, <2>5
<1>5. CASE UNCHANGED <<act, tok, kept>>
  <2>1. WriterHeld' BY <1>0, <1>1, <1>2, <1>5 DEF WriterHeld, Rotating
  <2>2. CaptureTypeOK' BY <1>0, <1>5 DEF CaptureTypeOK, reader
  <2>3. Mark' \in Int /\ Mark <= Mark' BY <1>1, <1>2, <1>5
  <2>4. DirectoryInv' BY <2>1, <2>3, <1>0, <1>3, <1>5, FilesKept DEF disk
  <2> QED BY <2>2, <2>3, <2>4, <1>0, <1>5, SameFilesSeen DEF disk
<1> QED BY <1>4, <1>5 DEF CloseWriter

\* What every step of a rotation leaves alone.
LEMMA RotatingFacts ==
  ASSUME LogInv, wpc \in Rotating, UNCHANGED rotating, wpc' \in Rotating
  PROVE  /\ wq' = wq /\ tok' = tok /\ kept' = kept /\ got' = got /\ rpc' = rpc /\ Mark' = Mark /\ Mark \in Int
         /\ WriterHeld'
<1>1. UNCHANGED <<wq, tok, partial, kept, got, rpc>> BY DEF rotating, reader
<1>2. Mark' = Mark BY <1>1 DEF Mark
<1>3. wq # <<>> BY DEF LogInv, DirectoryInv, WriterHeld
<1>4. WriterHeld' BY <1>1, <1>2, <1>3 DEF WriterHeld, LogInv, DirectoryInv, Rotating
<1> QED BY <1>1, <1>2, <1>4, MarkIs DEF LogInv

\* A step of a rotation that keeps, or drops the oldest of, what is on disk.
LEMMA RotationStep ==
  ASSUME LogInv, wpc \in Rotating, UNCHANGED rotating, wpc' \in Rotating, RoomMade', shift' \in Nat,
         act' \in {act, Absent}, arch' \in Archives, moved' \in BOOLEAN, rpc # "idle" => moved',
         Sorted(act', arch'), OnDisk' \subseteq OnDisk,
         \A n \in OnDisk \ OnDisk' : \A m \in OnDisk' : n < m
  PROVE  CaptureTypeOK' /\ DirectoryInv' /\ Seen
<1> USE DEF LogInv, DirectoryInv
<1>1. /\ wq' = wq /\ tok' = tok /\ kept' = kept /\ got' = got /\ rpc' = rpc /\ Mark' = Mark /\ Mark \in Int
      /\ WriterHeld'
  BY RotatingFacts
<1>2. ArchivesInOrder' BY OrderIs
<1>3. OnlyOldestDropped' BY <1>1 DEF OnlyOldestDropped
<1>4. Marked' BY <1>1 DEF Marked
<1>5. CaptureTypeOK' BY <1>1 DEF CaptureTypeOK, rotating, reader, Archives, Contents, Rotating
<1>6. Seen BY <1>1 DEF Seen
<1> QED BY <1>1, <1>2, <1>3, <1>4, <1>5, <1>6

LEMMA DiskSorted ==
  LogInv => Sorted(act, arch) /\ act \in Contents /\ arch \in Archives /\ shift \in Nat /\ moved \in BOOLEAN
            /\ Forms = {"plain", "gz"} /\ 1 \in Slots /\ MaxFiles \in Slots /\ Absent \in Contents
BY OrderIs, CaptureAssumption DEF LogInv, DirectoryInv, CaptureTypeOK, Archives, Contents, Forms, Slots

LEMMA FailsRoom == ASSUME LogInv, RotateFails PROVE RoomMade' /\ wpc' \in Rotating /\ shift' \in Nat
BY DEF RotateFails, RoomMade, Rotating, LogInv, CaptureTypeOK

LEMMA CloseFileStep ==
  ASSUME LogInv, RotateClose, UNCHANGED reader PROVE CaptureTypeOK' /\ DirectoryInv' /\ Seen
<1> USE DEF LogInv, DirectoryInv
<1>0. wpc = "emit" /\ UNCHANGED <<disk, tok, kept, reader, moved, got>> BY DEF RotateClose, reader
<1>1. CASE wpc' = "remove" /\ shift' = MaxFiles - 1 /\ UNCHANGED <<wq, partial>>
  <2>1. WriterHeld' /\ Mark' = Mark BY <1>0, <1>1 DEF WriterHeld, Rotating, Mark
  <2>2. RoomMade' BY <1>1 DEF RoomMade
  <2>3. shift' \in Nat BY <1>1, CaptureAssumption
  <2>4. CaptureTypeOK' BY <2>3, <1>0, <1>1 DEF CaptureTypeOK, Rotating, disk, reader
  <2>5. Mark' \in Int /\ Mark <= Mark' BY <2>1, MarkIs
  <2>6. DirectoryInv' BY <2>1, <2>2, <2>5, <1>0, <1>1, FilesKept
  <2> QED BY <2>4, <2>5, <2>6, <1>0, SameFilesSeen
<1>2. CASE Die /\ UNCHANGED shift
  <2>1. WriterHeld' /\ RoomMade' /\ Mark' \in Int /\ Mark <= Mark' /\ wq' \in Seq(Number) BY <1>0, <1>2, DieFacts
  <2>2. CaptureTypeOK' BY <2>1, <1>0, <1>2 DEF CaptureTypeOK, reader, disk, Die
  <2>3. DirectoryInv' BY <2>1, <1>0, <1>2, FilesKept DEF disk
  <2> QED BY <2>1, <2>2, <2>3, <1>0, <1>2, SameFilesSeen DEF disk
<1> QED BY <1>0, <1>1, <1>2 DEF RotateClose

LEMMA RemoveStep ==
  ASSUME LogInv, RotateRemove PROVE CaptureTypeOK' /\ DirectoryInv' /\ Seen
<1>0. /\ wpc = "remove" /\ act' = act /\ UNCHANGED rotating /\ moved' = (rpc # "idle")
      /\ Sorted(act, arch) /\ arch \in Archives
      /\ Forms = {"plain", "gz"} /\ MaxFiles \in Slots /\ 1 \in Slots /\ Absent \in Contents /\ shift = MaxFiles - 1
  BY DiskSorted DEF RotateRemove, LogInv, DirectoryInv, RoomMade
<1>1. /\ arch' \in Archives /\ \A i \in Slots, s \in Forms : arch'[i][s] \in {arch[i][s], Absent}
      /\ \A i \in Slots \ {MaxFiles} : arch'[i] = arch[i]
  <2>1. CASE arch' = [arch EXCEPT ![MaxFiles] = [s \in Forms |-> Absent]]
    BY <2>1, <1>0 DEF Archives
  <2>2. CASE arch' = [arch EXCEPT ![MaxFiles]["plain"] = Absent]
    BY <2>2, <1>0 DEF Archives
  <2> QED BY <2>1, <2>2, <1>0 DEF RotateRemove
<1>2. Sorted(act', arch') BY <1>0, <1>1, SortedWithout
<1>3. OnDisk' \subseteq OnDisk
  <2>1. ASSUME NEW n \in Archived(arch') PROVE n \in Archived(arch)
    <3>1. PICK i \in Slots, s \in Forms : n \in Tokens(arch'[i][s]) BY InArchives
    <3>2. arch'[i][s] = arch[i][s] BY <3>1, <1>1, FileFacts
    <3> QED BY <3>1, <3>2, InArchives
  <2> QED BY <2>1, <1>0, DiskIs
<1>4. ASSUME NEW n \in OnDisk \ OnDisk', NEW m \in OnDisk' PROVE n < m
  <2>1. n \notin Tokens(act) BY <1>0, DiskIs
  <2>2. PICK i \in Slots, s \in Forms : n \in Tokens(arch[i][s]) BY <2>1, DiskIs, InArchives
  <2>3. i = MaxFiles /\ arch[i][s] # Absent
    <3>1. arch[i][s] # arch'[i][s] BY <2>2, DiskIs, InArchives
    <3> QED BY <3>1, <2>2, <1>1, FileFacts
  <2>4. CASE m \in Tokens(act) BY <2>2, <2>4, <1>0 DEF Sorted, Before
  <2>5. CASE m \notin Tokens(act)
    <3>1. PICK j \in Slots, t \in Forms : m \in Tokens(arch'[j][t]) BY <2>5, <1>0, DiskIs, InArchives
    <3>2. arch'[j][t] = arch[j][t] /\ arch[j][t] # Absent BY <3>1, <1>1, FileFacts
    <3>3. arch[i][s] # arch[j][t] BY <3>2, <2>2, DiskIs, InArchives
    <3>4. j # i BY <3>2, <3>3, <2>3, <1>0 DEF Sorted, Agree
    <3>5. j \in 1..i - 1 BY <3>4, <2>3, CaptureAssumption DEF Slots
    <3> QED BY <3>1, <3>2, <3>3, <3>5, <2>2, <1>0 DEF Sorted, Before
  <2> QED BY <2>4, <2>5
<1>5. RoomMade' /\ wpc' \in Rotating /\ shift' \in Nat
  <2>1. CASE /\ arch' = [arch EXCEPT ![MaxFiles] = [s \in Forms |-> Absent]]
             /\ wpc' = (IF MaxFiles = 1 THEN "rename" ELSE "shift") /\ shift' = shift
    <3>1. \A s \in Forms : arch'[MaxFiles][s] = Absent BY <2>1, <1>0 DEF Archives
    <3>2. CASE MaxFiles = 1 BY <2>1, <3>1, <3>2, <1>0, DiskSorted DEF RoomMade, Rotating
    <3>3. CASE MaxFiles # 1
      <4>1. shift' \in 1..MaxFiles - 1 /\ shift' + 1 = MaxFiles BY <3>3, <2>1, <1>0, CaptureAssumption
      <4> QED BY <4>1, <2>1, <3>1, <3>3 DEF RoomMade, Rotating
    <3> QED BY <3>2, <3>3
  <2>2. CASE RotateFails BY <2>2, FailsRoom
  <2> QED BY <2>1, <2>2 DEF RotateRemove
<1>6. moved' \in BOOLEAN /\ (rpc # "idle" => moved') BY <1>0
<1>7. wpc \in Rotating BY <1>0 DEF Rotating
<1> QED BY <1>0, <1>1, <1>2, <1>3, <1>4, <1>5, <1>6, <1>7, RotationStep

LEMMA ShiftStep ==
  ASSUME LogInv, RotateShift PROVE CaptureTypeOK' /\ DirectoryInv' /\ Seen
<1>0. /\ wpc = "shift" /\ act' = act /\ UNCHANGED rotating /\ moved' = (rpc # "idle")
      /\ Sorted(act, arch) /\ arch \in Archives /\ shift \in 1..MaxFiles - 1
      /\ \A u \in Forms : arch[shift + 1][u] = Absent
      /\ Forms = {"plain", "gz"}
  BY DiskSorted DEF RotateShift, LogInv, DirectoryInv, RoomMade
<1>1. arch' \in Archives /\ Sorted(act, arch') /\ Archived(arch') = Archived(arch)
      /\ RoomMade' /\ wpc' \in Rotating /\ shift' \in Nat
  <2>1. CASE /\ arch' = BothRenamed(shift) /\ shift' = shift - 1
             /\ wpc' = IF shift = 1 THEN "rename" ELSE "shift"
    <3>1. /\ arch' \in Archives /\ Sorted(act, arch') /\ Archived(arch') = Archived(arch)
          /\ \A u \in Forms : arch'[shift][u] = Absent
      BY <1>0, <2>1, ShiftFacts
    <3>2. shift' \in Nat /\ shift' + 1 = shift BY <1>0, <2>1, CaptureAssumption
    <3>3. CASE shift = 1 BY <2>1, <3>1, <3>2, <3>3 DEF RoomMade, Rotating
    <3>4. CASE shift # 1
      <4>1. shift' \in 1..MaxFiles - 1 BY <3>4, <1>0, <2>1, CaptureAssumption
      <4> QED BY <4>1, <2>1, <3>1, <3>2, <3>4 DEF RoomMade, Rotating
    <3> QED BY <3>3, <3>4
  <2>2. CASE RotateFails /\ arch' \in {arch, Renamed(arch, shift, "plain")}
    <3>1. LET h == Renamed(arch, shift, "plain")
          IN  h \in Archives /\ Sorted(act, h) /\ Archived(h) = Archived(arch)
      BY <1>0, RenamedFacts
    <3> QED BY <3>1, <2>2, <1>0, FailsRoom
  <2> QED BY <2>1, <2>2 DEF RotateShift
<1>2. OnDisk' = OnDisk BY <1>0, <1>1, DiskIs
<1>3. moved' \in BOOLEAN /\ (rpc # "idle" => moved') BY <1>0
<1>4. wpc \in Rotating BY <1>0 DEF Rotating
<1> QED BY <1>0, <1>1, <1>2, <1>3, <1>4, RotationStep

LEMMA RenameStep ==
  ASSUME LogInv, RotateRename PROVE CaptureTypeOK' /\ DirectoryInv' /\ Seen
<1>0. /\ wpc = "rename" /\ UNCHANGED rotating /\ moved' = (rpc # "idle")
      /\ Sorted(act, arch) /\ act \in Contents /\ arch \in Archives /\ shift \in Nat
      /\ \A u \in Forms : arch[1][u] = Absent
      /\ Forms = {"plain", "gz"} /\ 1 \in Slots /\ Absent \in Contents
  BY DiskSorted DEF RotateRename, LogInv, DirectoryInv, RoomMade
<1>1. moved' \in BOOLEAN /\ (rpc # "idle" => moved') BY <1>0
<1>2. wpc \in Rotating BY <1>0 DEF Rotating
<1>3. CASE /\ arch' = [arch EXCEPT ![1]["plain"] = act] /\ act' = Absent
           /\ wpc' = "gzip" /\ UNCHANGED shift
  <2>1. /\ arch' \in Archives /\ arch'[1]["plain"] = act /\ arch'[1]["gz"] = Absent
        /\ \A i \in Slots \ {1} : arch'[i] = arch[i]
    BY <1>0, <1>3 DEF Archives
  <2>2. Sorted(act', arch')
    <3>1. \A i \in Slots, s \in Forms : Before(arch'[i][s], act') BY <1>3, NothingBefore
    <3>2. \A i \in Slots, s, u \in Forms : Agree(arch'[i][u], arch'[i][s])
      BY <1>0, <2>1 DEF Sorted, Agree
    <3>3. ASSUME NEW i \in Slots, NEW s \in Forms, NEW j \in 1..i - 1, NEW t \in Forms, arch'[i][s] # arch'[j][t]
          PROVE  Before(arch'[i][s], arch'[j][t])
      <4>1. i # 1 /\ j \in Slots /\ arch'[i] = arch[i] BY <2>1, CaptureAssumption DEF Slots
      <4>2. CASE j # 1 BY <4>1, <4>2, <3>3, <2>1, <1>0 DEF Sorted
      <4>3. CASE j = 1
        <5>1. arch'[j][t] \in {act, Absent} BY <4>3, <2>1, <1>0
        <5> QED BY <5>1, <4>1, <1>0, NothingBefore DEF Sorted
      <4> QED BY <4>2, <4>3
    <3> QED BY <3>1, <3>2, <3>3, <1>3, EmptyIsSorted DEF Sorted
  <2>3. OnDisk' = OnDisk
    <3>1. ASSUME NEW n, n \in OnDisk PROVE n \in OnDisk'
      <4>1. CASE n \in Tokens(act) BY <4>1, <2>1, <1>0, DiskIs, InArchives
      <4>2. CASE n \notin Tokens(act)
        <5>1. PICK i \in Slots, s \in Forms : n \in Tokens(arch[i][s]) BY <3>1, <4>2, DiskIs, InArchives
        <5>2. i # 1 BY <5>1, <1>0, FileFacts
        <5>3. arch'[i] = arch[i] BY <5>2, <2>1
        <5> QED BY <5>1, <5>3, DiskIs, InArchives
      <4> QED BY <4>1, <4>2
    <3>2. ASSUME NEW n, n \in OnDisk' PROVE n \in OnDisk
      <4>1. PICK i \in Slots, s \in Forms : n \in Tokens(arch'[i][s])
        BY <3>2, <1>3, DiskIs, InArchives, FileFacts
      <4>2. CASE i = 1
        <5>1. arch'[i][s] \in {act, Absent} BY <4>2, <2>1, <1>0
        <5> QED BY <5>1, <4>1, DiskIs, FileFacts
      <4>3. CASE i # 1
        <5>1. arch'[i] = arch[i] BY <4>3, <2>1
        <5> QED BY <5>1, <4>1, DiskIs, InArchives
      <4> QED BY <4>2, <4>3
    <3> QED BY <3>1, <3>2 DEF OnDisk
  <2>4. RoomMade' /\ wpc' \in Rotating /\ shift' \in Nat BY <2>1, <1>0, <1>3 DEF RoomMade, Rotating
  <2> QED BY <2>1, <2>2, <2>3, <2>4, <1>0, <1>1, <1>2, <1>3, RotationStep
<1>4. CASE RotateFails /\ UNCHANGED disk
  <2>1. OnDisk' = OnDisk BY <1>4, DiskIs DEF disk
  <2>2. RoomMade' /\ wpc' \in Rotating /\ shift' \in Nat BY <1>4, FailsRoom
  <2> QED BY <2>1, <2>2, <1>0, <1>1, <1>2, <1>4, RotationStep DEF disk
<1> QED BY <1>3, <1>4 DEF RotateRename

\* The second form of .1 comes, or goes.
LEMMA GzipFacts ==
  ASSUME NEW a, NEW h \in Archives, Sorted(a, h), NEW k,
         \/ h[1]["gz"] = Absent /\ k = [h EXCEPT ![1]["gz"] = h[1]["plain"]]
         \/ h[1]["gz"] = h[1]["plain"] /\ k = [h EXCEPT ![1]["plain"] = Absent]
  PROVE  /\ k \in Archives /\ Sorted(a, k) /\ Archived(k) = Archived(h)
         /\ k[1]["gz"] = h[1]["plain"] /\ k[1]["plain"] \in {h[1]["plain"], Absent}
         /\ \A i \in Slots \ {1} : k[i] = h[i]
<1>0. Forms = {"plain", "gz"} /\ 1 \in Slots /\ Absent \in Contents /\ Slots \subseteq Nat
  BY CaptureAssumption DEF Forms, Slots, Contents
<1>1. /\ k \in Archives /\ k[1]["gz"] = h[1]["plain"] /\ k[1]["plain"] \in {h[1]["plain"], Absent}
      /\ \A i \in Slots \ {1} : k[i] = h[i]
  BY <1>0 DEF Archives
<1>2. \A s \in Forms : k[1][s] \in {h[1]["plain"], Absent} BY <1>0, <1>1
<1>3. Sorted(a, k)
  <2>1. \A i \in Slots, s \in Forms : Before(k[i][s], a)
    BY <1>0, <1>1, <1>2, NothingBefore DEF Sorted
  <2>2. \A i \in Slots, s, u \in Forms : Agree(k[i][u], k[i][s])
    BY <1>0, <1>1, <1>2 DEF Sorted, Agree
  <2>3. ASSUME NEW i \in Slots, NEW s \in Forms, NEW j \in 1..i - 1, NEW t \in Forms, k[i][s] # k[j][t]
        PROVE  Before(k[i][s], k[j][t])
    <3>1. i # 1 /\ j \in Slots /\ k[i] = h[i] BY <1>1, CaptureAssumption DEF Slots
    <3>2. CASE j # 1 BY <3>1, <3>2, <2>3, <1>1 DEF Sorted
    <3>3. CASE j = 1 BY <3>1, <3>3, <2>3, <1>0, <1>2, NothingBefore DEF Sorted
    <3> QED BY <3>2, <3>3
  <2> QED BY <2>1, <2>2, <2>3 DEF Sorted
<1>4. ASSUME NEW n PROVE n \in Archived(k) <=> n \in Archived(h)
  <2>1. ASSUME n \in Archived(k) PROVE n \in Archived(h)
    <3>1. PICK i \in Slots, s \in Forms : n \in Tokens(k[i][s]) BY <2>1, InArchives
    <3>2. CASE i = 1 BY <3>1, <3>2, <1>0, <1>2, InArchives, FileFacts
    <3>3. CASE i # 1
      <4>1. k[i] = h[i] BY <3>3, <1>1
      <4> QED BY <4>1, <3>1, InArchives
    <3> QED BY <3>2, <3>3
  <2>2. ASSUME n \in Archived(h) PROVE n \in Archived(k)
    <3>1. PICK i \in Slots, s \in Forms : n \in Tokens(h[i][s]) BY <2>2, InArchives
    <3>2. CASE i = 1
      <4>1. h[i][s] \in {h[1]["plain"], Absent} BY <3>2, <1>0
      <4> QED BY <4>1, <3>1, <1>0, <1>1, InArchives, FileFacts
    <3>3. CASE i # 1
      <4>1. k[i] = h[i] BY <3>3, <1>1
      <4> QED BY <4>1, <3>1, InArchives
    <3> QED BY <3>2, <3>3
  <2> QED BY <2>1, <2>2
<1>5. Archived(k) = Archived(h) BY <1>4 DEF Archived
<1> QED BY <1>1, <1>3, <1>5

LEMMA GzipStep ==
  ASSUME LogInv, RotateGzip PROVE CaptureTypeOK' /\ DirectoryInv' /\ Seen
<1> USE DEF LogInv, DirectoryInv
<1>0. /\ wpc = "gzip" /\ UNCHANGED rotating /\ moved' = moved /\ act' = act
      /\ Sorted(act, arch) /\ act \in Contents /\ arch \in Archives /\ shift \in Nat /\ arch[1]["gz"] = Absent
      /\ Forms = {"plain", "gz"} /\ 1 \in Slots /\ wpc \in Rotating
  BY DiskSorted DEF RotateGzip, RoomMade, Rotating
<1>1. /\ arch' \in Archives /\ Sorted(act, arch') /\ Archived(arch') = Archived(arch)
      /\ RoomMade' /\ wpc' \in Rotating /\ shift' \in Nat
      /\ \A i \in Slots, s \in Forms : Tokens(arch[i][s]) \subseteq Tokens(arch'[i][s])
  <2>1. CASE arch' = [arch EXCEPT ![1]["gz"] = arch[1]["plain"]] /\ wpc' = "unlink" /\ UNCHANGED shift
    <3>1. arch' \in Archives /\ Sorted(act, arch') /\ Archived(arch') = Archived(arch)
      BY <2>1, <1>0, GzipFacts
    <3>2. /\ arch'[1]["gz"] = arch[1]["plain"] /\ arch'[1]["plain"] = arch[1]["plain"]
          /\ \A i \in Slots \ {1} : arch'[i] = arch[i]
      BY <2>1, <1>0 DEF Archives
    <3>3. RoomMade' BY <2>1, <3>2 DEF RoomMade
    <3>4. \A i \in Slots, s \in Forms : Tokens(arch[i][s]) \subseteq Tokens(arch'[i][s])
      <4> SUFFICES ASSUME NEW i \in Slots, NEW s \in Forms PROVE arch[i][s] \in {arch'[i][s], Absent}
        BY FileFacts
      <4> QED BY <3>1, <3>2, <1>0
    <3> QED BY <2>1, <3>1, <3>3, <3>4, <1>0 DEF Rotating
  <2>2. CASE RotateFails /\ UNCHANGED arch BY <2>2, <1>0, FailsRoom
  <2> QED BY <2>1, <2>2 DEF RotateGzip
<1>2. /\ wq' = wq /\ tok' = tok /\ kept' = kept /\ got' = got /\ rpc' = rpc /\ Mark' = Mark /\ Mark \in Int
      /\ WriterHeld'
  BY <1>0, <1>1, RotatingFacts
<1>3. OnDisk' = OnDisk BY <1>0, <1>1, DiskIs
<1>4. DirectoryInv' BY <1>0, <1>1, <1>2, <1>3, FilesMoved
<1>5. CaptureTypeOK'
  BY <1>0, <1>1, <1>2 DEF CaptureTypeOK, rotating, reader, Archives, Contents, Rotating
<1>6. \A f \in AllNames : Tokens(File(f)) \subseteq Tokens(File(f)') BY <1>0, <1>1, Readables
<1> QED BY <1>0, <1>2, <1>4, <1>5, <1>6 DEF Seen

LEMMA UnlinkStep ==
  ASSUME LogInv, RotateUnlink PROVE CaptureTypeOK' /\ DirectoryInv' /\ Seen
<1> USE DEF LogInv, DirectoryInv
<1>0. /\ wpc = "unlink" /\ UNCHANGED rotating /\ moved' = (rpc # "idle") /\ act' = act
      /\ Sorted(act, arch) /\ act \in Contents /\ arch \in Archives /\ shift \in Nat
      /\ arch[1]["gz"] = arch[1]["plain"] /\ wpc \in Rotating
  BY DiskSorted DEF RotateUnlink, RoomMade, Rotating
<1>1. /\ arch' \in Archives /\ Sorted(act, arch') /\ Archived(arch') = Archived(arch)
      /\ RoomMade' /\ wpc' \in Rotating /\ shift' \in Nat
  <2>1. CASE arch' = [arch EXCEPT ![1]["plain"] = Absent] /\ wpc' = "reopen" /\ UNCHANGED shift
    <3>1. arch' \in Archives /\ Sorted(act, arch') /\ Archived(arch') = Archived(arch)
      BY <2>1, <1>0, GzipFacts
    <3> QED BY <2>1, <3>1, <1>0 DEF RoomMade, Rotating
  <2>2. CASE RotateFails /\ UNCHANGED arch BY <2>2, <1>0, FailsRoom
  <2> QED BY <2>1, <2>2 DEF RotateUnlink
<1>2. OnDisk' = OnDisk BY <1>0, <1>1, DiskIs
<1>3. moved' \in BOOLEAN /\ (rpc # "idle" => moved') BY <1>0
<1> QED BY <1>0, <1>1, <1>2, <1>3, RotationStep

LEMMA ReopenStep ==
  ASSUME LogInv, Reopen, UNCHANGED reader PROVE CaptureTypeOK' /\ DirectoryInv' /\ Seen
<1> USE DEF LogInv, DirectoryInv
<1>0. /\ wpc = "reopen" /\ UNCHANGED <<arch, tok, kept, moved, got, rpc>> /\ shift' = 0
      /\ Sorted(act, arch) /\ act \in Contents /\ arch \in Archives /\ wq # <<>>
  BY DiskSorted DEF Reopen, reader, WriterHeld, Rotating
<1>1. Tokens(<<>>) = Tokens(Absent) /\ <<>> # Absent
  <2>1. <<>> \in Seq(Number) OBVIOUS
  <2> QED BY <2>1, FileFacts
<1>2. act' \in Contents /\ Tokens(act') = Tokens(act) /\ (act' = act \/ (act = Absent /\ act' = <<>>))
  <2>1. act' = act \/ act' = IF act = Absent THEN <<>> ELSE act BY DEF Reopen
  <2>2. <<>> \in Contents
    <3>1. <<>> \in Seq(Number) OBVIOUS
    <3> QED BY <3>1 DEF Contents
  <2> QED BY <2>1, <2>2, <1>0, <1>1
<1>3. OnDisk' = OnDisk BY <1>0, <1>2, DiskIs
<1>4. ArchivesInOrder'
  <2>1. Sorted(<<>>, arch) BY <1>0, NothingBefore, EmptyIsSorted DEF Sorted
  <2> QED BY <2>1, <1>0, <1>2, OrderIs
<1>5. OnlyOldestDropped' BY <1>0, <1>3 DEF OnlyOldestDropped
<1>6. RoomMade' /\ WriterHeld' /\ Mark' \in Int /\ Mark <= Mark' /\ wq' \in Seq(Number)
  <2>1. CASE Die BY <2>1, <1>0, DieFacts
  <2>2. CASE wpc' = "emit" /\ UNCHANGED <<wq, partial>> /\ act' = IF act = Absent THEN <<>> ELSE act
    <3>1. Mark' = Mark BY <2>2, <1>0 DEF Mark
    <3>2. WriterHeld' BY <2>2, <3>1, <1>0, <1>1 DEF WriterHeld, Rotating
    <3>3. RoomMade' BY <2>2 DEF RoomMade
    <3> QED BY <2>2, <3>1, <3>2, <3>3, MarkIs DEF CaptureTypeOK
  <2> QED BY <2>1, <2>2 DEF Reopen
<1>7. CaptureTypeOK'
  <2>1. wpc' \in {"dead", "emit"} /\ partial' \in BOOLEAN BY DEF Reopen, Die, CaptureTypeOK
  <2> QED BY <2>1, <1>0, <1>2, <1>6 DEF CaptureTypeOK, reader
<1>8. Marked'
  <2>1. \A n \in ToSet(got) : n \in Number BY DEF ToSet, CaptureTypeOK
  <2>2. Mark \in Int BY MarkIs
  <2> QED BY <2>1, <2>2, <1>0, <1>3, <1>6 DEF Marked, Number
<1>9. \A f \in AllNames : Tokens(File(f)) \subseteq Tokens(File(f)') BY <1>0, <1>2, Readables
<1>10. Seen BY <1>0, <1>2, <1>6, <1>9 DEF Seen
<1> QED BY <1>4, <1>5, <1>6, <1>7, <1>8, <1>10

LEMMA GoneFacts ==
  ASSUME LogInv, ReaderGone PROVE FollowerHeld' /\ ExportHeld' /\ got' = <<>> /\ rpc' = "idle" /\ names' = {}
<1>1. IsStrictlyIncreasing(got)' BY DEF ReaderGone, IsStrictlyIncreasing
<1>2. rpc' = "idle" /\ got' = <<>> /\ names' = {} BY DEF ReaderGone
<1> QED BY <1>1, <1>2 DEF FollowerHeld, ExportHeld

LEMMA CrashStep ==
  ASSUME LogInv, Crash PROVE LogInv'
<1> USE DEF LogInv, DirectoryInv
<1>0. /\ UNCHANGED <<disk, tok, kept>> /\ wpc' = "off" /\ wq' = <<>> /\ partial' = FALSE /\ shift' = 0 /\ ReaderGone
  BY DEF Crash
<1>1. tok \in Nat /\ Len(wq) \in Nat /\ Len(wq') = 0 BY <1>0 DEF CaptureTypeOK
<1>2. Mark' = tok /\ Mark <= tok BY <1>0, <1>1 DEF Mark
<1>3. WriterHeld' BY <1>0, <1>1 DEF WriterHeld, Rotating
<1>4. RoomMade' BY <1>0 DEF RoomMade
<1>5. FollowerHeld' /\ ExportHeld' /\ got' = <<>> BY <1>0, GoneFacts
<1>6. DirectoryInv' BY <1>0, <1>1, <1>2, <1>3, <1>4, <1>5, FilesKept
<1>7. CaptureTypeOK'
  <2>1. <<>> \in Seq(Number) /\ 0 \in Nat /\ FALSE \in BOOLEAN OBVIOUS
  <2>2. /\ got' = <<>> /\ off' = 0 /\ base' = 0 /\ dumped' = 0 /\ names' = {} /\ moved' = FALSE
        /\ act' = act /\ arch' = arch
    BY <1>0 DEF ReaderGone, disk
  <2> QED BY <2>1, <2>2, <1>0 DEF CaptureTypeOK
<1> QED BY <1>5, <1>6, <1>7

-----------------------------------------------------------------------------
(* The readers                                                                *)

\* Whatever the writer does, a follower stays behind what it has still to read.
LEMMA SeenByReader ==
  ASSUME LogInv, CaptureTypeOK', DirectoryInv', Seen, UNCHANGED reader
  PROVE  FollowerHeld' /\ ExportHeld'
<1> USE DEF LogInv
<1>0. UNCHANGED <<rpc, off, base, got, dumped, names, there, out>> BY DEF reader
<1>1. ExportHeld'
  <2>1. rpc' = "exported" => names' = {} BY <1>0 DEF ExportHeld
  <2>2. ASSUME rpc' \in {"manifest", "add", "copy", "exported"}, ~moved', NEW n \in there'
        PROVE  n \in out' \/ \E f \in names' : n \in Tokens(File(f)')
    <3>1. ~moved /\ \A f \in AllNames : Tokens(File(f)) \subseteq Tokens(File(f)') BY <1>0, <2>2 DEF Seen
    <3>2. n \in out \/ \E f \in names : n \in Tokens(File(f)) BY <3>1, <2>2, <1>0 DEF ExportHeld
    <3>3. names \subseteq AllNames BY DEF CaptureTypeOK
    <3> QED BY <3>1, <3>2, <3>3, <1>0
  <2> QED BY <2>1, <2>2 DEF ExportHeld, Tokens, File
<1>2. FollowerHeld'
  <2>0. /\ off \in Nat /\ base \in Nat /\ dumped \in Nat /\ got \in Seq(Number)
        /\ act \in Contents /\ act' \in Contents /\ IsStrictlyIncreasing(got)
        /\ Mark \in Int /\ \A x \in ToSet(got) : x \in Number /\ x <= Mark
    BY MarkIs DEF CaptureTypeOK, FollowerHeld, DirectoryInv, Marked, ToSet
  <2>1. CASE rpc \notin {"poll", "read"}
    BY <2>0, <2>1, <1>0 DEF FollowerHeld, IsStrictlyIncreasing
  <2>2. CASE rpc \in {"poll", "read"}
    <3>0. moved => moved' BY <2>2 DEF Seen
    <3> DEFINE Behind(a) == \A x \in ToSet(got), p \in DOMAIN a : a # Absent /\ p > off => x < a[p]
               Within(a) == off <= SizeOf(a) \/ \A x \in ToSet(got), m \in Tokens(a) : x < m
               Copied(a) == /\ base <= off /\ off <= SizeOf(a) /\ Len(got) - dumped = off - base
                            /\ \A k \in 1..off - base : got[dumped + k] = a[base + k]
    <3>1. Behind(act) /\ Within(act) /\ (~moved => Copied(act)) BY <2>2 DEF FollowerHeld
    <3>2. Behind(act') /\ Within(act') /\ (~moved' => Copied(act'))
      <4>1. CASE act' = act BY <4>1, <3>0, <3>1
      <4>2. CASE act # Absent /\ \E n \in Number : Mark < n /\ n <= Mark' /\ act' = Append(act, n)
        <5>1. PICK n \in Number : Mark < n /\ act' = Append(act, n) BY <4>2
        <5>2. act \in Seq(Number) /\ SizeOf(act) = Len(act) BY <4>2, <2>0, FileFacts DEF Contents
        <5>3. /\ act' \in Seq(Number) /\ Len(act') = Len(act) + 1 /\ act'[Len(act) + 1] = n
              /\ (\A p \in 1..Len(act) : act'[p] = act[p]) /\ Len(act) \in Nat
              /\ DOMAIN act = 1..Len(act) /\ DOMAIN act' = 1..Len(act')
          BY <5>1, <5>2
        <5>4. Tokens(act') = Tokens(act) \cup {n} /\ SizeOf(act') = Len(act) + 1
          BY <5>1, <5>2, <5>3, Appended, FileFacts
        <5>5. \A x \in ToSet(got) : x < n BY <5>1, <2>0 DEF Number
        <5>6. Behind(act')
          <6> SUFFICES ASSUME NEW x \in ToSet(got), NEW p \in 1..Len(act'), p > off PROVE x < act'[p]
            BY <5>3
          <6>1. CASE p = Len(act) + 1 BY <6>1, <5>3, <5>5
          <6>2. CASE p \in 1..Len(act) BY <6>2, <5>3, <3>1, <4>2
          <6> QED BY <6>1, <6>2, <5>3
        <5>7. Within(act') BY <5>2, <5>3, <5>4, <5>5, <3>1, <2>0
        <5>8. ASSUME ~moved' PROVE Copied(act')
          <6>1. Copied(act) BY <5>8, <3>0, <3>1
          <6>2. ASSUME NEW k \in 1..off - base PROVE act'[base + k] = act[base + k]
            <7>1. base + k \in 1..Len(act) BY <6>1, <5>2, <5>3, <2>0
            <7> QED BY <7>1, <5>3
          <6>3. off <= SizeOf(act')
            <7>1. off <= Len(act) BY <6>1, <5>2
            <7> QED BY <7>1, <5>3, <5>4, <2>0
          <6>4. \A k \in 1..off - base : got[dumped + k] = act'[base + k] BY <6>1, <6>2
          <6>5. base <= off /\ Len(got) - dumped = off - base BY <6>1
          <6> QED BY <6>3, <6>4, <6>5
        <5> QED BY <5>6, <5>7, <5>8
      <4>3. CASE act = Absent /\ act' = <<>>
        <5>1. SizeOf(act) = 0 /\ Tokens(act') = {} /\ DOMAIN act' = {} /\ SizeOf(act') = 0
          <6>1. <<>> \in Seq(Number) /\ Len(<<>>) = 0 /\ DOMAIN <<>> = {} OBVIOUS
          <6> QED BY <6>1, <4>3, FileFacts
        <5>2. ASSUME ~moved' PROVE Copied(act')
          <6>1. Copied(act) BY <5>2, <3>0, <3>1
          <6>2. off = 0 /\ base = 0 BY <6>1, <5>1, <2>0
          <6>3. off - base = 0 /\ \A k \in 1..off - base : FALSE BY <6>2
          <6>4. base <= off /\ off <= SizeOf(act') BY <6>2, <5>1
          <6>5. \A k \in 1..off - base : got[dumped + k] = act'[base + k] BY <6>3
          <6>6. Len(got) - dumped = off - base BY <6>1
          <6> QED BY <6>4, <6>5, <6>6
        <5> QED BY <5>1, <5>2
      <4>4. CASE act' = Absent /\ (rpc # "idle" => moved')
        BY <4>4, <2>2, FileFacts
      <4> QED BY <4>1, <4>2, <4>3, <4>4 DEF Seen
    <3> QED BY <3>2, <2>0, <1>0 DEF FollowerHeld, IsStrictlyIncreasing, Tokens, ToSet, SizeOf
  <2> QED BY <2>1, <2>2
<1> QED BY <1>1, <1>2

LEMMA WriterStep ==
  ASSUME LogInv, WriterNext PROVE LogInv'
<1>1. ASSUME UNCHANGED reader, CaptureTypeOK', DirectoryInv', Seen PROVE LogInv'
  BY <1>1, SeenByReader DEF LogInv
<1>2. CASE OpenWriter BY <1>1, <1>2, OpenStep DEF OpenWriter
<1>3. ASSUME NEW k \in 0..2, NEW rest \in BOOLEAN, Write(k, rest) PROVE LogInv'
  BY <1>1, <1>3, WriteStep DEF Write
<1>4. CASE Emit /\ UNCHANGED reader BY <1>1, <1>4, EmitStep
<1>5. CASE RotateClose /\ UNCHANGED reader BY <1>1, <1>5, CloseFileStep
<1>6. CASE RotateRemove BY <1>1, <1>6, RemoveStep DEF RotateRemove, rotating
<1>7. CASE RotateShift BY <1>1, <1>7, ShiftStep DEF RotateShift, rotating
<1>8. CASE RotateRename BY <1>1, <1>8, RenameStep DEF RotateRename, rotating
<1>9. CASE RotateGzip BY <1>1, <1>9, GzipStep DEF RotateGzip, rotating
<1>10. CASE RotateUnlink BY <1>1, <1>10, UnlinkStep DEF RotateUnlink, rotating
<1>11. CASE Reopen /\ UNCHANGED reader BY <1>1, <1>11, ReopenStep
<1>12. CASE CloseWriter BY <1>1, <1>12, CloseStep DEF CloseWriter
<1>13. CASE Crash BY <1>13, CrashStep
<1>14. Emit \/ RotateClose \/ Reopen => UNCHANGED reader BY DEF Emit, RotateClose, Reopen
<1> QED BY <1>2, <1>3, <1>4, <1>5, <1>6, <1>7, <1>8, <1>9, <1>10, <1>11, <1>12, <1>13, <1>14
        DEF WriterNext, Rotate

\* A piece of a file: its tokens, in their order.
LEMMA PieceFacts ==
  ASSUME NEW f \in Seq(Number), IsStrictlyIncreasing(f), NEW a \in Nat, NEW b \in Nat, b <= Len(f)
  PROVE  LET g == SubSeq(f, a + 1, b)
         IN  /\ g \in Seq(Number) /\ IsStrictlyIncreasing(g) /\ ToSet(g) \subseteq Tokens(f)
             /\ Len(g) = IF a <= b THEN b - a ELSE 0
             /\ \A k \in 1..Len(g) : a + k \in 1..b /\ g[k] = f[a + k]
<1> DEFINE g == SubSeq(f, a + 1, b)
<1>1. /\ g \in Seq(Number) /\ Len(g) = IF a <= b THEN b - a ELSE 0
      /\ \A k \in 1..Len(g) : a + k \in 1..b /\ g[k] = f[a + k]
  <2>1. CASE a < b
    <3>1. a + 1 \in 1..Len(f) /\ b \in 1..Len(f) /\ a + 1 <= b BY <2>1
    <3>2. g \in Seq(Number) BY <3>1
    <3>3. Len(g) = b - a BY <3>1, <2>1
    <3>4. \A k \in 1..b - a : a + k \in 1..b /\ g[k] = f[a + k] BY <3>1
    <3> QED BY <3>2, <3>3, <3>4, <2>1
  <2>2. CASE b <= a
    <3>1. g = <<>> BY <2>2
    <3>2. Len(g) = 0 /\ 1..Len(g) = {} /\ g \in Seq(Number) BY <3>1
    <3>3. (IF a <= b THEN b - a ELSE 0) = 0 BY <2>2
    <3> QED BY <3>2, <3>3
  <2> QED BY <2>1, <2>2
<1> HIDE DEF g
<1>2. IsStrictlyIncreasing(g)
  <2> SUFFICES ASSUME NEW m \in 1..Len(g), NEW n \in 1..Len(g), m < n PROVE g[m] < g[n]
    BY <1>1 DEF IsStrictlyIncreasing
  <2>1. a + m \in 1..Len(f) /\ a + n \in 1..Len(f) /\ a + m < a + n BY <1>1
  <2>2. f[a + m] < f[a + n] BY <2>1 DEF IsStrictlyIncreasing
  <2> QED BY <2>2, <1>1
<1>3. ToSet(g) \subseteq Tokens(f)
  <2> SUFFICES ASSUME NEW k \in 1..Len(g) PROVE g[k] \in Tokens(f) BY <1>1 DEF ToSet
  <2>1. a + k \in 1..Len(f) /\ g[k] = f[a + k] BY <1>1
  <2> QED BY <2>1, FileFacts
<1> QED BY <1>1, <1>2, <1>3 DEF g

\* The readers take no lock and touch no file.
LEMMA ReaderKeeps ==
  ASSUME LogInv, UNCHANGED capture, \A n \in ToSet(got') : n <= Mark
  PROVE  DirectoryInv'
<1> USE DEF LogInv, DirectoryInv
<1>1. UNCHANGED <<act, arch, wpc, wq, shift, tok, partial, kept>> BY DEF capture, disk, writer
<1>2. Mark' = Mark BY <1>1 DEF Mark
<1>3. OnDisk' = OnDisk BY <1>1, DiskIs
<1>4. ArchivesInOrder' BY <1>1, OrderIs
<1>5. OnlyOldestDropped' BY <1>1, <1>3 DEF OnlyOldestDropped
<1>6. Marked' BY <1>1, <1>2, <1>3 DEF Marked
<1>7. WriterHeld' /\ RoomMade' BY <1>1, <1>2 DEF WriterHeld, RoomMade
<1> QED BY <1>4, <1>5, <1>6, <1>7

LEMMA GoneStep ==
  ASSUME LogInv, UNCHANGED capture, ReaderGone PROVE LogInv'
<1>1. FollowerHeld' /\ ExportHeld' /\ got' = <<>> BY GoneFacts
<1>2. ToSet(got') = {} BY <1>1 DEF ToSet
<1>3. DirectoryInv' BY <1>2, ReaderKeeps
<1>4. CaptureTypeOK'
  <2>1. <<>> \in Seq(Number) /\ 0 \in Nat /\ FALSE \in BOOLEAN OBVIOUS
  <2>2. /\ got' = <<>> /\ off' = 0 /\ base' = 0 /\ dumped' = 0 /\ names' = {} /\ moved' = FALSE
    BY DEF ReaderGone
  <2>3. UNCHANGED <<act, arch, wpc, wq, shift, tok, partial>> BY DEF capture, disk, writer
  <2> QED BY <2>1, <2>2, <2>3 DEF CaptureTypeOK, LogInv
<1> QED BY <1>1, <1>3, <1>4 DEF LogInv

LEMMA DumpStep == ASSUME LogInv, FollowDump PROVE LogInv'
<1> USE DEF LogInv
<1>0. /\ UNCHANGED capture /\ UNCHANGED <<act, arch, wpc, wq, shift, tok, partial, off, base, names, moved>>
      /\ rpc' = "dumped" /\ got' = LastN(act, TailLines) /\ dumped' = Len(got')
      /\ act \in Contents /\ IsStrictlyIncreasing(act) /\ TailLines \in Nat \ {0}
  BY OrderIs, CaptureAssumption DEF FollowDump, capture, disk, writer, exporting, CaptureTypeOK, DirectoryInv, Sorted
<1>1. got' \in Seq(Number) /\ IsStrictlyIncreasing(got') /\ ToSet(got') \subseteq Tokens(act)
  <2>1. CASE act = Absent
    <3>1. got' = <<>> BY <2>1, <1>0, FileFacts DEF LastN
    <3>2. <<>> \in Seq(Number) /\ ToSet(<<>>) = {} BY DEF ToSet
    <3> QED BY <3>1, <3>2, EmptyIsSorted
  <2>2. CASE act # Absent /\ Len(act) <= TailLines
    <3>1. got' = act /\ act \in Seq(Number) BY <2>2, <1>0, FileFacts DEF LastN, Contents
    <3> QED BY <3>1, <1>0, <2>2 DEF Tokens
  <2>3. CASE act # Absent /\ ~(Len(act) <= TailLines)
    <3>1. act \in Seq(Number) /\ SizeOf(act) = Len(act) /\ Len(act) \in Nat BY <2>3, <1>0, FileFacts DEF Contents
    <3>2. got' = SubSeq(act, Len(act) - TailLines + 1, Len(act)) BY <3>1, <2>3, <1>0 DEF LastN
    <3> DEFINE a == Len(act) - TailLines
    <3>3. a \in Nat BY <3>1, <2>3, <1>0
    <3>4. got' = SubSeq(act, a + 1, Len(act)) BY <3>2
    <3> HIDE DEF a
    <3>5. Len(act) <= Len(act) BY <3>1
    <3> QED BY <3>1, <3>3, <3>4, <3>5, <1>0, PieceFacts
  <2> QED BY <2>1, <2>2, <2>3
<1>2. \A n \in ToSet(got') : n <= Mark BY <1>1 DEF DirectoryInv, Marked, OnDisk
<1>3. DirectoryInv' BY <1>0, <1>2, ReaderKeeps
<1>4. CaptureTypeOK'
  <2>1. Len(got') \in Nat BY <1>1
  <2> QED BY <2>1, <1>0, <1>1 DEF CaptureTypeOK
<1>5. FollowerHeld' BY <1>0, <1>1 DEF FollowerHeld, IsStrictlyIncreasing
<1>6. ExportHeld' BY <1>0 DEF ExportHeld
<1> QED BY <1>3, <1>4, <1>5, <1>6

LEMMA MarkStep == ASSUME LogInv, FollowMark PROVE LogInv'
<1> USE DEF LogInv
<1>0. /\ UNCHANGED capture /\ UNCHANGED <<act, arch, wpc, wq, shift, tok, partial, got, dumped, names>>
      /\ rpc = "dumped" /\ rpc' = "poll" /\ off' = SizeOf(act) /\ base' = off' /\ moved' = FALSE
      /\ act \in Contents
  BY DEF FollowMark, capture, disk, writer, exporting, CaptureTypeOK
<1>1. off' \in Nat /\ (act # Absent => DOMAIN act = 1..off')
  BY <1>0, FileFacts DEF Contents
<1>2. DirectoryInv'
  <2>1. \A n \in ToSet(got') : n <= Mark BY <1>0 DEF DirectoryInv, Marked
  <2> QED BY <2>1, <1>0, ReaderKeeps
<1>3. CaptureTypeOK' BY <1>0, <1>1 DEF CaptureTypeOK
<1>4. FollowerHeld'
  <2>1. \A p \in DOMAIN act : act # Absent => ~(p > off') BY <1>1
  <2>2. off' - base' = 0 /\ Len(got) - dumped = 0 /\ \A k \in 1..off' - base' : FALSE
    BY <1>0, <1>1 DEF FollowerHeld, CaptureTypeOK
  <2>3. base' <= off' /\ off' <= SizeOf(act') BY <1>0, <1>1
  <2>4. IsStrictlyIncreasing(got)' BY <1>0 DEF FollowerHeld, IsStrictlyIncreasing
  <2> QED BY <2>1, <2>2, <2>3, <2>4, <1>0 DEF FollowerHeld
<1>5. ExportHeld' BY <1>0 DEF ExportHeld
<1> QED BY <1>2, <1>3, <1>4, <1>5

LEMMA StatStep == ASSUME LogInv, FollowStat PROVE LogInv'
<1> USE DEF LogInv
<1>0. /\ UNCHANGED capture /\ UNCHANGED <<act, arch, wpc, wq, shift, tok, partial, got, dumped, names, base, moved>>
      /\ rpc = "poll" /\ rpc' = "read" /\ off' = IF SizeOf(act) < off THEN 0 ELSE off
      /\ act \in Contents /\ SizeOf(act) \in Nat /\ off \in Nat
  BY FileFacts DEF FollowStat, Shrunk, capture, disk, writer, exporting, CaptureTypeOK, Contents
<1>2. DirectoryInv'
  <2>1. \A n \in ToSet(got') : n <= Mark BY <1>0 DEF DirectoryInv, Marked
  <2> QED BY <2>1, <1>0, ReaderKeeps
<1>3. CaptureTypeOK' BY <1>0 DEF CaptureTypeOK
<1>4. FollowerHeld'
  <2>1. CASE ~(SizeOf(act) < off)
    <3>1. off' = off BY <2>1, <1>0
    <3> QED BY <3>1, <1>0 DEF FollowerHeld, IsStrictlyIncreasing, Tokens, ToSet, SizeOf
  <2>2. CASE SizeOf(act) < off
    <3>1. off' = 0 /\ moved BY <2>2, <1>0 DEF FollowerHeld
    <3>2. \A x \in ToSet(got), m \in Tokens(act) : x < m BY <2>2, <1>0 DEF FollowerHeld
    <3>3. \A p \in DOMAIN act : act # Absent => act[p] \in Tokens(act) BY <1>0, FileFacts DEF Contents
    <3>4. off' <= SizeOf(act') BY <3>1, <1>0
    <3>5. IsStrictlyIncreasing(got)' BY <1>0 DEF FollowerHeld, IsStrictlyIncreasing
    <3>6. \A x \in ToSet(got'), p \in DOMAIN act' : act' # Absent /\ p > off' => x < act'[p]
      BY <3>2, <3>3, <1>0
    <3> QED BY <3>1, <3>4, <3>5, <3>6, <1>0 DEF FollowerHeld
  <2> QED BY <2>1, <2>2
<1>5. ExportHeld' BY <1>0 DEF ExportHeld
<1> QED BY <1>2, <1>3, <1>4, <1>5


LEMMA ConcatFacts ==
  ASSUME NEW f \in Seq(Number), NEW g \in Seq(Number), IsStrictlyIncreasing(f), IsStrictlyIncreasing(g),
         \A x \in ToSet(f), y \in ToSet(g) : x < y
  PROVE  /\ f \o g \in Seq(Number) /\ IsStrictlyIncreasing(f \o g)
         /\ ToSet(f \o g) \subseteq ToSet(f) \cup ToSet(g) /\ Len(f \o g) = Len(f) + Len(g)
         /\ \A k \in 1..Len(f) : (f \o g)[k] = f[k]
         /\ \A k \in 1..Len(g) : (f \o g)[Len(f) + k] = g[k]
<1> DEFINE h == f \o g
<1>1. /\ h \in Seq(Number) /\ Len(h) = Len(f) + Len(g) /\ Len(f) \in Nat /\ Len(g) \in Nat
      /\ \A k \in 1..Len(f) : h[k] = f[k]
      /\ \A k \in Len(f) + 1..Len(f) + Len(g) : h[k] = g[k - Len(f)]
  OBVIOUS
<1> HIDE DEF h
<1>2. \A k \in 1..Len(g) : h[Len(f) + k] = g[k]
  <2> SUFFICES ASSUME NEW k \in 1..Len(g) PROVE h[Len(f) + k] = g[k] OBVIOUS
  <2>1. Len(f) + k \in Len(f) + 1..Len(f) + Len(g) /\ Len(f) + k - Len(f) = k BY <1>1
  <2> QED BY <2>1, <1>1
<1>3. DOMAIN h = 1..Len(f) + Len(g) /\ DOMAIN f = 1..Len(f) /\ DOMAIN g = 1..Len(g) BY <1>1
<1>4. \A k \in 1..Len(f) + Len(g) :
        \/ k \in 1..Len(f) /\ h[k] = f[k]
        \/ k - Len(f) \in 1..Len(g) /\ h[k] = g[k - Len(f)] /\ Len(f) < k
  <2> SUFFICES ASSUME NEW k \in 1..Len(f) + Len(g), ~(k \in 1..Len(f))
               PROVE k - Len(f) \in 1..Len(g) /\ h[k] = g[k - Len(f)] /\ Len(f) < k
    BY <1>1
  <2>1. k \in Len(f) + 1..Len(f) + Len(g) BY <1>1
  <2> QED BY <2>1, <1>1
<1>5. ToSet(h) \subseteq ToSet(f) \cup ToSet(g)
  <2> SUFFICES ASSUME NEW k \in 1..Len(f) + Len(g) PROVE h[k] \in ToSet(f) \cup ToSet(g) BY <1>3 DEF ToSet
  <2> QED BY <1>3, <1>4 DEF ToSet
<1>6. IsStrictlyIncreasing(h)
  <2> SUFFICES ASSUME NEW m \in 1..Len(f) + Len(g), NEW n \in 1..Len(f) + Len(g), m < n PROVE h[m] < h[n]
    BY <1>3 DEF IsStrictlyIncreasing
  <2>1. CASE n \in 1..Len(f)
    <3>1. m \in 1..Len(f) BY <2>1, <1>1
    <3> QED BY <2>1, <3>1, <1>1, <1>3 DEF IsStrictlyIncreasing
  <2>2. CASE n \notin 1..Len(f) /\ m \in 1..Len(f)
    <3>1. h[m] \in ToSet(f) BY <2>2, <1>3, <1>4 DEF ToSet
    <3>2. n - Len(f) \in DOMAIN g /\ h[n] = g[n - Len(f)] BY <2>2, <1>3, <1>4
    <3>3. h[n] \in ToSet(g) BY <3>2 DEF ToSet
    <3> QED BY <3>1, <3>3
  <2>3. CASE n \notin 1..Len(f) /\ m \notin 1..Len(f)
    <3>1. /\ n - Len(f) \in 1..Len(g) /\ h[n] = g[n - Len(f)]
          /\ m - Len(f) \in 1..Len(g) /\ h[m] = g[m - Len(f)]
      BY <2>3, <1>4
    <3>2. m - Len(f) < n - Len(f) BY <1>1
    <3> QED BY <3>1, <3>2, <1>3 DEF IsStrictlyIncreasing
  <2> QED BY <2>1, <2>2, <2>3
<1> QED BY <1>1, <1>2, <1>5, <1>6 DEF h

LEMMA ReadStep == ASSUME LogInv, FollowRead PROVE LogInv'
<1> USE DEF LogInv
<1> DEFINE S == Since(off + ReadMax)
<1>0. /\ UNCHANGED capture /\ UNCHANGED <<act, arch, wpc, wq, shift, tok, partial, dumped, names, base, moved>>
      /\ rpc = "read" /\ rpc' = "poll" /\ got' = got \o S /\ off' = off + Len(S)
      /\ act \in Contents /\ got \in Seq(Number) /\ {off, base, dumped} \subseteq Nat /\ ReadMax \in Nat \ {0}
      /\ IsStrictlyIncreasing(act) /\ IsStrictlyIncreasing(got)
  BY OrderIs, CaptureAssumption
  DEF FollowRead, capture, disk, writer, exporting, CaptureTypeOK, FollowerHeld, DirectoryInv, Sorted
<1>1. CASE S = <<>>
  <2>1. got' = got /\ off' = off
    <3>1. got \o <<>> = got /\ Len(<<>>) = 0 BY <1>0
    <3> QED BY <3>1, <1>0, <1>1
  <2>2. DirectoryInv'
    <3>1. \A n \in ToSet(got') : n <= Mark BY <2>1 DEF DirectoryInv, Marked
    <3> QED BY <3>1, <1>0, ReaderKeeps
  <2>3. CaptureTypeOK' BY <2>1, <1>0 DEF CaptureTypeOK
  <2>4. FollowerHeld' BY <2>1, <1>0 DEF FollowerHeld, IsStrictlyIncreasing, Tokens, ToSet, SizeOf
  <2>5. ExportHeld' BY <1>0 DEF ExportHeld
  <2> QED BY <2>2, <2>3, <2>4, <2>5
<1>2. CASE S # <<>>
  <2>1. act # Absent /\ act \in Seq(Number) /\ Len(act) \in Nat /\ SizeOf(act) = Len(act) /\ DOMAIN act = 1..Len(act)
    <3>1. act # Absent BY <1>2 DEF Since
    <3> QED BY <3>1, <1>0, FileFacts DEF Contents
  <2> DEFINE b == IF off + ReadMax < Len(act) THEN off + ReadMax ELSE Len(act)
  <2>2. b \in Nat /\ b <= Len(act) /\ S = SubSeq(act, off + 1, b) /\ off \in Nat
    <3>1. off \in Nat /\ base \in Nat /\ dumped \in Nat BY <1>0
    <3>2. S = SubSeq(act, off + 1, b) BY <2>1 DEF Since
    <3>3. off + ReadMax \in Nat BY <3>1, <1>0
    <3> QED BY <3>1, <3>2, <3>3, <2>1
  <2> HIDE DEF S, b
  <2>3. /\ S \in Seq(Number) /\ IsStrictlyIncreasing(S) /\ ToSet(S) \subseteq Tokens(act)
        /\ Len(S) = (IF off <= b THEN b - off ELSE 0)
        /\ \A k \in 1..Len(S) : off + k \in 1..b /\ S[k] = act[off + k]
    BY <2>1, <2>2, <1>0, PieceFacts
  <2>4. Len(S) > 0 /\ off < b /\ Len(S) = b - off /\ off' = b
    <3>1. Len(S) # 0 BY <2>3, <1>2
    <3>2. off < b BY <3>1, <2>2, <2>3, <1>0
    <3> QED BY <3>2, <2>2, <2>3, <1>0
  <2>5. \A x \in ToSet(got), k \in 1..Len(S) : x < S[k]
    <3> SUFFICES ASSUME NEW x \in ToSet(got), NEW k \in 1..Len(S) PROVE x < S[k] OBVIOUS
    <3>1. off + k \in DOMAIN act /\ off + k > off
      <4>1. off + k \in 1..b BY <2>3
      <4>2. off + k > off BY <2>2
      <4> QED BY <4>1, <4>2, <2>1, <2>2
    <3>2. x < act[off + k] BY <3>1, <2>1, <1>0 DEF FollowerHeld
    <3> QED BY <3>2, <2>3
  <2>6. /\ got' \in Seq(Number) /\ IsStrictlyIncreasing(got') /\ Len(got') = Len(got) + Len(S)
        /\ ToSet(got') \subseteq ToSet(got) \cup ToSet(S)
        /\ \A k \in 1..Len(got) : got'[k] = got[k]
        /\ \A k \in 1..Len(S) : got'[Len(got) + k] = S[k]
    <3>1. \A x \in ToSet(got), y \in ToSet(S) : x < y BY <2>3, <2>5 DEF ToSet
    <3> QED BY <3>1, <2>3, <1>0, ConcatFacts
  <2>7. DirectoryInv'
    <3>1. \A n \in ToSet(got') : n <= Mark BY <2>3, <2>6 DEF DirectoryInv, Marked, OnDisk
    <3> QED BY <3>1, <1>0, ReaderKeeps
  <2>8. CaptureTypeOK' BY <2>2, <2>4, <2>6, <1>0 DEF CaptureTypeOK
  <2>9. FollowerHeld'
    <3>1. ASSUME NEW x \in ToSet(got'), NEW p \in 1..Len(act), p > off' PROVE x < act[p]
      <4>1. CASE x \in ToSet(got)
        <5>1. p > off BY <2>2, <2>4, <1>0, <3>1
        <5> QED BY <5>1, <4>1, <2>1, <1>0 DEF FollowerHeld
      <4>2. CASE x \in ToSet(S)
        <5>1. PICK k \in 1..Len(S) : x = S[k] BY <4>2, <2>3 DEF ToSet
        <5>2. off + k \in 1..b /\ x = act[off + k] BY <5>1, <2>3
        <5>3. off + k \in 1..Len(act) /\ off + k < p BY <5>2, <2>1, <2>2, <2>4, <1>0, <3>1
        <5> QED BY <5>2, <5>3, <2>1, <1>0 DEF IsStrictlyIncreasing
      <4> QED BY <4>1, <4>2, <2>6
    <3>2. off' <= SizeOf(act') BY <2>1, <2>2, <2>4, <1>0
    <3>3. ASSUME ~moved'
          PROVE  /\ base' <= off' /\ Len(got') - dumped' = off' - base'
                 /\ \A k \in 1..off' - base' : got'[dumped' + k] = act'[base' + k]
      <4>1. /\ base <= off /\ Len(got) - dumped = off - base
            /\ \A k \in 1..off - base : got[dumped + k] = act[base + k]
        BY <3>3, <1>0 DEF FollowerHeld
      <4>2. Len(got) \in Nat /\ off \in Nat /\ base \in Nat /\ dumped \in Nat /\ Len(S) \in Nat /\ off' = off + Len(S)
        BY <1>0, <2>3
      <4>3. ASSUME NEW k \in 1..off' - base PROVE got'[dumped + k] = act[base + k]
        <5>1. CASE k <= off - base
          <6>1. k \in 1..off - base /\ dumped + k \in 1..Len(got) BY <5>1, <4>1, <4>2
          <6> QED BY <6>1, <4>1, <2>6
        <5>2. CASE ~(k <= off - base)
          <6> DEFINE j == k - (off - base)
          <6>1. j \in 1..Len(S) /\ dumped + k = Len(got) + j /\ base + k = off + j BY <5>2, <4>1, <4>2
          <6> HIDE DEF j
          <6>2. got'[Len(got) + j] = S[j] /\ S[j] = act[off + j] BY <6>1, <2>3, <2>6
          <6> QED BY <6>1, <6>2
        <5> QED BY <5>1, <5>2
      <4>4. base <= off' BY <4>1, <4>2
      <4>5. Len(got') - dumped = off' - base
        <5>1. Len(got') = Len(got) + Len(S) BY <2>6
        <5>2. Len(got) + Len(S) - dumped = off + Len(S) - base BY <4>1, <4>2
        <5> QED BY <5>1, <5>2, <4>2
      <4> QED BY <4>3, <4>4, <4>5, <1>0
    <3>4. IsStrictlyIncreasing(got)' BY <2>6 DEF IsStrictlyIncreasing
    <3> QED BY <3>1, <3>2, <3>3, <3>4, <2>1, <1>0 DEF FollowerHeld
  <2>10. ExportHeld' BY <1>0 DEF ExportHeld
  <2> QED BY <2>7, <2>8, <2>9, <2>10
<1> QED BY <1>1, <1>2


\* An export changes nothing a follower or the writer has.
LEMMA ExportKeeps ==
  ASSUME LogInv, UNCHANGED capture, UNCHANGED following, rpc' \notin {"poll", "read", "dumped"},
         moved' \in BOOLEAN, names' \subseteq AllNames, ExportHeld'
  PROVE  LogInv'
<1> USE DEF LogInv
<1>0. UNCHANGED <<act, arch, wpc, wq, shift, tok, partial, off, base, got, dumped>>
  BY DEF capture, disk, writer, following
<1>1. DirectoryInv'
  <2>1. \A n \in ToSet(got') : n <= Mark BY <1>0 DEF DirectoryInv, Marked
  <2> QED BY <2>1, ReaderKeeps
<1>2. CaptureTypeOK' BY <1>0 DEF CaptureTypeOK
<1>3. IsStrictlyIncreasing(got)' BY <1>0 DEF FollowerHeld, IsStrictlyIncreasing
<1>4. FollowerHeld' BY <1>3 DEF FollowerHeld
<1> QED BY <1>1, <1>2, <1>4

LEMMA ExportStep ==
  ASSUME LogInv, ExportBegin \/ ExportManifest \/ ExportHeader \/ ExportCopy \/ ExportEnd
  PROVE  LogInv'
<1> USE DEF LogInv
<1>0. names \subseteq AllNames /\ moved \in BOOLEAN BY DEF CaptureTypeOK
<1>1. CASE ExportBegin
  <2>0. /\ UNCHANGED capture /\ UNCHANGED following /\ UNCHANGED <<act, arch>> /\ rpc' = "manifest" /\ moved' = FALSE
        /\ names' = {f \in AllNames : Listed(f)} /\ there' = OnDisk
    BY <1>1 DEF ExportBegin, capture, disk
  <2>1. ASSUME NEW n \in OnDisk PROVE \E f \in names' : n \in Tokens(File(f))
    <3>1. CASE n \in Tokens(act)
      <4>1. <<0, "plain">> \in AllNames /\ File(<<0, "plain">>) = act BY DEF AllNames, File
      <4>2. act # Absent BY <3>1, FileFacts
      <4> QED BY <3>1, <4>1, <4>2, <2>0 DEF Listed
    <3>2. CASE n \notin Tokens(act)
      <4>1. PICK i \in Slots, s \in Forms : n \in Tokens(arch[i][s]) BY <3>2, DiskIs, InArchives
      <4>2. <<i, s>> \in AllNames BY DEF AllNames
      <4>3. i # 0 BY DEF Slots
      <4>4. File(<<i, s>>) = arch[i][s] BY <4>3 DEF File
      <4>5. File(<<i, s>>) # Absent BY <4>1, <4>4, FileFacts
      <4> QED BY <4>1, <4>2, <4>4, <4>5, <2>0 DEF Listed
    <3> QED BY <3>1, <3>2
  <2>2. \A f : File(f)' = File(f) BY <2>0 DEF File
  <2>3. ExportHeld' BY <2>0, <2>1, <2>2 DEF ExportHeld, Tokens, File
  <2>4. names' \subseteq AllNames BY <2>0
  <2> QED BY <2>0, <2>3, <2>4, ExportKeeps
<1>2. CASE ExportManifest
  <2>0. UNCHANGED capture /\ UNCHANGED <<act, arch>> BY <1>2 DEF ExportManifest, capture, disk
  <2>1. CASE ReaderGone BY <2>0, <2>1, GoneStep
  <2>2. CASE rpc' = "add" /\ UNCHANGED <<following, exporting, moved>>
    <3>1. rpc = "manifest" /\ UNCHANGED <<names, there, out, moved>> BY <1>2, <2>2 DEF ExportManifest, exporting
    <3>2. ExportHeld' BY <3>1, <2>0, <2>2 DEF ExportHeld, File, Tokens
    <3> QED BY <3>1, <3>2, <2>0, <2>2, <1>0, ExportKeeps
  <2> QED BY <2>1, <2>2, <1>2 DEF ExportManifest
<1>3. CASE ExportHeader
  <2>0. /\ UNCHANGED capture /\ UNCHANGED <<act, arch>> /\ UNCHANGED <<following, there, out, moved>> /\ rpc = "add"
    BY <1>3 DEF ExportHeader, capture, disk
  <2>1. CASE names = {} /\ rpc' = "exported" /\ UNCHANGED names
    <3>1. ExportHeld' BY <2>0, <2>1 DEF ExportHeld
    <3> QED BY <3>1, <2>0, <2>1, <1>0, ExportKeeps
  <2>2. CASE ~Listed(NextName) /\ names' = names \ {NextName} /\ UNCHANGED rpc
    <3>1. Tokens(File(NextName)) = {} BY <2>2, FileFacts DEF Listed
    <3>2. ASSUME ~moved, NEW n \in there PROVE n \in out \/ \E f \in names' : n \in Tokens(File(f))
      <4>1. CASE n \in out BY <4>1
      <4>2. CASE n \notin out
        <5>1. PICK f \in names : n \in Tokens(File(f)) BY <3>2, <4>2, <2>0 DEF ExportHeld
        <5>2. f # NextName BY <5>1, <3>1
        <5> QED BY <5>1, <5>2, <2>2
      <4> QED BY <4>1, <4>2
    <3>3. ExportHeld' BY <3>2, <2>0, <2>2 DEF ExportHeld, File, Tokens
    <3>4. names' \subseteq AllNames BY <2>2, <1>0
    <3> QED BY <3>3, <3>4, <2>0, <2>2, <1>0, ExportKeeps
  <2>3. CASE rpc' = "copy" /\ UNCHANGED names
    <3>1. ExportHeld' BY <2>0, <2>3 DEF ExportHeld, File, Tokens
    <3> QED BY <3>1, <2>0, <2>3, <1>0, ExportKeeps
  <2> QED BY <2>1, <2>2, <2>3, <1>3 DEF ExportHeader
<1>4. CASE ExportCopy
  <2>0. UNCHANGED capture /\ UNCHANGED <<act, arch>> /\ rpc = "copy" BY <1>4 DEF ExportCopy, capture, disk
  <2>1. CASE ReaderGone BY <2>0, <2>1, GoneStep
  <2>2. CASE /\ out' = out \cup Tokens(File(NextName)) /\ names' = names \ {NextName} /\ rpc' = "add"
             /\ UNCHANGED <<following, there, moved>>
    <3>1. ASSUME ~moved, NEW n \in there PROVE n \in out' \/ \E f \in names' : n \in Tokens(File(f))
      <4>1. CASE n \in out BY <4>1, <2>2
      <4>2. CASE n \notin out
        <5>1. PICK f \in names : n \in Tokens(File(f)) BY <3>1, <4>2, <2>0 DEF ExportHeld
        <5>2. CASE f = NextName BY <5>1, <5>2, <2>2
        <5>3. CASE f # NextName BY <5>1, <5>3, <2>2
        <5> QED BY <5>2, <5>3
      <4> QED BY <4>1, <4>2
    <3>2. ExportHeld' BY <3>1, <2>0, <2>2 DEF ExportHeld, File, Tokens
    <3>3. names' \subseteq AllNames BY <2>2, <1>0
    <3> QED BY <3>2, <3>3, <2>0, <2>2, <1>0, ExportKeeps
  <2> QED BY <2>1, <2>2, <1>4 DEF ExportCopy
<1>5. CASE ExportEnd BY <1>5, GoneStep DEF ExportEnd
<1> QED BY <1>1, <1>2, <1>3, <1>4, <1>5


LEMMA LogStart == CaptureInit => LogInv
<1> SUFFICES ASSUME CaptureInit PROVE LogInv OBVIOUS
<1>0. <<>> \in Seq(Number) /\ Len(<<>>) = 0 /\ ToSet(<<>>) = {} BY DEF ToSet
<1>1. CaptureTypeOK
  <2>1. arch \in [Slots -> [Forms -> Contents]] BY DEF CaptureInit, Contents
  <2>2. /\ act = Absent /\ wpc = "off" /\ wq = <<>> /\ shift = 0 /\ tok = 0 /\ partial = FALSE /\ moved = FALSE
        /\ got = <<>> /\ off = 0 /\ base = 0 /\ dumped = 0 /\ names = {}
    BY DEF CaptureInit
  <2>3. Absent \in Contents BY DEF Contents
  <2>4. {off, base, dumped} \subseteq Nat /\ tok \in Nat /\ shift \in Nat BY <2>2
  <2> QED BY <2>1, <2>2, <2>3, <2>4, <1>0 DEF CaptureTypeOK, Archives
<1>2. WriterHeld BY <1>0 DEF CaptureInit, WriterHeld, Rotating
<1>3. OnDisk = {}
  <2>1. \A i \in Slots, s \in Forms : Tokens(arch[i][s]) = {} BY FileFacts DEF CaptureInit
  <2> QED BY <2>1, FileFacts DEF CaptureInit, OnDisk
<1>4. Marked BY <1>0, <1>3 DEF CaptureInit, Marked
<1>5. RoomMade BY DEF CaptureInit, RoomMade
<1>6. Sorted(act, arch)
  <2>1. act = Absent /\ \A i \in Slots, s \in Forms : arch[i][s] = Absent BY DEF CaptureInit
  <2> QED BY <2>1, NothingBefore, EmptyIsSorted DEF Sorted, Agree
<1>7. ArchivesInOrder BY <1>6, OrderIs
<1>8. OnlyOldestDropped BY DEF CaptureInit, OnlyOldestDropped
<1>9. FollowerHeld /\ ExportHeld BY EmptyIsSorted DEF CaptureInit, FollowerHeld, ExportHeld
<1> QED BY <1>1, <1>2, <1>4, <1>5, <1>7, <1>8, <1>9 DEF LogInv, DirectoryInv

LEMMA LogStep == LogInv /\ [CaptureNext]_vars => LogInv'
<1> SUFFICES ASSUME LogInv, [CaptureNext]_vars PROVE LogInv' OBVIOUS
<1>1. CASE WriterNext BY <1>1, WriterStep
<1>2. CASE ReaderNext
  <2>1. CASE FollowEnd BY <2>1, GoneStep DEF FollowEnd
  <2> QED BY <1>2, <2>1, DumpStep, MarkStep, StatStep, ReadStep, ExportStep DEF ReaderNext
<1>3. CASE UNCHANGED vars
  <2>1. UNCHANGED reader /\ UNCHANGED capture /\ UNCHANGED moved BY <1>3 DEF vars, capture
  <2>2. UNCHANGED <<act, arch, wpc, wq, shift, tok, partial, off, base, got, dumped, names, rpc, there, out>>
    BY <2>1 DEF reader, capture, disk, writer
  <2>3. DirectoryInv'
    <3>1. \A n \in ToSet(got') : n <= Mark BY <2>2 DEF LogInv, DirectoryInv, Marked
    <3> QED BY <3>1, <2>1, ReaderKeeps
  <2>4. CaptureTypeOK' BY <2>1, <2>2 DEF CaptureTypeOK, LogInv
  <2>5. Mark' = Mark /\ Mark \in Int BY <2>2, MarkIs DEF Mark, LogInv
  <2>6. Seen BY <2>1, <2>2, <2>5, SameFilesSeen DEF disk
  <2> QED BY <2>1, <2>3, <2>4, <2>6, SeenByReader DEF LogInv
<1> QED BY <1>1, <1>2, <1>3 DEF CaptureNext

LEMMA LogHolds == CaptureSpec => []LogInv
BY LogStart, LogStep, PTL DEF CaptureSpec

\* For any file size and number of archives, any number of failed file-system
\* calls and daemon crashes at any step of a rotation: the directory reads in
\* order from the oldest archive to the active file (capturer.go, rotateNow).
THEOREM ArchivesOrdered == CaptureSpec => []ArchivesInOrder
<1>1. LogInv => ArchivesInOrder BY DEF LogInv, DirectoryInv
<1> QED BY <1>1, LogHolds, PTL

\* ... and what was written and is gone is older than all that is left: no
\* rotation loses output but by retention (writer.go:32).
THEOREM NothingLostButOldest == CaptureSpec => []OnlyOldestDropped
<1>1. LogInv => OnlyOldestDropped BY DEF LogInv, DirectoryInv
<1> QED BY <1>1, LogHolds, PTL

\* Without a lock: a follower never repeats or reorders, and sends all that was
\* written since its mark unless a rotation ran; an export that reports success,
\* and that none overlapped, is complete (follow_logs.go, readFollow; export.go).
THEOREM ReadersSeeWhatIsWritten == CaptureSpec => []ReadersFaithful
<1>1. LogInv => FollowerFaithful
  <2> SUFFICES ASSUME LogInv PROVE FollowerFaithful OBVIOUS
  <2>1. IsStrictlyIncreasing(got) BY DEF LogInv, FollowerHeld
  <2>2. ASSUME rpc \in {"poll", "read"}, ~moved
        PROVE  SubSeq(got, dumped + 1, Len(got)) = SubSeq(act, base + 1, off)
    <3>1. /\ base <= off /\ off <= SizeOf(act) /\ Len(got) - dumped = off - base
          /\ \A k \in 1..off - base : got[dumped + k] = act[base + k]
      BY <2>2 DEF LogInv, FollowerHeld
    <3>2. /\ off \in Nat /\ base \in Nat /\ dumped \in Nat /\ got \in Seq(Number) /\ Len(got) \in Nat
          /\ act \in Contents
      BY DEF LogInv, CaptureTypeOK
    <3>3. CASE off = base
      <4>1. Len(got) = dumped BY <3>1, <3>2, <3>3
      <4>2. SubSeq(got, dumped + 1, Len(got)) = <<>> BY <4>1, <3>2
      <4>3. act \in Seq(Nat)
        <5>1. Absent \in Seq(Nat) BY DEF Absent
        <5>2. Seq(Number) \subseteq Seq(Nat) BY DEF Number
        <5> QED BY <5>1, <5>2, <3>2 DEF Contents
      <4>4. SubSeq(act, base + 1, off) = <<>> BY <4>3, <3>2, <3>3
      <4> QED BY <4>2, <4>4
    <3>4. CASE base < off
      <4>1. act \in Seq(Number) /\ SizeOf(act) = Len(act) /\ Len(act) \in Nat
        <5>1. act # Absent BY <3>1, <3>2, <3>4, FileFacts
        <5> QED BY <5>1, <3>2, FileFacts DEF Contents
      <4> DEFINE f == SubSeq(got, dumped + 1, Len(got))
                 g == SubSeq(act, base + 1, off)
      <4>2. /\ f \in Seq(Number) /\ Len(f) = off - base
            /\ \A k \in 1..Len(f) : f[k] = got[dumped + k]
        <5>1. dumped + 1 \in 1..Len(got) /\ dumped + 1 <= Len(got) BY <3>1, <3>2, <3>4
        <5>2. f \in Seq(Number) BY <5>1, <3>2
        <5>3. Len(f) = Len(got) - dumped BY <5>1, <3>2
        <5>4. \A k \in 1..Len(got) - dumped : f[k] = got[dumped + k] BY <5>1, <3>2
        <5> QED BY <5>2, <5>3, <5>4, <3>1
      <4>3. /\ g \in Seq(Number) /\ Len(g) = off - base
            /\ \A k \in 1..Len(g) : g[k] = act[base + k]
        <5>1. off <= Len(act) BY <3>1, <4>1
        <5>2. base + 1 \in 1..Len(act) /\ base + 1 <= off BY <5>1, <3>2, <3>4, <4>1
        <5>3. g \in Seq(Number) BY <5>1, <5>2, <3>2, <4>1
        <5>4. Len(g) = off - base BY <5>1, <5>2, <3>2, <4>1
        <5>5. \A k \in 1..off - base : g[k] = act[base + k] BY <5>1, <5>2, <3>2, <4>1
        <5> QED BY <5>3, <5>4, <5>5
      <4> HIDE DEF f, g
      <4>4. \A k \in 1..Len(f) : f[k] = g[k] BY <3>1, <4>2, <4>3
      <4>5. f = g BY <4>2, <4>3, <4>4
      <4> QED BY <4>5 DEF f, g
    <3> QED BY <3>1, <3>2, <3>3, <3>4
  <2> QED BY <2>1, <2>2 DEF FollowerFaithful
<1>2. LogInv => ExportComplete BY DEF LogInv, ExportHeld, ExportComplete
<1> QED BY <1>1, <1>2, LogHolds, PTL DEF ReadersFaithful

-----------------------------------------------------------------------------
(* Numbers                                                                    *)

Before_ == {s \in Nat \X Nat : s[1] < s[2]}

\* A set of numbers that is not empty has a least one.
LEMMA LeastNumber ==
  ASSUME NEW S \in SUBSET Nat, S # {}
  PROVE  \E n \in S : \A m \in S : n <= m
<1>1. IsWellFoundedOn(Before_, Nat)
  BY NatLessThanWellFounded DEF OpToRel, Before_
<1>2. PICK n \in S : \A m \in S : ~(<<m, n>> \in Before_)
  BY <1>1, WFMin, Zenon
<1>3. ASSUME NEW m \in S PROVE n <= m
  <2>1. n \in Nat /\ m \in Nat
    OBVIOUS
  <2>2. ~(m < n)
    BY <1>2, <2>1 DEF Before_
  <2> QED BY <2>1, <2>2
<1> QED BY <1>3

\* What holds of 0 and passes from each number to the next holds up to N.
LEMMA UpTo ==
  ASSUME NEW N \in Nat, NEW S, 0 \in S, \A n \in 1..N : n - 1 \in S => n \in S
  PROVE  0..N \subseteq S
<1> SUFFICES ASSUME (0..N) \ S # {} PROVE FALSE
  OBVIOUS
<1> DEFINE T == (0..N) \ S
<1>0. T \in SUBSET Nat /\ T # {}
  OBVIOUS
<1>1. PICK n \in T : \A m \in T : n <= m
  <2> HIDE DEF T
  <2> QED BY <1>0, LeastNumber
<1>2. n \in 1..N /\ n - 1 \in 0..N /\ ~(n <= n - 1)
  BY <1>1
<1> QED BY <1>1, <1>2

\* Max is what it says on a bounded set of numbers.
LEMMA GreatestNumber ==
  ASSUME NEW N \in Nat, NEW S \in SUBSET (0..N), S # {}
  PROVE  Max(S) \in S /\ \A y \in S : y <= Max(S)
<1> DEFINE T == {N - x : x \in S}
<1>1. T \in SUBSET Nat /\ T # {}
  <2>1. \A x \in S : N - x \in Nat
    OBVIOUS
  <2> QED BY <2>1
<1>2. PICK n \in T : \A m \in T : n <= m
  <2> HIDE DEF T
  <2> QED BY <1>1, LeastNumber
<1>3. PICK x \in S : n = N - x
  BY <1>2
<1>4. ASSUME NEW y \in S PROVE x >= y
  <2>1. N - y \in T /\ x \in 0..N /\ y \in 0..N
    OBVIOUS
  <2>2. N - x <= N - y
    BY <1>2, <1>3, <2>1
  <2> QED BY <2>1, <2>2
<1>5. Max(S) \in S /\ \A y \in S : Max(S) >= y
  BY <1>4 DEF Max
<1>6. \A y \in S : y \in Int
  OBVIOUS
<1> QED BY <1>5, <1>6

LEMMA OfTwo ==
  ASSUME NEW a \in Int, NEW b \in Int
  PROVE  /\ Max({a, b}) = IF a >= b THEN a ELSE b
         /\ Min({a, b}) = IF a <= b THEN a ELSE b
<1>1. Max({a, b}) \in {a, b} /\ Max({a, b}) >= a /\ Max({a, b}) >= b
  <2>1. \E x \in {a, b} : \A y \in {a, b} : x >= y
    <3>1. CASE a >= b
      BY <3>1
    <3>2. CASE ~(a >= b)
      BY <3>2
    <3> QED BY <3>1, <3>2
  <2> QED BY <2>1 DEF Max
<1>2. Min({a, b}) \in {a, b} /\ Min({a, b}) <= a /\ Min({a, b}) <= b
  <2>1. \E x \in {a, b} : \A y \in {a, b} : x =< y
    <3>1. CASE a <= b
      BY <3>1
    <3>2. CASE ~(a <= b)
      BY <3>2
    <3> QED BY <3>1, <3>2
  <2> QED BY <2>1 DEF Min
<1> QED BY <1>1, <1>2

\* The numbers of a set in order: each once, and all of them.
LEMMA AscendingIs ==
  ASSUME NEW N \in Nat, NEW S \in SUBSET (1..N)
  PROVE  /\ Ascending(S) \in Seq(S) /\ Len(Ascending(S)) = Cardinality(S) /\ Cardinality(S) \in Nat
         /\ DOMAIN Ascending(S) = 1..Cardinality(S)
         /\ \A m, n \in 1..Cardinality(S) : m < n => Ascending(S)[m] < Ascending(S)[n]
         /\ \A i \in S : \E n \in 1..Cardinality(S) : Ascending(S)[n] = i
<1> DEFINE Up(q, T) == /\ q \in [1..Cardinality(T) -> T]
                       /\ \A m, n \in DOMAIN q : m < n => q[m] < q[n]
           G == {n \in 0..N : \A T \in SUBSET (1..n) : \E q : Up(q, T)}
<1>f. ASSUME NEW n \in 0..N, NEW T \in SUBSET (1..n) PROVE IsFiniteSet(T) /\ Cardinality(T) \in Nat
  <2>1. IsFiniteSet(1..n)
    BY FS_Interval
  <2>2. IsFiniteSet(T)
    BY <2>1, FS_Subset
  <2> QED BY <2>2, FS_CardinalityType
<1>1. 0 \in G
  <2>1. ASSUME NEW T \in SUBSET (1..0) PROVE \E q : Up(q, T)
    <3>0. T = {}
      OBVIOUS
    <3>1. Cardinality(T) = 0
      BY <3>0, FS_EmptySet
    <3>2. Up([i \in 1..Cardinality(T) |-> i], T)
      BY <3>1
    <3> QED BY <3>2
  <2> QED BY <2>1
<1>2. ASSUME NEW n \in 1..N, n - 1 \in G PROVE n \in G
  <2>1. ASSUME NEW T \in SUBSET (1..n) PROVE \E q : Up(q, T)
    <3>1. CASE n \notin T
      <4>1. T \in SUBSET (1..(n - 1))
        BY <3>1
      <4> QED BY <1>2, <4>1
    <3>2. CASE n \in T
      <4> DEFINE U == T \ {n}
      <4>1. U \in SUBSET (1..(n - 1))
        OBVIOUS
      <4>2. PICK q : Up(q, U)
        BY <1>2, <4>1
      <4>3. PICK k : k = Cardinality(U)
        OBVIOUS
      <4>4. n \in 0..N
        OBVIOUS
      <4>5. IsFiniteSet(T) /\ n - 1 \in 0..N
        BY <1>f, <4>4
      <4>6. k \in Nat
        BY <1>f, <4>1, <4>3, <4>5
      <4>7. Cardinality(T) = k + 1
        <5>1. Cardinality(U \cup {n}) = k + 1 /\ U \cup {n} = T
          <6>1. IsFiniteSet(U)
            BY <1>f, <4>1, <4>5
          <6> QED BY <6>1, <3>2, <4>3, FS_AddElement
        <5> QED BY <5>1
      <4>8. PICK r : r = [i \in 1..(k + 1) |-> IF i = k + 1 THEN n ELSE q[i]]
        OBVIOUS
      <4>9. q \in [1..k -> U] /\ \A i, j \in 1..k : i < j => q[i] < q[j]
        BY <4>2, <4>3
      <4> HIDE DEF U
      <4>10. \A i \in 1..k : q[i] \in T /\ q[i] \in 1..(n - 1) /\ r[i] = q[i]
        <5> SUFFICES ASSUME NEW i \in 1..k
                     PROVE  q[i] \in T /\ q[i] \in 1..(n - 1) /\ r[i] = q[i]
          OBVIOUS
        <5>1. q[i] \in U
          BY <4>9
        <5>2. i \in 1..(k + 1) /\ i # k + 1
          BY <4>6
        <5>3. q[i] \in T
          BY <5>1 DEF U
        <5> QED BY <5>1, <5>2, <5>3, <4>1, <4>8
      <4>11. r[k + 1] = n /\ \A i \in 1..(k + 1) : i \in 1..k \/ i = k + 1
        BY <4>6, <4>8
      <4>12. r \in [1..(k + 1) -> T]
        BY <3>2, <4>8, <4>10, <4>11
      <4>13. ASSUME NEW i \in 1..(k + 1), NEW j \in 1..(k + 1), i < j PROVE r[i] < r[j]
        <5>1. i \in 1..k
          BY <4>13, <4>6
        <5> QED BY <5>1, <4>9, <4>10, <4>11, <4>13
      <4>14. Up(r, T)
        BY <4>7, <4>12, <4>13
      <4> QED BY <4>14
    <3> QED BY <3>1, <3>2
  <2>2. n \in 0..N
    OBVIOUS
  <2> HIDE DEF Up
  <2> QED BY <2>1, <2>2
<1>3. N \in G
  <2>1. 0..N \subseteq G
    <3> HIDE DEF G
    <3> QED BY <1>1, <1>2, UpTo
  <2> QED BY <2>1
<1>4. PICK q : Up(q, S)
  BY <1>3
<1> DEFINE a == Ascending(S)
           c == Cardinality(S)
<1>5. Up(a, S)
  BY <1>4 DEF Ascending
<1>6. IsFiniteSet(S) /\ c \in Nat
  <2>1. N \in 0..N
    OBVIOUS
  <2> QED BY <1>f, <2>1
<1>7. a \in [1..c -> S] /\ \A m, n \in 1..c : m < n => a[m] < a[n]
  BY <1>5
<1> HIDE DEF a, c
<1>8. a \in Injection(1..c, S)
  <2>1. \A m \in 1..c : a[m] \in Int
    <3>1. \A i \in S : i \in Int
      OBVIOUS
    <3> QED BY <1>7, <3>1
  <2>2. \A m, n \in 1..c : a[m] = a[n] => m = n
    <3> SUFFICES ASSUME NEW m \in 1..c, NEW n \in 1..c, m < n PROVE a[m] # a[n]
      BY <1>6
    <3> QED BY <1>7, <2>1
  <2> QED BY <1>7, <2>2 DEF Injection, IsInjective
<1>9. IsFiniteSet(1..c) /\ Cardinality(1..c) = c
  <2>1. 1 \in Int /\ c \in Int /\ ~(1 > c) => c - 1 + 1 = c
    BY <1>6
  <2>2. IsFiniteSet(1..c) /\ Cardinality(1..c) = IF 1 > c THEN 0 ELSE c - 1 + 1
    BY <1>6, FS_Interval
  <2> QED BY <1>6, <2>1, <2>2
<1>10. a \in Surjection(1..c, S)
  BY <1>6, <1>8, <1>9, FS_Injection DEF c
<1>11. a \in Seq(S) /\ Len(a) = c /\ DOMAIN a = 1..c
  BY <1>6, <1>7
<1>12. \A i \in S : \E n \in 1..c : a[n] = i
  BY <1>10 DEF Surjection
<1> QED BY <1>6, <1>7, <1>11, <1>12 DEF a, c

-----------------------------------------------------------------------------
(* Lists of lines, with separators                                            *)

Streams == {"stdout", "stderr"}
Places == [s : Streams, i : Nat]
Items == [s : {"stdout", "stderr", "--"}, i : Nat, len : Int]

\* q shows the lines at P, each once and in order, and a separator stands
\* between two lines of one stream.
Tells(q, P) ==
  /\ q \in Seq(Items)
  /\ \A n \in DOMAIN q : q[n] # Separator => q[n].s \in Streams /\ Position(q[n]) \in P
  /\ \A p \in P : \E n \in DOMAIN q : q[n] # Separator /\ Position(q[n]) = p
  /\ \A m, n \in DOMAIN q :
       m < n /\ q[m] # Separator /\ q[n] # Separator => Earlier(Position(q[m]), Position(q[n]))
  /\ \A n \in DOMAIN q : q[n] = Separator =>
       /\ n - 1 \in DOMAIN q /\ n + 1 \in DOMAIN q
       /\ q[n - 1] # Separator /\ q[n + 1] # Separator /\ q[n - 1].s = q[n + 1].s
Plainly(q, P) == Tells(q, P) /\ \A n \in DOMAIN q : q[n] # Separator

LEMMA StreamsAre == ToSet(Both) = Streams
BY DEF ToSet, Both, Streams

LEMMA SeparatorIs == Separator \in Items /\ Separator.s = "--" /\ Separator.len = 2 /\ "--" \notin Streams
BY DEF Separator, Items, Streams

LEMMA ConcatIs ==
  ASSUME NEW S, NEW a \in Seq(S), NEW b \in Seq(S)
  PROVE  /\ a \o b \in Seq(S) /\ Len(a \o b) = Len(a) + Len(b) /\ DOMAIN (a \o b) = 1..(Len(a) + Len(b))
         /\ Len(a) \in Nat /\ Len(b) \in Nat /\ DOMAIN a = 1..Len(a) /\ DOMAIN b = 1..Len(b)
         /\ \A n \in 1..Len(a) : (a \o b)[n] = a[n]
         /\ \A n \in 1..Len(b) : (a \o b)[Len(a) + n] = b[n]
         /\ \A n \in 1..(Len(a) + Len(b)) : n \in 1..Len(a) \/ \E k \in 1..Len(b) : n = Len(a) + k
<1>1. /\ a \o b \in Seq(S) /\ Len(a \o b) = Len(a) + Len(b) /\ DOMAIN (a \o b) = 1..(Len(a) + Len(b))
      /\ Len(a) \in Nat /\ Len(b) \in Nat /\ DOMAIN a = 1..Len(a) /\ DOMAIN b = 1..Len(b)
  OBVIOUS
<1>2. /\ \A n \in 1..Len(a) : (a \o b)[n] = a[n]
      /\ \A n \in 1..Len(b) : (a \o b)[Len(a) + n] = b[n]
  OBVIOUS
<1>3. ASSUME NEW n \in 1..(Len(a) + Len(b)), n \notin 1..Len(a)
      PROVE  \E k \in 1..Len(b) : n = Len(a) + k
  <2>1. n - Len(a) \in 1..Len(b) /\ n = Len(a) + (n - Len(a))
    BY <1>1, <1>3
  <2> QED BY <2>1
<1> QED BY <1>1, <1>2, <1>3

\* A list whose lines all come later may follow directly, ...
LEMMA TellsJoin ==
  ASSUME NEW a, NEW P, NEW b, NEW Q, Tells(a, P), Tells(b, Q),
         \A p \in P, r \in Q : Earlier(p, r)
  PROVE  Tells(a \o b, P \cup Q)
<1> DEFINE c == a \o b
           A == Len(a)
           B == Len(b)
<1>1. /\ c \in Seq(Items) /\ DOMAIN c = 1..(A + B) /\ A \in Nat /\ B \in Nat
      /\ DOMAIN a = 1..A /\ DOMAIN b = 1..B
      /\ \A n \in 1..A : c[n] = a[n] /\ n \in 1..(A + B)
      /\ \A n \in 1..B : c[A + n] = b[n] /\ A + n \in 1..(A + B)
      /\ \A n \in 1..(A + B) : n \in 1..A \/ \E k \in 1..B : n = A + k
  <2>1. a \in Seq(Items) /\ b \in Seq(Items)
    BY DEF Tells
  <2>2. A \in Nat /\ B \in Nat
    BY <2>1
  <2>3. (\A n \in 1..A : n \in 1..(A + B)) /\ (\A n \in 1..B : A + n \in 1..(A + B))
    BY <2>2
  <2> QED BY <2>1, <2>3, ConcatIs
<1> HIDE DEF c, A, B
<1>2. ASSUME NEW n \in DOMAIN c, c[n] # Separator
      PROVE  c[n].s \in Streams /\ Position(c[n]) \in P \cup Q
  <2>1. CASE n \in 1..A
    BY <2>1, <1>1, <1>2 DEF Tells
  <2>2. ASSUME NEW k \in 1..B, n = A + k PROVE c[n].s \in Streams /\ Position(c[n]) \in P \cup Q
    BY <2>2, <1>1, <1>2 DEF Tells
  <2> QED BY <2>1, <2>2, <1>1
<1>3. ASSUME NEW p \in P \cup Q
      PROVE  \E n \in DOMAIN c : c[n] # Separator /\ Position(c[n]) = p
  <2>1. CASE p \in P
    <3>1. PICK n \in DOMAIN a : a[n] # Separator /\ Position(a[n]) = p
      BY <2>1 DEF Tells
    <3> QED BY <3>1, <1>1
  <2>2. CASE p \in Q
    <3>1. PICK n \in DOMAIN b : b[n] # Separator /\ Position(b[n]) = p
      BY <2>2 DEF Tells
    <3>2. A + n \in DOMAIN c /\ c[A + n] = b[n]
      BY <3>1, <1>1
    <3> QED BY <3>1, <3>2
  <2> QED BY <2>1, <2>2
<1>4. ASSUME NEW m \in DOMAIN c, NEW n \in DOMAIN c, m < n, c[m] # Separator, c[n] # Separator
      PROVE  Earlier(Position(c[m]), Position(c[n]))
  <2>1. CASE n \in 1..A
    <3>1. m \in 1..A
      BY <2>1, <1>1, <1>4
    <3> QED BY <2>1, <3>1, <1>1, <1>4 DEF Tells
  <2>2. ASSUME NEW k \in 1..B, n = A + k PROVE Earlier(Position(c[m]), Position(c[n]))
    <3>1. CASE m \in 1..A
      <4>1. Position(c[m]) \in P /\ Position(c[n]) \in Q
        BY <2>2, <3>1, <1>1, <1>4 DEF Tells
      <4> QED BY <4>1
    <3>2. ASSUME NEW l \in 1..B, m = A + l PROVE Earlier(Position(c[m]), Position(c[n]))
      <4>1. l < k
        BY <2>2, <3>2, <1>1, <1>4
      <4>2. c[m] = b[l] /\ c[n] = b[k]
        BY <2>2, <3>2, <1>1
      <4>3. \A x, y \in 1..B : x < y /\ b[x] # Separator /\ b[y] # Separator =>
                                Earlier(Position(b[x]), Position(b[y]))
        BY <1>1 DEF Tells
      <4>4. b[l] # Separator /\ b[k] # Separator
        BY <4>2, <1>4
      <4>5. Earlier(Position(b[l]), Position(b[k]))
        BY <4>1, <4>3, <4>4
      <4> QED BY <4>2, <4>5
    <3>3. m \in 1..A \/ \E l \in 1..B : m = A + l
      BY <1>1
    <3> QED BY <3>1, <3>2, <3>3
  <2> QED BY <2>1, <2>2, <1>1
<1>5. ASSUME NEW n \in DOMAIN c, c[n] = Separator
      PROVE  /\ n - 1 \in DOMAIN c /\ n + 1 \in DOMAIN c
             /\ c[n - 1] # Separator /\ c[n + 1] # Separator /\ c[n - 1].s = c[n + 1].s
  <2>1. CASE n \in 1..A
    <3>1. /\ n - 1 \in 1..A /\ n + 1 \in 1..A
          /\ a[n - 1] # Separator /\ a[n + 1] # Separator /\ a[n - 1].s = a[n + 1].s
      BY <2>1, <1>1, <1>5 DEF Tells
    <3> QED BY <3>1, <1>1
  <2>2. ASSUME NEW k \in 1..B, n = A + k
        PROVE  /\ n - 1 \in DOMAIN c /\ n + 1 \in DOMAIN c
               /\ c[n - 1] # Separator /\ c[n + 1] # Separator /\ c[n - 1].s = c[n + 1].s
    <3>1. /\ k - 1 \in 1..B /\ k + 1 \in 1..B
          /\ b[k - 1] # Separator /\ b[k + 1] # Separator /\ b[k - 1].s = b[k + 1].s
      BY <2>2, <1>1, <1>5 DEF Tells
    <3>2. n - 1 = A + (k - 1) /\ n + 1 = A + (k + 1)
      BY <2>2, <1>1
    <3> QED BY <3>1, <3>2, <1>1
  <2> QED BY <2>1, <2>2, <1>1
<1> QED BY <1>1, <1>2, <1>3, <1>4, <1>5 DEF Tells, c

\* Without separators there are none in the whole.
LEMMA PlainJoin ==
  ASSUME NEW a, NEW P, NEW b, NEW Q, Plainly(a, P), Plainly(b, Q),
         \A p \in P, r \in Q : Earlier(p, r)
  PROVE  Plainly(a \o b, P \cup Q)
<1>1. Tells(a \o b, P \cup Q)
  BY TellsJoin DEF Plainly
<1>2. a \in Seq(Items) /\ b \in Seq(Items)
  BY DEF Plainly, Tells
<1>3. \A n \in DOMAIN (a \o b) : (a \o b)[n] # Separator
  BY <1>2, ConcatIs DEF Plainly
<1> QED BY <1>1, <1>3 DEF Plainly

\* ... or, when it goes on in the same stream, after a separator.
LEMMA TellsApart ==
  ASSUME NEW a, NEW P, NEW b, NEW Q, Tells(a, P), Tells(b, Q),
         \A p \in P, r \in Q : Earlier(p, r),
         a # <<>>, b # <<>>, a[Len(a)].s = b[1].s
  PROVE  Tells((a \o <<Separator>>) \o b, P \cup Q)
<1> DEFINE c == (a \o <<Separator>>) \o b
           A == Len(a)
           B == Len(b)
<1>1. /\ c \in Seq(Items) /\ DOMAIN c = 1..(A + 1 + B) /\ A \in Nat \ {0} /\ B \in Nat \ {0}
      /\ DOMAIN a = 1..A /\ DOMAIN b = 1..B
      /\ \A n \in 1..A : c[n] = a[n] /\ n \in 1..(A + 1 + B)
      /\ c[A + 1] = Separator /\ A + 1 \in 1..(A + 1 + B)
      /\ \A n \in 1..B : c[A + 1 + n] = b[n] /\ A + 1 + n \in 1..(A + 1 + B)
      /\ \A n \in 1..(A + 1 + B) : n \in 1..A \/ n = A + 1 \/ \E k \in 1..B : n = A + 1 + k
  <2>1. a \in Seq(Items) /\ b \in Seq(Items) /\ <<Separator>> \in Seq(Items) /\ Len(<<Separator>>) = 1
        /\ <<Separator>>[1] = Separator
    BY SeparatorIs DEF Tells
  <2>2. A \in Nat \ {0} /\ B \in Nat \ {0}
    BY <2>1
  <2>3. /\ \A n \in 1..A : n \in 1..(A + 1 + B)
        /\ A + 1 \in 1..(A + 1 + B)
        /\ \A n \in 1..B : A + 1 + n \in 1..(A + 1 + B)
        /\ \A n \in 1..A : n \in 1..(A + 1)
        /\ A + 1 \in 1..(A + 1)
    BY <2>2
  <2> DEFINE d == a \o <<Separator>>
  <2>4. /\ d \in Seq(Items) /\ Len(d) = A + 1 /\ d[A + 1] = Separator
        /\ \A n \in 1..A : d[n] = a[n]
        /\ \A n \in 1..(A + 1) : n \in 1..A \/ n = A + 1
    <3>1. 1 \in 1..1 /\ \A n \in 1..(A + 1) : n \in 1..A \/ n = A + 1
      BY <2>2
    <3> QED BY <2>1, <3>1, ConcatIs
  <2> HIDE DEF d
  <2>5. /\ d \o b \in Seq(Items) /\ DOMAIN (d \o b) = 1..(A + 1 + B) /\ DOMAIN a = 1..A /\ DOMAIN b = 1..B
        /\ \A n \in 1..(A + 1) : (d \o b)[n] = d[n]
        /\ \A n \in 1..B : (d \o b)[A + 1 + n] = b[n]
        /\ \A n \in 1..(A + 1 + B) : n \in 1..(A + 1) \/ \E k \in 1..B : n = A + 1 + k
    <3>1. /\ d \o b \in Seq(Items) /\ DOMAIN (d \o b) = 1..(Len(d) + Len(b))
          /\ DOMAIN a = 1..A /\ DOMAIN b = 1..B
          /\ \A n \in 1..Len(d) : (d \o b)[n] = d[n]
          /\ \A n \in 1..Len(b) : (d \o b)[Len(d) + n] = b[n]
          /\ \A n \in 1..(Len(d) + Len(b)) : n \in 1..Len(d) \/ \E k \in 1..Len(b) : n = Len(d) + k
      <4>1. DOMAIN a = 1..A /\ DOMAIN b = 1..B
        BY <2>1
      <4>2. d \in Seq(Items) /\ b \in Seq(Items)
        BY <2>1, <2>4
      <4>3. /\ d \o b \in Seq(Items) /\ Len(d \o b) = Len(d) + Len(b) /\ DOMAIN (d \o b) = 1..(Len(d) + Len(b))
            /\ Len(d) \in Nat /\ Len(b) \in Nat /\ DOMAIN d = 1..Len(d) /\ DOMAIN b = 1..Len(b)
            /\ \A n \in 1..Len(d) : (d \o b)[n] = d[n]
            /\ \A n \in 1..Len(b) : (d \o b)[Len(d) + n] = b[n]
            /\ \A n \in 1..(Len(d) + Len(b)) : n \in 1..Len(d) \/ \E k \in 1..Len(b) : n = Len(d) + k
        BY <4>2, ConcatIs
      <4> QED BY <4>1, <4>3
    <3>2. Len(b) = B
      BY DEF B
    <3> QED BY <2>4, <3>1, <3>2
  <2>6. c = d \o b
    BY DEF d
  <2> HIDE DEF c, A, B
  <2> QED BY <2>2, <2>3, <2>4, <2>5, <2>6
<1> HIDE DEF c, A, B
<1>2. ASSUME NEW n \in DOMAIN c, c[n] # Separator
      PROVE  c[n].s \in Streams /\ Position(c[n]) \in P \cup Q
  <2>1. CASE n \in 1..A
    BY <2>1, <1>1, <1>2 DEF Tells
  <2>2. ASSUME NEW k \in 1..B, n = A + 1 + k PROVE c[n].s \in Streams /\ Position(c[n]) \in P \cup Q
    BY <2>2, <1>1, <1>2 DEF Tells
  <2> QED BY <2>1, <2>2, <1>1, <1>2
<1>3. ASSUME NEW p \in P \cup Q
      PROVE  \E n \in DOMAIN c : c[n] # Separator /\ Position(c[n]) = p
  <2>1. CASE p \in P
    <3>1. PICK n \in DOMAIN a : a[n] # Separator /\ Position(a[n]) = p
      BY <2>1 DEF Tells
    <3> QED BY <3>1, <1>1
  <2>2. CASE p \in Q
    <3>1. PICK n \in DOMAIN b : b[n] # Separator /\ Position(b[n]) = p
      BY <2>2 DEF Tells
    <3>2. A + 1 + n \in DOMAIN c /\ c[A + 1 + n] = b[n]
      BY <3>1, <1>1
    <3> QED BY <3>1, <3>2
  <2> QED BY <2>1, <2>2
<1>4. ASSUME NEW m \in DOMAIN c, NEW n \in DOMAIN c, m < n, c[m] # Separator, c[n] # Separator
      PROVE  Earlier(Position(c[m]), Position(c[n]))
  <2>1. CASE n \in 1..A
    <3>1. m \in 1..A
      BY <2>1, <1>1, <1>4
    <3> QED BY <2>1, <3>1, <1>1, <1>4 DEF Tells
  <2>2. ASSUME NEW k \in 1..B, n = A + 1 + k PROVE Earlier(Position(c[m]), Position(c[n]))
    <3>1. CASE m \in 1..A
      <4>1. Position(c[m]) \in P /\ Position(c[n]) \in Q
        BY <2>2, <3>1, <1>1, <1>4 DEF Tells
      <4> QED BY <4>1
    <3>2. ASSUME NEW l \in 1..B, m = A + 1 + l PROVE Earlier(Position(c[m]), Position(c[n]))
      <4>1. l < k
        BY <2>2, <3>2, <1>1, <1>4
      <4>2. c[m] = b[l] /\ c[n] = b[k]
        BY <2>2, <3>2, <1>1
      <4>3. \A x, y \in 1..B : x < y /\ b[x] # Separator /\ b[y] # Separator =>
                                Earlier(Position(b[x]), Position(b[y]))
        BY <1>1 DEF Tells
      <4>4. b[l] # Separator /\ b[k] # Separator
        BY <4>2, <1>4
      <4>5. Earlier(Position(b[l]), Position(b[k]))
        BY <4>1, <4>3, <4>4
      <4> QED BY <4>2, <4>5
    <3>3. m \in 1..A \/ \E l \in 1..B : m = A + 1 + l
      BY <1>1, <1>4
    <3> QED BY <3>1, <3>2, <3>3
  <2> QED BY <2>1, <2>2, <1>1, <1>4
<1>5. ASSUME NEW n \in DOMAIN c, c[n] = Separator
      PROVE  /\ n - 1 \in DOMAIN c /\ n + 1 \in DOMAIN c
             /\ c[n - 1] # Separator /\ c[n + 1] # Separator /\ c[n - 1].s = c[n + 1].s
  <2>1. CASE n \in 1..A
    <3>1. /\ n - 1 \in 1..A /\ n + 1 \in 1..A
          /\ a[n - 1] # Separator /\ a[n + 1] # Separator /\ a[n - 1].s = a[n + 1].s
      BY <2>1, <1>1, <1>5 DEF Tells
    <3> QED BY <3>1, <1>1
  <2>2. ASSUME NEW k \in 1..B, n = A + 1 + k
        PROVE  /\ n - 1 \in DOMAIN c /\ n + 1 \in DOMAIN c
               /\ c[n - 1] # Separator /\ c[n + 1] # Separator /\ c[n - 1].s = c[n + 1].s
    <3>1. /\ k - 1 \in 1..B /\ k + 1 \in 1..B
          /\ b[k - 1] # Separator /\ b[k + 1] # Separator /\ b[k - 1].s = b[k + 1].s
      BY <2>2, <1>1, <1>5 DEF Tells
    <3>2. n - 1 = A + 1 + (k - 1) /\ n + 1 = A + 1 + (k + 1)
      BY <2>2, <1>1
    <3> QED BY <3>1, <3>2, <1>1
  <2>3. CASE n = A + 1
    <3>1. n - 1 = A /\ A \in 1..A /\ n + 1 = A + 1 + 1 /\ 1 \in 1..B /\ A + 1 \notin 1..A /\ 0 \notin 1..B
      BY <2>3, <1>1
    <3>2. a[A] # Separator
      BY <3>1, <1>1 DEF Tells
    <3>3. b[1] # Separator
      <4>1. 1 - 1 = 0
        OBVIOUS
      <4>2. \A l \in 1..B : b[l] = Separator => l - 1 \in 1..B
        BY <1>1 DEF Tells
      <4> QED BY <4>1, <4>2, <3>1
    <3>4. a[A].s = b[1].s
      BY DEF A
    <3> QED BY <3>1, <3>2, <3>3, <3>4, <1>1
  <2> QED BY <2>1, <2>2, <2>3, <1>1
<1> QED BY <1>1, <1>2, <1>3, <1>4, <1>5 DEF Tells, c

-----------------------------------------------------------------------------
(* The lines of a file, and parts of a list                                   *)

ReadLines == [len : Nat, cut : BOOLEAN, hit : Nat, err : Nat, json : Nat, marks : SUBSET Nat]
PlacesOf(s, I) == {[s |-> s, i |-> i] : i \in I}

LEMMA EarlierIs ==
  /\ \A p, r \in Places : Earlier(p, r) => ~Earlier(r, p)
  /\ \A p \in Places : ~Earlier(p, p)
  /\ \A p, r \in Places : p.s = "stdout" /\ r.s = "stderr" => Earlier(p, r)
<1>1. "stdout" # "stderr"
  OBVIOUS
<1>2. \A p \in Places : p.i \in Nat
  BY DEF Places
<1> QED BY <1>1, <1>2 DEF Earlier

\* Any lines of a file, taken in order, tell of themselves.
LEMMA EntriesTell ==
  ASSUME NEW s \in Streams, seen[s] \in Seq(ReadLines), NEW I \in SUBSET (DOMAIN seen[s])
  PROVE  /\ Plainly(Entries(s, Ascending(I)), PlacesOf(s, I))
         /\ Len(Entries(s, Ascending(I))) = Len(Ascending(I))
         /\ \A n \in DOMAIN Entries(s, Ascending(I)) :
              /\ Entries(s, Ascending(I))[n].s = s
              /\ n \in DOMAIN Ascending(I) /\ Ascending(I)[n] \in I
              /\ Position(Entries(s, Ascending(I))[n]) = [s |-> s, i |-> Ascending(I)[n]]
<1> DEFINE N == Len(seen[s])
           q == Ascending(I)
           c == Cardinality(I)
           e == Entries(s, q)
<1>1. N \in Nat /\ DOMAIN seen[s] = 1..N /\ I \in SUBSET (1..N)
  OBVIOUS
<1>2. /\ q \in Seq(I) /\ Len(q) = c /\ c \in Nat /\ DOMAIN q = 1..c
      /\ \A m, n \in 1..c : m < n => q[m] < q[n]
      /\ \A i \in I : \E n \in 1..c : q[n] = i
  <2> HIDE DEF N
  <2> QED BY <1>1, AscendingIs
<1> HIDE DEF q, c
<1>3. \A n \in 1..c : q[n] \in I /\ q[n] \in Nat /\ seen[s][q[n]] \in ReadLines
  BY <1>1, <1>2
<1>4. /\ DOMAIN e = 1..c
      /\ \A n \in 1..c : e[n] = [s |-> s, i |-> q[n], len |-> seen[s][q[n]].len]
  BY <1>2 DEF Entries, Entry
<1>5. \A n \in 1..c : e[n] \in Items
  BY <1>3, <1>4 DEF Items, ReadLines, Streams
<1>6. e \in Seq(Items) /\ Len(e) = c
  BY <1>2, <1>4, <1>5 DEF Entries
<1> HIDE DEF e
<1>7. \A n \in 1..c : /\ e[n].s = s /\ e[n].i = q[n] /\ e[n] # Separator
                      /\ Position(e[n]) = [s |-> s, i |-> q[n]]
  BY <1>4, SeparatorIs DEF Position
<1>8. \A m, n \in 1..c : m < n => Earlier(Position(e[m]), Position(e[n]))
  <2> SUFFICES ASSUME NEW m \in 1..c, NEW n \in 1..c, m < n
               PROVE  Earlier(Position(e[m]), Position(e[n]))
    OBVIOUS
  <2>1. /\ Position(e[m]).s = s /\ Position(e[m]).i = q[m]
        /\ Position(e[n]).s = s /\ Position(e[n]).i = q[n]
    <3>1. e[m].s = s /\ e[m].i = q[m] /\ e[n].s = s /\ e[n].i = q[n]
      BY <1>7
    <3> QED BY <3>1 DEF Position
  <2>2. q[m] < q[n]
    BY <1>2
  <2> QED BY <2>1, <2>2 DEF Earlier
<1>9. \A p \in PlacesOf(s, I) : \E n \in 1..c : Position(e[n]) = p
  BY <1>2, <1>7 DEF PlacesOf
<1>10. \A n \in 1..c : Position(e[n]) \in PlacesOf(s, I)
  BY <1>3, <1>7 DEF PlacesOf
<1>11. Plainly(e, PlacesOf(s, I))
  BY <1>4, <1>6, <1>7, <1>8, <1>9, <1>10 DEF Plainly, Tells
<1> QED BY <1>2, <1>3, <1>4, <1>6, <1>7, <1>11 DEF e, q

\* How many of the lines of a list come after, and before, its k-th.
LEMMA Ranks ==
  ASSUME NEW q, NEW P \in SUBSET Places, Plainly(q, P), NEW k \in DOMAIN q
  PROVE  /\ Cardinality({r \in P : Earlier(Position(q[k]), r)}) = Len(q) - k
         /\ Cardinality({r \in P : Earlier(r, Position(q[k]))}) = k - 1
<1> DEFINE N == Len(q)
           pos(j) == Position(q[j])
<1>1. N \in Nat /\ DOMAIN q = 1..N /\ k \in 1..N
  BY DEF Plainly, Tells
<1>2. \A j \in 1..N : pos(j) \in P /\ pos(j) \in Places
  BY <1>1 DEF Plainly, Tells
<1>3. \A i, j \in 1..N : i < j => Earlier(pos(i), pos(j))
  BY <1>1 DEF Plainly, Tells
<1>4. \A p \in P : \E j \in 1..N : pos(j) = p
  BY <1>1 DEF Plainly, Tells
<1> HIDE DEF N, pos
<1>5. \A i, j \in 1..N : Earlier(pos(i), pos(j)) => i < j
  <2> SUFFICES ASSUME NEW i \in 1..N, NEW j \in 1..N, Earlier(pos(i), pos(j)), ~(i < j) PROVE FALSE
    OBVIOUS
  <2>1. i = j \/ j < i
    BY <1>1
  <2>2. CASE i = j
    BY <2>2, <1>2, EarlierIs
  <2>3. CASE j < i
    BY <2>3, <1>2, <1>3, EarlierIs
  <2> QED BY <2>1, <2>2, <2>3
<1>6. \A i, j \in 1..N : pos(i) = pos(j) => i = j
  <2> SUFFICES ASSUME NEW i \in 1..N, NEW j \in 1..N, i < j PROVE pos(i) # pos(j)
    BY <1>1
  <2> QED BY <1>2, <1>3, EarlierIs
<1>7. ASSUME NEW a \in 1..(N + 1), NEW b \in 0..N, a <= b + 1,
             NEW A, A = {r \in P : \E j \in a..b : r = pos(j)}
      PROVE  Cardinality(A) = b - a + 1
  <2>1. PICK f : f = [j \in a..b |-> pos(j)]
    OBVIOUS
  <2>2. \A j \in a..b : j \in 1..N
    BY <1>1
  <2>3. f \in Surjection(a..b, A)
    BY <1>2, <1>7, <2>1, <2>2 DEF Surjection
  <2>4. f \in Injection(a..b, A)
    BY <1>2, <1>6, <1>7, <2>1, <2>2 DEF Injection, IsInjective
  <2>5. IsFiniteSet(a..b) /\ Cardinality(a..b) = IF a > b THEN 0 ELSE b - a + 1
    <3>1. a \in Int /\ b \in Int
      BY <1>1
    <3> QED BY <3>1, FS_Interval
  <2>6. Cardinality(A) = Cardinality(a..b)
    BY <2>3, <2>4, <2>5, FS_Surjection
  <2>7. a > b => b - a + 1 = 0
    BY <1>1, <1>7
  <2> QED BY <2>5, <2>6, <2>7
<1>8. {r \in P : Earlier(pos(k), r)} = {r \in P : \E j \in (k + 1)..N : r = pos(j)}
  <2>1. \A j \in 1..N : k < j <=> j \in (k + 1)..N
    BY <1>1
  <2>2. \A j \in (k + 1)..N : j \in 1..N
    BY <1>1
  <2> QED BY <1>1, <1>3, <1>4, <1>5, <2>1, <2>2
<1>9. {r \in P : Earlier(r, pos(k))} = {r \in P : \E j \in 1..(k - 1) : r = pos(j)}
  <2>1. \A j \in 1..N : j < k <=> j \in 1..(k - 1)
    BY <1>1
  <2>2. \A j \in 1..(k - 1) : j \in 1..N
    BY <1>1
  <2> QED BY <1>1, <1>3, <1>4, <1>5, <2>1, <2>2
<1>10. Cardinality({r \in P : Earlier(pos(k), r)}) = N - k
  <2>1. k + 1 \in 1..(N + 1) /\ N \in 0..N /\ k + 1 <= N + 1 /\ N - (k + 1) + 1 = N - k
    BY <1>1
  <2> QED BY <1>7, <1>8, <2>1
<1>11. Cardinality({r \in P : Earlier(r, pos(k))}) = k - 1
  <2>1. 1 \in 1..(N + 1) /\ k - 1 \in 0..N /\ 1 <= (k - 1) + 1 /\ (k - 1) - 1 + 1 = k - 1
    BY <1>1
  <2> QED BY <1>7, <1>9, <2>1
<1> QED BY <1>10, <1>11 DEF N, pos

\* A stretch of a list tells of the places it covers, ...
LEMMA SliceTells ==
  ASSUME NEW q, NEW P, Plainly(q, P), NEW d \in Nat, NEW e \in Nat, d <= e, e <= Len(q)
  PROVE  Plainly(SubSeq(q, d + 1, e), {p \in P : \E k \in (d + 1)..e : Position(q[k]) = p})
<1> DEFINE N == Len(q)
           r == SubSeq(q, d + 1, e)
<1>1. q \in Seq(Items) /\ N \in Nat /\ DOMAIN q = 1..N
  BY DEF Plainly, Tells
<1>2. /\ r \in Seq(Items) /\ DOMAIN r = 1..(e - d)
      /\ \A i \in 1..(e - d) : r[i] = q[d + i] /\ d + i \in 1..N /\ d + i \in (d + 1)..e
  <2>1. \A i \in 1..(e - d) : d + i \in 1..N /\ d + i \in (d + 1)..e /\ (d + 1) + i - 1 = d + i
    BY <1>1
  <2>2. r = [i \in 1..(e - d) |-> q[d + i]]
    <3>1. e - (d + 1) + 1 = e - d
      OBVIOUS
    <3> QED BY <1>1, <2>1, <3>1
  <2>3. e - d \in Nat
    OBVIOUS
  <2>4. \A i \in 1..(e - d) : q[d + i] \in Items
    BY <1>1, <2>1
  <2>5. r \in Seq(Items)
    <3>1. PICK c : c = e - d
      OBVIOUS
    <3>2. r = [i \in 1..c |-> q[d + i]] /\ c \in Nat /\ \A i \in 1..c : q[d + i] \in Items
      BY <2>2, <2>3, <2>4, <3>1
    <3> HIDE DEF r
    <3> QED BY <3>2
  <2>6. DOMAIN r = 1..(e - d) /\ \A i \in 1..(e - d) : r[i] = q[d + i]
    BY <2>2
  <2> HIDE DEF r, N
  <2> QED BY <2>1, <2>5, <2>6
<1> HIDE DEF r, N
<1>3. \A k \in (d + 1)..e : k - d \in 1..(e - d) /\ d + (k - d) = k
  OBVIOUS
<1>4. \A i \in 1..N : q[i] # Separator /\ q[i].s \in Streams /\ Position(q[i]) \in P
  BY <1>1 DEF Plainly, Tells
<1>5. \A i, j \in 1..N : i < j => Earlier(Position(q[i]), Position(q[j]))
  BY <1>1 DEF Plainly, Tells
<1>6. \A i, j \in 1..(e - d) : i < j => Earlier(Position(r[i]), Position(r[j]))
  <2> SUFFICES ASSUME NEW i \in 1..(e - d), NEW j \in 1..(e - d), i < j
               PROVE  Earlier(Position(r[i]), Position(r[j]))
    OBVIOUS
  <2>1. d + i < d + j
    OBVIOUS
  <2> QED BY <1>2, <1>5, <2>1
<1> DEFINE Q == {p \in P : \E k \in (d + 1)..e : Position(q[k]) = p}
<1>7. \A i \in 1..(e - d) : r[i] # Separator /\ r[i].s \in Streams /\ Position(r[i]) \in Q
  BY <1>2, <1>4
<1>8. \A p \in Q : \E i \in 1..(e - d) : Position(r[i]) = p
  <2> SUFFICES ASSUME NEW p \in Q PROVE \E i \in 1..(e - d) : Position(r[i]) = p
    OBVIOUS
  <2>1. PICK k \in (d + 1)..e : Position(q[k]) = p
    OBVIOUS
  <2>2. k - d \in 1..(e - d) /\ r[k - d] = q[k]
    BY <1>2, <1>3
  <2> QED BY <2>1, <2>2
<1> HIDE DEF Q
<1>9. Plainly(r, Q)
  BY <1>2, <1>6, <1>7, <1>8 DEF Plainly, Tells
<1> QED BY <1>9 DEF r, Q

\* ... and lastN keeps the last n of them.
LEMMA LastTells ==
  ASSUME NEW q, NEW P \in SUBSET Places, Plainly(q, P), NEW n \in Nat
  PROVE  Plainly(LastLines(q, n), LastOf(P, n))
<1> DEFINE N == Len(q)
           d == IF N <= n THEN 0 ELSE N - n
<1>1. N \in Nat /\ DOMAIN q = 1..N
  BY DEF Plainly, Tells
<1>2. d \in Nat /\ d <= N
  BY <1>1
<1>3. Max({1, N - n + 1}) = d + 1
  <2>1. 1 \in Int /\ N - n + 1 \in Int
    BY <1>1
  <2>2. Max({1, N - n + 1}) = IF 1 >= N - n + 1 THEN 1 ELSE N - n + 1
    BY <2>1, OfTwo
  <2> QED BY <1>1, <2>2
<1>4. LastLines(q, n) = SubSeq(q, d + 1, N)
  BY <1>3 DEF LastLines
<1>5. \A k \in 1..N : k \in (d + 1)..N <=> N - k < n
  BY <1>1
<1>6. \A k \in 1..N : Cardinality({r \in P : Earlier(Position(q[k]), r)}) = N - k
  BY <1>1, Ranks
<1>7. \A p \in P : \E k \in 1..N : Position(q[k]) = p
  BY <1>1 DEF Plainly, Tells
<1> HIDE DEF d
<1>8. LastOf(P, n) = {p \in P : \E k \in (d + 1)..N : Position(q[k]) = p}
  <2>1. \A k \in (d + 1)..N : k \in 1..N
    BY <1>1, <1>2
  <2>2. ASSUME NEW p \in P
        PROVE  Cardinality({r \in P : Earlier(p, r)}) < n
                 <=> \E k \in (d + 1)..N : Position(q[k]) = p
    <3>1. CASE Cardinality({r \in P : Earlier(p, r)}) < n
      <4>1. PICK k \in 1..N : Position(q[k]) = p
        BY <1>7
      <4>2. N - k < n
        BY <1>6, <3>1, <4>1
      <4> QED BY <1>5, <4>1, <4>2, <3>1
    <3>2. ASSUME NEW k \in (d + 1)..N, Position(q[k]) = p
          PROVE  Cardinality({r \in P : Earlier(p, r)}) < n
      <4>1. k \in 1..N /\ N - k < n
        BY <1>5, <2>1
      <4> QED BY <1>6, <3>2, <4>1
    <3> QED BY <3>1, <3>2
  <2> QED BY <2>2 DEF LastOf
<1>9. Plainly(SubSeq(q, d + 1, N), {p \in P : \E k \in (d + 1)..N : Position(q[k]) = p})
  BY <1>1, <1>2, SliceTells
<1> QED BY <1>4, <1>8, <1>9

-----------------------------------------------------------------------------
(* The readers but Grep                                                       *)

SeenHeld == \A s \in Streams : seen[s] \in Seq(ReadLines) /\ Len(seen[s]) <= MaxWritten
FileLines(s) == DOMAIN seen[s]

\* What was read, line by line.
LEMMA LinesAre ==
  ASSUME SeenHeld
  PROVE  /\ Lines \subseteq Places
         /\ \A p : p \in Lines <=> /\ p = [s |-> p.s, i |-> p.i]
                                   /\ p.s \in Streams /\ p.i \in FileLines(p.s)
         /\ \A s \in Streams : \A i : [s |-> s, i |-> i] \in Lines <=> i \in FileLines(s)
<1>1. \A s \in Streams : FileLines(s) = 1..Len(seen[s]) /\ Len(seen[s]) \in Nat /\ Len(seen[s]) <= MaxWritten
  BY DEF SeenHeld, FileLines
<1>2. MaxWritten \in Nat
  BY LogReadAssumption
<1>3. \A s \in Streams : \A i : i \in FileLines(s) <=> i \in 1..MaxWritten /\ i <= Len(seen[s])
  BY <1>1, <1>2
<1>4. \A s \in Streams : \A i : [s |-> s, i |-> i] \in Lines <=> i \in FileLines(s)
  <2> SUFFICES ASSUME NEW s \in Streams, NEW i PROVE [s |-> s, i |-> i] \in Lines <=> i \in FileLines(s)
    OBVIOUS
  <2>1. PICK p : p = [s |-> s, i |-> i]
    OBVIOUS
  <2>2. p.s = s /\ p.i = i
    BY <2>1
  <2>3. p \in Positions <=> i \in 1..MaxWritten
    <3>1. ASSUME p \in Positions PROVE i \in 1..MaxWritten
      <4>1. PICK t \in ToSet(Both), j \in 1..MaxWritten : p = [s |-> t, i |-> j]
        BY <3>1 DEF Positions
      <4> QED BY <2>2, <4>1
    <3>2. ASSUME i \in 1..MaxWritten PROVE p \in Positions
      BY <2>1, <3>2, StreamsAre DEF Positions
    <3> QED BY <3>1, <3>2
  <2>4. p \in Lines <=> p \in Positions /\ p.i <= Len(seen[p.s])
    BY DEF Lines
  <2>5. p \in Lines <=> i \in 1..MaxWritten /\ i <= Len(seen[s])
    BY <2>2, <2>3, <2>4
  <2> QED BY <1>3, <2>1, <2>5
<1>5. \A p \in Lines : p = [s |-> p.s, i |-> p.i] /\ p.s \in Streams
  BY StreamsAre DEF Lines, Positions
<1>6. \A p : p \in Lines <=> /\ p = [s |-> p.s, i |-> p.i]
                             /\ p.s \in Streams /\ p.i \in FileLines(p.s)
  BY <1>4, <1>5
<1>7. \A s \in Streams : \A i \in FileLines(s) : i \in Nat
  BY <1>1
<1>8. Lines \subseteq Places
  BY <1>6, <1>7 DEF Places
<1> QED BY <1>4, <1>6, <1>8

LEMMA PlacesAre ==
  ASSUME SeenHeld, NEW s \in Streams, NEW I \in SUBSET FileLines(s)
  PROVE  /\ PlacesOf(s, I) \subseteq Places /\ PlacesOf(s, I) \subseteq Lines
         /\ \A p : p \in PlacesOf(s, I) <=> p \in Lines /\ p.s = s /\ p.i \in I
<1>1. \A p \in PlacesOf(s, I) : p \in Lines /\ p.s = s /\ p.i \in I
  BY LinesAre DEF PlacesOf
<1>2. ASSUME NEW p \in Lines, p.s = s, p.i \in I PROVE p \in PlacesOf(s, I)
  <2>1. p = [s |-> s, i |-> p.i]
    BY <1>2, LinesAre
  <2> QED BY <1>2, <2>1 DEF PlacesOf
<1> QED BY <1>1, <1>2, LinesAre

LEMMA StreamsApart ==
  ASSUME SeenHeld, NEW I \in SUBSET FileLines("stdout"), NEW J \in SUBSET FileLines("stderr")
  PROVE  \A p \in PlacesOf("stdout", I), r \in PlacesOf("stderr", J) : Earlier(p, r)
<1>1. "stdout" \in Streams /\ "stderr" \in Streams
  BY DEF Streams
<1> QED BY <1>1, PlacesAre, EarlierIs

\* Lines picked from stdout, then lines picked from stderr.
LEMMA BothFiles ==
  ASSUME SeenHeld, NEW I \in SUBSET FileLines("stdout"), NEW J \in SUBSET FileLines("stderr")
  PROVE  Plainly(Entries("stdout", Ascending(I)) \o Entries("stderr", Ascending(J)),
                 PlacesOf("stdout", I) \cup PlacesOf("stderr", J))
<1>1. "stdout" \in Streams /\ "stderr" \in Streams
  BY DEF Streams
<1>2. Plainly(Entries("stdout", Ascending(I)), PlacesOf("stdout", I))
  BY <1>1, EntriesTell DEF SeenHeld, FileLines
<1>3. Plainly(Entries("stderr", Ascending(J)), PlacesOf("stderr", J))
  BY <1>1, EntriesTell DEF SeenHeld, FileLines
<1> QED BY <1>2, <1>3, StreamsApart, PlainJoin

LEMMA ErrorsTell ==
  ASSUME SeenHeld, NEW n \in Nat
  PROVE  Tells(Errors(n), LastOf({p \in Lines : Line(p).err > 0}, n))
<1> DEFINE I(s) == {i \in FileLines(s) : seen[s][i].err > 0}
           P == PlacesOf("stdout", I("stdout")) \cup PlacesOf("stderr", I("stderr"))
           q == Entries("stdout", Ascending(I("stdout"))) \o Entries("stderr", Ascending(I("stderr")))
<1>1. Errors(n) = LastLines(q, n)
  BY DEF Errors, AllStreams, Selected, FileLines
<1>2. "stdout" \in Streams /\ "stderr" \in Streams /\ \A s \in Streams : s = "stdout" \/ s = "stderr"
  BY DEF Streams
<1>3. \A s : I(s) \in SUBSET FileLines(s)
  OBVIOUS
<1>4. \A s \in Streams : \A p \in Lines : p.s = s => (p.i \in I(s) <=> Line(p).err > 0)
  BY LinesAre DEF Line
<1> HIDE DEF I
<1>5. Plainly(q, P)
  BY <1>3, BothFiles
<1>6. P = {p \in Lines : Line(p).err > 0} /\ P \subseteq Places
  <2>1. \A s \in Streams : /\ PlacesOf(s, I(s)) \subseteq Places
                           /\ \A p : p \in PlacesOf(s, I(s)) <=> p \in Lines /\ p.s = s /\ p.i \in I(s)
    BY <1>3, PlacesAre
  <2>2. \A p \in Lines : p.s \in Streams
    BY LinesAre
  <2> QED BY <1>2, <1>4, <2>1, <2>2
<1> HIDE DEF P, q
<1>7. Plainly(LastLines(q, n), LastOf(P, n))
  BY <1>5, <1>6, LastTells
<1> QED BY <1>1, <1>6, <1>7 DEF Plainly

LEMMA LevelTells ==
  ASSUME SeenHeld, NEW n \in Nat, NEW min
  PROVE  Tells(FilterLevel(min, n), LastOf({p \in Lines : Rank(Line(p)) >= min}, n))
<1> DEFINE I(s) == {i \in FileLines(s) : Rank(seen[s][i]) >= min}
           P == PlacesOf("stdout", I("stdout")) \cup PlacesOf("stderr", I("stderr"))
           q == Entries("stdout", Ascending(I("stdout"))) \o Entries("stderr", Ascending(I("stderr")))
<1>1. FilterLevel(min, n) = LastLines(q, n)
  BY DEF FilterLevel, AllStreams, Selected, FileLines
<1>2. "stdout" \in Streams /\ "stderr" \in Streams /\ \A s \in Streams : s = "stdout" \/ s = "stderr"
  BY DEF Streams
<1>3. \A s : I(s) \in SUBSET FileLines(s)
  OBVIOUS
<1>4. \A s \in Streams : \A p \in Lines : p.s = s => (p.i \in I(s) <=> Rank(Line(p)) >= min)
  BY LinesAre DEF Line
<1> HIDE DEF I
<1>5. Plainly(q, P)
  BY <1>3, BothFiles
<1>6. P = {p \in Lines : Rank(Line(p)) >= min} /\ P \subseteq Places
  <2>1. \A s \in Streams : /\ PlacesOf(s, I(s)) \subseteq Places
                           /\ \A p : p \in PlacesOf(s, I(s)) <=> p \in Lines /\ p.s = s /\ p.i \in I(s)
    BY <1>3, PlacesAre
  <2>2. \A p \in Lines : p.s \in Streams
    BY LinesAre
  <2> QED BY <1>2, <1>4, <2>1, <2>2
<1> HIDE DEF P, q
<1>7. Plainly(LastLines(q, n), LastOf(P, n))
  BY <1>5, <1>6, LastTells
<1> QED BY <1>1, <1>6, <1>7 DEF Plainly

LEMMA LastEntries ==
  ASSUME NEW s, NEW S, NEW q \in Seq(S), NEW n \in Nat
  PROVE  Entries(s, LastLines(q, n)) = LastLines(Entries(s, q), n)
<1> DEFINE N == Len(q)
<1>1. N \in Nat /\ DOMAIN q = 1..N
  OBVIOUS
<1>2. PICK e : e = Entries(s, q)
  OBVIOUS
<1>3. e = [k \in 1..N |-> Entry(s, q[k])] /\ Len(e) = N
  BY <1>1, <1>2 DEF Entries
<1>4. PICK d \in Nat : Max({1, N - n + 1}) = d + 1 /\ d <= N
  <2>1. Max({1, N - n + 1}) = IF 1 >= N - n + 1 THEN 1 ELSE N - n + 1
    <3>1. 1 \in Int /\ N - n + 1 \in Int
      BY <1>1
    <3> QED BY <3>1, OfTwo
  <2>2. CASE 1 >= N - n + 1
    BY <1>1, <2>1, <2>2
  <2>3. CASE ~(1 >= N - n + 1)
    <3>1. N - n \in Nat /\ N - n <= N /\ N - n + 1 = (N - n) + 1
      BY <1>1, <2>3
    <3> QED BY <2>1, <2>3, <3>1
  <2> QED BY <2>2, <2>3
<1>5. LastLines(q, n) = SubSeq(q, d + 1, N) /\ LastLines(e, n) = SubSeq(e, d + 1, N)
  BY <1>3, <1>4 DEF LastLines
<1>6. \A k \in 1..(N - d) : d + k \in 1..N
  BY <1>1, <1>4
<1>7. /\ SubSeq(q, d + 1, N) = [k \in 1..(N - d) |-> q[d + k]]
      /\ SubSeq(e, d + 1, N) = [k \in 1..(N - d) |-> e[d + k]]
  <2>1. N - (d + 1) + 1 = N - d /\ \A k \in 1..(N - d) : (d + 1) + k - 1 = d + k
    BY <1>1, <1>4
  <2> QED BY <1>1, <1>3, <1>4, <2>1
<1>8. PICK t : t = SubSeq(q, d + 1, N)
  OBVIOUS
<1>9. t = [k \in 1..(N - d) |-> q[d + k]]
  BY <1>7, <1>8
<1>10. Entries(s, t) = [k \in 1..(N - d) |-> Entry(s, q[d + k])]
  BY <1>9 DEF Entries
<1>11. \A k \in 1..(N - d) : e[d + k] = Entry(s, q[d + k])
  BY <1>3, <1>6
<1>12. SubSeq(e, d + 1, N) = [k \in 1..(N - d) |-> Entry(s, q[d + k])]
  BY <1>7, <1>11
<1> QED BY <1>2, <1>5, <1>8, <1>10, <1>12

\* Tail counts in each file of its own.
LEMMA TailTells ==
  ASSUME SeenHeld, NEW n \in Nat
  PROVE  Tells(Tail_(n), {p \in Lines : Cardinality({q \in Lines : q.s = p.s /\ Earlier(p, q)}) < n})
<1> DEFINE P(s) == PlacesOf(s, FileLines(s))
           way(s) == LastLines(Entries(s, Ascending(FileLines(s))), n)
<1>1. "stdout" \in Streams /\ "stderr" \in Streams /\ \A s \in Streams : s = "stdout" \/ s = "stderr"
  BY DEF Streams
<1>2. Tail_(n) = way("stdout") \o way("stderr")
  <2>1. \A s \in Streams : Ascending(FileLines(s)) \in Seq(FileLines(s))
    <3> SUFFICES ASSUME NEW s \in Streams PROVE Ascending(FileLines(s)) \in Seq(FileLines(s))
      OBVIOUS
    <3>1. PICK N \in Nat : FileLines(s) = 1..N
      BY DEF SeenHeld, FileLines
    <3>2. FileLines(s) \in SUBSET (1..N)
      BY <3>1
    <3> QED BY <3>2, AscendingIs
  <2>2. \A s : {i \in DOMAIN seen[s] : TRUE} = FileLines(s)
    BY DEF FileLines
  <2>3. Tail_(n) = Entries("stdout", LastLines(Ascending(FileLines("stdout")), n))
                   \o Entries("stderr", LastLines(Ascending(FileLines("stderr")), n))
    BY <2>2 DEF Tail_, AllStreams, Selected
  <2>4. \A s \in Streams : Entries(s, LastLines(Ascending(FileLines(s)), n)) = way(s)
    BY <2>1, LastEntries
  <2> QED BY <1>1, <2>3, <2>4
<1>3. ASSUME NEW s \in Streams
      PROVE  P(s) \subseteq Places /\ (\A p : p \in P(s) <=> p \in Lines /\ p.s = s)
  <2>1. FileLines(s) \in SUBSET FileLines(s)
    OBVIOUS
  <2>2. \A p \in Lines : p.i \in FileLines(p.s)
    BY LinesAre
  <2> QED BY <2>1, <2>2, PlacesAre
<1>4. ASSUME NEW s \in Streams PROVE Plainly(way(s), LastOf(P(s), n))
  <2>1. seen[s] \in Seq(ReadLines) /\ FileLines(s) \in SUBSET (DOMAIN seen[s])
    BY DEF SeenHeld, FileLines
  <2>2. Plainly(Entries(s, Ascending(FileLines(s))), P(s))
    BY <2>1, EntriesTell
  <2> HIDE DEF P
  <2> QED BY <1>3, <2>2, LastTells
<1> HIDE DEF P, way
<1>5. \A p \in LastOf(P("stdout"), n), r \in LastOf(P("stderr"), n) : Earlier(p, r)
  BY <1>1, <1>3, EarlierIs DEF LastOf
<1>6. Plainly(way("stdout") \o way("stderr"), LastOf(P("stdout"), n) \cup LastOf(P("stderr"), n))
  BY <1>1, <1>4, <1>5, PlainJoin
<1>7. ASSUME NEW s \in Streams, NEW p \in P(s)
      PROVE  {q \in Lines : q.s = p.s /\ Earlier(p, q)} = {q \in P(s) : Earlier(p, q)}
  BY <1>3, <1>7
<1>8. \A s \in Streams : LastOf(P(s), n) =
        {p \in P(s) : Cardinality({q \in Lines : q.s = p.s /\ Earlier(p, q)}) < n}
  BY <1>7 DEF LastOf
<1>9. \A p : p \in Lines <=> p \in P("stdout") \/ p \in P("stderr")
  <2>1. \A p \in Lines : p.s \in Streams
    BY LinesAre
  <2> QED BY <1>1, <1>3, <2>1
<1>10. LastOf(P("stdout"), n) \cup LastOf(P("stderr"), n) =
         {p \in Lines : Cardinality({q \in Lines : q.s = p.s /\ Earlier(p, q)}) < n}
  BY <1>1, <1>8, <1>9
<1> QED BY <1>2, <1>6, <1>10 DEF Plainly

-----------------------------------------------------------------------------
(* Grep                                                                       *)

\* The lines of a file within c of one of its first n matches.
Around(s, c, idx, n) == {i \in FileLines(s) : \E k \in 1..n : i \in idx[k] - c .. idx[k] + c}
EndsIn(q, s) == q # <<>> /\ q[Len(q)].s = s

IsRun(run, begin, s, c, idx) ==
  run = [n \in 0..Len(idx) |-> IF n = 0 THEN [out |-> begin, done |-> {}, first |-> TRUE]
                               ELSE AddWindow(run[n - 1], s, idx[n], c)]

\* What the windows of the first n matches have put out, after the lines at P.
WindowHeld(acc, n, s, P, c, idx) ==
  /\ acc.done = Around(s, c, idx, n) /\ (acc.first <=> n = 0)
  /\ Tells(acc.out, P \cup PlacesOf(s, acc.done)) /\ (n > 0 => EndsIn(acc.out, s))

\* A line of a window that no earlier window has shown comes after all those.
LEMMA LaterWindow ==
  ASSUME NEW k \in Nat, NEW m \in Nat, NEW c \in Nat, k < m, NEW i \in Nat, NEW j \in Nat,
         i \in k - c .. k + c, j \in m - c .. m + c, j \notin k - c .. k + c
  PROVE  i < j
OBVIOUS

LEMMA WindowIs ==
  ASSUME NEW L \in Nat, NEW m \in 1..L, NEW c \in Nat
  PROVE  /\ Max({1, m - c}) .. Min({L, m + c}) = {i \in 1..L : i \in m - c .. m + c}
         /\ m \in m - c .. m + c
<1>1. 1 \in Int /\ L \in Int /\ m - c \in Int /\ m + c \in Int
  OBVIOUS
<1>2. /\ Max({1, m - c}) = IF 1 >= m - c THEN 1 ELSE m - c
      /\ Min({L, m + c}) = IF L <= m + c THEN L ELSE m + c
  BY <1>1, OfTwo
<1> QED BY <1>2

LEMMA EndsJoin ==
  ASSUME NEW S, NEW a \in Seq(S), NEW b \in Seq(S), NEW s, EndsIn(b, s)
  PROVE  EndsIn(a \o b, s)
<1>1. Len(b) \in Nat \ {0} /\ Len(a) \in Nat
  BY DEF EndsIn
<1>2. Len(b) \in 1..Len(b) /\ Len(a) + Len(b) # 0
  BY <1>1
<1>3. a \o b \in Seq(S) /\ Len(a \o b) = Len(a) + Len(b) /\ (a \o b)[Len(a) + Len(b)] = b[Len(b)]
  BY <1>2, ConcatIs
<1> QED BY <1>2, <1>3 DEF EndsIn

\* The windows one after the other, as a recursive function that exists.
LEMMA WindowsRun ==
  ASSUME NEW begin, NEW s, NEW c, NEW idx, Len(idx) \in Nat
  PROVE  \E run : /\ IsRun(run, begin, s, c, idx)
                  /\ Windows(begin, s, c, idx) = run[Len(idx)].out
<1> DEFINE N == Len(idx)
           first == [out |-> begin, done |-> {}, first |-> TRUE]
           Upto(r, n) == \A k \in 0..n : r[k] = IF k = 0 THEN first ELSE AddWindow(r[k - 1], s, idx[k], c)
           S == {n \in 0..N : \E r : Upto(r, n)}
<1>1. N \in Nat
  OBVIOUS
<1>2. 0 \in S
  <2>1. PICK r : r = [k \in 0..0 |-> first]
    OBVIOUS
  <2>2. Upto(r, 0)
    BY <2>1
  <2> QED BY <1>1, <2>2
<1>3. ASSUME NEW n \in 1..N, n - 1 \in S PROVE n \in S
  <2>1. PICK r : Upto(r, n - 1)
    BY <1>3
  <2>2. PICK t : t = [k \in 0..n |-> IF k = n THEN AddWindow(r[n - 1], s, idx[n], c) ELSE r[k]]
    OBVIOUS
  <2> HIDE DEF first
  <2>3. ASSUME NEW k \in 0..n
        PROVE  t[k] = IF k = 0 THEN first ELSE AddWindow(t[k - 1], s, idx[k], c)
    <3>1. CASE k = n
      <4>1. k # 0 /\ k - 1 \in 0..n /\ k - 1 # n
        BY <1>1, <3>1
      <4>2. t[k - 1] = r[k - 1] /\ t[k] = AddWindow(r[n - 1], s, idx[n], c)
        BY <2>2, <4>1, <3>1
      <4> QED BY <4>1, <4>2, <3>1
    <3>2. CASE k # n
      <4>1. k \in 0..(n - 1) /\ (k # 0 => k - 1 \in 0..n /\ k - 1 # n)
        BY <1>1, <3>2
      <4>2. t[k] = r[k] /\ (k # 0 => t[k - 1] = r[k - 1])
        BY <2>2, <4>1, <3>2
      <4>3. r[k] = IF k = 0 THEN first ELSE AddWindow(r[k - 1], s, idx[k], c)
        BY <2>1, <4>1
      <4> QED BY <4>2, <4>3
    <3> QED BY <3>1, <3>2
  <2> QED BY <2>3
<1>4. N \in S
  <2>1. 0..N \subseteq S
    <3> HIDE DEF S
    <3> QED BY <1>1, <1>2, <1>3, UpTo
  <2>2. N \in 0..N
    BY <1>1
  <2> HIDE DEF S
  <2> QED BY <2>1, <2>2
<1>5. PICK r : Upto(r, N)
  BY <1>4
<1>6. PICK t : t = [k \in 0..N |-> r[k]]
  OBVIOUS
<1>7. ASSUME NEW k \in 0..N
      PROVE  t[k] = IF k = 0 THEN first ELSE AddWindow(t[k - 1], s, idx[k], c)
  <2> HIDE DEF first
  <2>1. k # 0 => k - 1 \in 0..N
    BY <1>1
  <2> QED BY <1>5, <1>6, <2>1
<1>8. t = [k \in 0..N |-> IF k = 0 THEN first ELSE AddWindow(t[k - 1], s, idx[k], c)]
  <2> HIDE DEF first
  <2> QED BY <1>6, <1>7
<1> DEFINE run == CHOOSE f : f = [n \in 0..Len(idx) |->
                                   IF n = 0 THEN [out |-> begin, done |-> {}, first |-> TRUE]
                                   ELSE AddWindow(f[n - 1], s, idx[n], c)]
<1>9. run = [n \in 0..Len(idx) |-> IF n = 0 THEN [out |-> begin, done |-> {}, first |-> TRUE]
                                   ELSE AddWindow(run[n - 1], s, idx[n], c)]
  BY <1>8
<1>10. Windows(begin, s, c, idx) = run[Len(idx)].out
  BY DEF Windows
<1>11. IsRun(run, begin, s, c, idx)
  BY <1>9 DEF IsRun
<1> QED BY <1>10, <1>11

\* One more match: its window is merged with the last one, or set off from it.
LEMMA AddWindowTells ==
  ASSUME SeenHeld, NEW s \in Streams, NEW P, NEW c \in Nat,
         \A p \in P, r \in PlacesOf(s, FileLines(s)) : Earlier(p, r),
         NEW idx \in Seq(FileLines(s)), \A m, n \in DOMAIN idx : m < n => idx[m] < idx[n],
         NEW n \in DOMAIN idx, NEW acc, WindowHeld(acc, n - 1, s, P, c, idx)
  PROVE  WindowHeld(AddWindow(acc, s, idx[n], c), n, s, P, c, idx)
<1>next. PICK next : next = AddWindow(acc, s, idx[n], c)
  OBVIOUS
<1>acc. /\ acc.done = Around(s, c, idx, n - 1) /\ (acc.first <=> n = 1)
        /\ Tells(acc.out, P \cup PlacesOf(s, acc.done)) /\ (n > 1 => EndsIn(acc.out, s))
  <2>1. n - 1 > 0 <=> n > 1
    OBVIOUS
  <2>2. n - 1 = 0 <=> n = 1
    OBVIOUS
  <2> QED BY <2>1, <2>2 DEF WindowHeld
<1> DEFINE L == Len(seen[s])
           m == idx[n]
           D == acc.done
           win == Max({1, m - c}) .. Min({L, m + c})
           new == Entries(s, Ascending(win \ D))
           gap == c > 0 /\ ~acc.first /\ win \cap D = {} /\ acc.out # <<>>
<1>1. /\ next.out = acc.out \o (IF gap THEN <<Separator>> ELSE <<>>) \o new
      /\ next.done = D \cup win /\ next.first = FALSE
  BY <1>next DEF AddWindow
<1>2. L \in Nat /\ FileLines(s) = 1..L /\ m \in 1..L /\ n \in Nat \ {0} /\ DOMAIN idx = 1..Len(idx)
      /\ \A k \in 1..n : idx[k] \in 1..L
  BY DEF SeenHeld, FileLines
<1>3. win = {i \in 1..L : i \in m - c .. m + c} /\ m \in win
  <2>1. L \in Nat /\ m \in 1..L /\ c \in Nat
    BY <1>2
  <2> HIDE DEF m, L
  <2>2. /\ Max({1, m - c}) .. Min({L, m + c}) = {i \in 1..L : i \in m - c .. m + c}
        /\ m \in m - c .. m + c
    BY <2>1, WindowIs
  <2> QED BY <2>1, <2>2
<1>4. D \cup win = Around(s, c, idx, n)
  <2>1. \A k \in 1..n : k \in 1..(n - 1) \/ k = n
    BY <1>2
  <2>2. \A k \in 1..(n - 1) : k \in 1..n
    BY <1>2
  <2>3. n \in 1..n
    BY <1>2
  <2> QED BY <1>2, <1>3, <2>1, <2>2, <2>3, <1>acc DEF Around
<1>5. ASSUME NEW i \in D, NEW j \in win \ D PROVE i < j
  <2>1. PICK k \in 1..(n - 1) : i \in idx[k] - c .. idx[k] + c
    BY <1>acc DEF Around
  <2>2. k \in 1..n /\ k < n /\ k \in DOMAIN idx
    BY <1>2
  <2>3. idx[k] < m /\ idx[k] \in Nat /\ m \in Nat
    <3>1. idx[k] < idx[n]
      BY <2>2
    <3>2. idx[k] \in Nat /\ m \in Nat
      BY <1>2, <2>2
    <3> QED BY <3>1, <3>2
  <2>4. j \notin idx[k] - c .. idx[k] + c
    BY <1>2, <1>3, <2>1, <1>acc DEF Around
  <2>5. i \in Nat /\ j \in Nat /\ j \in m - c .. m + c
    <3>1. i \in 1..L
      BY <1>2, <1>acc DEF Around
    <3>2. j \in 1..L /\ j \in m - c .. m + c
      <4> HIDE DEF win, m, L, D
      <4> QED BY <1>3
    <3> HIDE DEF win, m, L, D
    <3> QED BY <1>2, <3>1, <3>2
  <2> HIDE DEF m, win, D
  <2> QED BY <2>1, <2>3, <2>4, <2>5, LaterWindow
<1>6. D \in SUBSET FileLines(s) /\ win \in SUBSET FileLines(s)
  BY <1>2, <1>3, <1>acc DEF Around
<1> HIDE DEF L, m, D, win, gap
<1>7. /\ Plainly(new, PlacesOf(s, win \ D)) /\ Len(new) = Len(Ascending(win \ D))
      /\ \A k \in DOMAIN new : new[k].s = s
  <2>1. win \ D \in SUBSET (DOMAIN seen[s]) /\ seen[s] \in Seq(ReadLines)
    BY <1>6 DEF SeenHeld, FileLines
  <2> QED BY <2>1, EntriesTell
<1>8. \A p \in P \cup PlacesOf(s, D), r \in PlacesOf(s, win \ D) : Earlier(p, r)
  <2>1. \A r \in PlacesOf(s, win \ D) : r \in PlacesOf(s, FileLines(s))
    BY <1>6 DEF PlacesOf
  <2>2. ASSUME NEW p \in PlacesOf(s, D), NEW r \in PlacesOf(s, win \ D) PROVE Earlier(p, r)
    <3>1. p.s = s /\ r.s = s /\ p.i \in D /\ r.i \in win \ D
      BY DEF PlacesOf
    <3> QED BY <1>5, <3>1 DEF Earlier
  <2> QED BY <2>1, <2>2
<1>9. PlacesOf(s, D \cup win) = PlacesOf(s, D) \cup PlacesOf(s, win \ D)
  BY DEF PlacesOf
<1>10. acc.out \in Seq(Items) /\ new \in Seq(Items)
  BY <1>7, <1>acc DEF Plainly, Tells, D
<1> HIDE DEF new
<1>11. new # <<>> => EndsIn(new, s)
  <2>1. new # <<>> => Len(new) \in DOMAIN new
    BY <1>10
  <2> QED BY <1>7, <2>1 DEF EndsIn
<1>12. ASSUME gap PROVE Tells(next.out, P \cup PlacesOf(s, D \cup win)) /\ EndsIn(next.out, s)
  <2>1. next.out = (acc.out \o <<Separator>>) \o new
    BY <1>1, <1>12
  <2>2. new # <<>> /\ EndsIn(acc.out, s) /\ new[1].s = s
    <3>1. m \in win \ D
      BY <1>3, <1>12 DEF gap
    <3>2. \E k \in DOMAIN new : Position(new[k]) = [s |-> s, i |-> m]
      BY <1>7, <3>1 DEF Plainly, Tells, PlacesOf
    <3>3. new # <<>>
      BY <3>2
    <3>4. 1 \in DOMAIN new
      BY <1>10, <3>3
    <3>5. EndsIn(acc.out, s)
      <4>1. n > 1
        BY <1>2, <1>12, <1>acc DEF gap
      <4> QED BY <4>1, <1>acc
    <3> QED BY <1>7, <3>3, <3>4, <3>5
  <2>3. Tells(next.out, P \cup PlacesOf(s, D \cup win))
    <3>1. Tells(acc.out, P \cup PlacesOf(s, D)) /\ Tells(new, PlacesOf(s, win \ D))
      BY <1>7, <1>acc DEF Plainly, D
    <3>2. acc.out # <<>> /\ acc.out[Len(acc.out)].s = new[1].s
      BY <2>2 DEF EndsIn
    <3>3. Tells((acc.out \o <<Separator>>) \o new, (P \cup PlacesOf(s, D)) \cup PlacesOf(s, win \ D))
      BY <1>8, <2>2, <3>1, <3>2, TellsApart
    <3> QED BY <1>9, <2>1, <3>3
  <2>4. EndsIn(next.out, s)
    <3>1. acc.out \o <<Separator>> \in Seq(Items)
      BY <1>10, SeparatorIs
    <3>2. EndsIn(new, s)
      BY <1>11, <2>2
    <3> QED BY <1>10, <2>1, <3>1, <3>2, EndsJoin
  <2> QED BY <2>3, <2>4
<1>13. ASSUME ~gap PROVE Tells(next.out, P \cup PlacesOf(s, D \cup win)) /\ EndsIn(next.out, s)
  <2>1. next.out = acc.out \o new
    BY <1>1, <1>10, <1>13
  <2>2. Tells(next.out, P \cup PlacesOf(s, D \cup win))
    <3>1. Tells(acc.out, P \cup PlacesOf(s, D)) /\ Tells(new, PlacesOf(s, win \ D))
      BY <1>7, <1>acc DEF Plainly, D
    <3>2. Tells(acc.out \o new, (P \cup PlacesOf(s, D)) \cup PlacesOf(s, win \ D))
      BY <1>8, <3>1, TellsJoin
    <3> QED BY <1>9, <2>1, <3>2
  <2>3. EndsIn(next.out, s)
    <3>1. CASE new = <<>>
      <4>1. m \in D
        <5>1. CASE m \notin D
          <6>1. \E k \in DOMAIN new : Position(new[k]) = [s |-> s, i |-> m]
            BY <1>3, <1>7, <5>1 DEF Plainly, Tells, PlacesOf
          <6> QED BY <3>1, <6>1
        <5> QED BY <5>1
      <4>2. n > 1
        BY <1>2, <4>1, <1>acc DEF Around, D
      <4>3. next.out = acc.out
        BY <1>10, <2>1, <3>1
      <4> QED BY <4>2, <4>3, <1>acc
    <3>2. CASE new # <<>>
      BY <1>10, <1>11, <2>1, <3>2, EndsJoin
    <3> QED BY <3>1, <3>2
  <2> QED BY <2>2, <2>3
<1>14. n > 0 /\ n # 0
  BY <1>2
<1>15. WindowHeld(next, n, s, P, c, idx)
  <2>1. next.done = Around(s, c, idx, n)
    BY <1>1, <1>4
  <2>2. next.first <=> n = 0
    BY <1>1, <1>14
  <2>3. Tells(next.out, P \cup PlacesOf(s, next.done)) /\ EndsIn(next.out, s)
    BY <1>1, <1>12, <1>13
  <2> QED BY <2>1, <2>2, <2>3, Zenon DEF WindowHeld
<1> QED BY <1>next, <1>15, Zenon

LEMMA WindowsTell ==
  ASSUME SeenHeld, NEW s \in Streams, NEW P, NEW begin, Tells(begin, P), NEW c \in Nat,
         \A p \in P, r \in PlacesOf(s, FileLines(s)) : Earlier(p, r),
         NEW idx \in Seq(FileLines(s)), \A m, n \in DOMAIN idx : m < n => idx[m] < idx[n]
  PROVE  Tells(Windows(begin, s, c, idx), P \cup PlacesOf(s, Around(s, c, idx, Len(idx))))
<1> DEFINE N == Len(idx)
<1>1. N \in Nat /\ DOMAIN idx = 1..N
  OBVIOUS
<1>2. PICK run : IsRun(run, begin, s, c, idx) /\ Windows(begin, s, c, idx) = run[N].out
  BY <1>1, WindowsRun
<1> DEFINE S == {n \in 0..N : WindowHeld(run[n], n, s, P, c, idx)}
<1>3. 0 \in S
  <2>1. run[0] = [out |-> begin, done |-> {}, first |-> TRUE]
    BY <1>1, <1>2 DEF IsRun
  <2>2. run[0].out = begin /\ run[0].done = {} /\ run[0].first = TRUE
    BY <2>1
  <2>3. Around(s, c, idx, 0) = {} /\ P \cup PlacesOf(s, {}) = P
    BY DEF Around, PlacesOf
  <2>4. WindowHeld(run[0], 0, s, P, c, idx)
    <3>1. Tells(run[0].out, P \cup PlacesOf(s, run[0].done))
      BY <2>2, <2>3
    <3>2. run[0].done = Around(s, c, idx, 0) /\ (run[0].first <=> 0 = 0) /\ ~(0 > 0)
      BY <2>2, <2>3
    <3> QED BY <3>1, <3>2, Zenon DEF WindowHeld
  <2> QED BY <1>1, <2>4
<1>4. ASSUME NEW n \in 1..N, n - 1 \in S PROVE n \in S
  <2>1. n \in DOMAIN idx /\ n \in 0..N /\ n # 0
    BY <1>1
  <2>2. run[n] = AddWindow(run[n - 1], s, idx[n], c)
    BY <1>2, <2>1 DEF IsRun
  <2>3. WindowHeld(run[n - 1], n - 1, s, P, c, idx)
    BY <1>4
  <2>4. WindowHeld(run[n], n, s, P, c, idx)
    BY <2>1, <2>2, <2>3, AddWindowTells
  <2> QED BY <2>1, <2>4
<1>5. 0..N \subseteq S
  <2> HIDE DEF S
  <2> QED BY <1>1, <1>3, <1>4, UpTo
<1>6. WindowHeld(run[N], N, s, P, c, idx)
  BY <1>1, <1>5
<1> QED BY <1>2, <1>6 DEF WindowHeld

FewerOf(n, N) == IF n <= N THEN n ELSE N

LEMMA FirstLinesIs ==
  ASSUME NEW S, NEW q \in Seq(S), NEW n \in Nat
  PROVE  /\ FirstLines(q, n) \in Seq(S) /\ Len(FirstLines(q, n)) = FewerOf(n, Len(q))
         /\ FewerOf(n, Len(q)) \in Nat /\ FewerOf(n, Len(q)) <= Len(q)
         /\ \A k \in 1..FewerOf(n, Len(q)) : FirstLines(q, n)[k] = q[k] /\ k \in DOMAIN q
<1>1. Len(q) \in Nat /\ DOMAIN q = 1..Len(q)
  OBVIOUS
<1>2. PICK m : m = FewerOf(n, Len(q))
  OBVIOUS
<1>3. m \in Nat /\ m <= Len(q)
  <2>1. PICK N : N = Len(q)
    OBVIOUS
  <2>2. N \in Nat /\ m = IF n <= N THEN n ELSE N
    BY <1>1, <1>2, <2>1 DEF FewerOf
  <2>3. m \in Nat /\ m <= N
    BY <2>2
  <2> QED BY <2>1, <2>3
<1>4. FirstLines(q, n) = SubSeq(q, 1, m)
  <2>1. n \in Int /\ Len(q) \in Int
    BY <1>1
  <2>2. Min({n, Len(q)}) = m
    BY <1>2, <2>1, OfTwo DEF FewerOf
  <2> QED BY <2>2 DEF FirstLines
<1>5. SubSeq(q, 1, m) = [k \in 1..m |-> q[k]]
  BY <1>1, <1>3
<1>6. \A k \in 1..m : k \in DOMAIN q /\ q[k] \in S
  BY <1>1, <1>3
<1>7. PICK r : r = SubSeq(q, 1, m)
  OBVIOUS
<1>8. r \in Seq(S) /\ Len(r) = m /\ \A k \in 1..m : r[k] = q[k]
  BY <1>3, <1>5, <1>6, <1>7
<1> QED BY <1>2, <1>3, <1>4, <1>6, <1>7, <1>8

Hits(s) == {i \in FileLines(s) : seen[s][i].hit > 0}

LEMMA MatchesAre ==
  ASSUME SeenHeld, NEW s \in Streams, NEW n \in Nat
  PROVE  LET q == Ascending(Hits(s))
             m == FewerOf(n, Len(q))
         IN  /\ q \in Seq(Hits(s)) /\ Len(q) \in Nat /\ DOMAIN q = 1..Len(q)
             /\ Matches(s, n) \in Seq(FileLines(s)) /\ Len(Matches(s, n)) = m
             /\ m \in Nat /\ m <= Len(q)
             /\ \A k \in 1..m : Matches(s, n)[k] = q[k] /\ k \in 1..Len(q)
             /\ \A i, j \in DOMAIN Matches(s, n) : i < j => Matches(s, n)[i] < Matches(s, n)[j]
<1> DEFINE q == Ascending(Hits(s))
           r == Matches(s, n)
<1>1. PICK N \in Nat : FileLines(s) = 1..N
  BY DEF SeenHeld, FileLines
<1>2. Hits(s) \in SUBSET (1..N)
  BY <1>1 DEF Hits
<1>3. /\ q \in Seq(Hits(s)) /\ Len(q) = Cardinality(Hits(s)) /\ Cardinality(Hits(s)) \in Nat
      /\ DOMAIN q = 1..Cardinality(Hits(s))
      /\ \A i, j \in 1..Cardinality(Hits(s)) : i < j => q[i] < q[j]
  BY <1>2, AscendingIs
<1>4. r = FirstLines(q, n)
  <2>1. Hits(s) = {i \in DOMAIN seen[s] : seen[s][i].hit > 0}
    BY DEF Hits, FileLines
  <2> QED BY <2>1 DEF Matches, Selected
<1> HIDE DEF q, r
<1>5. PICK m : m = FewerOf(n, Len(q))
  OBVIOUS
<1>6. r \in Seq(Hits(s)) /\ Len(r) = m /\ m \in Nat /\ m <= Len(q)
      /\ \A k \in 1..m : r[k] = q[k] /\ k \in DOMAIN q
  BY <1>3, <1>4, <1>5, FirstLinesIs
<1>7. r \in Seq(FileLines(s))
  <2>1. Hits(s) \subseteq FileLines(s)
    BY DEF Hits
  <2> QED BY <1>6, <2>1
<1>8. DOMAIN r = 1..m
  BY <1>6
<1>9. \A i, j \in 1..m : i < j => r[i] < r[j]
  BY <1>3, <1>6
<1> QED BY <1>3, <1>5, <1>6, <1>7, <1>8, <1>9 DEF q, r

\* The first n of two lists, one after the other: first those of the first one.
LEMMA FirstOfTwo ==
  ASSUME NEW a \in Nat, NEW b \in Nat, NEW n \in Nat
  PROVE  /\ \A k \in 1..a : k - 1 < n <=> k \in 1..FewerOf(n, a)
         /\ n - FewerOf(n, a) \in Nat
         /\ \A k \in 1..b : a + k - 1 < n <=> k \in 1..FewerOf(n - FewerOf(n, a), b)
         /\ \A k \in 1..FewerOf(n, a) : k \in 1..a
         /\ \A k \in 1..FewerOf(n - FewerOf(n, a), b) : k \in 1..b
BY DEF FewerOf

\* The first n matches: those of stdout, and of stderr as many as are left.
LEMMA FirstHits ==
  ASSUME SeenHeld, NEW n \in Nat
  PROVE  LET G == {p \in Lines : Line(p).hit > 0}
             r == Matches("stdout", n)
             t == Matches("stderr", n - Len(r))
         IN  /\ n - Len(r) \in Nat
             /\ FirstOf(G, n) = {p \in Lines : \/ p.s = "stdout" /\ \E k \in 1..Len(r) : p.i = r[k]
                                               \/ p.s = "stderr" /\ \E k \in 1..Len(t) : p.i = t[k]}
<1> DEFINE G == {p \in Lines : Line(p).hit > 0}
           r == Matches("stdout", n)
           t == Matches("stderr", n - Len(r))
           a == Ascending(Hits("stdout"))
           b == Ascending(Hits("stderr"))
           c == Entries("stdout", a)
           d == Entries("stderr", b)
           e == c \o d
<1>1. "stdout" \in Streams /\ "stderr" \in Streams /\ \A s \in Streams : s = "stdout" \/ s = "stderr"
  BY DEF Streams
<1>2. /\ a \in Seq(Hits("stdout")) /\ Len(a) \in Nat /\ DOMAIN a = 1..Len(a)
      /\ Len(r) = FewerOf(n, Len(a))
      /\ \A k \in 1..Len(r) : r[k] = a[k] /\ k \in 1..Len(a)
  BY <1>1, MatchesAre
<1>3. b \in Seq(Hits("stderr")) /\ Len(b) \in Nat /\ DOMAIN b = 1..Len(b)
  BY <1>1, MatchesAre
<1>4. n - Len(r) \in Nat
  BY <1>2, <1>3, FirstOfTwo
<1>5. /\ Len(t) = FewerOf(n - Len(r), Len(b))
      /\ \A k \in 1..Len(t) : t[k] = b[k] /\ k \in 1..Len(b)
  BY <1>1, <1>4, MatchesAre
<1>6. /\ \A k \in 1..Len(a) : k - 1 < n <=> k \in 1..Len(r)
      /\ \A k \in 1..Len(b) : Len(a) + k - 1 < n <=> k \in 1..Len(t)
  <2>1. PICK x, y : x = Len(a) /\ y = Len(b)
    OBVIOUS
  <2>2. x \in Nat /\ y \in Nat
    BY <1>2, <1>3, <2>1
  <2>3. /\ \A k \in 1..x : k - 1 < n <=> k \in 1..FewerOf(n, x)
        /\ \A k \in 1..y : x + k - 1 < n <=> k \in 1..FewerOf(n - FewerOf(n, x), y)
    BY <2>2, FirstOfTwo
  <2>4. Len(r) = FewerOf(n, x) /\ Len(t) = FewerOf(n - FewerOf(n, x), y)
    BY <1>2, <1>5, <2>1
  <2> HIDE DEF a, b, r, t
  <2> QED BY <2>1, <2>3, <2>4
<1>7. Hits("stdout") \in SUBSET FileLines("stdout") /\ Hits("stderr") \in SUBSET FileLines("stderr")
  BY DEF Hits
<1>8. G = PlacesOf("stdout", Hits("stdout")) \cup PlacesOf("stderr", Hits("stderr")) /\ G \subseteq Places
  <2>1. \A s \in Streams : Hits(s) \in SUBSET FileLines(s)
    BY DEF Hits
  <2>2. \A s \in Streams : /\ PlacesOf(s, Hits(s)) \subseteq Places
                           /\ \A p : p \in PlacesOf(s, Hits(s)) <=> p \in Lines /\ p.s = s /\ p.i \in Hits(s)
    BY <2>1, PlacesAre
  <2>3. \A p \in Lines : p.s \in Streams /\ (p.i \in Hits(p.s) <=> Line(p).hit > 0)
    BY LinesAre DEF Hits, Line
  <2> QED BY <1>1, <2>2, <2>3
<1>9. Plainly(e, G)
  BY <1>7, <1>8, BothFiles
<1>10. /\ c \in Seq(Items) /\ Len(c) = Len(a)
       /\ \A k \in 1..Len(a) : Position(c[k]) = [s |-> "stdout", i |-> a[k]]
  <2>1. Plainly(c, PlacesOf("stdout", Hits("stdout"))) /\ Len(c) = Len(a)
        /\ \A k \in DOMAIN c : Position(c[k]) = [s |-> "stdout", i |-> a[k]]
    BY <1>1, <1>7, EntriesTell DEF SeenHeld, FileLines
  <2>2. c \in Seq(Items)
    BY <2>1 DEF Plainly, Tells
  <2> HIDE DEF c, a
  <2>3. DOMAIN c = 1..Len(a)
    BY <2>1, <2>2
  <2> QED BY <2>1, <2>2, <2>3
<1>11. /\ d \in Seq(Items) /\ Len(d) = Len(b)
       /\ \A k \in 1..Len(b) : Position(d[k]) = [s |-> "stderr", i |-> b[k]]
  <2>1. Plainly(d, PlacesOf("stderr", Hits("stderr"))) /\ Len(d) = Len(b)
        /\ \A k \in DOMAIN d : Position(d[k]) = [s |-> "stderr", i |-> b[k]]
    BY <1>1, <1>7, EntriesTell DEF SeenHeld, FileLines
  <2>2. d \in Seq(Items)
    BY <2>1 DEF Plainly, Tells
  <2> HIDE DEF d, b
  <2>3. DOMAIN d = 1..Len(b)
    BY <2>1, <2>2
  <2> QED BY <2>1, <2>2, <2>3
<1>12. /\ DOMAIN e = 1..(Len(a) + Len(b))
       /\ \A k \in 1..Len(a) : e[k] = c[k]
       /\ \A k \in 1..Len(b) : e[Len(a) + k] = d[k]
       /\ \A k \in 1..(Len(a) + Len(b)) : k \in 1..Len(a) \/ \E j \in 1..Len(b) : k = Len(a) + j
  <2> HIDE DEF a, b, c, d
  <2>1. /\ DOMAIN (c \o d) = 1..(Len(c) + Len(d))
        /\ \A k \in 1..Len(c) : (c \o d)[k] = c[k]
        /\ \A k \in 1..Len(d) : (c \o d)[Len(c) + k] = d[k]
        /\ \A k \in 1..(Len(c) + Len(d)) : k \in 1..Len(c) \/ \E j \in 1..Len(d) : k = Len(c) + j
    <3>1. c \in Seq(Items) /\ d \in Seq(Items)
      BY <1>10, <1>11
    <3>2. /\ c \o d \in Seq(Items) /\ Len(c \o d) = Len(c) + Len(d) /\ DOMAIN (c \o d) = 1..(Len(c) + Len(d))
          /\ Len(c) \in Nat /\ Len(d) \in Nat /\ DOMAIN c = 1..Len(c) /\ DOMAIN d = 1..Len(d)
          /\ \A j \in 1..Len(c) : (c \o d)[j] = c[j]
          /\ \A j \in 1..Len(d) : (c \o d)[Len(c) + j] = d[j]
          /\ \A j \in 1..(Len(c) + Len(d)) : j \in 1..Len(c) \/ \E k \in 1..Len(d) : j = Len(c) + k
      BY <3>1, ConcatIs
    <3> QED BY <3>2
  <2>2. e = c \o d
    BY DEF e
  <2> HIDE DEF e
  <2> QED BY <1>10, <1>11, <2>1, <2>2
<1> HIDE DEF G, r, t, a, b, c, d, e
<1>13. \A k \in 1..Len(a) : k \in 1..(Len(a) + Len(b))
  BY <1>2, <1>3
<1>14. \A k \in 1..Len(b) : Len(a) + k \in 1..(Len(a) + Len(b))
  BY <1>2, <1>3
<1>15. \A k \in DOMAIN e : Position(e[k]) \in G /\ Cardinality({q \in G : Earlier(q, Position(e[k]))}) = k - 1
  <2>1. \A k \in DOMAIN e : Position(e[k]) \in G
    BY <1>9 DEF Plainly, Tells
  <2>2. \A k \in DOMAIN e : Cardinality({q \in G : Earlier(q, Position(e[k]))}) = k - 1
    BY <1>8, <1>9, Ranks
  <2> QED BY <2>1, <2>2
<1>16. \A k \in 1..Len(a) : LET p == [s |-> "stdout", i |-> a[k]] IN p \in G /\ (p \in FirstOf(G, n) <=> k \in 1..Len(r))
  <2> SUFFICES ASSUME NEW k \in 1..Len(a)
               PROVE  /\ [s |-> "stdout", i |-> a[k]] \in G
                      /\ [s |-> "stdout", i |-> a[k]] \in FirstOf(G, n) <=> k \in 1..Len(r)
    OBVIOUS
  <2>1. PICK p : p = [s |-> "stdout", i |-> a[k]]
    OBVIOUS
  <2>2. p \in G /\ Cardinality({q \in G : Earlier(q, p)}) = k - 1
    BY <1>10, <1>12, <1>13, <1>15, <2>1
  <2>3. p \in FirstOf(G, n) <=> k - 1 < n
    BY <2>2 DEF FirstOf
  <2> QED BY <1>6, <2>1, <2>2, <2>3
<1>17. \A k \in 1..Len(b) : LET p == [s |-> "stderr", i |-> b[k]] IN p \in G /\ (p \in FirstOf(G, n) <=> k \in 1..Len(t))
  <2> SUFFICES ASSUME NEW k \in 1..Len(b)
               PROVE  /\ [s |-> "stderr", i |-> b[k]] \in G
                      /\ [s |-> "stderr", i |-> b[k]] \in FirstOf(G, n) <=> k \in 1..Len(t)
    OBVIOUS
  <2>1. PICK p : p = [s |-> "stderr", i |-> b[k]]
    OBVIOUS
  <2>2. p \in G /\ Cardinality({q \in G : Earlier(q, p)}) = Len(a) + k - 1
    <3>1. PICK j : j = Len(a) + k
      OBVIOUS
    <3>2. j \in DOMAIN e /\ e[j] = d[k]
      BY <1>12, <1>14, <3>1
    <3>3. Position(e[j]) = p
      BY <1>11, <2>1, <3>2
    <3>4. p \in G /\ Cardinality({q \in G : Earlier(q, p)}) = j - 1
      BY <1>15, <3>2, <3>3
    <3> QED BY <3>1, <3>4
  <2>3. p \in FirstOf(G, n) <=> Len(a) + k - 1 < n
    BY <2>2 DEF FirstOf
  <2> QED BY <1>6, <2>1, <2>2, <2>3
<1>18. ASSUME NEW p \in FirstOf(G, n)
       PROVE  \/ p.s = "stdout" /\ \E k \in 1..Len(r) : p.i = r[k]
              \/ p.s = "stderr" /\ \E k \in 1..Len(t) : p.i = t[k]
  <2>1. p \in G
    BY DEF FirstOf
  <2>2. PICK j \in DOMAIN e : Position(e[j]) = p
    BY <1>9, <2>1 DEF Plainly, Tells
  <2>3. j \in 1..Len(a) \/ \E k \in 1..Len(b) : j = Len(a) + k
    BY <1>12
  <2>4. ASSUME j \in 1..Len(a) PROVE p.s = "stdout" /\ \E k \in 1..Len(r) : p.i = r[k]
    <3>1. p = [s |-> "stdout", i |-> a[j]]
      BY <1>10, <1>12, <2>2, <2>4
    <3>2. j \in 1..Len(r)
      BY <1>16, <2>4, <3>1
    <3>3. p.s = "stdout" /\ p.i = a[j]
      BY <3>1
    <3> QED BY <1>2, <3>2, <3>3
  <2>5. ASSUME NEW k \in 1..Len(b), j = Len(a) + k
        PROVE  p.s = "stderr" /\ \E l \in 1..Len(t) : p.i = t[l]
    <3>1. p = [s |-> "stderr", i |-> b[k]]
      BY <1>11, <1>12, <2>2, <2>5
    <3>2. k \in 1..Len(t)
      BY <1>17, <3>1
    <3>3. p.s = "stderr" /\ p.i = b[k]
      BY <3>1
    <3> QED BY <1>5, <3>2, <3>3
  <2> QED BY <2>3, <2>4, <2>5
<1>19. ASSUME NEW p \in Lines, NEW k \in 1..Len(r), p.s = "stdout", p.i = r[k] PROVE p \in FirstOf(G, n)
  <2>1. p = [s |-> "stdout", i |-> a[k]] /\ k \in 1..Len(a)
    BY <1>2, <1>19, LinesAre
  <2> QED BY <1>16, <2>1
<1>20. ASSUME NEW p \in Lines, NEW k \in 1..Len(t), p.s = "stderr", p.i = t[k] PROVE p \in FirstOf(G, n)
  <2>1. p = [s |-> "stderr", i |-> b[k]] /\ k \in 1..Len(b)
    BY <1>5, <1>20, LinesAre
  <2> QED BY <1>17, <2>1
<1>21. FirstOf(G, n) \subseteq Lines
  BY DEF FirstOf, G
<1>22. FirstOf(G, n) = {p \in Lines : \/ p.s = "stdout" /\ \E k \in 1..Len(r) : p.i = r[k]
                                      \/ p.s = "stderr" /\ \E k \in 1..Len(t) : p.i = t[k]}
  BY <1>18, <1>19, <1>20, <1>21
<1> QED BY <1>4, <1>22 DEF G, r, t

LEMMA GrepTells ==
  ASSUME SeenHeld, NEW c \in Nat
  PROVE  Tells(Grep(c), {p \in Lines : \E m \in FirstOf({q \in Lines : Line(q).hit > 0}, GrepMatches) :
                                         m.s = p.s /\ p.i \in m.i - c .. m.i + c})
<1> DEFINE F == FirstOf({q \in Lines : Line(q).hit > 0}, GrepMatches)
           O == {p \in Lines : \E m \in F : m.s = p.s /\ p.i \in m.i - c .. m.i + c}
           r == Matches("stdout", GrepMatches)
           t == Matches("stderr", GrepMatches - Len(r))
           A == Around("stdout", c, r, Len(r))
           B == Around("stderr", c, t, Len(t))
<1>1. "stdout" \in Streams /\ "stderr" \in Streams /\ \A s \in Streams : s = "stdout" \/ s = "stderr"
  BY DEF Streams
<1>2. GrepMatches \in Nat
  BY LogReadAssumption
<1>3. /\ GrepMatches - Len(r) \in Nat
      /\ F = {p \in Lines : \/ p.s = "stdout" /\ \E k \in 1..Len(r) : p.i = r[k]
                            \/ p.s = "stderr" /\ \E k \in 1..Len(t) : p.i = t[k]}
  BY <1>2, FirstHits
<1>4. r \in Seq(FileLines("stdout")) /\ \A i, j \in DOMAIN r : i < j => r[i] < r[j]
  BY <1>1, <1>2, MatchesAre
<1>5. t \in Seq(FileLines("stderr")) /\ \A i, j \in DOMAIN t : i < j => t[i] < t[j]
  BY <1>1, <1>3, MatchesAre
<1> HIDE DEF F, r, t
<1>6. A \in SUBSET FileLines("stdout") /\ B \in SUBSET FileLines("stderr")
  BY DEF Around
<1>7. Tells(<<>>, {})
  BY DEF Tells
<1>8. Tells(Windows(<<>>, "stdout", c, r), PlacesOf("stdout", A))
  <2>1. Tells(Windows(<<>>, "stdout", c, r), {} \cup PlacesOf("stdout", A))
    BY <1>1, <1>4, <1>7, WindowsTell
  <2> QED BY <2>1
<1>9. \A p \in PlacesOf("stdout", A), q \in PlacesOf("stderr", FileLines("stderr")) : Earlier(p, q)
  BY <1>6, StreamsApart
<1> HIDE DEF A
<1>10. PICK begin : begin = Windows(<<>>, "stdout", c, r)
  OBVIOUS
<1>11. Tells(Windows(begin, "stderr", c, t), PlacesOf("stdout", A) \cup PlacesOf("stderr", B))
  BY <1>1, <1>5, <1>8, <1>9, <1>10, WindowsTell
<1>12. Grep(c) = Windows(begin, "stderr", c, t)
  BY <1>10 DEF Grep, r, t
<1> HIDE DEF B
<1>13. PlacesOf("stdout", A) \cup PlacesOf("stderr", B) = O
  <2>1. /\ \A p : p \in PlacesOf("stdout", A) <=> p \in Lines /\ p.s = "stdout" /\ p.i \in A
        /\ \A p : p \in PlacesOf("stderr", B) <=> p \in Lines /\ p.s = "stderr" /\ p.i \in B
    BY <1>1, <1>6, PlacesAre
  <2>2. \A p \in Lines : p.s \in Streams /\ p.i \in FileLines(p.s)
    BY LinesAre
  <2>3. \A k \in 1..Len(r) : r[k] \in FileLines("stdout")
    BY <1>4
  <2>4. \A k \in 1..Len(t) : t[k] \in FileLines("stderr")
    BY <1>5
  <2>5. ASSUME NEW p \in Lines, p.s = "stdout" PROVE p \in O <=> p.i \in A
    <3>1. ASSUME p \in O PROVE p.i \in A
      <4>1. PICK m \in F : m.s = "stdout" /\ p.i \in m.i - c .. m.i + c
        BY <2>5, <3>1
      <4>2. \E k \in 1..Len(r) : m.i = r[k]
        BY <1>3, <4>1
      <4> QED BY <2>2, <2>5, <4>1, <4>2 DEF A, Around
    <3>2. ASSUME p.i \in A PROVE p \in O
      <4>1. PICK k \in 1..Len(r) : p.i \in r[k] - c .. r[k] + c
        BY <3>2 DEF A, Around
      <4>2. PICK m : m = [s |-> "stdout", i |-> r[k]]
        OBVIOUS
      <4>3. m \in Lines /\ m.s = "stdout" /\ m.i = r[k]
        BY <1>1, <2>3, <4>2, LinesAre
      <4>4. m \in F
        BY <1>3, <4>3
      <4> QED BY <2>5, <4>1, <4>3, <4>4
    <3> QED BY <3>1, <3>2
  <2>6. ASSUME NEW p \in Lines, p.s = "stderr" PROVE p \in O <=> p.i \in B
    <3>1. ASSUME p \in O PROVE p.i \in B
      <4>1. PICK m \in F : m.s = "stderr" /\ p.i \in m.i - c .. m.i + c
        BY <2>6, <3>1
      <4>2. \E k \in 1..Len(t) : m.i = t[k]
        BY <1>3, <4>1
      <4> QED BY <2>2, <2>6, <4>1, <4>2 DEF B, Around
    <3>2. ASSUME p.i \in B PROVE p \in O
      <4>1. PICK k \in 1..Len(t) : p.i \in t[k] - c .. t[k] + c
        BY <3>2 DEF B, Around
      <4>2. PICK m : m = [s |-> "stderr", i |-> t[k]]
        OBVIOUS
      <4>3. m \in Lines /\ m.s = "stderr" /\ m.i = t[k]
        BY <1>1, <2>4, <4>2, LinesAre
      <4>4. m \in F
        BY <1>3, <4>3
      <4> QED BY <2>6, <4>1, <4>3, <4>4
    <3> QED BY <3>1, <3>2
  <2>7. O \subseteq Lines
    OBVIOUS
  <2> HIDE DEF O
  <2> QED BY <1>1, <2>1, <2>2, <2>5, <2>6, <2>7
<1> QED BY <1>11, <1>12, <1>13 DEF F

-----------------------------------------------------------------------------
(* The cut at the limit                                                       *)

ShownIn(r) == {Position(e) : e \in ToSet(r) \ {Separator}}
InOrder(r) ==
  /\ \A m, n \in DOMAIN r :
       m < n /\ Separator \notin {r[m], r[n]} => Earlier(Position(r[m]), Position(r[n]))
  /\ \A n \in DOMAIN r : r[n] = Separator =>
       /\ 1 < n /\ r[n - 1] # Separator
       /\ n < Len(r) => r[n - 1].s = r[n + 1].s
FirstPart(r, P) == ShownIn(r) \subseteq P /\ \A p \in ShownIn(r), t \in P \ ShownIn(r) : Earlier(p, t)

\* What ReadersAgree asks of an answer when the lines at P are owed.
Right(a, P) ==
  /\ InOrder(a.lines)
  /\ IF a.truncated THEN FirstPart(a.lines, P) /\ SizeOfText(a.lines) + Marker <= MaxOutput
     ELSE ShownIn(a.lines) = P /\ SizeOfText(a.lines) <= MaxOutput

\* The beginning of a list keeps its order, and what it leaves out comes later.
LEMMA PartTells ==
  ASSUME NEW q, NEW P, Tells(q, P), NEW r \in Seq(Items), Len(r) <= Len(q),
         \A i \in 1..Len(r) : /\ r[i].s = q[i].s /\ Position(r[i]) = Position(q[i])
                              /\ r[i] = Separator <=> q[i] = Separator
  PROVE  InOrder(r) /\ FirstPart(r, P) /\ (Len(r) = Len(q) => ShownIn(r) = P)
<1> DEFINE k == Len(r)
           N == Len(q)
<1>1. k \in Nat /\ N \in Nat /\ k <= N /\ DOMAIN r = 1..k /\ DOMAIN q = 1..N
  BY DEF Tells
<1>2. \A i \in 1..k : /\ r[i].s = q[i].s /\ Position(r[i]) = Position(q[i])
                      /\ r[i] = Separator <=> q[i] = Separator
  OBVIOUS
<1>3. \A i \in 1..k : i \in 1..N
  BY <1>1
<1>4. \A p : p \in ShownIn(r) <=> \E i \in 1..k : q[i] # Separator /\ p = Position(q[i])
  <2>1. \A p : p \in ShownIn(r) <=> \E i \in 1..k : r[i] # Separator /\ p = Position(r[i])
    BY <1>1 DEF ShownIn, ToSet
  <2> QED BY <1>2, <2>1
<1>5. \A i \in 1..N : q[i] # Separator => Position(q[i]) \in P
  BY <1>1 DEF Tells
<1>6. \A p \in P : \E i \in 1..N : q[i] # Separator /\ Position(q[i]) = p
  BY <1>1 DEF Tells
<1>7. \A i, j \in 1..N : i < j /\ q[i] # Separator /\ q[j] # Separator =>
                           Earlier(Position(q[i]), Position(q[j]))
  BY <1>1 DEF Tells
<1>8. \A i \in 1..N : q[i] = Separator =>
        /\ i - 1 \in 1..N /\ i + 1 \in 1..N
        /\ q[i - 1] # Separator /\ q[i + 1] # Separator /\ q[i - 1].s = q[i + 1].s
  BY <1>1 DEF Tells
<1> HIDE DEF k, N
<1>9. \A m, n \in 1..k : m < n /\ Separator \notin {r[m], r[n]} => Earlier(Position(r[m]), Position(r[n]))
  <2> SUFFICES ASSUME NEW m \in 1..k, NEW n \in 1..k, m < n, r[m] # Separator, r[n] # Separator
               PROVE  Earlier(Position(r[m]), Position(r[n]))
    OBVIOUS
  <2>1. Earlier(Position(q[m]), Position(q[n]))
    BY <1>2, <1>3, <1>7
  <2> QED BY <1>2, <2>1
<1>10. ASSUME NEW n \in 1..k, r[n] = Separator
       PROVE  /\ 1 < n /\ r[n - 1] # Separator
              /\ n < k => r[n - 1].s = r[n + 1].s
  <2>1. /\ n - 1 \in 1..N /\ n + 1 \in 1..N
        /\ q[n - 1] # Separator /\ q[n - 1].s = q[n + 1].s
    BY <1>2, <1>3, <1>8, <1>10
  <2>2. 1 < n /\ n - 1 \in 1..k /\ (n < k => n + 1 \in 1..k)
    BY <1>1, <2>1
  <2> QED BY <1>2, <2>1, <2>2
<1>11. InOrder(r)
  BY <1>1, <1>9, <1>10 DEF InOrder, k
<1>12. ShownIn(r) \subseteq P
  BY <1>3, <1>4, <1>5
<1>13. ASSUME NEW p \in ShownIn(r), NEW t \in P \ ShownIn(r) PROVE Earlier(p, t)
  <2>1. PICK i \in 1..k : q[i] # Separator /\ p = Position(q[i])
    BY <1>4
  <2>2. PICK j \in 1..N : q[j] # Separator /\ Position(q[j]) = t
    BY <1>6
  <2>3. j \notin 1..k
    BY <1>4, <2>2
  <2>4. i < j
    BY <1>1, <2>3
  <2> QED BY <1>3, <1>7, <2>1, <2>2, <2>4
<1>14. k = N => ShownIn(r) = P
  BY <1>4, <1>6, <1>12
<1> QED BY <1>11, <1>12, <1>13, <1>14 DEF FirstPart, k, N

\* The size of a text of at most two lines.
LEMMA SizesAre ==
  ASSUME NEW q, Len(q) \in 0..2, \A n \in 1..Len(q) : q[n].len \in Int
  PROVE  SizeOfText(q) = IF Len(q) = 0 THEN -1 ELSE IF Len(q) = 1 THEN q[1].len
                         ELSE q[1].len + 1 + q[2].len
<1> DEFINE N == Len(q)
           IsSize(f) == f = [n \in 0..N |-> IF n = 0 THEN -1 ELSE f[n - 1] + q[n].len + 1]
           total == CHOOSE f : IsSize(f)
<1>1. \E f : IsSize(f)
  <2>1. PICK f : f = [n \in 0..N |-> IF n = 0 THEN -1 ELSE IF n = 1 THEN -1 + q[1].len + 1
                                     ELSE (-1 + q[1].len + 1) + q[2].len + 1]
    OBVIOUS
  <2>2. f[0] = -1
    BY <2>1
  <2>3. 1 \in 0..N => f[1] = f[0] + q[1].len + 1
    BY <2>1, <2>2
  <2>4. 2 \in 0..N => f[2] = f[1] + q[2].len + 1
    <3>1. 2 \in 0..N => 1 \in 0..N
      OBVIOUS
    <3> QED BY <2>1, <3>1
  <2>5. \A n \in 0..N : f[n] = IF n = 0 THEN -1 ELSE f[n - 1] + q[n].len + 1
    <3> SUFFICES ASSUME NEW n \in 0..N PROVE f[n] = IF n = 0 THEN -1 ELSE f[n - 1] + q[n].len + 1
      OBVIOUS
    <3>1. n = 0 \/ n = 1 \/ n = 2
      OBVIOUS
    <3> QED BY <2>2, <2>3, <2>4, <3>1
  <2>6. f = [n \in 0..N |-> f[n]]
    BY <2>1
  <2> HIDE DEF N
  <2> QED BY <2>5, <2>6
<1>2. IsSize(total)
  BY <1>1
<1>3. SizeOfText(q) = total[N]
  BY DEF SizeOfText
<1> HIDE DEF total
<1>4. total[0] = -1
  BY <1>2
<1>5. 1 \in 0..N => total[1] = q[1].len
  <2>1. 1 \in 0..N => total[1] = total[0] + q[1].len + 1
    BY <1>2
  <2>2. 1 \in 0..N => q[1].len \in Int
    OBVIOUS
  <2> QED BY <1>4, <2>1, <2>2
<1>6. 2 \in 0..N => total[2] = q[1].len + 1 + q[2].len
  <2>1. 2 \in 0..N => total[2] = total[1] + q[2].len + 1 /\ 1 \in 0..N
    BY <1>2
  <2>2. 2 \in 0..N => q[1].len \in Int /\ q[2].len \in Int
    OBVIOUS
  <2> QED BY <1>5, <2>1, <2>2
<1>7. N = 0 \/ N = 1 \/ N = 2
  OBVIOUS
<1>8. (N = 1 => 1 \in 0..N) /\ (N = 2 => 2 \in 0..N)
  OBVIOUS
<1> QED BY <1>3, <1>4, <1>5, <1>6, <1>7, <1>8

LEMMA WholeRight ==
  ASSUME NEW q, NEW P, Tells(q, P), SizeOfText(q) <= MaxOutput
  PROVE  Right(Reply(q, FALSE, TRUE), P)
<1>1. q \in Seq(Items) /\ Len(q) \in Nat
  BY DEF Tells
<1>2. InOrder(q) /\ ShownIn(q) = P
  BY <1>1, PartTells
<1>3. PICK a : a = Reply(q, FALSE, TRUE)
  OBVIOUS
<1>4. a.lines = q /\ a.truncated = FALSE
  BY <1>3 DEF Reply
<1> QED BY <1>2, <1>3, <1>4 DEF Right

LEMMA CutRight ==
  ASSUME NEW q, NEW P, Tells(q, P), NEW r \in Seq(Items), Len(r) <= Len(q),
         \A i \in 1..Len(r) : /\ r[i].s = q[i].s /\ Position(r[i]) = Position(q[i])
                              /\ r[i] = Separator <=> q[i] = Separator,
         SizeOfText(r) + Marker <= MaxOutput
  PROVE  Right(Reply(r, TRUE, TRUE), P)
<1>1. InOrder(r) /\ FirstPart(r, P)
  BY PartTells
<1>2. PICK a : a = Reply(r, TRUE, TRUE)
  OBVIOUS
<1>3. a.lines = r /\ a.truncated = TRUE
  BY <1>2 DEF Reply
<1> QED BY <1>1, <1>2, <1>3 DEF Right

\* A line cut in its middle: the first one, or the second after an empty one.
LEMMA CutLineRight ==
  ASSUME NEW q, NEW P, Tells(q, P), NEW n \in {1, 2}, n <= Len(q), q[n] # Separator,
         n = 2 => q[1].len = 0
  PROVE  Right(Reply(CutLine(q, n), TRUE, TRUE), P)
<1> DEFINE r == CutLine(q, n)
           room == MaxOutput - Marker - (n - 1)
           line == [q[n] EXCEPT !.len = room]
<1>1. q \in Seq(Items) /\ Len(q) \in Nat /\ DOMAIN q = 1..Len(q) /\ n \in 1..Len(q)
  BY DEF Tells
<1>2. MaxOutput \in Nat /\ Marker \in Nat /\ room \in Int
  BY LogReadAssumption
<1>3. q[n].s \in Streams /\ q[n] \in Items
  BY <1>1 DEF Tells
<1>4. line \in Items /\ line.s = q[n].s /\ line.i = q[n].i /\ line.len = room
  <2> HIDE DEF room
  <2> QED BY <1>2, <1>3 DEF Items
<1>5. line # Separator /\ Position(line) = Position(q[n])
  <2> HIDE DEF line
  <2> QED BY <1>3, <1>4, SeparatorIs DEF Position
<1>9. PICK head : head = SubSeq(q, 1, n - 1)
  OBVIOUS
<1>10. r = Append(head, line)
  BY <1>9 DEF CutLine
<1>11. head \in Seq(Items) /\ Len(head) = n - 1 /\ (n = 2 => head[1] = q[1])
  <2>1. PICK m : m = n - 1
    OBVIOUS
  <2>2. m \in Nat /\ m <= Len(q) /\ (n = 2 => 1 \in 1..m) /\ \A i \in 1..m : i \in 1..Len(q)
    BY <1>1, <2>1
  <2>3. head = [i \in 1..m |-> q[i]]
    BY <1>1, <1>9, <2>1, <2>2
  <2>4. \A i \in 1..m : q[i] \in Items
    BY <1>1, <2>2
  <2>5. head \in Seq(Items) /\ Len(head) = m
    BY <2>2, <2>3, <2>4
  <2>6. n = 2 => head[1] = q[1]
    BY <2>2, <2>3
  <2> QED BY <2>1, <2>5, <2>6
<1> HIDE DEF line, r
<1>6. /\ r \in Seq(Items) /\ Len(r) = n /\ r[n] = line
      /\ n = 2 => r[1] = q[1]
  <2>1. Len(head) + 1 = n /\ (n = 2 => 1 \in 1..Len(head))
    BY <1>11
  <2>2. r \in Seq(Items) /\ Len(r) = Len(head) + 1 /\ r[Len(head) + 1] = line
    BY <1>4, <1>10, <1>11
  <2>3. \A i \in 1..Len(head) : r[i] = head[i]
    BY <1>4, <1>10, <1>11
  <2> QED BY <1>11, <2>1, <2>2, <2>3
<1>7. SizeOfText(r) + Marker <= MaxOutput
  <2>1. \A k \in 1..Len(r) : r[k].len \in Int
    <3>1. \A e \in Items : e.len \in Int
      BY DEF Items
    <3>2. \A k \in 1..Len(r) : r[k] \in Items
      BY <1>6
    <3> QED BY <3>1, <3>2
  <2>2. SizeOfText(r) = IF n = 1 THEN r[1].len ELSE r[1].len + 1 + r[2].len
    <3>1. Len(r) \in 0..2 /\ Len(r) # 0 /\ Len(r) = n
      BY <1>6
    <3>2. SizeOfText(r) = IF Len(r) = 0 THEN -1 ELSE IF Len(r) = 1 THEN r[1].len
                          ELSE r[1].len + 1 + r[2].len
      BY <2>1, <3>1, SizesAre
    <3> QED BY <3>1, <3>2
  <2>3. CASE n = 1
    BY <1>2, <1>4, <1>6, <2>2, <2>3
  <2>4. CASE n = 2
    BY <1>2, <1>4, <1>6, <2>2, <2>4
  <2> QED BY <2>3, <2>4
<1>8. ASSUME NEW i \in 1..Len(r)
      PROVE  /\ r[i].s = q[i].s /\ Position(r[i]) = Position(q[i])
             /\ r[i] = Separator <=> q[i] = Separator
  <2>1. i = n \/ (n = 2 /\ i = 1)
    BY <1>6
  <2>2. CASE i = n
    BY <1>4, <1>5, <1>6, <2>2
  <2>3. CASE n = 2 /\ i = 1
    BY <1>6, <2>3
  <2> QED BY <2>1, <2>2, <2>3
<1> QED BY <1>6, <1>7, <1>8, CutRight DEF r

\* capOutput cuts only what is too long, and to what fits.
LEMMA CapRight ==
  ASSUME NEW q, NEW P, Tells(q, P)
  PROVE  Right(CapOutput(q), P) /\ CapOutput(q).ok = TRUE /\ CapOutput(q).done = TRUE
<1> DEFINE N == Len(q)
           K == {0} \cup {j \in 1..N - 1 : Fits(q, j)}
           n == IF q[1].len = 0 THEN 2 ELSE 1
<1>1. q \in Seq(Items) /\ N \in Nat /\ DOMAIN q = 1..N
  BY DEF Tells
<1>2. MaxOutput \in Nat /\ Marker \in Nat /\ Marker + 3 < MaxOutput
  BY LogReadAssumption
<1>3. CASE q = <<>> \/ SizeOfText(q) <= MaxOutput
  <2>1. CapOutput(q) = Reply(q, FALSE, TRUE)
    BY <1>3 DEF CapOutput
  <2>2. SizeOfText(q) <= MaxOutput
    <3>1. ASSUME q = <<>> PROVE SizeOfText(q) = -1
      <4>1. Len(q) = 0
        BY <3>1
      <4> QED BY <4>1, SizesAre
    <3> QED BY <1>2, <1>3, <3>1
  <2>3. Reply(q, FALSE, TRUE).ok = TRUE /\ Reply(q, FALSE, TRUE).done = TRUE
    BY DEF Reply
  <2> QED BY <2>1, <2>2, <2>3, WholeRight
<1>4. CASE q # <<>> /\ ~(SizeOfText(q) <= MaxOutput)
  <2>1. PICK k : k = Max(K)
    OBVIOUS
  <2>2. k \in K /\ \A j \in K : j <= k
    <3>1. K \in SUBSET (0..N) /\ K # {}
      <4>1. \A j \in 1..N - 1 : j \in 0..N
        BY <1>1
      <4> HIDE DEF N
      <4> QED BY <1>1, <4>1
    <3> HIDE DEF K
    <3> QED BY <1>1, <2>1, <3>1, GreatestNumber
  <2>3. CapOutput(q) = Reply(IF k > 0 THEN SubSeq(q, 1, k) ELSE CutLine(q, n), TRUE, TRUE)
    BY <1>4, <2>1 DEF CapOutput
  <2>4. \A r : Reply(r, TRUE, TRUE).ok = TRUE /\ Reply(r, TRUE, TRUE).done = TRUE
    BY DEF Reply
  <2>5. CASE k > 0
    <3>1. k \in 1..N - 1 /\ Fits(q, k)
      BY <2>2, <2>5
    <3>2. PICK r : r = SubSeq(q, 1, k)
      OBVIOUS
    <3>3. k \in Nat /\ k <= N /\ \A i \in 1..k : i \in 1..N
      BY <1>1, <3>1
    <3>4. r \in Seq(Items) /\ Len(r) = k /\ \A i \in 1..k : r[i] = q[i]
      <4>1. r = [i \in 1..k |-> q[i]]
        BY <1>1, <3>2, <3>3
      <4>2. \A i \in 1..k : q[i] \in Items
        BY <1>1, <3>3
      <4> QED BY <3>3, <4>1, <4>2
    <3>5. SizeOfText(r) + Marker <= MaxOutput
      <4>1. SizeOfText(r) \in 1..(MaxOutput - Marker - 1)
        BY <3>1, <3>2 DEF Fits
      <4> QED BY <1>2, <4>1
    <3>6. Right(Reply(r, TRUE, TRUE), P)
      BY <3>3, <3>4, <3>5, CutRight
    <3> QED BY <2>3, <2>4, <2>5, <3>2, <3>6
  <2>6. CASE ~(k > 0)
    <3>0. \A j \in 1..N - 1 : ~Fits(q, j)
      BY <2>2, <2>6
    <3>1. N # 0 /\ 1 \in 1..N /\ 0 \notin 1..N
      BY <1>1, <1>4
    <3>2. q[1] # Separator
      <4>1. 1 - 1 = 0
        OBVIOUS
      <4> QED BY <1>1, <3>1, <4>1 DEF Tells
    <3>3. \A i \in 1..N : q[i].len \in Int
      <4>1. \A e \in Items : e.len \in Int
        BY DEF Items
      <4>2. \A i \in 1..N : q[i] \in Items
        BY <1>1
      <4> QED BY <4>1, <4>2
    <3>4. CASE q[1].len = 0
      <4>1. N >= 2
        <5>1. ASSUME N = 1 PROVE FALSE
          <6>1. SizeOfText(q) = 0
            BY <3>3, <3>4, <5>1, SizesAre
          <6> QED BY <1>2, <1>4, <6>1
        <5> QED BY <1>1, <3>1, <5>1
      <4>2. q[2] # Separator
        <5>1. ASSUME q[2] = Separator PROVE FALSE
          <6>1. 2 + 1 \in 1..N /\ 2 \in 1..N
            <7>1. \A i \in 1..N : q[i] = Separator => i + 1 \in 1..N
              BY <1>1 DEF Tells
            <7>2. 2 \in 1..N
              BY <1>1, <4>1
            <7> QED BY <5>1, <7>1, <7>2
          <6>2. 2 \in 1..N - 1
            BY <1>1, <6>1
          <6>3. PICK r : r = SubSeq(q, 1, 2)
            OBVIOUS
          <6>4. Len(r) = 2 /\ r[1] = q[1] /\ r[2] = q[2]
            BY <1>1, <6>1, <6>3
          <6>5. SizeOfText(r) = r[1].len + 1 + r[2].len
            <7>1. Len(r) \in 0..2 /\ \A i \in 1..Len(r) : r[i].len \in Int
              <8>1. r[1].len \in Int /\ r[2].len \in Int
                BY <3>1, <3>3, <6>1, <6>4
              <8>2. \A i \in 1..2 : i = 1 \/ i = 2
                OBVIOUS
              <8> QED BY <6>4, <8>1, <8>2
            <7>2. SizeOfText(r) = IF Len(r) = 0 THEN -1 ELSE IF Len(r) = 1 THEN r[1].len
                                  ELSE r[1].len + 1 + r[2].len
              BY <7>1, SizesAre
            <7> QED BY <6>4, <7>2
          <6>6. SizeOfText(r) = 3
            BY <3>4, <5>1, <6>4, <6>5, SeparatorIs
          <6>7. Fits(q, 2)
            BY <1>2, <6>3, <6>6 DEF Fits
          <6> QED BY <3>0, <6>2, <6>7
        <5> QED BY <5>1
      <4>3. Right(Reply(CutLine(q, 2), TRUE, TRUE), P)
        BY <1>1, <3>4, <4>1, <4>2, CutLineRight
      <4> QED BY <2>3, <2>4, <2>6, <3>4, <4>3
    <3>5. CASE q[1].len # 0
      <4>1. 1 <= Len(q) /\ 1 \in {1, 2} /\ 1 # 2
        BY <1>1, <3>1
      <4>2. Right(Reply(CutLine(q, 1), TRUE, TRUE), P)
        BY <3>2, <4>1, CutLineRight
      <4> QED BY <2>3, <2>4, <2>6, <3>5, <4>2
    <3> QED BY <3>4, <3>5
  <2> QED BY <2>5, <2>6
<1> QED BY <1>3, <1>4

-----------------------------------------------------------------------------
(* Requests                                                                   *)

Requests == [mode : {"tail", "grep", "errors", "level"}, stream : STRING,
             pattern : BOOLEAN, level : Nat, lines : Nat \ {0}, context : Nat]

LogReadTypeOK ==
  /\ text \in [Streams -> Seq(Kinds)] /\ Len(text["stdout"]) + Len(text["stderr"]) <= MaxWritten
  /\ seen \in [Streams -> Seq(ReadLines)] /\ unread \in Seq(Streams)
  /\ ask = NoAsk \/ ask \in Requests

\* A file holds at least what was read of it, and a short line was read as it is.
ReadHeld ==
  \A s \in Streams :
    /\ Len(seen[s]) <= Len(text[s])
    /\ \A i \in 1..Len(seen[s]) : text[s][i].len < MaxLine =>
         ~seen[s][i].cut /\ seen[s][i].len = text[s][i].len

\* A request that was granted has read its files; one without an answer asks for
\* nothing that is refused.
Answering ==
  /\ answer.done => ask # NoAsk /\ (answer.ok <=> ValidAsk(ask) /\ unread = <<>>)
  /\ ~answer.done /\ ask # NoAsk => ValidAsk(ask)
  /\ unread # <<>> => ask # NoAsk

Told == \A a, z, P : ask = a /\ answer = z /\ P = Owed(a) /\ z.done /\ z.ok => Right(z, P)

LogReadInv == LogReadTypeOK /\ ReadHeld /\ Answering /\ Told

\* What was read is as bounded as what was written.
LEMMA FilesFit == LogReadTypeOK /\ ReadHeld => SeenHeld
<1> SUFFICES ASSUME LogReadTypeOK, ReadHeld, NEW s \in Streams
             PROVE  seen[s] \in Seq(ReadLines) /\ Len(seen[s]) <= MaxWritten
  BY DEF SeenHeld
<1>1. "stdout" \in Streams /\ "stderr" \in Streams /\ (s = "stdout" \/ s = "stderr")
  BY DEF Streams
<1>2. \A t \in Streams : Len(text[t]) \in Nat /\ Len(seen[t]) \in Nat
  BY DEF LogReadTypeOK
<1>3. MaxWritten \in Nat
  BY LogReadAssumption
<1>4. Len(text[s]) <= MaxWritten
  BY <1>1, <1>2, <1>3 DEF LogReadTypeOK
<1>5. Len(seen[s]) <= Len(text[s])
  BY DEF ReadHeld
<1>6. Len(seen[s]) <= MaxWritten
  BY <1>2, <1>3, <1>4, <1>5
<1> QED BY <1>6 DEF LogReadTypeOK

\* What is owed depends on what was read alone.
LEMMA OwedSame ==
  ASSUME UNCHANGED seen, NEW a
  PROVE  Owed(a)' = Owed(a)
<1>1. Lines' = Lines
  BY DEF Lines
<1>2. \A p : Line(p)' = Line(p)
  BY DEF Line
<1>3. /\ {q \in Lines : Line(q).hit > 0}' = {q \in Lines : Line(q).hit > 0}
      /\ {p \in Lines : Line(p).err > 0}' = {p \in Lines : Line(p).err > 0}
      /\ {p \in Lines : Rank(Line(p)) >= a.level}' = {p \in Lines : Rank(Line(p)) >= a.level}
  BY <1>1, <1>2
<1> QED BY <1>1, <1>3 DEF Owed

\* What is kept when neither the request nor its answer nor what was read changes.
LEMMA ToldKept == ASSUME Told, UNCHANGED <<ask, seen, answer>> PROVE Told'
<1> SUFFICES ASSUME NEW a, NEW z, NEW P, ask' = a, answer' = z, P = Owed(a)', z.done, z.ok
             PROVE  Right(z, P)
  BY DEF Told
<1>1. P = Owed(a)
  BY OwedSame
<1> QED BY <1>1 DEF Told

LEMMA KindsAre ==
  \A l \in Kinds : /\ l.len \in Nat /\ l.hit \in Nat /\ l.err \in Nat /\ l.json \in Nat
                   /\ l.marks \in SUBSET Nat
BY LogReadAssumption

LEMMA LimitedLineIs ==
  ASSUME NEW l \in Kinds, NEW e \in BOOLEAN
  PROVE  /\ LimitedLine(l, e) \in ReadLines
         /\ l.len < MaxLine => ~LimitedLine(l, e).cut /\ LimitedLine(l, e).len = l.len
<1>1. MaxLine \in Nat
  BY LogReadAssumption
<1>2. /\ l.len \in Nat /\ l.hit \in Nat /\ l.err \in Nat /\ l.json \in Nat
      /\ l.marks \in SUBSET Nat
  BY KindsAre
<1>3. Cut(l, e) \in BOOLEAN /\ (l.len < MaxLine => ~Cut(l, e))
  BY <1>1, <1>2 DEF Cut, Total
<1>4. LimitedLine(l, e).cut = Cut(l, e) /\ (l.len < MaxLine => LimitedLine(l, e).len = l.len)
  BY <1>1, <1>2 DEF LimitedLine
<1>5. LimitedLine(l, e) \in ReadLines
  BY <1>1, <1>2, <1>3 DEF LimitedLine, ReadLines
<1> QED BY <1>3, <1>4, <1>5

LEMMA ReadAllLinesIs ==
  ASSUME NEW s \in Streams, LogReadTypeOK
  PROVE  /\ ReadAllLines(s) \in Seq(ReadLines) /\ Len(ReadAllLines(s)) <= Len(text[s])
         /\ \A i \in 1..Len(ReadAllLines(s)) : text[s][i].len < MaxLine =>
              ~ReadAllLines(s)[i].cut /\ ReadAllLines(s)[i].len = text[s][i].len
<1> DEFINE N == Len(text[s])
           ended(i) == i < N \/ s \notin unended
           all == [i \in DOMAIN text[s] |-> LimitedLine(text[s][i], ended(i))]
<1>1. text[s] \in Seq(Kinds) /\ N \in Nat /\ DOMAIN text[s] = 1..N
  BY DEF LogReadTypeOK
<1>2. \A i \in 1..N : text[s][i] \in Kinds /\ ended(i) \in BOOLEAN
  BY <1>1
<1>3. PICK r : r = all
  OBVIOUS
<1>4. DOMAIN r = 1..N /\ \A i \in 1..N : r[i] = LimitedLine(text[s][i], ended(i))
  BY <1>1, <1>3
<1>5. \A i \in 1..N : r[i] \in ReadLines /\ (text[s][i].len < MaxLine => ~r[i].cut /\ r[i].len = text[s][i].len)
  <2> HIDE DEF ended
  <2> QED BY <1>2, <1>4, LimitedLineIs
<1>6. r = [i \in 1..N |-> r[i]]
  BY <1>1, <1>3
<1>7. r \in Seq(ReadLines) /\ Len(r) = N
  <2>1. PICK c : c = N
    OBVIOUS
  <2>2. c \in Nat /\ r = [i \in 1..c |-> r[i]] /\ \A i \in 1..c : r[i] \in ReadLines
    BY <1>1, <1>5, <1>6, <2>1
  <2>3. r \in Seq(ReadLines) /\ Len(r) = c
    BY <2>2
  <2> QED BY <2>1, <2>3
<1>8. ReadAllLines(s) = r \/ (r # <<>> /\ ReadAllLines(s) = Front(r))
  BY <1>3 DEF ReadAllLines
<1> HIDE DEF N
<1>9. CASE ReadAllLines(s) = r
  <2>1. N <= N
    BY <1>1
  <2>2. N = Len(text[s])
    BY DEF N
  <2> QED BY <1>5, <1>7, <1>9, <2>1, <2>2
<1>10. CASE r # <<>> /\ ReadAllLines(s) = Front(r)
  <2>1. PICK m : m = N - 1
    OBVIOUS
  <2>2. m \in Nat /\ m <= N /\ \A i \in 1..m : i \in 1..N
    BY <1>1, <1>7, <1>10, <2>1
  <2>3. PICK t : t = Front(r)
    OBVIOUS
  <2>4. t = [i \in 1..m |-> r[i]]
    BY <1>7, <2>1, <2>2, <2>3 DEF Front
  <2>5. \A i \in 1..m : r[i] \in ReadLines
    BY <1>5, <2>2
  <2>6. t \in Seq(ReadLines) /\ Len(t) = m /\ \A i \in 1..m : t[i] = r[i]
    BY <2>2, <2>4, <2>5
  <2>7. Len(t) <= Len(text[s])
    BY <2>2, <2>6 DEF N
  <2> QED BY <1>5, <1>10, <2>2, <2>3, <2>6, <2>7
<1> QED BY <1>8, <1>9, <1>10

\* Before the cut, each reader tells exactly what is owed.
LEMMA AnswerTells ==
  ASSUME SeenHeld, ask \in Requests
  PROVE  Tells(Uncapped, Owed(ask))
<1>1. ask.lines \in Nat /\ ask.context \in Nat /\ ask.mode \in {"tail", "grep", "errors", "level"}
  BY DEF Requests
<1>2. CASE ask.mode = "tail"
  <2>1. Uncapped = Tail_(ask.lines)
    BY <1>2 DEF Uncapped
  <2>2. Owed(ask) = {p \in Lines : Cardinality({q \in Lines : q.s = p.s /\ Earlier(p, q)}) < ask.lines}
    BY <1>2 DEF Owed
  <2> QED BY <1>1, <2>1, <2>2, TailTells
<1>3. CASE ask.mode = "grep"
  <2>1. Uncapped = Grep(ask.context)
    BY <1>3 DEF Uncapped
  <2>2. Owed(ask) = {p \in Lines : \E m \in FirstOf({q \in Lines : Line(q).hit > 0}, GrepMatches) :
                                     m.s = p.s /\ p.i \in m.i - ask.context .. m.i + ask.context}
    BY <1>3 DEF Owed
  <2> QED BY <1>1, <2>1, <2>2, GrepTells
<1>4. CASE ask.mode = "errors"
  <2>1. Uncapped = Errors(ask.lines)
    BY <1>4 DEF Uncapped
  <2>2. Owed(ask) = LastOf({p \in Lines : Line(p).err > 0}, ask.lines)
    BY <1>4 DEF Owed
  <2> QED BY <1>1, <2>1, <2>2, ErrorsTell
<1>5. CASE ask.mode = "level"
  <2>1. Uncapped = FilterLevel(ask.level, ask.lines)
    BY <1>5 DEF Uncapped
  <2>2. Owed(ask) = LastOf({p \in Lines : Rank(Line(p)) >= ask.level}, ask.lines)
    BY <1>5 DEF Owed
  <2> QED BY <1>1, <2>1, <2>2, LevelTells
<1> QED BY <1>1, <1>2, <1>3, <1>4, <1>5

LEMMA LogReadStart == LogReadInit => LogReadInv
<1> SUFFICES ASSUME LogReadInit PROVE LogReadInv
  OBVIOUS
<1>1. "stdout" \in Streams /\ "stderr" \in Streams
  BY DEF Streams
<1>2. text = [s \in Streams |-> <<>>] /\ seen = [s \in Streams |-> <<>>]
  BY StreamsAre DEF LogReadInit
<1>3. LogReadTypeOK
  BY <1>1, <1>2, LogReadAssumption DEF LogReadInit, LogReadTypeOK
<1>4. ReadHeld
  BY <1>2 DEF ReadHeld
<1>5. Answering /\ Told
  BY DEF LogReadInit, Answering, Told, NoReply
<1> QED BY <1>3, <1>4, <1>5 DEF LogReadInv

LEMMA LogLineStep ==
  ASSUME LogReadInv, NEW s \in Streams, NEW l \in Kinds, LogLine(s, l)
  PROVE  LogReadInv'
<1>1. "stdout" \in Streams /\ "stderr" \in Streams /\ "stdout" # "stderr" /\ (s = "stdout" \/ s = "stderr")
  BY DEF Streams
<1>2. text \in [Streams -> Seq(Kinds)] /\ text' = [text EXCEPT ![s] = Append(@, l)]
      /\ Len(text["stdout"]) + Len(text["stderr"]) < MaxWritten
  BY DEF LogReadInv, LogReadTypeOK, LogLine
<1>3. UNCHANGED <<ask, unread, seen, answer>>
  BY DEF LogLine
<1>4. \A t \in Streams : Len(text[t]) \in Nat
  BY <1>2
<1>5. PICK q : q = Append(text[s], l)
  OBVIOUS
<1>6. q \in Seq(Kinds) /\ Len(q) = Len(text[s]) + 1 /\ \A i \in 1..Len(text[s]) : q[i] = text[s][i]
  BY <1>2, <1>5
<1>7. text'[s] = q /\ \A t \in Streams : t # s => text'[t] = text[t]
  BY <1>2, <1>5
<1>8. text' \in [Streams -> Seq(Kinds)]
  BY <1>2, <1>5, <1>6
<1>9. Len(text'["stdout"]) + Len(text'["stderr"]) <= MaxWritten
  <2>1. MaxWritten \in Nat
    BY LogReadAssumption
  <2>2. PICK x, y : x = Len(text["stdout"]) /\ y = Len(text["stderr"])
    OBVIOUS
  <2>5. x \in Nat /\ y \in Nat /\ x + y < MaxWritten
    BY <1>1, <1>2, <1>4, <2>2
  <2>6. x + 1 + y <= MaxWritten /\ x + (y + 1) <= MaxWritten
    BY <2>1, <2>5
  <2>3. CASE s = "stdout"
    <3>1. Len(text'["stdout"]) = x + 1 /\ Len(text'["stderr"]) = y
      BY <1>1, <1>6, <1>7, <2>2, <2>3
    <3> QED BY <2>6, <3>1
  <2>4. CASE s = "stderr"
    <3>1. Len(text'["stdout"]) = x /\ Len(text'["stderr"]) = y + 1
      BY <1>1, <1>6, <1>7, <2>2, <2>4
    <3> QED BY <2>6, <3>1
  <2> QED BY <1>1, <2>3, <2>4
<1>10. LogReadTypeOK'
  BY <1>3, <1>8, <1>9 DEF LogReadInv, LogReadTypeOK
<1>11. ReadHeld'
  <2> SUFFICES ASSUME NEW t \in Streams
               PROVE  /\ Len(seen[t]) <= Len(text'[t])
                      /\ \A i \in 1..Len(seen[t]) : text'[t][i].len < MaxLine =>
                           ~seen[t][i].cut /\ seen[t][i].len = text'[t][i].len
    BY <1>3 DEF ReadHeld
  <2>1. /\ Len(seen[t]) <= Len(text[t])
        /\ \A i \in 1..Len(seen[t]) : text[t][i].len < MaxLine =>
             ~seen[t][i].cut /\ seen[t][i].len = text[t][i].len
    BY DEF LogReadInv, ReadHeld
  <2>2. Len(seen[t]) \in Nat /\ Len(text[t]) \in Nat
    BY <1>4 DEF LogReadInv, LogReadTypeOK
  <2>3. CASE t = s
    <3>1. Len(text'[t]) = Len(text[t]) + 1 /\ \A i \in 1..Len(text[t]) : text'[t][i] = text[t][i]
      BY <1>6, <1>7, <2>3
    <3>2. \A i \in 1..Len(seen[t]) : i \in 1..Len(text[t])
      BY <2>1, <2>2
    <3>3. Len(seen[t]) <= Len(text'[t])
      BY <2>1, <2>2, <3>1
    <3> QED BY <2>1, <3>1, <3>2, <3>3
  <2>4. CASE t # s
    BY <1>7, <2>1, <2>4
  <2> QED BY <2>3, <2>4
<1>12. Answering'
  BY <1>3 DEF LogReadInv, Answering
<1>13. Told'
  BY <1>3, ToldKept DEF LogReadInv
<1> QED BY <1>10, <1>11, <1>12, <1>13 DEF LogReadInv

LEMMA AskLogsStep == ASSUME LogReadInv, NEW a \in Asks, AskLogs(a) PROVE LogReadInv'
<1>1. /\ a.mode \in {"tail", "grep", "errors"} /\ a.stream \in STRING /\ a.level \in Nat
      /\ a.pattern \in BOOLEAN
      /\ a.lines \in Int /\ a.context \in Nat /\ DefaultLines \in Nat \ {0}
      /\ a \in [mode : {"tail", "grep", "errors"}, stream : STRING, pattern : BOOLEAN, level : Nat,
                lines : Int, context : Nat]
  BY LogReadAssumption
<1>2. ask' \in Requests
  <2>1. ask' = [a EXCEPT !.mode = IF a.level # 0 THEN "level" ELSE a.mode,
                         !.lines = IF a.lines <= 0 THEN DefaultLines ELSE a.lines]
    BY DEF AskLogs
  <2>2. ask' = [mode |-> IF a.level # 0 THEN "level" ELSE a.mode, stream |-> a.stream,
                pattern |-> a.pattern, level |-> a.level,
                lines |-> IF a.lines <= 0 THEN DefaultLines ELSE a.lines, context |-> a.context]
    BY <1>1, <2>1
  <2> QED BY <1>1, <2>2 DEF Requests
<1>3. ask' # NoAsk
  <2>1. \A r \in Requests : r.mode # "none"
    BY DEF Requests
  <2>2. NoAsk.mode = "none"
    BY DEF NoAsk
  <2> QED BY <1>2, <2>1, <2>2
<1>4. seen' = [s \in Streams |-> <<>>] /\ text' = text
  BY StreamsAre DEF AskLogs
<1>5. CASE ValidAsk(ask')
  <2>1. unread' = StreamFiles(a.stream) /\ answer' = NoReply
    BY <1>5 DEF AskLogs
  <2>2. unread' \in Seq(Streams)
    <3>1. /\ <<"stdout">> \in Seq(Streams) /\ <<"stderr">> \in Seq(Streams) /\ Both \in Seq(Streams)
      BY DEF Both, Streams
    <3>2. unread' \in {<<"stdout">>, <<"stderr">>, Both}
      BY <2>1 DEF StreamFiles
    <3> QED BY <3>1, <3>2
  <2>3. answer'.done = FALSE
    BY <2>1 DEF NoReply
  <2>4. LogReadTypeOK'
    <3>1. seen' \in [Streams -> Seq(ReadLines)]
      BY <1>4
    <3>2. unread' \in Seq(Streams)
      BY <2>2
    <3>3. text' \in [Streams -> Seq(Kinds)] /\ Len(text'["stdout"]) + Len(text'["stderr"]) <= MaxWritten
      BY <1>4 DEF LogReadInv, LogReadTypeOK
    <3> QED BY <1>2, <3>1, <3>2, <3>3 DEF LogReadTypeOK
  <2>5. Answering'
    BY <1>3, <1>5, <2>3 DEF Answering
  <2>6. Told'
    BY <2>3 DEF Told
  <2>7. ReadHeld'
    BY <1>4 DEF LogReadInv, LogReadTypeOK, ReadHeld
  <2> QED BY <2>4, <2>5, <2>6, <2>7 DEF LogReadInv
<1>6. CASE ~ValidAsk(ask')
  <2>1. unread' = <<>> /\ answer' = Reply(<<>>, FALSE, FALSE)
    BY <1>6 DEF AskLogs
  <2>2. answer'.done = TRUE /\ answer'.ok = FALSE
    BY <2>1 DEF Reply
  <2>3. LogReadTypeOK'
    <3>1. seen' \in [Streams -> Seq(ReadLines)]
      BY <1>4
    <3>2. unread' \in Seq(Streams)
      BY <2>1
    <3>3. text' \in [Streams -> Seq(Kinds)] /\ Len(text'["stdout"]) + Len(text'["stderr"]) <= MaxWritten
      BY <1>4 DEF LogReadInv, LogReadTypeOK
    <3> QED BY <1>2, <3>1, <3>2, <3>3 DEF LogReadTypeOK
  <2>4. Answering'
    BY <1>3, <1>6, <2>2 DEF Answering
  <2>5. Told'
    BY <2>2 DEF Told
  <2>6. ReadHeld'
    BY <1>4 DEF LogReadInv, LogReadTypeOK, ReadHeld
  <2> QED BY <2>3, <2>4, <2>5, <2>6 DEF LogReadInv
<1> QED BY <1>5, <1>6

LEMMA ReadFileStep == ASSUME LogReadInv, ReadFile PROVE LogReadInv'
<1>1. /\ unread \in Seq(Streams) /\ unread # <<>> /\ unread' = Tail(unread)
      /\ seen \in [Streams -> Seq(ReadLines)]
      /\ seen' = [seen EXCEPT ![Head(unread)] = ReadAllLines(Head(unread))]
      /\ UNCHANGED <<text, unended, ask, answer>>
  BY DEF ReadFile, LogReadInv, LogReadTypeOK
<1>2. PICK s \in Streams : s = Head(unread)
  BY <1>1
<1>3. PICK r : r = ReadAllLines(s)
  OBVIOUS
<1>4. /\ r \in Seq(ReadLines) /\ Len(r) <= Len(text[s])
      /\ \A i \in 1..Len(r) : text[s][i].len < MaxLine => ~r[i].cut /\ r[i].len = text[s][i].len
  BY <1>3, ReadAllLinesIs DEF LogReadInv
<1>5. seen' = [seen EXCEPT ![s] = r]
  BY <1>1, <1>2, <1>3
<1>6. seen' \in [Streams -> Seq(ReadLines)] /\ seen'[s] = r /\ \A t \in Streams : t # s => seen'[t] = seen[t]
  BY <1>1, <1>4, <1>5
<1>7. LogReadTypeOK'
  <2>1. unread' \in Seq(Streams)
    <3>1. \A q \in Seq(Streams) : q # <<>> => Tail(q) \in Seq(Streams)
      OBVIOUS
    <3> QED BY <1>1, <3>1
  <2>2. /\ text' \in [Streams -> Seq(Kinds)] /\ Len(text'["stdout"]) + Len(text'["stderr"]) <= MaxWritten
        /\ ask' = NoAsk \/ ask' \in Requests
    BY <1>1 DEF LogReadInv, LogReadTypeOK
  <2> QED BY <1>6, <2>1, <2>2 DEF LogReadTypeOK
<1>8. ReadHeld'
  <2> SUFFICES ASSUME NEW t \in Streams
               PROVE  /\ Len(seen'[t]) <= Len(text[t])
                      /\ \A i \in 1..Len(seen'[t]) : text[t][i].len < MaxLine =>
                           ~seen'[t][i].cut /\ seen'[t][i].len = text[t][i].len
    BY <1>1 DEF ReadHeld
  <2>1. CASE t = s
    BY <1>4, <1>6, <2>1
  <2>2. CASE t # s
    BY <1>6, <2>2 DEF LogReadInv, ReadHeld
  <2> QED BY <2>1, <2>2
<1>9. ~answer.done
  BY DEF ReadFile
<1>10. Answering'
  BY <1>1, <1>9 DEF LogReadInv, Answering
<1>11. Told'
  BY <1>1, <1>9 DEF Told
<1> QED BY <1>7, <1>8, <1>10, <1>11 DEF LogReadInv

LEMMA ReadFailsStep == ASSUME LogReadInv, ReadFails PROVE LogReadInv'
<1>1. /\ unread # <<>> /\ ~answer.done /\ answer'.done = TRUE /\ answer'.ok = FALSE
      /\ UNCHANGED <<text, unended, ask, unread, seen>>
  BY DEF ReadFails, Reply
<1>2. unread # <<>> => ask # NoAsk
  BY DEF LogReadInv, Answering
<1>3. LogReadTypeOK' /\ ReadHeld'
  BY <1>1 DEF LogReadInv, LogReadTypeOK, ReadHeld
<1>4. Answering' /\ Told'
  BY <1>1, <1>2 DEF Answering, Told
<1> QED BY <1>3, <1>4 DEF LogReadInv

LEMMA AnswerLogsStep == ASSUME LogReadInv, AnswerLogs PROVE LogReadInv'
<1>1. /\ ask # NoAsk /\ unread = <<>> /\ ~answer.done
      /\ UNCHANGED <<text, unended, unread, ask, seen>>
  BY DEF AnswerLogs
<1>2. ask \in Requests /\ SeenHeld /\ ValidAsk(ask)
  BY <1>1, FilesFit DEF LogReadInv, LogReadTypeOK, Answering
<1>3. PICK q, P : q = Uncapped /\ P = Owed(ask)
  OBVIOUS
<1>4. Tells(q, P)
  BY <1>2, <1>3, AnswerTells
<1>5. PICK z : z = CapOutput(q)
  OBVIOUS
<1>6. Right(z, P) /\ z.ok = TRUE /\ z.done = TRUE
  BY <1>4, <1>5, CapRight
<1>7. answer' = z
  BY <1>3, <1>5 DEF AnswerLogs
<1>8. LogReadTypeOK'
  BY <1>1 DEF LogReadInv, LogReadTypeOK
<1>9. ReadHeld'
  BY <1>1 DEF LogReadInv, ReadHeld
<1>10. Answering'
  <2>1. ValidAsk(ask')
    BY <1>1, <1>2
  <2> QED BY <1>1, <1>6, <1>7, <2>1 DEF Answering
<1>11. Told'
  <2> SUFFICES ASSUME NEW a, NEW y, NEW Q, ask' = a, answer' = y, Q = Owed(a)', y.done, y.ok
               PROVE  Right(y, Q)
    BY DEF Told
  <2>1. Q = Owed(a)
    BY <1>1, OwedSame
  <2>2. Q = P /\ y = z
    BY <1>1, <1>3, <1>7, <2>1
  <2> QED BY <1>6, <2>2
<1> QED BY <1>8, <1>9, <1>10, <1>11 DEF LogReadInv

LEMMA LogReadStep == LogReadInv /\ [LogReadNext]_logReadVars => LogReadInv'
<1> SUFFICES ASSUME LogReadInv, [LogReadNext]_logReadVars PROVE LogReadInv'
  OBVIOUS
<1>1. ASSUME NEW s \in ToSet(Both), NEW l \in Kinds, LogLine(s, l) PROVE LogReadInv'
  BY <1>1, StreamsAre, LogLineStep
<1>2. ASSUME UNCHANGED <<text, ask, unread, seen, answer>> PROVE LogReadInv'
  <2>1. LogReadTypeOK' /\ ReadHeld' /\ Answering'
    BY <1>2 DEF LogReadInv, LogReadTypeOK, ReadHeld, Answering
  <2>2. Told'
    BY <1>2, ToldKept DEF LogReadInv
  <2> QED BY <2>1, <2>2 DEF LogReadInv
<1>3. ASSUME NEW s \in ToSet(Both), EndLine(s) PROVE LogReadInv'
  BY <1>2, <1>3 DEF EndLine
<1>4. ASSUME NEW a \in Asks, AskLogs(a) PROVE LogReadInv'
  BY <1>4, AskLogsStep
<1>5. CASE ReadFile
  BY <1>5, ReadFileStep
<1>6. CASE ReadFails
  BY <1>6, ReadFailsStep
<1>7. CASE AnswerLogs
  BY <1>7, AnswerLogsStep
<1>8. CASE UNCHANGED logReadVars
  BY <1>2, <1>8 DEF logReadVars
<1> QED BY <1>1, <1>3, <1>4, <1>5, <1>6, <1>7, <1>8 DEF LogReadNext

LEMMA LogReadSafe == LogReadInv => ReadersAgree
<1> SUFFICES ASSUME LogReadInv, answer.done PROVE ReadersAgree
  BY DEF ReadersAgree
<1>1. answer.ok <=> ValidAsk(ask) /\ unread = <<>>
  BY DEF LogReadInv, Answering
<1>2. answer.ok => Right(answer, Owed(ask))
  BY DEF LogReadInv, Told
<1>3. ShownIn(answer.lines) = Shown
  BY DEF ShownIn, Shown
<1>4. \A p \in Lines : text[p.s][p.i].len < MaxLine => ~Line(p).cut /\ Line(p).len = text[p.s][p.i].len
  <2>1. SeenHeld
    BY FilesFit DEF LogReadInv
  <2>2. \A p \in Lines : p.s \in Streams /\ p.i \in 1..Len(seen[p.s])
    BY <2>1, LinesAre DEF FileLines, SeenHeld
  <2> QED BY <2>2 DEF LogReadInv, ReadHeld, Line
<1>5. answer.ok => InOrder(answer.lines)
  BY <1>2 DEF Right
<1>6. answer.ok => IF answer.truncated
                   THEN /\ Shown \subseteq Owed(ask)
                        /\ \A p \in Shown, q \in Owed(ask) \ Shown : Earlier(p, q)
                        /\ SizeOfText(answer.lines) + Marker <= MaxOutput
                   ELSE Shown = Owed(ask) /\ SizeOfText(answer.lines) <= MaxOutput
  BY <1>2, <1>3 DEF Right, FirstPart
<1> QED BY <1>1, <1>4, <1>5, <1>6, Zenon DEF ReadersAgree, InOrder

\* However many lines the child writes while its files are read, whatever is asked
\* and wherever the limits lie, the answer of Tail, Grep, Errors and FilterLevel
\* shows exactly the lines owed, in order and each once, or a first part of them
\* where capOutput had to cut; "--" only between two lines of one stream.
THEOREM LogRequestsAnswered == LogReadSpec => []ReadersAgree
<1>1. LogReadSpec => []LogReadInv
  BY LogReadStart, LogReadStep, PTL DEF LogReadSpec
<1> QED BY <1>1, LogReadSafe, PTL

\* A loop of N rounds over values of A has its results.
Round(step, N, A) == step \in [(1..N) \X A -> A]
IsLoop(f, step, N, A, start) ==
  f \in [0..N -> A] /\ f[0] = start /\ \A n \in 1..N : f[n] = step[<<n, f[n - 1]>>]
LEMMA Rounds ==
  ASSUME NEW N \in Nat, NEW A, NEW start \in A, NEW step, Round(step, N, A)
  PROVE  \E f : IsLoop(f, step, N, A, start)
<1> DEFINE Upto(f, n) == /\ f \in [0..n -> A] /\ f[0] = start
                         /\ \A k \in 1..n : f[k] = step[<<k, f[k - 1]>>]
           S == {n \in 0..N : \E f : Upto(f, n)}
<1>1. 0 \in S
  <2>1. PICK f : f = [k \in 0..0 |-> start]
    OBVIOUS
  <2>2. Upto(f, 0)
    BY <2>1
  <2> QED BY <2>2
<1>2. ASSUME NEW n \in 1..N, n - 1 \in S PROVE n \in S
  <2>1. PICK f : Upto(f, n - 1)
    BY <1>2
  <2>2. f[n - 1] \in A /\ step[<<n, f[n - 1]>>] \in A
    BY <2>1 DEF Round
  <2>3. PICK g : g = [k \in 0..n |-> IF k = n THEN step[<<n, f[n - 1]>>] ELSE f[k]]
    OBVIOUS
  <2>4. g \in [0..n -> A] /\ g[0] = start
    BY <2>1, <2>2, <2>3
  <2>5. ASSUME NEW k \in 1..n PROVE g[k] = step[<<k, g[k - 1]>>]
    <3>1. k - 1 \in 0..n /\ k - 1 # n /\ g[k - 1] = f[k - 1]
      BY <2>3
    <3>2. CASE k = n
      BY <2>3, <3>1, <3>2
    <3>3. CASE k # n
      <4>1. k \in 1..(n - 1) /\ g[k] = f[k]
        BY <2>3, <3>3
      <4> QED BY <2>1, <3>1, <4>1
    <3> QED BY <3>2, <3>3
  <2>6. Upto(g, n)
    BY <2>4, <2>5
  <2> QED BY <2>6
<1>3. 0..N \subseteq S
  <2> HIDE DEF S
  <2> QED BY <1>1, <1>2, UpTo
<1>4. N \in 0..N
  OBVIOUS
<1>5. PICK f : Upto(f, N)
  BY <1>3, <1>4
<1>6. IsLoop(f, step, N, A, start)
  BY <1>5 DEF IsLoop
<1> QED BY <1>6

LEMMA PieceIs ==
  ASSUME NEW A, NEW q \in Seq(A), NEW b \in 1..Len(q) + 1, NEW e \in 0..Len(q), b - 1 <= e
  PROVE  LET s == SubSeq(q, b, e)
         IN  s \in Seq(A) /\ Len(s) = e + 1 - b /\ \A i \in 1..e + 1 - b : s[i] = q[b + i - 1]
OBVIOUS

-----------------------------------------------------------------------------
(* Secrets: characters                                                        *)

Chars == (STRING \X Nat) \cup {NL, Placeholder, Plain("x"), Plain("secret://")}

LEMMA CharsAre ==
  /\ MinLen \in Nat \ {0} /\ Values_ \subseteq Seq(Chars) /\ Maskable \subseteq Values_
  /\ {NL, Placeholder, Plain("x"), Plain("secret://")} \subseteq Chars \ SecretChars
  /\ \A v \in Maskable : v \in Seq(SecretChars) /\ Len(v) \in Nat /\ Len(v) >= MinLen /\ Len(v) >= 1
  /\ \A v \in Values_ \ Maskable : \A k \in 1..Len(v) : v[k] \notin SecretChars
  /\ STRING \X {0} \subseteq Chars \ SecretChars
<1>1. Values_ \subseteq Seq(Marked_ \cup {NL}) /\ Maskable \subseteq Values_ /\ MinLen \in Nat \ {0}
  BY SecretsAssumption DEF Maskable
<1>2. Marked_ \subseteq STRING \X Nat /\ Marked_ \cup {NL} \subseteq Chars
  BY DEF Marked_, Chars
<1>3. Values_ \subseteq Seq(Chars)
  BY <1>1, <1>2
<1>4. ASSUME NEW c, c[2] = 0 PROVE c \notin Marked_
  BY <1>4 DEF Marked_
<1>5. SecretChars \subseteq Marked_
  <2>1. ASSUME NEW v \in Maskable PROVE ToSet(v) \subseteq Marked_
    <3>1. v \in Seq(Marked_ \cup {NL}) /\ NL \notin ToSet(v)
      BY <1>1 DEF Maskable
    <3> QED BY <3>1 DEF ToSet
  <2> QED BY <2>1 DEF SecretChars
<1>6. {NL, Placeholder, Plain("x"), Plain("secret://")} \subseteq Chars \ SecretChars
  BY <1>4, <1>5 DEF Chars, NL, Placeholder, Plain
<1>7. ASSUME NEW v \in Maskable
      PROVE  v \in Seq(SecretChars) /\ Len(v) \in Nat /\ Len(v) >= MinLen /\ Len(v) >= 1
  <2>1. v \in Seq(Marked_ \cup {NL}) /\ Len(v) >= MinLen
    BY <1>1 DEF Maskable
  <2>2. \A k \in 1..Len(v) : v[k] \in SecretChars
    BY <2>1 DEF SecretChars, ToSet
  <2> QED BY <1>1, <2>1, <2>2
<1>8. ASSUME NEW v \in Values_ \ Maskable, NEW k \in 1..Len(v) PROVE v[k] \notin SecretChars
  <2>1. v \in Seq(Chars) /\ ToSet(v) \cap SecretChars = {}
    BY <1>3, SecretsAssumption
  <2> QED BY <2>1 DEF ToSet
<1>9. STRING \X {0} \subseteq Chars \ SecretChars
  <2>1. ASSUME NEW c \in STRING \X {0} PROVE c \in Chars /\ c \notin SecretChars
    <3>1. c[2] = 0 /\ c \in STRING \X Nat
      OBVIOUS
    <3> QED BY <1>4, <1>5, <3>1 DEF Chars
  <2> QED BY <2>1
<1> QED BY <1>1, <1>3, <1>6, <1>7, <1>8, <1>9

-----------------------------------------------------------------------------
(* A line and the values in it                                                *)

\* What value lies where.
Covers(t, i) == t.at <= i /\ i < t.at + Len(t.value)
Apart_(t, u) == t.at + Len(t.value) <= u.at \/ u.at + Len(u.value) <= t.at

\* The values of S placed in a line side by side: no secret character lies beside
\* them, except, in a line whose beginning is torn off, before its end.
Placed(K, line, S, headless) ==
  /\ K \subseteq [at : 1..Len(line), value : S]
  /\ \A t \in K : Occurs(t.value, line, t.at)
  /\ \A t, u \in K : t = u \/ Apart_(t, u)
  /\ \A i \in 1..Len(line) : line[i] \in SecretChars =>
       (\E t \in K : Covers(t, i)) \/ (headless /\ \A j \in 1..i : line[j] # NL)
Holds(line, S, headless) == line \in Seq(Chars) /\ \E K : Placed(K, line, S, headless)

\* What a scan for a value has put out and skipped at each character.
IsScan(scan, v, line) ==
  /\ \A i \in 0..Len(line) : scan[i].out \in Seq(Chars) /\ scan[i].upto \in Nat
  /\ scan[0].out = <<>> /\ scan[0].upto = 0
  /\ \A i \in 1..Len(line) :
       \/ i <= scan[i - 1].upto /\ scan[i] = scan[i - 1]
       \/ /\ i > scan[i - 1].upto /\ Occurs(v, line, i)
          /\ scan[i].out = Append(scan[i - 1].out, Placeholder) /\ scan[i].upto = i + Len(v) - 1
       \/ /\ i > scan[i - 1].upto /\ ~Occurs(v, line, i)
          /\ scan[i].out = Append(scan[i - 1].out, line[i]) /\ scan[i].upto = scan[i - 1].upto

LEMMA ScanIs ==
  ASSUME NEW v, Len(v) \in Nat \ {0}, NEW line \in Seq(Chars)
  PROVE  \E scan : IsScan(scan, v, line) /\ ReplaceValue(v, line) = scan[Len(line)].out
<1> DEFINE N == Len(line)
           A == [out : Seq(Chars), upto : Nat]
           start == [out |-> <<>>, upto |-> 0]
           Next_(a, i) == IF i <= a.upto THEN a
                          ELSE IF Occurs(v, line, i)
                          THEN [out |-> Append(a.out, Placeholder), upto |-> i + Len(v) - 1]
                          ELSE [a EXCEPT !.out = Append(@, line[i])]
           Is(f) == f = [i \in 0..N |-> IF i = 0 THEN start ELSE Next_(f[i - 1], i)]
<1>1. N \in Nat /\ start \in A /\ Placeholder \in Chars
  BY CharsAre
<1> DEFINE Moves(a, b, i) == \/ i <= a.upto /\ b = a
                            \/ /\ i > a.upto /\ Occurs(v, line, i)
                               /\ b.out = Append(a.out, Placeholder) /\ b.upto = i + Len(v) - 1
                            \/ /\ i > a.upto /\ ~Occurs(v, line, i)
                               /\ b.out = Append(a.out, line[i]) /\ b.upto = a.upto
<1>2. ASSUME NEW a \in A, NEW i \in 1..N PROVE Next_(a, i) \in A /\ Moves(a, Next_(a, i), i)
  <2>1. line[i] \in Chars /\ a.out \in Seq(Chars) /\ a.upto \in Nat /\ i + Len(v) - 1 \in Nat
    OBVIOUS
  <2>2. Append(a.out, line[i]) \in Seq(Chars) /\ Append(a.out, Placeholder) \in Seq(Chars)
    BY <1>1, <2>1
  <2>3. CASE i <= a.upto
    BY <2>3
  <2>4. CASE ~(i <= a.upto) /\ Occurs(v, line, i)
    <3>1. Next_(a, i) = [out |-> Append(a.out, Placeholder), upto |-> i + Len(v) - 1]
      BY <2>4
    <3> QED BY <2>1, <2>2, <2>4, <3>1
  <2>5. CASE ~(i <= a.upto) /\ ~Occurs(v, line, i)
    <3>1. Next_(a, i) = [a EXCEPT !.out = Append(@, line[i])]
      BY <2>5
    <3>2. PICK b : b = Next_(a, i)
      OBVIOUS
    <3>3. b.out = Append(a.out, line[i]) /\ b.upto = a.upto /\ b = [out |-> b.out, upto |-> b.upto]
      BY <3>1, <3>2
    <3>4. b \in A
      BY <2>1, <2>2, <3>3
    <3>5. Moves(a, b, i)
      <4>1. i > a.upto
        BY <2>1, <2>5
      <4> QED BY <2>5, <3>3, <4>1
    <3> QED BY <3>2, <3>4, <3>5
  <2> HIDE DEF Next_, Moves
  <2> QED BY <2>3, <2>4, <2>5
<1> HIDE DEF Next_, start
<1>3. PICK step : step = [p \in (1..N) \X A |-> Next_(p[2], p[1])]
  OBVIOUS
<1>4. step \in [(1..N) \X A -> A] /\ \A i \in 1..N, a \in A : step[<<i, a>>] = Next_(a, i)
  BY <1>2, <1>3
<1>5. PICK f : IsLoop(f, step, N, A, start)
  <2>1. Round(step, N, A)
    BY <1>4 DEF Round
  <2> HIDE DEF N, A
  <2> QED BY <1>1, <2>1, Rounds
<1>6. Is(f)
  <2>1. ASSUME NEW i \in 0..N PROVE f[i] = IF i = 0 THEN start ELSE Next_(f[i - 1], i)
    <3>1. CASE i # 0
      <4>1. i \in 1..N /\ i - 1 \in 0..N
        BY <1>1, <3>1
      <4>2. f[i - 1] \in A /\ f[i] = step[<<i, f[i - 1]>>]
        BY <1>5, <4>1 DEF IsLoop
      <4> QED BY <1>4, <3>1, <4>1, <4>2
    <3> QED BY <1>5, <3>1 DEF IsLoop
  <2>2. f = [i \in 0..N |-> f[i]]
    BY <1>5 DEF IsLoop
  <2> QED BY <2>1, <2>2
<1> DEFINE scan == CHOOSE g : Is(g)
<1>7. Is(scan)
  <2> HIDE DEF Is
  <2> QED BY <1>6
<1>8. ReplaceValue(v, line) = scan[N].out
  BY DEF ReplaceValue, Next_, start
<1> HIDE DEF scan
<1>9. scan[0] = start /\ \A i \in 1..N : scan[i] = Next_(scan[i - 1], i)
  <2>1. scan = [i \in 0..N |-> IF i = 0 THEN start ELSE Next_(scan[i - 1], i)]
    BY <1>7
  <2>2. 0 \in 0..N /\ \A i \in 1..N : i \in 0..N /\ i # 0
    BY <1>1
  <2> QED BY <2>1, <2>2
<1>10. \A i \in 0..N : scan[i] \in A
  <2> DEFINE S == {i \in 0..N : scan[i] \in A}
  <2>1. 0 \in S
    BY <1>1, <1>9
  <2>2. ASSUME NEW i \in 1..N, i - 1 \in S PROVE i \in S
    <3>1. scan[i - 1] \in A /\ scan[i] = Next_(scan[i - 1], i)
      BY <1>9, <2>2
    <3>2. scan[i] \in A
      <4> HIDE DEF A
      <4> QED BY <1>2, <3>1
    <3>3. i \in 0..N
      BY <1>1
    <3> QED BY <3>2, <3>3
  <2>3. 0..N \subseteq S
    <3> HIDE DEF S
    <3> QED BY <1>1, <2>1, <2>2, UpTo
  <2> QED BY <2>3
<1>11. IsScan(scan, v, line)
  <2>1. \A i \in 0..N : scan[i].out \in Seq(Chars) /\ scan[i].upto \in Nat
    BY <1>10
  <2>2. scan[0].out = <<>> /\ scan[0].upto = 0
    BY <1>9 DEF start
  <2>3. ASSUME NEW i \in 1..N PROVE Moves(scan[i - 1], scan[i], i)
    <3>1. scan[i] = Next_(scan[i - 1], i) /\ scan[i - 1] \in A
      BY <1>9, <1>10
    <3> HIDE DEF Moves
    <3> QED BY <1>2, <3>1
  <2> QED BY <2>1, <2>2, <2>3 DEF IsScan
<1> QED BY <1>8, <1>11

\* An occurrence of a value no shorter than those placed in the line holds each
\* that it meets.
LEMMA SeamsHold ==
  ASSUME Apart, NEW v \in Values_, NEW S \in SUBSET Maskable, \A w \in S : Len(w) <= Len(v),
         NEW line \in Seq(Chars), NEW K, Placed(K, line, S, FALSE),
         NEW r \in 1..Len(line), Occurs(v, line, r),
         NEW t \in K, NEW i \in 1..Len(line), Covers(t, i), r <= i, i < r + Len(v)
  PROVE  r <= t.at /\ t.at + Len(t.value) <= r + Len(v)
<1>0. PICK w, p, L, nw, nv : w = t.value /\ p = t.at /\ L = Len(line) /\ nw = Len(w) /\ nv = Len(v)
  OBVIOUS
<1>1. /\ L \in Nat /\ r \in 1..L /\ i \in 1..L /\ v \in Seq(Chars) /\ nv \in Nat
      /\ w \in S /\ p \in 1..L /\ w \in Seq(SecretChars) /\ nw \in Nat /\ nw >= 1
      /\ p + nw - 1 <= L /\ r + nv - 1 <= L /\ nw <= nv
      /\ p <= i /\ i < p + nw
  BY <1>0, CharsAre DEF Placed, Occurs, Covers
<1>n. /\ L \in Nat /\ r \in Nat /\ r >= 1 /\ r <= L /\ i \in Nat /\ p \in Nat /\ p >= 1 /\ p <= L
      /\ nv \in Nat /\ nw \in Nat /\ nw >= 1 /\ p + nw - 1 <= L /\ r + nv - 1 <= L /\ nw <= nv
      /\ p <= i /\ i < p + nw /\ r <= i /\ i < r + nv
  BY <1>0, <1>1
<1>2. \A k \in 1..nv : line[r + k - 1] = v[k]
  <2>1. DOMAIN v = 1..nv
    BY <1>0, <1>1
  <2> QED BY <2>1 DEF Occurs
<1>3. \A k \in 1..nw : line[p + k - 1] = w[k]
  <2>1. DOMAIN w = 1..nw
    BY <1>0, <1>1
  <2>2. Occurs(w, line, p)
    BY <1>0 DEF Placed
  <2> QED BY <2>1, <2>2 DEF Occurs
<1>4. v \in Maskable
  <2>1. i - p + 1 \in 1..nw /\ i - r + 1 \in 1..nv
    BY <1>n
  <2>2. line[i] = w[i - p + 1] /\ line[i] = v[i - r + 1]
    <3>1. p + (i - p + 1) - 1 = i /\ r + (i - r + 1) - 1 = i
      BY <1>n
    <3> QED BY <1>2, <1>3, <2>1, <3>1
  <2>3. v[i - r + 1] \in SecretChars
    <3>1. \A k \in 1..nw : w[k] \in SecretChars
      BY <1>0, <1>1
    <3> QED BY <2>1, <2>2, <3>1
  <2> QED BY <1>0, <2>1, <2>3, CharsAre
<1>5. \A k \in 1..nv : v[k] \in SecretChars
  BY <1>0, <1>1, <1>4, CharsAre
<1>6. ASSUME p < r PROVE FALSE
  <2>0. PICK e, n : e = p + nw - 1 /\ n = e - r + 1
    OBVIOUS
  <2>1. r <= e /\ e < r + nv - 1 /\ e + 1 <= L /\ n \in 1..nw - 1 /\ n < nv /\ n \in Nat
    BY <1>n, <1>6, <2>0
  <2>2. line[e + 1] \in SecretChars
    <3>1. n + 1 \in 1..nv /\ r + (n + 1) - 1 = e + 1
      BY <1>n, <2>0, <2>1
    <3>2. line[e + 1] = v[n + 1]
      BY <1>2, <3>1
    <3> QED BY <1>5, <3>1, <3>2
  <2>3. PICK u \in K : Covers(u, e + 1)
    <3>1. e + 1 \in 1..L
      BY <1>n, <2>0, <2>1
    <3> QED BY <1>0, <2>2, <3>1 DEF Placed
  <2>11. PICK x, q, nx : x = u.value /\ q = u.at /\ nx = Len(x)
    OBVIOUS
  <2>4. /\ q \in 1..L /\ x \in Maskable /\ nx \in Nat /\ nx >= 1
        /\ q + nx - 1 <= L
        /\ q <= e + 1 /\ e + 1 < q + nx
    BY <1>0, <2>3, <2>11, CharsAre DEF Placed, Occurs, Covers
  <2>x. /\ q \in Nat /\ q >= 1 /\ nx \in Nat /\ nx >= 1 /\ q + nx - 1 <= L
        /\ q <= e + 1 /\ e + 1 < q + nx
    BY <2>4
  <2>y. \A k \in 1..nx : line[q + k - 1] = x[k]
    <3>1. Occurs(x, line, q)
      BY <2>11 DEF Placed
    <3>2. DOMAIN x = 1..nx
      BY <2>4, <2>11, CharsAre
    <3> QED BY <3>1, <3>2 DEF Occurs
  <2>5. u # t
    <3>1. ASSUME u = t PROVE q = p /\ nx = nw
      BY <1>0, <2>11, <3>1
    <3> QED BY <1>n, <2>0, <2>1, <2>x, <3>1
  <2>6. q = e + 1
    <3>1. Apart_(t, u)
      BY <2>5 DEF Placed
    <3>2. p + nw <= q \/ q + nx <= p
      BY <1>0, <2>11, <3>1 DEF Apart_
    <3> QED BY <1>n, <2>0, <2>1, <2>x, <3>2
  <2>7. ASSUME NEW k \in 1..n PROVE w[nw - n + k] = v[k]
    <3>1. nw - n + k \in 1..nw /\ k \in 1..nv /\ p + (nw - n + k) - 1 = r + k - 1
      BY <1>n, <2>0, <2>1
    <3>2. line[p + (nw - n + k) - 1] = w[nw - n + k]
      BY <1>3, <3>1
    <3> QED BY <1>2, <3>1, <3>2
  <2>8. ASSUME NEW k \in 1..nx, n + k <= nv PROVE v[n + k] = x[k]
    <3>1. n + k \in 1..nv /\ r + (n + k) - 1 = q + k - 1
      BY <1>n, <2>0, <2>1, <2>6, <2>8
    <3>2. line[q + k - 1] = x[k]
      BY <2>y
    <3> QED BY <1>2, <3>1, <3>2
  <2>9. DOMAIN x = 1..nx
    BY <2>4, <2>11, CharsAre
  <2>10. \/ \E k \in 1..n : w[nw - n + k] # v[k]
         \/ \E k \in DOMAIN x : n + k <= nv /\ v[n + k] # x[k]
    <3>1. v \in Maskable /\ w \in Maskable /\ x \in Maskable /\ Len(w) <= Len(v) /\ n \in 1..Len(w) - 1
      BY <1>0, <1>1, <1>4, <2>1, <2>4
    <3>2. nv = Len(v) /\ nw = Len(w) /\ nx = Len(x)
      BY <1>0, <2>11
    <3> QED BY <3>1, <3>2 DEF Apart
  <2> QED BY <2>7, <2>8, <2>9, <2>10
<1>7. ASSUME r <= p, p + nw > r + nv PROVE FALSE
  <2>0. PICK n : n = r + nv - p
    OBVIOUS
  <2>1. r < p /\ n \in 1..nw - 1 /\ n < nv /\ n \in Nat /\ p - 1 \in 1..L /\ p - 1 < r + nv
    BY <1>n, <1>7, <2>0
  <2>2. line[p - 1] \in SecretChars
    <3>1. p - r \in 1..nv /\ r + (p - r) - 1 = p - 1
      BY <1>n, <2>0, <2>1
    <3>2. line[p - 1] = v[p - r]
      BY <1>2, <3>1
    <3> QED BY <1>5, <3>1, <3>2
  <2>3. PICK u \in K : Covers(u, p - 1)
    BY <1>0, <2>1, <2>2 DEF Placed
  <2>11. PICK x, q, nx : x = u.value /\ q = u.at /\ nx = Len(x)
    OBVIOUS
  <2>4. /\ q \in 1..L /\ x \in Maskable /\ nx \in Nat /\ nx >= 1
        /\ q + nx - 1 <= L
        /\ q <= p - 1 /\ p - 1 < q + nx
    BY <1>0, <2>3, <2>11, CharsAre DEF Placed, Occurs, Covers
  <2>x. /\ q \in Nat /\ q >= 1 /\ nx \in Nat /\ nx >= 1 /\ q + nx - 1 <= L
        /\ q <= p - 1 /\ p - 1 < q + nx
    BY <2>4
  <2>y. \A k \in 1..nx : line[q + k - 1] = x[k]
    <3>1. Occurs(x, line, q)
      BY <2>11 DEF Placed
    <3>2. DOMAIN x = 1..nx
      BY <2>4, <2>11, CharsAre
    <3> QED BY <3>1, <3>2 DEF Occurs
  <2>5. u # t
    <3>1. ASSUME u = t PROVE q = p /\ nx = nw
      BY <1>0, <2>11, <3>1
    <3> QED BY <1>n, <2>0, <2>1, <2>x, <3>1
  <2>6. q + nx = p
    <3>1. Apart_(t, u)
      BY <2>5 DEF Placed
    <3>2. p + nw <= q \/ q + nx <= p
      BY <1>0, <2>11, <3>1 DEF Apart_
    <3> QED BY <1>n, <2>0, <2>1, <2>x, <3>2
  <2>7. ASSUME NEW k \in 1..n PROVE v[nv - n + k] = w[k]
    <3>1. nv - n + k \in 1..nv /\ k \in 1..nw /\ r + (nv - n + k) - 1 = p + k - 1
      BY <1>n, <2>0, <2>1
    <3>2. line[r + (nv - n + k) - 1] = v[nv - n + k]
      BY <1>2, <3>1
    <3> QED BY <1>3, <3>1, <3>2
  <2>8. ASSUME NEW k \in 1..nx, n + k <= nv
        PROVE  v[nv - n - k + 1] = x[nx - k + 1]
    <3>1. nv - n - k + 1 \in 1..nv /\ nx - k + 1 \in 1..nx
      BY <1>n, <2>0, <2>1, <2>4, <2>8
    <3>2. r + (nv - n - k + 1) - 1 = q + (nx - k + 1) - 1
      BY <1>n, <2>0, <2>1, <2>x, <2>6
    <3>3. line[q + (nx - k + 1) - 1] = x[nx - k + 1]
      BY <2>y, <3>1
    <3> QED BY <1>2, <3>1, <3>2, <3>3
  <2>9. DOMAIN x = 1..nx
    BY <2>4, <2>11, CharsAre
  <2>10. \/ \E k \in 1..n : v[nv - n + k] # w[k]
         \/ \E k \in DOMAIN x : n + k <= nv /\ v[nv - n - k + 1] # x[nx - k + 1]
    <3>1. v \in Maskable /\ w \in Maskable /\ x \in Maskable /\ Len(w) <= Len(v) /\ n \in 1..Len(w) - 1
      BY <1>0, <1>1, <1>4, <2>1, <2>4
    <3>2. nv = Len(v) /\ nw = Len(w) /\ nx = Len(x)
      BY <1>0, <2>11
    <3> QED BY <3>1, <3>2 DEF Apart
  <2> QED BY <2>7, <2>8, <2>9, <2>10
<1>8. r <= p /\ p + nw <= r + nv
  BY <1>n, <1>6, <1>7
<1> QED BY <1>0, <1>8

\* A character that stays, and one where the value is replaced.
Stays(scan, v, line, i) == i > scan[i - 1].upto /\ ~Occurs(v, line, i)
Hit(scan, v, line, i) == i > scan[i - 1].upto /\ Occurs(v, line, i)

ScanHeld(scan, v, line, i) ==
  /\ \A q \in 1..Len(scan[i].out) : scan[i].out[q] # Placeholder =>
       \E j \in 1..i : Stays(scan, v, line, j) /\ Len(scan[j].out) = q /\ scan[i].out[q] = line[j]
  /\ \A j \in 1..i : Stays(scan, v, line, j) =>
       Len(scan[j].out) \in 1..Len(scan[i].out) /\ scan[i].out[Len(scan[j].out)] = line[j]
  /\ \A j \in 0..i : Len(scan[j].out) <= Len(scan[i].out)
  /\ \A h \in 1..i : Hit(scan, v, line, h) => h + Len(v) - 1 <= scan[i].upto
  /\ scan[i].upto > 0 => \E h \in 1..i : Hit(scan, v, line, h) /\ scan[i].upto = h + Len(v) - 1

LEMMA ScanStep ==
  ASSUME NEW v, Len(v) \in Nat \ {0}, NEW line \in Seq(Chars), NEW scan, IsScan(scan, v, line),
         NEW i \in 1..Len(line), ScanHeld(scan, v, line, i - 1)
  PROVE  ScanHeld(scan, v, line, i)
<1>1. PICK a, b, m : a = scan[i - 1] /\ b = scan[i] /\ m = i - 1
  OBVIOUS
<1>2. /\ a.out \in Seq(Chars) /\ a.upto \in Nat /\ b.out \in Seq(Chars) /\ b.upto \in Nat
      /\ m \in Nat /\ i = m + 1 /\ Len(a.out) \in Nat /\ Len(b.out) \in Nat
  BY <1>1 DEF IsScan
<1>3. \/ i <= a.upto /\ b = a
      \/ /\ i > a.upto /\ Occurs(v, line, i)
         /\ b.out = Append(a.out, Placeholder) /\ b.upto = i + Len(v) - 1
      \/ /\ i > a.upto /\ ~Occurs(v, line, i)
         /\ b.out = Append(a.out, line[i]) /\ b.upto = a.upto
  BY <1>1 DEF IsScan
<1>4. /\ \A q \in 1..Len(a.out) : a.out[q] # Placeholder =>
           \E j \in 1..m : Stays(scan, v, line, j) /\ Len(scan[j].out) = q /\ a.out[q] = line[j]
      /\ \A j \in 1..m : Stays(scan, v, line, j) =>
           Len(scan[j].out) \in 1..Len(a.out) /\ a.out[Len(scan[j].out)] = line[j]
      /\ \A j \in 0..m : Len(scan[j].out) <= Len(a.out)
      /\ \A h \in 1..m : Hit(scan, v, line, h) => h + Len(v) - 1 <= a.upto
      /\ a.upto > 0 => \E h \in 1..m : Hit(scan, v, line, h) /\ a.upto = h + Len(v) - 1
  BY <1>1 DEF ScanHeld
<1>5. \A j \in 0..i : j = i \/ j \in 0..m
  BY <1>2
<1>6. \A j \in 1..i : j = i \/ j \in 1..m
  BY <1>2
<1>7. /\ Stays(scan, v, line, i) <=> i > a.upto /\ ~Occurs(v, line, i)
      /\ Hit(scan, v, line, i) <=> i > a.upto /\ Occurs(v, line, i)
  BY <1>1 DEF Stays, Hit
<1>8. 1..m \subseteq 1..i /\ i \in 1..i /\ i \in Nat /\ i > 0
  BY <1>2
<1>9. CASE i <= a.upto /\ b = a
  <2>1. ~Stays(scan, v, line, i) /\ ~Hit(scan, v, line, i)
    BY <1>2, <1>7, <1>9
  <2>2. /\ \A q \in 1..Len(b.out) : b.out[q] # Placeholder =>
             \E j \in 1..i : Stays(scan, v, line, j) /\ Len(scan[j].out) = q /\ b.out[q] = line[j]
        /\ \A j \in 1..i : Stays(scan, v, line, j) =>
             Len(scan[j].out) \in 1..Len(b.out) /\ b.out[Len(scan[j].out)] = line[j]
    BY <1>4, <1>6, <1>8, <1>9, <2>1
  <2>3. \A j \in 0..i : Len(scan[j].out) <= Len(b.out)
    BY <1>1, <1>2, <1>4, <1>5, <1>9
  <2>4. /\ \A h \in 1..i : Hit(scan, v, line, h) => h + Len(v) - 1 <= b.upto
        /\ b.upto > 0 => \E h \in 1..i : Hit(scan, v, line, h) /\ b.upto = h + Len(v) - 1
    BY <1>4, <1>6, <1>8, <1>9, <2>1
  <2> QED BY <1>1, <2>2, <2>3, <2>4 DEF ScanHeld
<1>10. ASSUME NEW c \in Chars, b.out = Append(a.out, c)
       PROVE  /\ Len(b.out) = Len(a.out) + 1 /\ b.out[Len(b.out)] = c
              /\ \A q \in 1..Len(a.out) : b.out[q] = a.out[q]
              /\ \A q \in 1..Len(b.out) : q = Len(b.out) \/ q \in 1..Len(a.out)
              /\ \A j \in 0..i : Len(scan[j].out) <= Len(b.out)
  <2>1. /\ Len(b.out) = Len(a.out) + 1 /\ b.out[Len(b.out)] = c
        /\ \A q \in 1..Len(a.out) : b.out[q] = a.out[q]
    BY <1>2, <1>10
  <2>2. \A q \in 1..Len(b.out) : q = Len(b.out) \/ q \in 1..Len(a.out)
    BY <1>2, <2>1
  <2>3. ASSUME NEW j \in 0..i PROVE Len(scan[j].out) <= Len(b.out)
    <3>1. CASE j = i
      BY <1>1, <1>2, <3>1
    <3>2. CASE j # i
      <4>1. j \in 0..Len(line) /\ scan[j].out \in Seq(Chars)
        BY DEF IsScan
      <4>2. Len(scan[j].out) <= Len(a.out)
        BY <1>4, <1>5, <3>2
      <4>3. PICK n : n = Len(scan[j].out) /\ n \in Nat
        BY <4>1
      <4> QED BY <1>2, <2>1, <4>2, <4>3
    <3> QED BY <3>1, <3>2
  <2> QED BY <2>1, <2>2, <2>3
<1>11. CASE i > a.upto /\ Occurs(v, line, i) /\ b.out = Append(a.out, Placeholder) /\ b.upto = i + Len(v) - 1
  <2>0. Placeholder \in Chars
    BY CharsAre
  <2>1. ~Stays(scan, v, line, i) /\ Hit(scan, v, line, i)
    BY <1>7, <1>11
  <2>2. ASSUME NEW q \in 1..Len(b.out), b.out[q] # Placeholder
        PROVE  \E j \in 1..i : Stays(scan, v, line, j) /\ Len(scan[j].out) = q /\ b.out[q] = line[j]
    <3>1. q \in 1..Len(a.out) /\ b.out[q] = a.out[q]
      BY <1>10, <1>11, <2>0, <2>2
    <3> QED BY <1>4, <1>8, <2>2, <3>1
  <2>3. ASSUME NEW j \in 1..i, Stays(scan, v, line, j)
        PROVE  Len(scan[j].out) \in 1..Len(b.out) /\ b.out[Len(scan[j].out)] = line[j]
    <3>1. j \in 1..m
      BY <1>6, <2>1, <2>3
    <3>2. Len(scan[j].out) \in 1..Len(a.out) /\ a.out[Len(scan[j].out)] = line[j]
      BY <1>4, <2>3, <3>1
    <3>3. 1..Len(a.out) \subseteq 1..Len(b.out) /\ \A q \in 1..Len(a.out) : b.out[q] = a.out[q]
      <4>1. Len(b.out) = Len(a.out) + 1 /\ \A q \in 1..Len(a.out) : b.out[q] = a.out[q]
        BY <1>10, <1>11, <2>0, Zenon
      <4>2. 1..Len(a.out) \subseteq 1..Len(b.out)
        BY <1>2, <4>1
      <4> QED BY <4>1, <4>2, Zenon
    <3> QED BY <3>2, <3>3
  <2>4. \A j \in 0..i : Len(scan[j].out) <= Len(b.out)
    BY <1>10, <1>11, <2>0
  <2>5. ASSUME NEW h \in 1..i, Hit(scan, v, line, h) PROVE h + Len(v) - 1 <= b.upto
    <3>1. h \in Nat /\ h <= i
      BY <1>2
    <3> QED BY <1>2, <1>11, <3>1
  <2>6. b.upto > 0 => \E h \in 1..i : Hit(scan, v, line, h) /\ b.upto = h + Len(v) - 1
    BY <1>8, <1>11, <2>1
  <2> QED BY <1>1, <2>2, <2>3, <2>4, <2>5, <2>6 DEF ScanHeld
<1>12. CASE i > a.upto /\ ~Occurs(v, line, i) /\ b.out = Append(a.out, line[i]) /\ b.upto = a.upto
  <2>0. line[i] \in Chars
    OBVIOUS
  <2>1. Stays(scan, v, line, i) /\ ~Hit(scan, v, line, i)
    BY <1>7, <1>12
  <2>2. ASSUME NEW q \in 1..Len(b.out), b.out[q] # Placeholder
        PROVE  \E j \in 1..i : Stays(scan, v, line, j) /\ Len(scan[j].out) = q /\ b.out[q] = line[j]
    <3>1. CASE q \in 1..Len(a.out)
      <4>1. b.out[q] = a.out[q]
        BY <1>10, <1>12, <2>0, <3>1
      <4> QED BY <1>4, <1>8, <2>2, <3>1, <4>1
    <3>2. CASE q = Len(b.out)
      <4>1. b.out[q] = line[i]
        BY <1>10, <1>12, <2>0, <3>2
      <4> QED BY <1>1, <1>8, <2>1, <3>2, <4>1
    <3> QED BY <1>10, <1>12, <2>0, <3>1, <3>2
  <2>3. ASSUME NEW j \in 1..i, Stays(scan, v, line, j)
        PROVE  Len(scan[j].out) \in 1..Len(b.out) /\ b.out[Len(scan[j].out)] = line[j]
    <3>1. CASE j \in 1..m
      <4>1. Len(scan[j].out) \in 1..Len(a.out) /\ a.out[Len(scan[j].out)] = line[j]
        BY <1>4, <2>3, <3>1
      <4>2. 1..Len(a.out) \subseteq 1..Len(b.out) /\ \A q \in 1..Len(a.out) : b.out[q] = a.out[q]
        <5>1. Len(b.out) = Len(a.out) + 1 /\ \A q \in 1..Len(a.out) : b.out[q] = a.out[q]
          BY <1>10, <1>12, <2>0, Zenon
        <5>2. 1..Len(a.out) \subseteq 1..Len(b.out)
          BY <1>2, <5>1
        <5> QED BY <5>1, <5>2, Zenon
      <4> QED BY <4>1, <4>2
    <3>2. CASE j = i
      <4>1. Len(b.out) \in 1..Len(b.out) /\ b.out[Len(b.out)] = line[i]
        BY <1>2, <1>10, <1>12, <2>0
      <4> QED BY <1>1, <3>2, <4>1
    <3> QED BY <1>6, <3>1, <3>2
  <2>4. \A j \in 0..i : Len(scan[j].out) <= Len(b.out)
    BY <1>10, <1>12, <2>0
  <2>5. /\ \A h \in 1..i : Hit(scan, v, line, h) => h + Len(v) - 1 <= b.upto
        /\ b.upto > 0 => \E h \in 1..i : Hit(scan, v, line, h) /\ b.upto = h + Len(v) - 1
    BY <1>4, <1>6, <1>8, <1>12, <2>1
  <2> QED BY <1>1, <2>2, <2>3, <2>4, <2>5 DEF ScanHeld
<1> QED BY <1>3, <1>9, <1>11, <1>12

\* What replacing a value makes of a line: the occurrences at hits go, the other
\* characters stay in their order, those side by side stay side by side.
Replaced(res, line, v, hits, free, place) ==
  /\ res \in Seq(Chars) /\ hits \in SUBSET (1..Len(line)) /\ free \in SUBSET (1..Len(line))
  /\ \A h \in hits : Occurs(v, line, h)
  /\ \A j \in 1..Len(line) : j \in free <=> ~(\E h \in hits : h <= j /\ j < h + Len(v))
  /\ \A j \in free : ~Occurs(v, line, j) /\ place[j] \in 1..Len(res) /\ res[place[j]] = line[j]
  /\ \A j, k \in free : (j < k => place[j] < place[k]) /\ (k = j + 1 => place[k] = place[j] + 1)
  /\ \A q \in 1..Len(res) : res[q] # Placeholder => \E j \in free : place[j] = q

LEMMA ReplaceIs ==
  ASSUME NEW v, Len(v) \in Nat \ {0}, NEW line \in Seq(Chars)
  PROVE  \E hits, free, place : Replaced(ReplaceValue(v, line), line, v, hits, free, place)
<1> DEFINE L == Len(line)
<1>1. PICK scan : IsScan(scan, v, line) /\ ReplaceValue(v, line) = scan[L].out
  BY ScanIs
<1>2. L \in Nat /\ \A i \in 0..L : scan[i].out \in Seq(Chars) /\ scan[i].upto \in Nat /\ Len(scan[i].out) \in Nat
  BY <1>1 DEF IsScan
<1>3. \A i \in 0..L : ScanHeld(scan, v, line, i)
  <2> DEFINE S == {i \in 0..L : ScanHeld(scan, v, line, i)}
  <2>1. 0 \in S
    <3>1. scan[0].out = <<>> /\ scan[0].upto = 0
      BY <1>1 DEF IsScan
    <3>2. Len(scan[0].out) = 0 /\ \A j \in 0..0 : j = 0
      BY <3>1
    <3> QED BY <1>2, <3>1, <3>2 DEF ScanHeld
  <2>2. ASSUME NEW i \in 1..L, i - 1 \in S PROVE i \in S
    BY <1>1, <2>2, ScanStep
  <2>3. 0..L \subseteq S
    <3> HIDE DEF S
    <3> QED BY <1>2, <2>1, <2>2, UpTo
  <2> QED BY <2>3
<1> DEFINE hits == {i \in 1..L : Hit(scan, v, line, i)}
           free == {i \in 1..L : Stays(scan, v, line, i)}
           place == [i \in 1..L |-> Len(scan[i].out)]
           res == scan[L].out
<1>4. res \in Seq(Chars) /\ ScanHeld(scan, v, line, L) /\ L \in 0..L
  BY <1>2, <1>3
<1>5. \A h \in hits : Occurs(v, line, h)
  BY DEF Hit
<1>6. ASSUME NEW j \in 1..L PROVE j \in free <=> ~(\E h \in hits : h <= j /\ j < h + Len(v))
  <2>1. PICK m : m = j - 1
    OBVIOUS
  <2>2. m \in 0..L /\ j = m + 1 /\ ScanHeld(scan, v, line, m) /\ scan[m].upto \in Nat
    BY <1>2, <1>3, <2>1
  <2>3. ASSUME j \in free, NEW h \in hits, h <= j, j < h + Len(v) PROVE FALSE
    <3>1. j > scan[m].upto /\ ~Occurs(v, line, j)
      BY <2>1, <2>3 DEF Stays
    <3>2. h # j
      BY <1>5, <3>1
    <3>3. h \in 1..m
      BY <2>2, <2>3, <3>2
    <3>4. h + Len(v) - 1 <= scan[m].upto
      BY <2>2, <3>3 DEF ScanHeld
    <3> QED BY <2>2, <2>3, <3>1, <3>3, <3>4
  <2>4. ASSUME j \notin free PROVE \E h \in hits : h <= j /\ j < h + Len(v)
    <3>1. CASE j > scan[m].upto
      <4>1. Hit(scan, v, line, j)
        BY <2>1, <2>4, <3>1 DEF Hit, Stays
      <4> QED BY <4>1
    <3>2. CASE ~(j > scan[m].upto)
      <4>1. scan[m].upto > 0 /\ j <= scan[m].upto
        BY <2>2, <3>2
      <4>2. PICK h \in 1..m : Hit(scan, v, line, h) /\ scan[m].upto = h + Len(v) - 1
        BY <2>2, <4>1 DEF ScanHeld
      <4>3. h \in 1..L /\ h <= j /\ j < h + Len(v)
        BY <2>2, <4>1, <4>2
      <4> QED BY <4>2, <4>3
    <3> QED BY <3>1, <3>2
  <2> QED BY <2>3, <2>4
<1>7. ASSUME NEW j \in free
      PROVE  ~Occurs(v, line, j) /\ place[j] \in 1..Len(res) /\ res[place[j]] = line[j]
  <2>1. Stays(scan, v, line, j) /\ place[j] = Len(scan[j].out)
    OBVIOUS
  <2> QED BY <1>4, <2>1 DEF ScanHeld, Stays
<1>8. ASSUME NEW j \in free
      PROVE  /\ j - 1 \in 0..L /\ Len(scan[j].out) = Len(scan[j - 1].out) + 1
             /\ j \in Nat /\ place[j] = Len(scan[j].out)
  <2>1. j > scan[j - 1].upto /\ ~Occurs(v, line, j) /\ j - 1 \in 0..L /\ j \in 1..L
    BY <1>2 DEF Stays
  <2>2. scan[j - 1].upto \in Nat /\ scan[j - 1].out \in Seq(Chars) /\ line[j] \in Chars
    BY <1>2, <2>1
  <2>3. scan[j].out = Append(scan[j - 1].out, line[j])
    <3>1. ~(j <= scan[j - 1].upto)
      BY <2>1, <2>2
    <3> QED BY <1>1, <2>1, <3>1 DEF IsScan
  <2>4. PICK s, t : s = scan[j - 1].out /\ t = scan[j].out
    OBVIOUS
  <2>5. Len(t) = Len(s) + 1
    BY <2>2, <2>3, <2>4
  <2>6. place[j] = Len(scan[j].out)
    BY <2>1
  <2> QED BY <2>1, <2>4, <2>5, <2>6
<1>9. ASSUME NEW j \in free, NEW k \in free
      PROVE  (j < k => place[j] < place[k]) /\ (k = j + 1 => place[k] = place[j] + 1)
  <2>1. PICK n : n = k - 1
    OBVIOUS
  <2>2. n \in 0..L /\ Len(scan[k].out) = Len(scan[n].out) + 1 /\ place[k] = Len(scan[k].out)
    BY <1>8, <2>1
  <2>3. j \in Nat /\ k \in Nat /\ place[j] = Len(scan[j].out) /\ j \in 0..L
    BY <1>8
  <2>4. Len(scan[n].out) \in Nat /\ Len(scan[j].out) \in Nat
    BY <1>2, <2>2, <2>3
  <2>5. j < k => Len(scan[j].out) <= Len(scan[n].out)
    <3>1. j < k => j \in 0..n
      BY <2>1, <2>2, <2>3
    <3> QED BY <1>3, <2>2, <3>1 DEF ScanHeld
  <2>6. k = j + 1 => n = j
    BY <2>1, <2>3
  <2>7. j < k => place[j] < place[k]
    BY <2>2, <2>3, <2>4, <2>5
  <2>8. k = j + 1 => place[k] = place[j] + 1
    BY <2>2, <2>3, <2>6
  <2> QED BY <2>7, <2>8
<1>10. ASSUME NEW q \in 1..Len(res), res[q] # Placeholder PROVE \E j \in free : place[j] = q
  <2>1. PICK j \in 1..L : Stays(scan, v, line, j) /\ Len(scan[j].out) = q
    BY <1>4, <1>10 DEF ScanHeld
  <2> QED BY <2>1
<1>11. PICK H, F, p, o : H = hits /\ F = free /\ p = place /\ o = res
  OBVIOUS
<1>12. H \in SUBSET (1..L) /\ F \in SUBSET (1..L)
  BY <1>11
<1> HIDE DEF hits, free, place, res
<1>13. Replaced(o, line, v, H, F, p)
  BY <1>4, <1>5, <1>6, <1>7, <1>9, <1>10, <1>11, <1>12 DEF Replaced
<1>14. o = ReplaceValue(v, line)
  BY <1>1, <1>11 DEF res
<1> QED BY <1>13, <1>14

\* What a placement says of one of its values.
Lies(t, line, S) ==
  /\ t.at \in 1..Len(line) /\ t.value \in S /\ t.value \in Seq(SecretChars)
  /\ Len(t.value) \in Nat /\ Len(t.value) >= 1 /\ t.at + Len(t.value) - 1 <= Len(line)
  /\ \A k \in 1..Len(t.value) : line[t.at + k - 1] = t.value[k]
  /\ Covers(t, t.at) /\ t = [at |-> t.at, value |-> t.value]
LEMMA PlacedIs ==
  ASSUME NEW S \in SUBSET Maskable, NEW line \in Seq(Chars), NEW headless, NEW K, Placed(K, line, S, headless), NEW t \in K
  PROVE  Lies(t, line, S)
<1>1. t.at \in 1..Len(line) /\ t.value \in S /\ t = [at |-> t.at, value |-> t.value]
  BY DEF Placed
<1>2. PICK w, p : w = t.value /\ p = t.at
  OBVIOUS
<1>3. w \in Seq(SecretChars) /\ Len(w) \in Nat /\ Len(w) >= 1
  BY <1>1, <1>2, CharsAre
<1>4. Occurs(w, line, p)
  BY <1>2 DEF Placed
<1>5. p + Len(w) - 1 <= Len(line) /\ \A k \in 1..Len(w) : line[p + k - 1] = w[k]
  BY <1>3, <1>4 DEF Occurs
<1>6. p <= p /\ p < p + Len(w)
  BY <1>1, <1>2, <1>3
<1> QED BY <1>1, <1>2, <1>3, <1>5, <1>6 DEF Covers, Lies

\* Replacing the longest value leaves the others where they do not lie in it.
LEMMA MaskOne ==
  ASSUME Apart, NEW v \in Values_, Len(v) \in Nat \ {0}, NEW S \in SUBSET Maskable, \A w \in S : Len(w) <= Len(v),
         NEW line, Holds(line, S, FALSE)
  PROVE  Holds(ReplaceValue(v, line), S \ {v}, FALSE)
<1>0. line \in Seq(Chars)
  BY DEF Holds
<1>1. PICK K : Placed(K, line, S, FALSE)
  BY DEF Holds
<1>2. PICK res : res = ReplaceValue(v, line)
  OBVIOUS
<1>3. PICK hits, free, place : Replaced(res, line, v, hits, free, place)
  BY <1>0, <1>2, ReplaceIs
<1>4. PICK L, N, nv : L = Len(line) /\ N = Len(res) /\ nv = Len(v)
  OBVIOUS
<1>5. L \in Nat /\ N \in Nat /\ nv \in Nat /\ res \in Seq(Chars) /\ hits \in SUBSET (1..L) /\ free \in SUBSET (1..L)
  BY <1>0, <1>3, <1>4 DEF Replaced
<1>6. /\ \A h \in hits : Occurs(v, line, h)
      /\ \A j \in 1..L : j \in free <=> ~(\E h \in hits : h <= j /\ j < h + nv)
      /\ \A j \in free : ~Occurs(v, line, j) /\ place[j] \in 1..N /\ res[place[j]] = line[j]
      /\ \A j, k \in free : (j < k => place[j] < place[k]) /\ (k = j + 1 => place[k] = place[j] + 1)
      /\ \A q \in 1..N : res[q] # Placeholder => \E j \in free : place[j] = q
  BY <1>3, <1>4 DEF Replaced
<1> DEFINE M == {t \in K : t.at \in free}
           Moved(t) == [at |-> place[t.at], value |-> t.value]
           K2 == {Moved(t) : t \in M}
<1>7. ASSUME NEW t \in K
      PROVE  /\ t.at \in 1..L /\ t.value \in S /\ Len(t.value) \in Nat /\ Len(t.value) >= 1
             /\ t.at + Len(t.value) - 1 <= L
             /\ \A k \in 1..Len(t.value) : line[t.at + k - 1] = t.value[k] /\ t.value[k] \in SecretChars
             /\ \A i \in 1..L : Covers(t, i) <=> t.at <= i /\ i < t.at + Len(t.value)
  <2>1. PICK w, p : w = t.value /\ p = t.at
    OBVIOUS
  <2>2. /\ p \in 1..L /\ w \in S /\ w \in Seq(SecretChars) /\ Len(w) \in Nat /\ Len(w) >= 1
        /\ p + Len(w) - 1 <= L /\ \A k \in 1..Len(w) : line[p + k - 1] = w[k]
    <3>1. Lies(t, line, S)
      BY <1>0, <1>1, PlacedIs
    <3> QED BY <1>4, <2>1, <3>1 DEF Lies
  <2>3. \A k \in 1..Len(w) : w[k] \in SecretChars
    BY <2>2
  <2>4. \A i \in 1..L : Covers(t, i) <=> p <= i /\ i < p + Len(w)
    BY <2>1 DEF Covers
  <2> QED BY <2>1, <2>2, <2>3, <2>4
<1>8. ASSUME NEW t \in K, NEW i \in 1..L, Covers(t, i), i \notin free, NEW k \in 1..L, Covers(t, k)
      PROVE  k \notin free
  <2>1. PICK h \in hits : h <= i /\ i < h + nv
    BY <1>6, <1>8
  <2>2. h \in 1..Len(line) /\ i \in 1..Len(line) /\ Occurs(v, line, h) /\ i < h + Len(v)
    BY <1>4, <1>5, <1>6, <2>1
  <2>3. h <= t.at /\ t.at + Len(t.value) <= h + Len(v)
    BY <1>0, <1>1, <1>8, <2>1, <2>2, SeamsHold
  <2>4. PICK p, nw : p = t.at /\ nw = Len(t.value)
    OBVIOUS
  <2>5. p <= k /\ k < p + nw /\ h <= p /\ p + nw <= h + nv /\ p \in Nat /\ nw \in Nat /\ h \in Nat
    BY <1>4, <1>5, <1>7, <1>8, <2>3, <2>4
  <2>6. h <= k /\ k < h + nv
    BY <1>5, <2>5
  <2> QED BY <1>6, <2>6
<1>9. ASSUME NEW t \in M
      PROVE  /\ \A n \in 0..Len(t.value) - 1 : t.at + n \in free /\ place[t.at + n] = place[t.at] + n
             /\ t \in K /\ place[t.at] \in 1..N /\ t.value # v
  <2>1. PICK p, w, nw : p = t.at /\ w = t.value /\ nw = Len(t.value)
    OBVIOUS
  <2>2. /\ p \in 1..L /\ nw \in Nat /\ nw >= 1 /\ p + nw - 1 <= L /\ p \in free /\ place[p] \in 1..N
        /\ \A i \in 1..L : Covers(t, i) <=> p <= i /\ i < p + nw
    BY <1>6, <1>7, <2>1
  <2>3. ASSUME NEW n \in 0..nw - 1 PROVE p + n \in free
    <3>1. p + n \in 1..L /\ p <= p + n /\ p + n < p + nw /\ p <= p /\ p < p + nw
      BY <1>5, <2>2
    <3>2. Covers(t, p + n) /\ Covers(t, p)
      BY <2>2, <3>1
    <3> QED BY <1>8, <2>2, <3>1, <3>2
  <2> DEFINE G == {n \in 0..nw - 1 : place[p + n] = place[p] + n}
  <2>4. 0 \in G
    BY <2>2
  <2>5. ASSUME NEW n \in 1..nw - 1, n - 1 \in G PROVE n \in G
    <3>1. n \in 0..nw - 1 /\ n - 1 \in 0..nw - 1 /\ p + n = (p + (n - 1)) + 1
      BY <2>2
    <3>2. place[p + n] = place[p + (n - 1)] + 1
      BY <1>6, <2>3, <3>1
    <3>3. place[p + (n - 1)] = place[p] + (n - 1)
      BY <2>5
    <3>4. place[p] \in Nat /\ n \in Nat
      BY <2>2
    <3> QED BY <3>1, <3>2, <3>3, <3>4
  <2>6. 0..nw - 1 \subseteq G
    <3>1. nw - 1 \in Nat
      BY <2>2
    <3> HIDE DEF G
    <3> QED BY <2>4, <2>5, <3>1, UpTo
  <2>7. w # v
    <3>1. Occurs(w, line, p)
      BY <1>1, <2>1 DEF Placed
    <3> QED BY <1>6, <2>2, <3>1
  <2> QED BY <2>1, <2>2, <2>3, <2>6, <2>7
<1>10. K2 \subseteq [at : 1..N, value : S \ {v}]
  <2>1. ASSUME NEW t \in M PROVE Moved(t) \in [at : 1..N, value : S \ {v}]
    <3>1. place[t.at] \in 1..N /\ t.value \in S /\ t.value # v
      BY <1>7, <1>9
    <3> QED BY <3>1
  <2> QED BY <2>1
<1>11. ASSUME NEW t \in M PROVE Occurs(t.value, res, place[t.at])
  <2>1. PICK p, w, nw, q : p = t.at /\ w = t.value /\ nw = Len(t.value) /\ q = place[t.at]
    OBVIOUS
  <2>2. /\ p \in 1..L /\ w \in S /\ nw \in Nat /\ nw >= 1 /\ q \in 1..N
        /\ \A k \in 1..nw : line[p + k - 1] = w[k]
        /\ \A n \in 0..nw - 1 : p + n \in free /\ place[p + n] = q + n
    BY <1>7, <1>9, <2>1
  <2>3. DOMAIN w = 1..nw
    BY <2>1, <2>2, CharsAre
  <2>4. q + nw - 1 <= N
    <3>1. nw - 1 \in 0..nw - 1
      BY <2>2
    <3>2. place[p + (nw - 1)] \in 1..N /\ place[p + (nw - 1)] = q + (nw - 1)
      BY <1>6, <2>2, <3>1
    <3>3. q \in Nat
      BY <2>2
    <3> QED BY <2>2, <3>2, <3>3
  <2>5. ASSUME NEW k \in 1..nw PROVE res[q + k - 1] = w[k]
    <3>1. PICK n : n = k - 1
      OBVIOUS
    <3>2. n \in 0..nw - 1 /\ p + n = p + k - 1 /\ q + n = q + k - 1
      BY <2>2, <3>1
    <3>3. p + n \in free /\ place[p + n] = q + n
      BY <2>2, <3>2
    <3>4. res[place[p + n]] = line[p + n]
      BY <1>6, <3>3
    <3>5. line[p + k - 1] = w[k]
      BY <2>2
    <3> QED BY <3>2, <3>3, <3>4, <3>5
  <2> QED BY <1>4, <2>1, <2>3, <2>4, <2>5 DEF Occurs
<1>12. ASSUME NEW t \in M, NEW u \in M PROVE Moved(t) = Moved(u) \/ Apart_(Moved(t), Moved(u))
  <2>1. ASSUME NEW a \in M, NEW b \in M, a.at + Len(a.value) <= b.at
        PROVE  place[a.at] + Len(a.value) <= place[b.at]
    <3>1. PICK p, nw, q, z, y : p = a.at /\ nw = Len(a.value) /\ q = b.at /\ z = place[p] /\ y = place[q]
      OBVIOUS
    <3>2. /\ p \in Nat /\ q \in Nat /\ nw \in Nat /\ nw >= 1 /\ p + nw <= q /\ q \in free
          /\ z \in Nat /\ y \in Nat
          /\ \A n \in 0..nw - 1 : p + n \in free /\ place[p + n] = z + n
      BY <1>7, <1>9, <2>1, <3>1
    <3>3. PICK n : n = nw - 1
      OBVIOUS
    <3>4. n \in 0..nw - 1 /\ p + n < q
      BY <3>2, <3>3
    <3>5. p + n \in free /\ place[p + n] = z + n
      BY <3>2, <3>4
    <3>6. place[p + n] < place[q]
      BY <1>6, <3>2, <3>4, <3>5
    <3>7. z + n < y
      BY <3>1, <3>5, <3>6
    <3>8. z + nw <= y
      BY <3>2, <3>3, <3>7
    <3> QED BY <3>1, <3>8
  <2>2. t = u \/ t.at + Len(t.value) <= u.at \/ u.at + Len(u.value) <= t.at
    BY <1>1, <1>9 DEF Placed, Apart_
  <2>3. CASE t = u
    BY <2>3
  <2>4. CASE t.at + Len(t.value) <= u.at
    <3>1. place[t.at] + Len(t.value) <= place[u.at]
      BY <2>1, <2>4
    <3> QED BY <3>1 DEF Apart_
  <2>5. CASE u.at + Len(u.value) <= t.at
    <3>1. place[u.at] + Len(u.value) <= place[t.at]
      BY <2>1, <2>5
    <3> QED BY <3>1 DEF Apart_
  <2> QED BY <2>2, <2>3, <2>4, <2>5
<1>13. ASSUME NEW q \in 1..N, res[q] \in SecretChars PROVE \E t \in K2 : Covers(t, q)
  <2>1. PICK j \in free : place[j] = q
    <3>1. res[q] # Placeholder
      BY <1>13, CharsAre
    <3> QED BY <1>6, <3>1
  <2>2. j \in 1..L /\ line[j] \in SecretChars
    BY <1>5, <1>6, <1>13, <2>1
  <2>3. PICK t \in K : Covers(t, j)
    BY <1>1, <1>4, <2>2 DEF Placed
  <2>4. PICK p, nw : p = t.at /\ nw = Len(t.value)
    OBVIOUS
  <2>5. p \in 1..L /\ nw \in Nat /\ nw >= 1 /\ p <= j /\ j < p + nw
    BY <1>7, <2>2, <2>3, <2>4
  <2>6. Covers(t, p)
    BY <1>0, <1>1, <2>4, PlacedIs DEF Lies
  <2>7. p \in free
    BY <1>8, <2>2, <2>3, <2>5, <2>6
  <2>8. t \in M
    BY <2>4, <2>7
  <2>9. j - p \in 0..nw - 1 /\ p + (j - p) = j
    BY <2>2, <2>5
  <2>10. place[j] = place[p] + (j - p) /\ place[p] \in Nat
    <3>1. place[p + (j - p)] = place[p] + (j - p) /\ place[p] \in 1..N
      BY <1>9, <2>4, <2>8, <2>9
    <3> QED BY <2>9, <3>1
  <2>11. place[p] <= q /\ q < place[p] + nw
    BY <2>1, <2>2, <2>5, <2>10
  <2>12. Moved(t) \in K2 /\ Moved(t).at = place[p] /\ Moved(t).value = t.value
    BY <2>4, <2>8
  <2> QED BY <2>4, <2>11, <2>12 DEF Covers
<1>14. Placed(K2, res, S \ {v}, FALSE)
  <2>1. \A t \in K2 : Occurs(t.value, res, t.at)
    BY <1>11
  <2>2. \A t, u \in K2 : t = u \/ Apart_(t, u)
    BY <1>12
  <2>3. PICK Z : Z = K2
    OBVIOUS
  <2> HIDE DEF K2
  <2> QED BY <1>4, <1>10, <1>13, <2>1, <2>2, <2>3 DEF Placed
<1>15. \E Z : Placed(Z, res, S \ {v}, FALSE)
  <2> HIDE DEF K2
  <2> QED BY <1>14
<1> QED BY <1>2, <1>5, <1>15 DEF Holds

LEMMA HoldsMore ==
  ASSUME NEW line, NEW S, NEW headless, Holds(line, S, headless), NEW S2, S \subseteq S2
  PROVE  Holds(line, S2, headless)
<1>1. PICK K : Placed(K, line, S, headless)
  BY DEF Holds
<1>2. K \subseteq [at : 1..Len(line), value : S2]
  BY <1>1 DEF Placed
<1>3. Placed(K, line, S2, headless)
  BY <1>1, <1>2 DEF Placed
<1> QED BY <1>3 DEF Holds

\* The registry: values that are long enough, the longest first.
LongestFirst(reg) ==
  /\ reg \in Seq(Values_)
  /\ \A n \in 1..Len(reg) : Len(reg[n]) >= MinLen
  /\ \A m, n \in 1..Len(reg) : m < n => Len(reg[m]) >= Len(reg[n])
Known == Maskable \cap ToSet(registry)
Clean(line) == ToSet(line) \cap SecretChars = {}

LEMMA ValueLengths == \A v \in Values_ \cup {<<>>} : Len(v) \in Nat /\ DOMAIN v = 1..Len(v)
<1>1. ASSUME NEW v \in Values_ PROVE Len(v) \in Nat /\ DOMAIN v = 1..Len(v)
  <2>1. v \in Seq(Chars)
    BY CharsAre
  <2> QED BY <2>1
<1>2. Len(<<>>) = 0 /\ DOMAIN <<>> = 1..0
  OBVIOUS
<1> QED BY <1>1, <1>2

\* What a line holds of the registered values after the first n were replaced.
Remaining(n) == Maskable \cap {registry[m] : m \in n + 1..Len(registry)}

LEMMA RedactIs ==
  ASSUME Apart, LongestFirst(registry), NEW line, Holds(line, Known, FALSE)
  PROVE  Clean(RedactLine(line))
<1>0. PICK N : N = Len(registry)
  OBVIOUS
<1> DEFINE A == Seq(Chars)
           Is(f) == f = [n \in 0..N |-> IF n = 0 THEN line ELSE ReplaceValue(registry[n], f[n - 1])]
<1>1. N \in Nat /\ DOMAIN registry = 1..N /\ line \in A
  BY <1>0 DEF LongestFirst, Holds
<1>2. ASSUME NEW n \in 1..N PROVE registry[n] \in Values_ /\ Len(registry[n]) \in Nat \ {0}
  <2>1. registry[n] \in Values_ /\ Len(registry[n]) >= MinLen
    BY <1>0 DEF LongestFirst
  <2> QED BY <2>1, ValueLengths, CharsAre
<1>3. ASSUME NEW n \in 1..N, NEW a \in A PROVE ReplaceValue(registry[n], a) \in A
  <2>1. PICK v : v = registry[n]
    OBVIOUS
  <2>2. \E hits, free, place : Replaced(ReplaceValue(v, a), a, v, hits, free, place)
    BY <1>2, <2>1, ReplaceIs
  <2> QED BY <2>1, <2>2 DEF Replaced
<1>4. PICK step : step = [p \in (1..N) \X A |-> ReplaceValue(registry[p[1]], p[2])]
  OBVIOUS
<1>5. Round(step, N, A) /\ \A n \in 1..N, a \in A : step[<<n, a>>] = ReplaceValue(registry[n], a)
  BY <1>3, <1>4 DEF Round
<1>6. PICK f : IsLoop(f, step, N, A, line)
  <2> HIDE DEF A
  <2> QED BY <1>1, <1>5, Rounds
<1>7. Is(f)
  <2>1. ASSUME NEW n \in 0..N PROVE f[n] = IF n = 0 THEN line ELSE ReplaceValue(registry[n], f[n - 1])
    <3>1. CASE n # 0
      <4>1. n \in 1..N /\ n - 1 \in 0..N
        BY <1>1, <3>1
      <4>2. f[n - 1] \in A /\ f[n] = step[<<n, f[n - 1]>>]
        BY <1>6, <4>1 DEF IsLoop
      <4> QED BY <1>5, <3>1, <4>1, <4>2
    <3> QED BY <1>6, <3>1 DEF IsLoop
  <2>2. f = [n \in 0..N |-> f[n]]
    BY <1>6 DEF IsLoop
  <2> QED BY <2>1, <2>2
<1> DEFINE after == CHOOSE g : Is(g)
<1>8. Is(after)
  <2> HIDE DEF Is
  <2> QED BY <1>7
<1>9. RedactLine(line) = after[N]
  BY <1>0 DEF RedactLine
<1> HIDE DEF after
<1>10. after[0] = line /\ \A n \in 1..N : after[n] = ReplaceValue(registry[n], after[n - 1])
  <2>1. 0 \in 0..N /\ \A n \in 1..N : n \in 0..N /\ n # 0
    BY <1>1
  <2> QED BY <1>8, <2>1
<1> DEFINE G == {n \in 0..N : Holds(after[n], Remaining(n), FALSE)}
<1>11. 0 \in G
  <2>1. Known \subseteq Remaining(0)
    BY <1>0, <1>1 DEF Known, Remaining, ToSet
  <2>2. Holds(line, Remaining(0), FALSE)
    BY <2>1, HoldsMore
  <2>3. 0 \in 0..N
    BY <1>1
  <2>4. Holds(after[0], Remaining(0), FALSE)
    BY <1>10, <2>2, Zenon
  <2> QED BY <2>3, <2>4, Zenon
<1>12. ASSUME NEW n \in 1..N, n - 1 \in G PROVE n \in G
  <2>1. PICK v, l, S : v = registry[n] /\ l = after[n - 1] /\ S = Remaining(n - 1)
    OBVIOUS
  <2>2. v \in Values_ /\ Len(v) \in Nat \ {0} /\ Holds(l, S, FALSE) /\ S \in SUBSET Maskable
    BY <1>2, <1>12, <2>1 DEF Remaining
  <2>3. ASSUME NEW w \in S PROVE Len(w) <= Len(v) /\ (w # v => w \in Remaining(n))
    <3>1. PICK m \in (n - 1) + 1..N : w = registry[m]
      BY <1>0, <2>1 DEF Remaining
    <3>2. m = n \/ (m \in n + 1..N /\ m \in 1..N /\ n < m)
      BY <1>1
    <3>3. Len(w) \in Nat
      <4>1. w \in Maskable
        BY <2>2
      <4> QED BY <4>1, CharsAre
    <3>4. Len(w) <= Len(v)
      BY <1>0, <2>1, <2>2, <3>1, <3>2, <3>3 DEF LongestFirst
    <3>5. w # v => w \in Remaining(n)
      BY <1>0, <2>1, <2>2, <3>1, <3>2 DEF Remaining
    <3> QED BY <3>4, <3>5
  <2>4. Holds(ReplaceValue(v, l), S \ {v}, FALSE)
    BY <2>2, <2>3, MaskOne
  <2>5. Holds(ReplaceValue(v, l), Remaining(n), FALSE)
    BY <2>3, <2>4, HoldsMore
  <2>6. after[n] = ReplaceValue(v, l) /\ n \in 0..N
    BY <1>10, <2>1
  <2> QED BY <2>5, <2>6
<1>13. 0..N \subseteq G
  <2> HIDE DEF G
  <2> QED BY <1>1, <1>11, <1>12, UpTo
<1>14. Holds(after[N], {}, FALSE)
  <2>1. Holds(after[N], Remaining(N), FALSE)
    <3>1. N \in 0..N
      BY <1>1
    <3>2. N \in G
      BY <1>13, <3>1, Zenon
    <3> QED BY <3>2, Zenon
  <2>2. N + 1..N = {}
    BY <1>1
  <2>3. Remaining(N) = {}
    BY <1>0, <2>2 DEF Remaining
  <2> QED BY <2>1, <2>3
<1>15. PICK res : res = RedactLine(line)
  OBVIOUS
<1>16. res \in Seq(Chars) /\ \A i \in 1..Len(res) : res[i] \notin SecretChars
  <2>1. PICK K : Placed(K, res, {}, FALSE) /\ res \in Seq(Chars)
    BY <1>9, <1>14, <1>15 DEF Holds
  <2>2. K = {}
    BY <2>1 DEF Placed
  <2> QED BY <2>1, <2>2 DEF Placed
<1>17. DOMAIN res = 1..Len(res)
  BY <1>16
<1> QED BY <1>15, <1>16, <1>17 DEF Clean, ToSet

\* A value is put behind those that are as long.
LEMMA RegisterIs ==
  ASSUME NEW reg, LongestFirst(reg), NEW v \in Values_ \cup {<<>>}
  PROVE  /\ LongestFirst(Register(reg, v)) /\ ToSet(reg) \subseteq ToSet(Register(reg, v))
         /\ Len(v) >= MinLen => v \in ToSet(Register(reg, v))
<1>0. /\ Len(v) \in Nat /\ MinLen \in Nat \ {0} /\ reg \in Seq(Values_)
      /\ \A n \in 1..Len(reg) : reg[n] \in Values_ /\ Len(reg[n]) \in Nat
  BY ValueLengths, CharsAre DEF LongestFirst
<1>1. CASE Len(v) < MinLen \/ v \in ToSet(reg)
  <2>1. Register(reg, v) = reg
    BY <1>1 DEF Register
  <2> QED BY <1>0, <1>1, <2>1
<1>2. CASE ~(Len(v) < MinLen \/ v \in ToSet(reg))
  <2> DEFINE N == Len(reg)
             T == {n \in DOMAIN reg : Len(reg[n]) >= Len(v)}
             B == {n \in 1..N + 1 : n = N + 1 \/ ~(Len(reg[n]) >= Len(v))}
  <2>1. N \in Nat /\ DOMAIN reg = 1..N
    BY <1>0
  <2>2. B \in SUBSET Nat /\ B # {}
    BY <2>1
  <2>3. PICK b \in B : \A m \in B : b <= m
    <3> HIDE DEF B
    <3> QED BY <2>2, LeastNumber
  <2>4. PICK k : k = b - 1
    OBVIOUS
  <2>5. b \in 1..N + 1 /\ k \in 0..N /\ b = k + 1
    BY <2>1, <2>4
  <2>6. T = 1..k
    <3>1. ASSUME NEW n \in 1..k PROVE n \in T
      <4>1. n \in 1..N + 1 /\ n \in 1..N /\ ~(b <= n)
        BY <2>1, <2>5
      <4>2. n \notin B
        BY <2>3, <4>1
      <4> QED BY <2>1, <4>1, <4>2
    <3>2. ASSUME NEW n \in T, n \notin 1..k PROVE FALSE
      <4>1. n \in 1..N /\ Len(reg[n]) >= Len(v) /\ b <= n /\ b # N + 1
        BY <2>1, <2>5, <3>2
      <4>2. ~(Len(reg[b]) >= Len(v)) /\ b \in 1..N
        BY <2>3, <2>5, <4>1
      <4>3. Len(reg[b]) >= Len(reg[n])
        BY <1>0, <2>1, <4>1, <4>2 DEF LongestFirst
      <4> QED BY <1>0, <4>1, <4>2, <4>3
    <3> QED BY <3>1, <3>2, <2>1, <2>5
  <2>7. Cardinality(T) = k
    <3>1. k \in Nat /\ (k = 0 => 1 > k)
      BY <2>5
    <3>2. Cardinality(1..k) = k
      BY <3>1, FS_Interval
    <3> QED BY <2>6, <3>2
  <2>8. PICK r : r = Register(reg, v)
    OBVIOUS
  <2>9. r = SubSeq(reg, 1, k) \o <<v>> \o SubSeq(reg, k + 1, N)
    <3>1. r = InsertAt(reg, 1 + k, v)
      BY <1>2, <2>7, <2>8 DEF Register
    <3>2. (1 + k) - 1 = k /\ 1 + k = k + 1
      BY <2>5
    <3> QED BY <3>1, <3>2 DEF InsertAt
  <2>10. v \in Values_
    BY <1>0, <1>2
  <2>11. /\ r \in Seq(Values_) /\ Len(r) = N + 1
         /\ \A n \in 1..N + 1 : r[n] = IF n <= k THEN reg[n] ELSE IF n = k + 1 THEN v ELSE reg[n - 1]
    <3>1. PICK s : s = SubSeq(reg, 1, k)
      OBVIOUS
    <3>2. s \in Seq(Values_) /\ Len(s) = k /\ \A n \in 1..k : s[n] = reg[n]
      BY <1>0, <2>1, <2>5, <3>1
    <3>3. PICK t : t = SubSeq(reg, k + 1, N)
      OBVIOUS
    <3>4. t \in Seq(Values_) /\ Len(t) = N - k /\ \A n \in 1..N - k : t[n] = reg[k + n]
      <4>1. k + 1 \in 1..Len(reg) + 1 /\ N \in 0..Len(reg) /\ (k + 1) - 1 <= N
        BY <2>1, <2>5
      <4>2. /\ t \in Seq(Values_) /\ Len(t) = N + 1 - (k + 1)
            /\ \A n \in 1..N + 1 - (k + 1) : t[n] = reg[(k + 1) + n - 1]
        BY <1>0, <3>3, <4>1, PieceIs
      <4>3. N + 1 - (k + 1) = N - k /\ \A n \in 1..N - k : (k + 1) + n - 1 = k + n
        <5>1. N \in Nat /\ k \in Nat
          BY <2>1, <2>5
        <5> QED BY <5>1
      <4> QED BY <4>2, <4>3
    <3>5. PICK q : q = s \o <<v>>
      OBVIOUS
    <3>6. q \in Seq(Values_) /\ Len(q) = k + 1 /\ \A n \in 1..k + 1 : q[n] = IF n <= k THEN reg[n] ELSE v
      BY <2>5, <2>10, <3>2, <3>5
    <3>7. r = q \o t
      BY <2>9, <3>1, <3>3, <3>5
    <3>8. r \in Seq(Values_) /\ Len(r) = N + 1
      <4>0. q \in Seq(Values_) /\ t \in Seq(Values_)
        BY <3>4, <3>6
      <4>1. r \in Seq(Values_) /\ Len(r) = Len(q) + Len(t)
        BY <3>7, <4>0
      <4>2. (k + 1) + (N - k) = N + 1
        BY <2>1, <2>5
      <4> QED BY <3>4, <3>6, <4>1, <4>2
    <3>9. ASSUME NEW n \in 1..N + 1
          PROVE  r[n] = IF n <= k THEN reg[n] ELSE IF n = k + 1 THEN v ELSE reg[n - 1]
      <4>1. CASE n <= k + 1
        <5>1. n \in 1..k + 1
          BY <2>5, <4>1
        <5>2. r[n] = q[n]
          BY <3>4, <3>6, <3>7, <5>1
        <5> QED BY <2>5, <3>6, <5>1, <5>2
      <4>2. CASE ~(n <= k + 1)
        <5>1. PICK m : m = n - (k + 1)
          OBVIOUS
        <5>2. m \in 1..N - k /\ k + m = n - 1 /\ n = (k + 1) + m
          BY <2>1, <2>5, <4>2, <5>1
        <5>3. r[n] = t[m]
          BY <3>4, <3>6, <3>7, <5>2
        <5> QED BY <2>5, <3>4, <4>2, <5>2, <5>3
      <4> QED BY <4>1, <4>2
    <3> QED BY <3>8, <3>9
  <2>12. \A n \in 1..k : Len(reg[n]) >= Len(v)
    BY <2>6
  <2>13. \A n \in k + 1..N : Len(v) >= Len(reg[n]) /\ Len(reg[n]) # Len(v)
    <3>1. ASSUME NEW n \in k + 1..N PROVE Len(v) >= Len(reg[n]) /\ Len(reg[n]) # Len(v)
      <4>1. n \in 1..N /\ n \notin 1..k
        BY <2>1, <2>5
      <4>2. ~(Len(reg[n]) >= Len(v))
        BY <2>1, <2>6, <4>1
      <4> QED BY <1>0, <4>1, <4>2
    <3> QED BY <3>1
  <2>14. ASSUME NEW n \in 1..N + 1 PROVE Len(r[n]) >= MinLen
    <3>1. n <= k => n \in 1..N
      BY <2>1, <2>5
    <3>2. ~(n <= k) /\ n # k + 1 => n - 1 \in 1..N
      BY <2>1, <2>5
    <3>3. Len(v) >= MinLen /\ \A m \in 1..N : Len(reg[m]) >= MinLen
      BY <1>0, <1>2 DEF LongestFirst
    <3> QED BY <2>11, <3>1, <3>2, <3>3
  <2>15. ASSUME NEW m \in 1..N + 1, NEW n \in 1..N + 1, m < n PROVE Len(r[m]) >= Len(r[n])
    <3>1. \A i, j \in 1..N : i < j => Len(reg[i]) >= Len(reg[j])
      BY DEF LongestFirst
    <3>2. CASE n <= k
      <4>1. m <= k /\ m \in 1..N /\ n \in 1..N
        BY <2>1, <2>5, <2>15, <3>2
      <4>2. r[m] = reg[m] /\ r[n] = reg[n]
        BY <2>11, <3>2, <4>1
      <4> QED BY <2>15, <3>1, <4>1, <4>2
    <3>3. CASE n = k + 1
      <4>1. m \in 1..k
        BY <2>5, <2>15, <3>3
      <4>2. r[m] = reg[m] /\ r[n] = v
        BY <2>5, <2>11, <3>3, <4>1
      <4> QED BY <2>12, <4>1, <4>2
    <3>4. CASE ~(n <= k) /\ n # k + 1
      <4>1. PICK j : j = n - 1
        OBVIOUS
      <4>2. j \in k + 1..N /\ j \in 1..N /\ r[n] = reg[j]
        BY <2>1, <2>5, <2>11, <3>4, <4>1
      <4>3. CASE m <= k
        <5>1. m \in 1..N /\ r[m] = reg[m] /\ m < j
          BY <2>1, <2>5, <2>11, <4>2, <4>3
        <5> QED BY <3>1, <4>2, <5>1
      <4>4. CASE m = k + 1
        <5>1. r[m] = v
          BY <2>5, <2>11, <4>4
        <5> QED BY <2>13, <4>2, <5>1
      <4>5. CASE ~(m <= k) /\ m # k + 1
        <5>1. PICK i : i = m - 1
          OBVIOUS
        <5>2. i \in 1..N /\ i < j /\ r[m] = reg[i]
          BY <2>1, <2>5, <2>11, <2>15, <4>1, <4>5, <5>1
        <5> QED BY <3>1, <4>2, <5>2
      <4> QED BY <4>3, <4>4, <4>5
    <3> QED BY <3>2, <3>3, <3>4
  <2>16. LongestFirst(r)
    BY <2>11, <2>14, <2>15 DEF LongestFirst
  <2>17. DOMAIN r = 1..N + 1
    BY <2>11
  <2>18. v \in ToSet(r)
    <3>1. k + 1 \in 1..N + 1 /\ r[k + 1] = v
      BY <2>1, <2>5, <2>11
    <3> QED BY <2>17, <3>1 DEF ToSet
  <2>19. ASSUME NEW n \in 1..N PROVE reg[n] \in ToSet(r)
    <3>1. CASE n <= k
      <4>1. n \in 1..N + 1 /\ r[n] = reg[n]
        BY <2>1, <2>11, <3>1
      <4> QED BY <2>17, <4>1 DEF ToSet
    <3>2. CASE ~(n <= k)
      <4>1. PICK m : m = n + 1
        OBVIOUS
      <4>2. m \in 1..N + 1 /\ m - 1 = n /\ ~(m <= k) /\ m # k + 1
        BY <2>1, <2>5, <3>2, <4>1
      <4>3. r[m] = reg[n]
        BY <2>11, <4>2
      <4> QED BY <2>17, <4>2, <4>3 DEF ToSet
    <3> QED BY <3>1, <3>2
  <2>20. ToSet(reg) \subseteq ToSet(r)
    BY <2>1, <2>19 DEF ToSet
  <2> QED BY <2>8, <2>16, <2>18, <2>20
<1> QED BY <1>1, <1>2

-----------------------------------------------------------------------------
(* Parts of a line                                                            *)

LEMMA PlainHolds ==
  ASSUME NEW line \in Seq(Chars), Clean(line), NEW S, NEW headless
  PROVE  Holds(line, S, headless)
<1>1. \A i \in 1..Len(line) : line[i] \notin SecretChars
  BY DEF Clean, ToSet
<1>2. Placed({}, line, S, headless)
  BY <1>1 DEF Placed
<1> QED BY <1>2 DEF Holds

LEMMA ValueHolds ==
  ASSUME NEW S \in SUBSET Maskable, NEW v \in S, NEW headless
  PROVE  Holds(v, S, headless)
<1>1. v \in Seq(Chars) /\ Len(v) \in Nat /\ Len(v) >= 1 /\ DOMAIN v = 1..Len(v)
  BY CharsAre
<1>2. PICK t : t = [at |-> 1, value |-> v]
  OBVIOUS
<1>3. t.at = 1 /\ t.value = v /\ t \in [at : 1..Len(v), value : S]
  BY <1>1, <1>2
<1>4. Occurs(v, v, 1)
  <2>1. 1 + Len(v) - 1 <= Len(v) /\ \A k \in 1..Len(v) : 1 + k - 1 = k
    BY <1>1
  <2> QED BY <1>1, <2>1 DEF Occurs
<1>5. \A i \in 1..Len(v) : Covers(t, i)
  BY <1>1, <1>3 DEF Covers
<1>6. Placed({t}, v, S, headless)
  BY <1>3, <1>4, <1>5 DEF Placed
<1> QED BY <1>1, <1>6 DEF Holds

\* The values of two texts, in the one after the other.
LEMMA JoinHolds ==
  ASSUME NEW S \in SUBSET Maskable, NEW a, NEW headless, Holds(a, S, headless), NEW b, Holds(b, S, FALSE)
  PROVE  Holds(a \o b, S, headless)
<1>1. PICK Ka : Placed(Ka, a, S, headless) /\ a \in Seq(Chars)
  BY DEF Holds
<1>2. PICK Kb : Placed(Kb, b, S, FALSE) /\ b \in Seq(Chars)
  BY DEF Holds
<1>3. PICK c, n, m : c = a \o b /\ n = Len(a) /\ m = Len(b)
  OBVIOUS
<1>4. /\ c \in Seq(Chars) /\ n \in Nat /\ m \in Nat /\ Len(c) = n + m
      /\ \A i \in 1..n : c[i] = a[i]
      /\ \A i \in 1..m : c[n + i] = b[i]
  BY <1>1, <1>2, <1>3
<1> DEFINE Moved(t) == [at |-> n + t.at, value |-> t.value]
           K == Ka \cup {Moved(t) : t \in Kb}
<1>5. ASSUME NEW t \in Ka
      PROVE  /\ t.at \in 1..n /\ t.value \in S /\ Len(t.value) \in Nat /\ t.at + Len(t.value) - 1 <= n
             /\ t \in [at : 1..n + m, value : S] /\ Occurs(t.value, c, t.at)
  <2>1. Lies(t, a, S)
    BY <1>1, PlacedIs
  <2>2. PICK p, w : p = t.at /\ w = t.value
    OBVIOUS
  <2>3. /\ p \in 1..n /\ w \in S /\ Len(w) \in Nat /\ p + Len(w) - 1 <= n /\ t = [at |-> p, value |-> w]
        /\ \A k \in 1..Len(w) : a[p + k - 1] = w[k]
    BY <1>3, <2>1, <2>2 DEF Lies
  <2>4. p \in 1..n + m /\ p + Len(w) - 1 <= n + m /\ DOMAIN w = 1..Len(w)
    BY <1>4, <2>3, CharsAre
  <2>5. ASSUME NEW k \in 1..Len(w) PROVE c[p + k - 1] = w[k]
    <3>1. p + k - 1 \in 1..n
      BY <1>4, <2>3
    <3> QED BY <1>4, <2>3, <3>1
  <2>6. Occurs(w, c, p)
    BY <1>4, <2>4, <2>5 DEF Occurs
  <2> QED BY <2>2, <2>3, <2>4, <2>6
<1>6. ASSUME NEW t \in Kb
      PROVE  /\ t.at \in 1..m /\ t.value \in S /\ Len(t.value) \in Nat
             /\ Moved(t) \in [at : 1..n + m, value : S] /\ Occurs(t.value, c, n + t.at)
  <2>1. Lies(t, b, S)
    BY <1>2, PlacedIs
  <2>2. PICK p, w : p = t.at /\ w = t.value
    OBVIOUS
  <2>3. /\ p \in 1..m /\ w \in S /\ Len(w) \in Nat /\ p + Len(w) - 1 <= m
        /\ \A k \in 1..Len(w) : b[p + k - 1] = w[k]
    BY <1>3, <2>1, <2>2 DEF Lies
  <2>4. n + p \in 1..n + m /\ (n + p) + Len(w) - 1 <= n + m /\ DOMAIN w = 1..Len(w)
    BY <1>4, <2>3, CharsAre
  <2>5. ASSUME NEW k \in 1..Len(w) PROVE c[(n + p) + k - 1] = w[k]
    <3>1. PICK j : j = p + k - 1
      OBVIOUS
    <3>2. j \in 1..m /\ n + j = (n + p) + k - 1
      BY <1>4, <2>3, <3>1
    <3> QED BY <1>4, <2>3, <3>1, <3>2
  <2>6. Occurs(w, c, n + p)
    BY <1>4, <2>4, <2>5 DEF Occurs
  <2> QED BY <2>2, <2>3, <2>4, <2>6
<1>7. K \subseteq [at : 1..n + m, value : S]
  BY <1>5, <1>6
<1>8. \A t \in K : Occurs(t.value, c, t.at)
  BY <1>5, <1>6
<1>9. ASSUME NEW t \in K, NEW u \in K PROVE t = u \/ Apart_(t, u)
  <2>1. CASE t \in Ka /\ u \in Ka
    BY <1>1, <2>1 DEF Placed
  <2>2. ASSUME NEW x \in Kb, NEW y \in Kb PROVE Moved(x) = Moved(y) \/ Apart_(Moved(x), Moved(y))
    <3>1. x = y \/ x.at + Len(x.value) <= y.at \/ y.at + Len(y.value) <= x.at
      BY <1>2 DEF Placed, Apart_
    <3>2. PICK p, q, nx, ny : p = x.at /\ q = y.at /\ nx = Len(x.value) /\ ny = Len(y.value)
      OBVIOUS
    <3>3. p \in Nat /\ q \in Nat /\ nx \in Nat /\ ny \in Nat
      BY <1>6, <3>2
    <3>4. x = y \/ p + nx <= q \/ q + ny <= p
      BY <3>1, <3>2
    <3>5. p + nx <= q => (n + p) + nx <= n + q
      BY <1>4, <3>3
    <3>6. q + ny <= p => (n + q) + ny <= n + p
      BY <1>4, <3>3
    <3> QED BY <3>2, <3>4, <3>5, <3>6 DEF Apart_
  <2>3. ASSUME NEW x \in Ka, NEW y \in Kb PROVE Apart_(x, Moved(y)) /\ Apart_(Moved(y), x)
    <3>1. PICK p, q, nx : p = x.at /\ q = y.at /\ nx = Len(x.value)
      OBVIOUS
    <3>2. p \in Nat /\ nx \in Nat /\ p + nx - 1 <= n /\ q \in Nat /\ q >= 1
      BY <1>5, <1>6, <3>1
    <3>3. p + nx <= n + q
      BY <1>4, <3>2
    <3> QED BY <3>1, <3>3 DEF Apart_
  <2> QED BY <2>1, <2>2, <2>3
<1>10. ASSUME NEW i \in 1..n + m, c[i] \in SecretChars
       PROVE  (\E t \in K : Covers(t, i)) \/ (headless /\ \A j \in 1..i : c[j] # NL)
  <2>1. CASE i \in 1..n
    <3>1. (\E t \in Ka : Covers(t, i)) \/ (headless /\ \A j \in 1..i : a[j] # NL)
      BY <1>1, <1>3, <1>4, <1>10, <2>1 DEF Placed
    <3>2. \A j \in 1..i : j \in 1..n
      BY <1>4, <2>1
    <3> QED BY <1>4, <3>1, <3>2
  <2>2. CASE i \notin 1..n
    <3>1. PICK j : j = i - n
      OBVIOUS
    <3>2. j \in 1..m /\ i = n + j
      BY <1>4, <2>2, <3>1
    <3>3. PICK t \in Kb : Covers(t, j)
      BY <1>2, <1>3, <1>4, <1>10, <3>2 DEF Placed
    <3>4. PICK p, w, u : p = t.at /\ w = Len(t.value) /\ u = Moved(t)
      OBVIOUS
    <3>5. p \in Nat /\ w \in Nat /\ p <= j /\ j < p + w
      BY <1>6, <3>3, <3>4 DEF Covers
    <3>6. n + p <= i /\ i < (n + p) + w
      BY <1>4, <3>2, <3>5
    <3>7. u \in K /\ u.at = n + p /\ u.value = t.value
      BY <3>4
    <3>8. Covers(u, i)
      BY <3>4, <3>6, <3>7 DEF Covers
    <3> QED BY <3>7, <3>8
  <2> QED BY <2>1, <2>2
<1>11. Placed(K, c, S, headless)
  <2> HIDE DEF K
  <2> QED BY <1>4, <1>7, <1>8, <1>9, <1>10 DEF Placed
<1>12. \E Z : Placed(Z, c, S, headless)
  <2> HIDE DEF K
  <2> QED BY <1>11
<1> QED BY <1>3, <1>4, <1>12 DEF Holds

\* A part of a line that ends where a line ends: what sticks out at its beginning
\* does so only where a line was torn.
LEMMA PartHolds ==
  ASSUME NEW S \in SUBSET Maskable, NEW line, NEW headless, Holds(line, S, headless),
         NEW b \in 1..Len(line) + 1, NEW e \in b - 1..Len(line), NEW torn2 \in BOOLEAN,
         torn2 \/ (b = 1 /\ ~headless) \/ (b > 1 /\ line[b - 1] = NL),
         e = Len(line) \/ line[e + 1] = NL
  PROVE  Holds(SubSeq(line, b, e), S, torn2)
<1>1. PICK K : Placed(K, line, S, headless) /\ line \in Seq(Chars)
  BY DEF Holds
<1>2. PICK L, d, s, n : L = Len(line) /\ d = b - 1 /\ s = SubSeq(line, b, e) /\ n = e - d
  OBVIOUS
<1>3. /\ L \in Nat /\ d \in 0..L /\ n \in Nat /\ b = d + 1 /\ e = d + n /\ e <= L /\ d + n <= L
      /\ b \in Nat /\ e \in Nat
  BY <1>1, <1>2
<1>4. s \in Seq(Chars) /\ Len(s) = n /\ \A i \in 1..n : s[i] = line[d + i]
  <2>1. s \in Seq(Chars) /\ Len(s) = n
    BY <1>1, <1>2, <1>3
  <2>2. ASSUME NEW i \in 1..n PROVE s[i] = line[d + i]
    <3>1. b + i - 1 = d + i
      BY <1>3
    <3>2. i \in 1..(e - b + 1)
      BY <1>3
    <3>3. s[i] = line[b + i - 1]
      BY <1>1, <1>2, <1>3, <3>2
    <3> QED BY <3>1, <3>3
  <2> QED BY <2>1, <2>2
<1>5. ASSUME NEW t \in K
      PROVE  /\ t.at \in 1..L /\ t.value \in S /\ Len(t.value) \in Nat /\ Len(t.value) >= 1
             /\ t.at + Len(t.value) - 1 <= L
             /\ \A k \in 1..Len(t.value) : line[t.at + k - 1] = t.value[k]
             /\ \A i \in 1..L : Covers(t, i) <=> t.at <= i /\ i < t.at + Len(t.value)
             /\ \A i \in 1..L : Covers(t, i) => line[i] # NL
  <2>1. Lies(t, line, S)
    BY <1>1, PlacedIs
  <2>2. PICK w, p : w = t.value /\ p = t.at
    OBVIOUS
  <2>3. /\ p \in 1..L /\ w \in S /\ w \in Seq(SecretChars) /\ Len(w) \in Nat /\ Len(w) >= 1
        /\ p + Len(w) - 1 <= L /\ \A k \in 1..Len(w) : line[p + k - 1] = w[k]
    BY <1>2, <2>1, <2>2 DEF Lies
  <2>4. \A i \in 1..L : Covers(t, i) <=> p <= i /\ i < p + Len(w)
    BY <2>2 DEF Covers
  <2>5. ASSUME NEW i \in 1..L, Covers(t, i) PROVE line[i] # NL
    <3>0. PICK nw : nw = Len(w)
      OBVIOUS
    <3>1. p \in 1..L /\ nw \in Nat /\ p <= i /\ i < p + nw
      BY <2>3, <2>4, <2>5, <3>0
    <3>2. PICK k : k = i - p + 1
      OBVIOUS
    <3>3. k \in 1..nw /\ i = p + k - 1
      BY <1>3, <3>1, <3>2
    <3>4. w[k] \in SecretChars /\ line[i] = w[k]
      BY <2>3, <3>0, <3>3
    <3> QED BY <3>4, CharsAre
  <2> QED BY <2>2, <2>3, <2>4, <2>5
<1> DEFINE M == {t \in K : b <= t.at /\ t.at + Len(t.value) - 1 <= e}
           Moved(t) == [at |-> t.at - d, value |-> t.value]
           K2 == {Moved(t) : t \in M}
<1>6. ASSUME NEW t \in M
      PROVE  /\ Moved(t) \in [at : 1..n, value : S] /\ Occurs(t.value, s, t.at - d)
  <2>0. PICK w, p, nw : w = t.value /\ p = t.at /\ nw = Len(t.value)
    OBVIOUS
  <2>1. PICK q : q = p - d
    OBVIOUS
  <2>2. /\ p \in 1..L /\ w \in S /\ nw \in Nat /\ nw >= 1 /\ b <= p /\ p + nw - 1 <= e
        /\ \A k \in 1..nw : line[p + k - 1] = w[k]
    BY <1>5, <2>0
  <2>7. p \in Nat /\ nw \in Nat /\ nw >= 1 /\ b <= p /\ p + nw - 1 <= e
    BY <2>2
  <2>3. q \in 1..n /\ q + nw - 1 <= n /\ p = d + q
    BY <1>3, <2>1, <2>7
  <2>4. DOMAIN w = 1..nw
    BY <2>0, <2>2, CharsAre
  <2>5. ASSUME NEW k \in 1..nw PROVE s[q + k - 1] = w[k]
    <3>1. PICK j : j = q + k - 1
      OBVIOUS
    <3>2. j \in 1..n /\ d + j = p + k - 1
      BY <1>3, <2>2, <2>3, <3>1
    <3> QED BY <1>4, <2>2, <3>1, <3>2
  <2>6. Occurs(w, s, q)
    BY <1>4, <2>0, <2>3, <2>4, <2>5 DEF Occurs
  <2> QED BY <2>0, <2>1, <2>2, <2>3, <2>6
<1>7. ASSUME NEW t \in M, NEW u \in M PROVE Moved(t) = Moved(u) \/ Apart_(Moved(t), Moved(u))
  <2>1. t = u \/ t.at + Len(t.value) <= u.at \/ u.at + Len(u.value) <= t.at
    BY <1>1 DEF Placed, Apart_
  <2>2. PICK p, q, nt, nu : p = t.at /\ q = u.at /\ nt = Len(t.value) /\ nu = Len(u.value)
    OBVIOUS
  <2>3. p \in Nat /\ q \in Nat /\ nt \in Nat /\ nu \in Nat
    BY <1>5, <2>2
  <2>4. t = u \/ p + nt <= q \/ q + nu <= p
    BY <2>1, <2>2
  <2>5. p + nt <= q => (p - d) + nt <= q - d
    BY <1>3, <2>3
  <2>6. q + nu <= p => (q - d) + nu <= p - d
    BY <1>3, <2>3
  <2> QED BY <2>2, <2>4, <2>5, <2>6 DEF Apart_
<1>8. ASSUME NEW i \in 1..n, s[i] \in SecretChars
      PROVE  (\E t \in K2 : Covers(t, i)) \/ (torn2 /\ \A j \in 1..i : s[j] # NL)
  <2>1. PICK j : j = d + i
    OBVIOUS
  <2>0. line[j] \in SecretChars
    BY <1>4, <1>8, <2>1
  <2>2. j \in 1..L /\ b <= j /\ j <= e /\ line[j] \in SecretChars /\ i \in Nat /\ i >= 1
    BY <1>3, <2>0, <2>1
  <2>3. (\E t \in K : Covers(t, j)) \/ (headless /\ \A k \in 1..j : line[k] # NL)
    BY <1>1, <1>2, <2>2 DEF Placed
  <2>4. CASE headless /\ \A k \in 1..j : line[k] # NL
    <3>1. b > 1 => b - 1 \in 1..j
      BY <1>3, <2>2
    <3>2. torn2
      BY <2>4, <3>1
    <3>3. ASSUME NEW k \in 1..i PROVE s[k] # NL
      <4>1. d + k \in 1..j /\ k \in 1..n
        BY <1>3, <2>1, <2>2
      <4> QED BY <1>4, <2>4, <4>1
    <3> QED BY <3>2, <3>3
  <2>5. ASSUME NEW t \in K, Covers(t, j)
        PROVE  (\E u \in K2 : Covers(u, i)) \/ (torn2 /\ \A k \in 1..i : s[k] # NL)
    <3>1. PICK p, nt : p = t.at /\ nt = Len(t.value)
      OBVIOUS
    <3>2. /\ p \in 1..L /\ nt \in Nat /\ nt >= 1 /\ p + nt - 1 <= L /\ p <= j /\ j < p + nt
          /\ \A k \in 1..L : Covers(t, k) <=> p <= k /\ k < p + nt
          /\ \A k \in 1..L : Covers(t, k) => line[k] # NL
      BY <1>5, <2>2, <2>5, <3>1
    <3>3. p + nt - 1 <= e
      <4>1. ASSUME ~(p + nt - 1 <= e) PROVE FALSE
        <5>1. e + 1 \in 1..L /\ p <= e + 1 /\ e + 1 < p + nt /\ e # L
          BY <1>3, <2>2, <3>2, <4>1
        <5>2. line[e + 1] = NL
          BY <1>2, <5>1
        <5> QED BY <3>2, <5>1, <5>2
      <4> QED BY <4>1
    <3>4. CASE b <= p
      <4>1. PICK u : u = Moved(t)
        OBVIOUS
      <4>2. t \in M
        BY <3>1, <3>3, <3>4
      <4>3. u \in K2 /\ u.at = p - d /\ Len(u.value) = nt
        BY <3>1, <4>1, <4>2
      <4>4. p - d <= i /\ i < (p - d) + nt
        BY <1>3, <2>1, <2>2, <3>2
      <4>5. Covers(u, i)
        BY <4>3, <4>4 DEF Covers
      <4> QED BY <4>3, <4>5
    <3>5. CASE ~(b <= p)
      <4>1. p < b /\ b > 1 /\ b # 1
        BY <1>3, <3>2, <3>5
      <4>2. b - 1 \in 1..L /\ p <= b - 1 /\ b - 1 < p + nt
        BY <1>3, <2>2, <3>2, <4>1
      <4>3. line[b - 1] # NL
        BY <3>2, <4>2
      <4>4. torn2
        BY <4>1, <4>3
      <4>5. ASSUME NEW k \in 1..i PROVE s[k] # NL
        <5>1. PICK h : h = d + k
          OBVIOUS
        <5>2. h \in 1..L /\ p <= h /\ h < p + nt /\ k \in 1..n
          BY <1>3, <2>1, <2>2, <3>2, <4>1, <5>1
        <5>3. line[h] # NL
          BY <3>2, <5>2
        <5> QED BY <1>4, <5>1, <5>2, <5>3
      <4> QED BY <4>4, <4>5
    <3> QED BY <3>4, <3>5
  <2> QED BY <2>3, <2>4, <2>5
<1>9. Placed(K2, s, S, torn2)
  <2>1. K2 \subseteq [at : 1..n, value : S] /\ \A t \in K2 : Occurs(t.value, s, t.at)
    BY <1>6
  <2>2. \A t, u \in K2 : t = u \/ Apart_(t, u)
    BY <1>7
  <2> HIDE DEF K2
  <2> QED BY <1>4, <1>8, <2>1, <2>2 DEF Placed
<1>10. \E Z : Placed(Z, s, S, torn2)
  <2> HIDE DEF K2
  <2> QED BY <1>9
<1> QED BY <1>2, <1>4, <1>10 DEF Holds

\* Where the lines of some output begin and end in it.
LineAt(line, first, data, n) ==
  \E b \in 1..n, e \in 0..n - 1 :
    /\ b - 1 <= e /\ data[e + 1] = NL /\ line = SubSeq(data, b, e)
    /\ (b = 1 /\ first) \/ (b > 1 /\ data[b - 1] = NL)
RestAt(rest, first, data, n) ==
  \E r \in 1..n + 1 : /\ rest = SubSeq(data, r, n) /\ \A j \in r..n : data[j] # NL
                      /\ (r = 1 /\ first) \/ (r > 1 /\ data[r - 1] = NL)
IsCut(c, data, n) ==
  /\ c.lines \in Seq(Seq(Chars)) /\ c.rest \in Seq(Chars)
  /\ \A m \in 1..Len(c.lines) : LineAt(c.lines[m], m = 1, data, n)
  /\ RestAt(c.rest, c.lines = <<>>, data, n)

LEMMA CutStep ==
  ASSUME NEW data \in Seq(Chars), NEW n \in 1..Len(data), NEW a, IsCut(a, data, n - 1), NEW c,
         \/ data[n] = NL /\ c = [lines |-> Append(a.lines, a.rest), rest |-> <<>>]
         \/ data[n] # NL /\ c = [lines |-> a.lines, rest |-> Append(a.rest, data[n])]
  PROVE  IsCut(c, data, n)
<1>1. PICK k, lines, rest : k = n - 1 /\ lines = a.lines /\ rest = a.rest
  OBVIOUS
<1>2. /\ k \in Nat /\ n = k + 1 /\ n \in Nat /\ data[n] \in Chars /\ Len(data) \in Nat /\ n <= Len(data)
      /\ lines \in Seq(Seq(Chars)) /\ rest \in Seq(Chars)
  BY <1>1 DEF IsCut
<1>3. \A m \in 1..Len(lines) : \E b \in 1..k, e \in 0..k - 1 :
        /\ b - 1 <= e /\ data[e + 1] = NL /\ lines[m] = SubSeq(data, b, e)
        /\ (b = 1 /\ m = 1) \/ (b > 1 /\ data[b - 1] = NL)
  BY <1>1 DEF IsCut, LineAt
<1>4. PICK r \in 1..k + 1 :
        /\ rest = SubSeq(data, r, k) /\ \A j \in r..k : data[j] # NL
        /\ (r = 1 /\ lines = <<>>) \/ (r > 1 /\ data[r - 1] = NL)
  BY <1>1 DEF IsCut, RestAt
<1>5. 1..k \subseteq 1..n /\ 0..k - 1 \subseteq 0..n - 1 /\ 1..k + 1 \subseteq 1..n + 1
  BY <1>2
<1>6. CASE data[n] = NL /\ c = [lines |-> Append(lines, rest), rest |-> <<>>]
  <2>1. PICK q : q = Append(lines, rest)
    OBVIOUS
  <2>2. /\ q \in Seq(Seq(Chars)) /\ Len(q) = Len(lines) + 1 /\ q[Len(q)] = rest /\ Len(lines) \in Nat
        /\ \A m \in 1..Len(lines) : q[m] = lines[m]
    BY <1>2, <2>1
  <2>3. c.lines = q /\ c.rest = <<>>
    BY <1>6, <2>1
  <2>4. ASSUME NEW m \in 1..Len(q)
        PROVE  \E b \in 1..n, e \in 0..n - 1 :
                 /\ b - 1 <= e /\ data[e + 1] = NL /\ q[m] = SubSeq(data, b, e)
                 /\ (b = 1 /\ m = 1) \/ (b > 1 /\ data[b - 1] = NL)
    <3>1. CASE m \in 1..Len(lines)
      BY <1>3, <1>5, <2>2, <3>1
    <3>2. CASE m \notin 1..Len(lines)
      <4>1. m = Len(q)
        BY <2>2, <3>2
      <4>2. r \in 1..n /\ k \in 0..n - 1 /\ r - 1 <= k /\ data[k + 1] = NL
        BY <1>2, <1>4, <1>6
      <4>3. lines = <<>> => m = 1
        BY <2>2, <4>1
      <4> QED BY <1>4, <2>2, <4>1, <4>2, <4>3
    <3> QED BY <3>1, <3>2
  <2>5. n + 1 \in 1..n + 1 /\ n + 1 > 1 /\ (n + 1) - 1 = n
    BY <1>2
  <2>6. SubSeq(data, n + 1, n) = <<>> /\ n + 1..n = {}
    BY <1>2
  <2>7. RestAt(<<>>, q = <<>>, data, n)
    BY <1>6, <2>5, <2>6 DEF RestAt
  <2>8. ASSUME NEW m \in 1..Len(q) PROVE LineAt(q[m], m = 1, data, n)
    BY <2>4 DEF LineAt
  <2>9. <<>> \in Seq(Chars)
    OBVIOUS
  <2> QED BY <2>2, <2>3, <2>7, <2>8, <2>9 DEF IsCut
<1>7. CASE data[n] # NL /\ c = [lines |-> lines, rest |-> Append(rest, data[n])]
  <2>1. c.lines = lines /\ c.rest = Append(rest, data[n])
    BY <1>7
  <2>2. Append(rest, data[n]) = SubSeq(data, r, n) /\ Append(rest, data[n]) \in Seq(Chars)
    <3>1. PICK s, t : s = Append(rest, data[n]) /\ t = SubSeq(data, r, n)
      OBVIOUS
    <3>2. s \in Seq(Chars) /\ Len(s) = Len(rest) + 1 /\ \A i \in 1..Len(rest) : s[i] = rest[i]
      BY <1>2, <3>1
    <3>3. s[Len(rest) + 1] = data[n]
      BY <1>2, <3>1
    <3>4. Len(rest) = k + 1 - r /\ \A i \in 1..k + 1 - r : rest[i] = data[r + i - 1]
      <4>1. r \in 1..Len(data) + 1 /\ k \in 0..Len(data) /\ r - 1 <= k
        BY <1>2
      <4> QED BY <1>4, <4>1, PieceIs
    <3>5. t \in Seq(Chars) /\ Len(t) = n + 1 - r /\ \A i \in 1..n + 1 - r : t[i] = data[r + i - 1]
      <4>1. r \in 1..Len(data) + 1 /\ n \in 0..Len(data) /\ r - 1 <= n
        BY <1>2
      <4> QED BY <3>1, <4>1, PieceIs
    <3>6. PICK z : z = n + 1 - r
      OBVIOUS
    <3>7. z \in Nat /\ Len(rest) = z - 1 /\ r + z - 1 = n /\ k + 1 - r = z - 1 /\ z >= 1
      BY <1>2, <1>4, <3>4, <3>6
    <3>8. Len(s) = z /\ Len(t) = z
      BY <3>2, <3>5, <3>6, <3>7
    <3>9. ASSUME NEW i \in 1..z PROVE s[i] = t[i]
      <4>1. i = z \/ i \in 1..z - 1
        BY <3>7
      <4>2. t[i] = data[r + i - 1]
        BY <3>5, <3>6
      <4>3. i = z => s[i] = data[n]
        BY <3>3, <3>7
      <4>4. i \in 1..z - 1 => s[i] = data[r + i - 1]
        BY <3>2, <3>4, <3>7
      <4> QED BY <3>7, <4>1, <4>2, <4>3, <4>4
    <3>10. s = t
      <4>1. s = [i \in 1..z |-> s[i]] /\ t = [i \in 1..z |-> t[i]]
        <5>1. s \in Seq(Chars) /\ t \in Seq(Chars) /\ Len(s) = z /\ Len(t) = z
          BY <3>2, <3>5, <3>8
        <5> QED BY <5>1
      <4>2. [i \in 1..z |-> s[i]] = [i \in 1..z |-> t[i]]
        BY <3>9
      <4> QED BY <4>1, <4>2, Zenon
    <3> QED BY <3>1, <3>2, <3>10
  <2>3. r \in 1..n + 1
    BY <1>5
  <2>4. \A m \in 1..Len(lines) : \E b \in 1..n, e \in 0..n - 1 :
          /\ b - 1 <= e /\ data[e + 1] = NL /\ lines[m] = SubSeq(data, b, e)
          /\ (b = 1 /\ m = 1) \/ (b > 1 /\ data[b - 1] = NL)
    BY <1>3, <1>5
  <2>7. ASSUME NEW j \in r..n PROVE data[j] # NL
    <3>1. j = n \/ j \in r..k
      BY <1>2
    <3> QED BY <1>4, <1>7, <3>1
  <2>5. RestAt(Append(rest, data[n]), lines = <<>>, data, n)
    BY <1>4, <2>2, <2>3, <2>7 DEF RestAt
  <2>6. ASSUME NEW m \in 1..Len(lines) PROVE LineAt(lines[m], m = 1, data, n)
    BY <2>4 DEF LineAt
  <2> QED BY <1>2, <2>1, <2>2, <2>5, <2>6 DEF IsCut
<1> QED BY <1>1, <1>6, <1>7

LEMMA CutIs ==
  ASSUME NEW data \in Seq(Chars)
  PROVE  IsCut(Cut_(data), data, Len(data))
<1> DEFINE N == Len(data)
           A == [lines : Seq(Seq(Chars)), rest : Seq(Chars)]
           start == [lines |-> <<>>, rest |-> <<>>]
           Next_(a, n) == IF data[n] = NL THEN [lines |-> Append(a.lines, a.rest), rest |-> <<>>]
                          ELSE [a EXCEPT !.rest = Append(@, data[n])]
           Is(f) == f = [n \in 0..N |-> IF n = 0 THEN start ELSE Next_(f[n - 1], n)]
           Moves(a, b, n) ==
             \/ data[n] = NL /\ b = [lines |-> Append(a.lines, a.rest), rest |-> <<>>]
             \/ data[n] # NL /\ b = [lines |-> a.lines, rest |-> Append(a.rest, data[n])]
<1>1. N \in Nat /\ start \in A
  <2>1. <<>> \in Seq(Seq(Chars)) /\ <<>> \in Seq(Chars)
    OBVIOUS
  <2> QED BY <2>1
<1>2. ASSUME NEW a \in A, NEW n \in 1..N PROVE Next_(a, n) \in A /\ Moves(a, Next_(a, n), n)
  <2>1. a.lines \in Seq(Seq(Chars)) /\ a.rest \in Seq(Chars) /\ data[n] \in Chars
    OBVIOUS
  <2>2. Append(a.lines, a.rest) \in Seq(Seq(Chars)) /\ Append(a.rest, data[n]) \in Seq(Chars)
    BY <2>1
  <2>3. CASE data[n] = NL
    <3>1. Next_(a, n) = [lines |-> Append(a.lines, a.rest), rest |-> <<>>] /\ <<>> \in Seq(Chars)
      BY <2>3
    <3>2. Next_(a, n) \in A
      BY <2>2, <3>1
    <3> QED BY <2>3, <3>1, <3>2
  <2>4. CASE data[n] # NL
    <3>1. Next_(a, n) = [lines |-> a.lines, rest |-> Append(a.rest, data[n])]
      BY <2>4
    <3>2. Next_(a, n) \in A
      BY <2>1, <2>2, <3>1
    <3> QED BY <2>4, <3>1, <3>2
  <2> QED BY <2>3, <2>4
<1> HIDE DEF Next_, start
<1>3. PICK step : step = [p \in (1..N) \X A |-> Next_(p[2], p[1])]
  OBVIOUS
<1>4. Round(step, N, A) /\ \A n \in 1..N, a \in A : step[<<n, a>>] = Next_(a, n)
  BY <1>2, <1>3 DEF Round
<1>5. PICK f : IsLoop(f, step, N, A, start)
  <2> HIDE DEF N, A
  <2> QED BY <1>1, <1>4, Rounds
<1>6. Is(f)
  <2>1. ASSUME NEW n \in 0..N PROVE f[n] = IF n = 0 THEN start ELSE Next_(f[n - 1], n)
    <3>1. CASE n # 0
      <4>1. n \in 1..N /\ n - 1 \in 0..N
        BY <1>1, <3>1
      <4>2. f[n - 1] \in A /\ f[n] = step[<<n, f[n - 1]>>]
        BY <1>5, <4>1 DEF IsLoop
      <4> QED BY <1>4, <3>1, <4>1, <4>2
    <3> QED BY <1>5, <3>1 DEF IsLoop
  <2>2. f = [n \in 0..N |-> f[n]]
    BY <1>5 DEF IsLoop
  <2> QED BY <2>1, <2>2
<1> DEFINE upto == CHOOSE g : Is(g)
<1>7. Is(upto)
  <2> HIDE DEF Is
  <2> QED BY <1>6
<1>8. Cut_(data) = upto[N]
  BY DEF Cut_, Next_, start
<1> HIDE DEF upto
<1>9. upto[0] = start /\ \A n \in 1..N : upto[n] = Next_(upto[n - 1], n)
  <2>1. 0 \in 0..N /\ \A n \in 1..N : n \in 0..N /\ n # 0
    BY <1>1
  <2> QED BY <1>7, <2>1
<1> DEFINE G == {n \in 0..N : upto[n] \in A /\ IsCut(upto[n], data, n)}
<1>10. 0 \in G
  <2>1. upto[0] \in A /\ 0 \in 0..N
    BY <1>1, <1>9
  <2>2. upto[0].lines = <<>> /\ upto[0].rest = <<>> /\ Len(<<>>) = 0
    BY <1>9 DEF start
  <2>3. SubSeq(data, 1, 0) = <<>> /\ 1 \in 1..0 + 1 /\ 1..0 = {}
    OBVIOUS
  <2>4. <<>> \in Seq(Seq(Chars)) /\ <<>> \in Seq(Chars)
    OBVIOUS
  <2>5. IsCut(upto[0], data, 0)
    <3>1. PICK z : z = upto[0]
      OBVIOUS
    <3>2. z.lines = <<>> /\ z.rest = <<>>
      BY <2>2, <3>1
    <3>3. RestAt(<<>>, z.lines = <<>>, data, 0)
      <4>1. <<>> = SubSeq(data, 1, 0) /\ 1 \in 1..0 + 1 /\ z.lines = <<>> /\ 1..0 = {}
        BY <2>3, <3>2
      <4> QED BY <4>1, Zenon DEF RestAt
    <3>4. Len(z.lines) = 0
      BY <3>2
    <3>5. ASSUME NEW m \in 1..Len(z.lines) PROVE FALSE
      BY <3>4
    <3>6. z.lines \in Seq(Seq(Chars)) /\ z.rest \in Seq(Chars)
      BY <2>4, <3>2
    <3>7. RestAt(z.rest, z.lines = <<>>, data, 0)
      BY <3>2, <3>3
    <3> QED BY <3>1, <3>5, <3>6, <3>7, Zenon DEF IsCut
  <2> QED BY <2>1, <2>5
<1>11. ASSUME NEW n \in 1..N, n - 1 \in G PROVE n \in G
  <2>1. PICK a, b : a = upto[n - 1] /\ b = upto[n]
    OBVIOUS
  <2>2. a \in A /\ IsCut(a, data, n - 1) /\ b = Next_(a, n) /\ n \in 0..N
    BY <1>9, <1>11, <2>1
  <2>3. b \in A /\ Moves(a, b, n)
    <3> HIDE DEF A, Moves
    <3> QED BY <1>2, <2>2
  <2>4. IsCut(b, data, n)
    BY <2>2, <2>3, CutStep
  <2> QED BY <2>1, <2>2, <2>3, <2>4
<1>12. 0..N \subseteq G
  <2> HIDE DEF G
  <2> QED BY <1>1, <1>10, <1>11, UpTo
<1>13. IsCut(upto[N], data, N)
  <2>1. N \in 0..N
    BY <1>1
  <2> QED BY <1>12, <2>1
<1> QED BY <1>8, <1>13

\* What a child prints is plain or the values it was started with.
LEMMA MessageIs ==
  ASSUME NEW S \in SUBSET Maskable, NEW ks, Len(ks) \in Nat,
         \A n \in 1..Len(ks) : Holds(Shown_(childEnv[ks[n]]), S, FALSE),
         NEW end \in {<<>>, <<NL>>}
  PROVE  Holds(Message(ks, end), S, FALSE)
<1>0. PICK N : N = Len(ks)
  OBVIOUS
<1> DEFINE A == Seq(Chars)
           shown(n) == Shown_(childEnv[ks[n]])
           Is(f) == f = [n \in 0..N |-> IF n = 0 THEN <<Plain("x")>> ELSE f[n - 1] \o shown(n)]
<1>1. N \in Nat /\ <<Plain("x")>> \in A
  <2>1. Plain("x") \in Chars
    BY CharsAre
  <2> QED BY <1>0, <2>1
<1>2. \A n \in 1..N : shown(n) \in A /\ Holds(shown(n), S, FALSE)
  BY <1>0 DEF Holds
<1> HIDE DEF shown
<1>3. ASSUME NEW n \in 1..N, NEW a \in A PROVE a \o shown(n) \in A
  <2>1. PICK b : b = shown(n)
    OBVIOUS
  <2>2. a \in Seq(Chars) /\ b \in Seq(Chars)
    BY <1>2, <2>1
  <2>3. a \o b \in Seq(Chars)
    BY <2>2
  <2> QED BY <2>1, <2>3
<1>4. PICK step : step = [p \in (1..N) \X A |-> p[2] \o shown(p[1])]
  OBVIOUS
<1>5. Round(step, N, A) /\ \A n \in 1..N, a \in A : step[<<n, a>>] = a \o shown(n)
  <2> HIDE DEF A
  <2> QED BY <1>3, <1>4 DEF Round
<1>6. PICK f : IsLoop(f, step, N, A, <<Plain("x")>>)
  <2> HIDE DEF A
  <2> QED BY <1>1, <1>5, Rounds
<1>7. Is(f)
  <2>1. ASSUME NEW n \in 0..N PROVE f[n] = IF n = 0 THEN <<Plain("x")>> ELSE f[n - 1] \o shown(n)
    <3>1. CASE n # 0
      <4>1. n \in 1..N /\ n - 1 \in 0..N
        BY <1>1, <3>1
      <4>2. f[n - 1] \in A /\ f[n] = step[<<n, f[n - 1]>>]
        BY <1>6, <4>1 DEF IsLoop
      <4> QED BY <1>5, <3>1, <4>1, <4>2
    <3> QED BY <1>6, <3>1 DEF IsLoop
  <2>2. f = [n \in 0..N |-> f[n]]
    BY <1>6 DEF IsLoop
  <2> QED BY <2>1, <2>2
<1> DEFINE upto == CHOOSE g : Is(g)
<1>8. Is(upto)
  <2> HIDE DEF Is
  <2> QED BY <1>7
<1>9. Message(ks, end) = upto[N] \o end
  BY <1>0 DEF Message, shown
<1> HIDE DEF upto
<1>10. upto[0] = <<Plain("x")>> /\ \A n \in 1..N : upto[n] = upto[n - 1] \o shown(n)
  <2>1. 0 \in 0..N /\ \A n \in 1..N : n \in 0..N /\ n # 0
    BY <1>1
  <2> QED BY <1>8, <2>1
<1>11. ASSUME NEW c \in {NL, Plain("x")} PROVE Holds(<<c>>, S, FALSE)
  <2>1. c \in Chars /\ c \notin SecretChars
    BY CharsAre
  <2>2. <<c>> \in Seq(Chars) /\ ToSet(<<c>>) = {c}
    BY <2>1 DEF ToSet
  <2>3. Clean(<<c>>)
    BY <2>1, <2>2 DEF Clean
  <2> QED BY <2>2, <2>3, PlainHolds
<1> DEFINE G == {n \in 0..N : Holds(upto[n], S, FALSE)}
<1>12. 0 \in G
  <2>1. 0 \in 0..N
    BY <1>1
  <2>2. Holds(upto[0], S, FALSE)
    BY <1>10, <1>11, Zenon
  <2> QED BY <2>1, <2>2, Zenon
<1>13. ASSUME NEW n \in 1..N, n - 1 \in G PROVE n \in G
  <2>1. PICK a, b : a = upto[n - 1] /\ b = shown(n)
    OBVIOUS
  <2>2. Holds(a, S, FALSE) /\ Holds(b, S, FALSE)
    BY <1>2, <1>13, <2>1
  <2>3. Holds(a \o b, S, FALSE)
    BY <2>2, JoinHolds
  <2>4. upto[n] = a \o b
    BY <1>10, <2>1, Zenon
  <2>5. n \in 0..N
    BY <1>1
  <2> QED BY <2>3, <2>4, <2>5, Zenon
<1>14. Holds(upto[N], S, FALSE)
  <2>1. 0..N \subseteq G
    <3> HIDE DEF G
    <3> QED BY <1>1, <1>12, <1>13, UpTo
  <2>2. N \in 0..N
    BY <1>1
  <2> QED BY <2>1, <2>2, Zenon
<1>15. Holds(end, S, FALSE)
  <2>1. CASE end = <<>>
    <3>1. <<>> \in Seq(Chars) /\ ToSet(<<>>) = {}
      BY DEF ToSet
    <3>2. Clean(<<>>)
      BY <3>1 DEF Clean
    <3> QED BY <2>1, <3>1, <3>2, PlainHolds
  <2>2. CASE end = <<NL>>
    BY <1>11, <2>2
  <2> QED BY <2>1, <2>2
<1> QED BY <1>9, <1>14, <1>15, JoinHolds

-----------------------------------------------------------------------------
(* Secrets: the invariant                                                     *)

EnvEntries == [ref : Refs \cup {NoRef}, text : Seq(Chars)]
Envs == [EnvKeys -> EnvEntries]

\* A text a child may print: nothing of a value that can be masked, or one of S.
TextHeld(words, S) == Clean(words) \/ words \in S
EnvHeld(env, S) == \A k \in EnvKeys : TextHeld(env[k].text, S)
StartHeld(start, S) ==
  /\ start.step = "resolve" => \A k \in EnvKeys : Clean(start.env[k].text)
  /\ start.step = "register" => \A k \in EnvKeys :
       IF k \in start.left THEN start.resolved[k].text \in Values_ \cup {<<>>}
       ELSE TextHeld(start.resolved[k].text, S)

SecretsTypes ==
  /\ source \in [Refs -> Values_ \cup {<<>>}]
  /\ starting \in [step : {"none", "resolve", "register"}, env : Envs, resolved : Envs,
                   left : SUBSET EnvKeys]
  /\ procEnv \in Envs /\ childEnv \in Envs
  /\ unsent \in Seq(Chars) /\ buffer \in Seq(Chars) /\ tornLine \in BOOLEAN

\* Whatever a child has, and the daemon would start one with, is no value or one the
\* redactor knows; so the line being written and what the child has still to write
\* are covered by known values, but for the rest of a line whose beginning was flushed.
SecretsInv ==
  /\ SecretsTypes /\ LongestFirst(registry)
  /\ StartHeld(starting, Known) /\ EnvHeld(procEnv, Known) /\ EnvHeld(childEnv, Known)
  /\ Holds(buffer \o unsent, Known, tornLine)
  /\ childEnv = NoEnv => buffer = <<>> /\ unsent = <<>>
  /\ starting.step # "none" => childEnv = NoEnv
  /\ NoPlainSecret

LEMMA PlainEnvs ==
  /\ Asked \cup EnvFiles \subseteq Envs
  /\ \A env \in Asked \cup EnvFiles, k \in EnvKeys : Clean(env[k].text)
  /\ NoEnv \in Envs /\ \A k \in EnvKeys : NoEnv[k].text = <<>>
  /\ Clean(<<>>) /\ <<>> \in Seq(Chars)
<1>1. \A c \in STRING \X {0} : c \in Chars /\ c \notin SecretChars
  BY CharsAre
<1>2. Seq(STRING \X {0}) \subseteq Seq(Chars)
  BY <1>1
<1>3. ASSUME NEW words \in Seq(STRING \X {0}) PROVE Clean(words)
  <2>1. \A k \in 1..Len(words) : words[k] \notin SecretChars
    BY <1>1
  <2> QED BY <2>1 DEF Clean, ToSet
<1>4. \A env \in Asked \cup EnvFiles :
        env \in [EnvKeys -> [ref : Refs \cup {NoRef}, text : Seq(STRING \X {0})]]
  BY SecretsAssumption
<1>5. ASSUME NEW env \in Asked \cup EnvFiles
      PROVE  env \in Envs /\ \A k \in EnvKeys : Clean(env[k].text)
  <2>1. env \in [EnvKeys -> [ref : Refs \cup {NoRef}, text : Seq(STRING \X {0})]]
    BY <1>4
  <2>2. ASSUME NEW k \in EnvKeys PROVE env[k] \in EnvEntries /\ Clean(env[k].text)
    <3>1. env[k] \in [ref : Refs \cup {NoRef}, text : Seq(STRING \X {0})]
      BY <2>1
    <3>2. /\ env[k].ref \in Refs \cup {NoRef} /\ env[k].text \in Seq(STRING \X {0})
          /\ env[k] = [ref |-> env[k].ref, text |-> env[k].text]
      BY <3>1
    <3> QED BY <1>2, <1>3, <3>2 DEF EnvEntries
  <2> QED BY <2>1, <2>2 DEF Envs
<1>6. Clean(<<>>) /\ <<>> \in Seq(Chars)
  BY DEF Clean, ToSet
<1>7. NoEntry \in EnvEntries /\ NoEntry.text = <<>>
  BY <1>6 DEF NoEntry, EnvEntries
<1>8. NoEnv \in Envs /\ \A k \in EnvKeys : NoEnv[k].text = <<>>
  BY <1>7 DEF NoEnv, Envs
<1> QED BY <1>5, <1>6, <1>8

LEMMA EmptyHolds == \A S, headless : Holds(<<>> \o <<>>, S, headless)
<1>1. <<>> \o <<>> = <<>> /\ <<>> \in Seq(Chars)
  OBVIOUS
<1>2. Clean(<<>>)
  BY PlainEnvs
<1> QED BY <1>1, <1>2, PlainHolds

LEMMA HeldMore ==
  ASSUME NEW S, NEW T, S \subseteq T
  PROVE  /\ \A env : EnvHeld(env, S) => EnvHeld(env, T)
         /\ \A start : StartHeld(start, S) => StartHeld(start, T)
<1>1. \A words : TextHeld(words, S) => TextHeld(words, T)
  BY DEF TextHeld
<1> QED BY <1>1 DEF EnvHeld, StartHeld

\* Nothing is held before the first start and after the daemon came back.
LEMMA NothingHeld ==
  /\ NotStarting \in [step : {"none", "resolve", "register"}, env : Envs, resolved : Envs,
                      left : SUBSET EnvKeys]
  /\ \A S : StartHeld(NotStarting, S) /\ EnvHeld(NoEnv, S)
  /\ NotStarting.step = "none"
<1>1. NoEnv \in Envs /\ \A k \in EnvKeys : Clean(NoEnv[k].text)
  BY PlainEnvs
<1>2. NotStarting.step = "none"
  BY DEF NotStarting
<1>3. NotStarting \in [step : {"none", "resolve", "register"}, env : Envs, resolved : Envs,
                       left : SUBSET EnvKeys]
  BY <1>1 DEF NotStarting
<1>4. ASSUME NEW S PROVE StartHeld(NotStarting, S) /\ EnvHeld(NoEnv, S)
  BY <1>1, <1>2 DEF StartHeld, EnvHeld, TextHeld
<1> QED BY <1>2, <1>3, <1>4

\* The state without the start and the envs: steps of those leave it alone.
Quiet == UNCHANGED <<registry, unsent, buffer, tornLine, logged>>
LEMMA QuietKeeps ==
  ASSUME SecretsInv, Quiet
  PROVE  /\ LongestFirst(registry)' /\ Known' = Known
         /\ unsent' \in Seq(Chars) /\ buffer' \in Seq(Chars) /\ tornLine' \in BOOLEAN
         /\ Holds(buffer \o unsent, Known, tornLine)'
         /\ NoPlainSecret'
<1>1. registry' = registry /\ unsent' = unsent /\ buffer' = buffer /\ tornLine' = tornLine /\ logged' = logged
  BY DEF Quiet
<1>2. Known' = Known
  BY <1>1 DEF Known
<1> QED BY <1>1, <1>2 DEF SecretsInv, SecretsTypes, NoPlainSecret

\* One lemma per action.
LEMMA SecretSetKeeps ==
  ASSUME SecretsInv, NEW r \in Refs, NEW v \in Values_, SecretSet(r, v)
  PROVE  SecretsInv'
<1>1. Quiet /\ UNCHANGED <<starting, procEnv, childEnv>> /\ source' = [source EXCEPT ![r] = v]
  BY DEF SecretSet, Quiet
<1>2. source' \in [Refs -> Values_ \cup {<<>>}]
  BY <1>1 DEF SecretsInv, SecretsTypes
<1> QED BY <1>1, <1>2, QuietKeeps DEF SecretsInv, SecretsTypes, Quiet

LEMMA StartReadsKeeps ==
  ASSUME SecretsInv, NEW file \in EnvFiles, NEW env \in Asked, StartReads(Merge(file, env))
  PROVE  SecretsInv'
<1>1. PICK e : e = Merge(file, env)
  OBVIOUS
<1>2. /\ Quiet /\ UNCHANGED <<source, procEnv, childEnv>> /\ childEnv = NoEnv
      /\ starting' = [NotStarting EXCEPT !.step = "resolve", !.env = e]
  BY <1>1 DEF StartReads, Quiet
<1>3. e \in Envs /\ \A k \in EnvKeys : Clean(e[k].text)
  <2>1. /\ file \in Envs /\ env \in Envs
        /\ \A k \in EnvKeys : Clean(file[k].text) /\ Clean(env[k].text)
    BY PlainEnvs
  <2>2. e = [k \in EnvKeys |-> IF env[k] # NoEntry THEN env[k] ELSE file[k]]
    BY <1>1 DEF Merge
  <2> QED BY <2>1, <2>2 DEF Envs
<1>4. PICK s : s = starting'
  OBVIOUS
<1>5. s = [step |-> "resolve", env |-> e, resolved |-> NoEnv, left |-> {}]
  BY <1>2, <1>4 DEF NotStarting
<1>6. s.step = "resolve" /\ s.env = e /\ s.resolved = NoEnv /\ s.left = {}
  BY <1>5
<1>7. s \in [step : {"none", "resolve", "register"}, env : Envs, resolved : Envs, left : SUBSET EnvKeys]
  BY <1>3, <1>5, PlainEnvs
<1>8. StartHeld(s, Known)
  BY <1>3, <1>6 DEF StartHeld
<1> QED BY <1>2, <1>4, <1>7, <1>8, QuietKeeps DEF SecretsInv, SecretsTypes, Quiet

LEMMA StartResolvesKeeps ==
  ASSUME SecretsInv, StartResolves
  PROVE  SecretsInv'
<1>1. /\ Quiet /\ UNCHANGED <<source, procEnv, childEnv>> /\ starting.step = "resolve"
      /\ childEnv = NoEnv
  BY DEF StartResolves, Quiet, SecretsInv
<1>2. CASE ResolveFails(starting.env)
  <2>1. starting' = NotStarting
    BY <1>2 DEF StartResolves
  <2> QED BY <1>1, <2>1, NothingHeld, QuietKeeps DEF SecretsInv, SecretsTypes, Quiet
<1>3. CASE ~ResolveFails(starting.env)
  <2>1. PICK e, q, l : /\ e = starting.env /\ q = ResolveEnvMap(starting.env)
                       /\ l = {k \in EnvKeys : IsRef(starting.env[k])}
    OBVIOUS
  <2>2. e \in Envs /\ \A k \in EnvKeys : Clean(e[k].text)
    BY <1>1, <2>1 DEF SecretsInv, SecretsTypes, StartHeld
  <2>3. q = [k \in EnvKeys |-> IF IsRef(e[k]) THEN TextOf(Resolve_(e[k].ref)) ELSE e[k]]
    BY <2>1 DEF ResolveEnvMap
  <2>4. ASSUME NEW k \in EnvKeys
        PROVE  q[k] \in EnvEntries /\ IF k \in l THEN q[k].text \in Values_ \cup {<<>>} ELSE Clean(q[k].text)
    <3>1. e[k] \in EnvEntries /\ (k \in l <=> IsRef(e[k]))
      BY <2>1, <2>2 DEF Envs
    <3>2. CASE IsRef(e[k])
      <4>1. PICK v : v = Resolve_(e[k].ref)
        OBVIOUS
      <4>2. e[k].ref \in Refs
        BY <3>1, <3>2 DEF EnvEntries, IsRef
      <4>3. v \in Values_ \cup {<<>>}
        BY <4>1, <4>2 DEF Resolve_, Missing_, SecretsInv, SecretsTypes
      <4>4. v \in Seq(Chars)
        BY <4>3, CharsAre, PlainEnvs
      <4>5. q[k] = TextOf(v)
        BY <2>3, <3>2, <4>1
      <4>6. q[k] = [ref |-> NoRef, text |-> v]
        BY <4>5 DEF TextOf, NoEntry
      <4> QED BY <3>1, <3>2, <4>3, <4>4, <4>6 DEF EnvEntries
    <3>3. CASE ~IsRef(e[k])
      BY <2>2, <2>3, <3>1, <3>3
    <3> QED BY <3>2, <3>3
  <2>5. q \in Envs
    BY <2>3, <2>4 DEF Envs
  <2>6. PICK s : s = starting'
    OBVIOUS
  <2>7. s = [step |-> "register", env |-> e, resolved |-> q, left |-> l]
    <3>1. s = [starting EXCEPT !.step = "register", !.resolved = q, !.left = l]
      BY <1>3, <2>1, <2>6 DEF StartResolves
    <3> QED BY <2>1, <3>1 DEF SecretsInv, SecretsTypes
  <2>8. s.step = "register" /\ s.resolved = q /\ s.left = l
    BY <2>7
  <2>9. s \in [step : {"none", "resolve", "register"}, env : Envs, resolved : Envs, left : SUBSET EnvKeys]
    BY <2>1, <2>2, <2>5, <2>7
  <2>10. StartHeld(s, Known)
    BY <2>4, <2>8 DEF StartHeld, TextHeld
  <2> QED BY <1>1, <2>6, <2>9, <2>10, QuietKeeps DEF SecretsInv, SecretsTypes, Quiet
<1> QED BY <1>2, <1>3

\* The registry grows, so what was known still is; a value that it does not take
\* cannot be masked.
LEMMA StartRegistersKeeps ==
  ASSUME SecretsInv, NEW k \in EnvKeys, StartRegisters(k)
  PROVE  SecretsInv'
<1>1. PICK v, s : v = starting.resolved[k].text /\ s = starting'
  OBVIOUS
<1>2. /\ starting.step = "register" /\ k \in starting.left /\ registry' = Register(registry, v)
      /\ UNCHANGED <<source, procEnv, childEnv, unsent, buffer, tornLine, logged>>
      /\ s = [starting EXCEPT !.left = @ \ {k}]
  BY <1>1 DEF StartRegisters
<1>3. v \in Values_ \cup {<<>>}
  BY <1>1, <1>2 DEF SecretsInv, StartHeld
<1>4. LongestFirst(registry') /\ ToSet(registry) \subseteq ToSet(registry') /\ (Len(v) >= MinLen => v \in ToSet(registry'))
  BY <1>2, <1>3, RegisterIs DEF SecretsInv
<1>5. PICK S, T : S = Known /\ T = Known'
  OBVIOUS
<1>6. S \subseteq T /\ T = Maskable \cap ToSet(registry')
  BY <1>4, <1>5 DEF Known
<1>7. TextHeld(v, T)
  <2>1. CASE v \in Maskable
    <3>1. Len(v) >= MinLen
      BY <2>1, CharsAre
    <3> QED BY <1>4, <1>6, <2>1, <3>1 DEF TextHeld
  <2>2. CASE v \in Values_ \ Maskable
    BY <2>2, SecretsAssumption DEF TextHeld, Clean
  <2>3. CASE v = <<>>
    BY <2>3, PlainEnvs DEF TextHeld
  <2> QED BY <1>3, <2>1, <2>2, <2>3
<1>8. s = [step |-> "register", env |-> starting.env, resolved |-> starting.resolved, left |-> starting.left \ {k}]
  BY <1>2 DEF SecretsInv, SecretsTypes
<1>9. /\ s.step = "register" /\ s.resolved = starting.resolved /\ s.left = starting.left \ {k}
      /\ s \in [step : {"none", "resolve", "register"}, env : Envs, resolved : Envs, left : SUBSET EnvKeys]
  BY <1>2, <1>8 DEF SecretsInv, SecretsTypes
<1>10. StartHeld(s, T)
  <2>1. StartHeld(starting, T)
    BY <1>5, <1>6, HeldMore DEF SecretsInv
  <2>2. ASSUME NEW j \in EnvKeys
        PROVE  IF j \in s.left THEN s.resolved[j].text \in Values_ \cup {<<>>} ELSE TextHeld(s.resolved[j].text, T)
    <3>1. CASE j = k
      BY <1>1, <1>7, <1>9, <3>1
    <3>2. CASE j # k
      BY <1>2, <1>9, <2>1, <3>2 DEF StartHeld
    <3> QED BY <3>1, <3>2
  <2> QED BY <1>9, <2>2 DEF StartHeld
<1>11. EnvHeld(procEnv, T) /\ EnvHeld(childEnv, T)
  BY <1>5, <1>6, HeldMore DEF SecretsInv
<1>12. Holds(buffer \o unsent, T, tornLine)
  BY <1>5, <1>6, HoldsMore DEF SecretsInv
<1>13. Holds(buffer \o unsent, Known, tornLine)'
  BY <1>2, <1>5, <1>12
<1>14. SecretsTypes'
  BY <1>1, <1>2, <1>9 DEF SecretsInv, SecretsTypes
<1>15. StartHeld(starting, Known)' /\ EnvHeld(procEnv, Known)' /\ EnvHeld(childEnv, Known)'
  BY <1>1, <1>2, <1>5, <1>10, <1>11
<1>16. NoPlainSecret'
  BY <1>2 DEF SecretsInv, NoPlainSecret
<1>17. (childEnv = NoEnv => buffer = <<>> /\ unsent = <<>>)' /\ (starting.step # "none" => childEnv = NoEnv)'
  BY <1>2 DEF SecretsInv
<1>18. LongestFirst(registry)'
  BY <1>4
<1> QED BY <1>13, <1>14, <1>15, <1>16, <1>17, <1>18, Zenon DEF SecretsInv

LEMMA StartLaunchesKeeps ==
  ASSUME SecretsInv, StartLaunches
  PROVE  SecretsInv'
<1>1. /\ starting.step = "register" /\ starting.left = {}
      /\ childEnv' = starting.resolved /\ procEnv' = starting.resolved /\ starting' = NotStarting
      /\ tornLine' = FALSE /\ logged' = <<>> /\ UNCHANGED <<source, registry, unsent, buffer>>
  BY DEF StartLaunches
<1>2. buffer' = <<>> /\ unsent' = <<>>
  BY <1>1 DEF SecretsInv
<1>3. Known' = Known /\ LongestFirst(registry)'
  BY <1>1 DEF Known, SecretsInv
<1>4. EnvHeld(starting.resolved, Known) /\ starting.resolved \in Envs
  BY <1>1 DEF SecretsInv, SecretsTypes, StartHeld, EnvHeld
<1>5. NoPlainSecret'
  BY <1>1 DEF NoPlainSecret
<1>6. Holds(buffer \o unsent, Known, tornLine)'
  BY <1>2, EmptyHolds
<1>7. SecretsTypes'
  BY <1>1, <1>2, <1>4, NothingHeld, PlainEnvs DEF SecretsInv, SecretsTypes
<1> QED BY <1>1, <1>2, <1>3, <1>4, <1>5, <1>6, <1>7, NothingHeld DEF SecretsInv

LEMMA UpdateEnvKeeps ==
  ASSUME SecretsInv, NEW env \in Asked, UpdateEnv(env)
  PROVE  SecretsInv'
<1>1. Quiet /\ UNCHANGED <<source, starting, childEnv>> /\ procEnv' = env
  BY DEF UpdateEnv, Quiet
<1>2. env \in Envs /\ EnvHeld(env, Known)
  BY PlainEnvs DEF EnvHeld, TextHeld
<1> QED BY <1>1, <1>2, QuietKeeps DEF SecretsInv, SecretsTypes, Quiet

LEMMA ChildEndsKeeps ==
  ASSUME Apart, SecretsInv, ChildEnds
  PROVE  SecretsInv'
<1>1. /\ childEnv' = NoEnv /\ unsent' = <<>> /\ buffer' = <<>>
      /\ logged' = IF buffer = <<>> THEN <<>> ELSE <<Chunk(buffer, tornLine \/ unsent # <<>>)>>
      /\ UNCHANGED <<source, registry, starting, procEnv, tornLine>>
  BY DEF ChildEnds
<1>2. Known' = Known /\ LongestFirst(registry)'
  BY <1>1 DEF Known, SecretsInv
<1>3. Holds(buffer \o unsent, Known, tornLine)'
  BY <1>1, EmptyHolds
<1>4. NoPlainSecret'
  <2>1. CASE buffer = <<>>
    BY <1>1, <2>1 DEF NoPlainSecret
  <2>2. CASE buffer # <<>> /\ tornLine = FALSE /\ unsent = <<>>
    <3>1. buffer \o unsent = buffer
      BY <2>2 DEF SecretsInv, SecretsTypes
    <3>2. Holds(buffer, Known, FALSE)
      BY <2>2, <3>1 DEF SecretsInv
    <3>3. Clean(RedactLine(buffer))
      BY <3>2, RedactIs DEF SecretsInv
    <3>4. PICK x, y : x = RedactLine(buffer) /\ y = (tornLine \/ unsent # <<>>)
      OBVIOUS
    <3>5. logged' = <<[text |-> x, torn |-> y]>>
      BY <1>1, <2>2, <3>4 DEF Chunk
    <3> QED BY <3>3, <3>4, <3>5 DEF NoPlainSecret, Clean
  <2>3. CASE buffer # <<>> /\ ~(tornLine = FALSE /\ unsent = <<>>)
    <3>1. tornLine \/ unsent # <<>>
      BY <2>3 DEF SecretsInv, SecretsTypes
    <3>2. PICK x : x = RedactLine(buffer)
      OBVIOUS
    <3>3. Chunk(buffer, tornLine \/ unsent # <<>>) = [text |-> x, torn |-> TRUE]
      BY <3>1, <3>2 DEF Chunk
    <3>4. logged' = <<[text |-> x, torn |-> TRUE]>>
      BY <1>1, <2>3, <3>3
    <3> QED BY <3>4 DEF NoPlainSecret
  <2> QED BY <2>1, <2>2, <2>3
<1>5. SecretsTypes'
  BY <1>1, PlainEnvs DEF SecretsInv, SecretsTypes
<1> QED BY <1>1, <1>2, <1>3, <1>4, <1>5, NothingHeld DEF SecretsInv

LEMMA RestartChildKeeps ==
  ASSUME SecretsInv, RestartChild
  PROVE  SecretsInv'
<1>1. /\ childEnv = NoEnv /\ procEnv # NoEnv /\ starting = NotStarting
      /\ childEnv' = procEnv /\ tornLine' = FALSE /\ logged' = <<>>
      /\ UNCHANGED <<source, registry, starting, procEnv, unsent, buffer>>
  BY DEF RestartChild
<1>2. buffer' = <<>> /\ unsent' = <<>>
  BY <1>1 DEF SecretsInv
<1>3. Known' = Known /\ LongestFirst(registry)'
  BY <1>1 DEF Known, SecretsInv
<1>4. Holds(buffer \o unsent, Known, tornLine)'
  BY <1>2, EmptyHolds
<1>5. NoPlainSecret'
  BY <1>1 DEF NoPlainSecret
<1>6. SecretsTypes'
  BY <1>1 DEF SecretsInv, SecretsTypes
<1> QED BY <1>1, <1>2, <1>3, <1>4, <1>5, <1>6, NothingHeld DEF SecretsInv

LEMMA DaemonRestartsKeeps ==
  ASSUME SecretsInv, DaemonRestarts
  PROVE  SecretsInv'
<1>1. /\ registry' = <<>> /\ procEnv' = NoEnv /\ childEnv' = NoEnv /\ starting' = NotStarting
      /\ unsent' = <<>> /\ buffer' = <<>> /\ logged' = <<>> /\ tornLine' = FALSE /\ source' = source
  BY DEF DaemonRestarts
<1>2. LongestFirst(<<>>)
  BY DEF LongestFirst
<1>3. Holds(buffer \o unsent, Known, tornLine)'
  BY <1>1, EmptyHolds
<1>4. NoPlainSecret'
  BY <1>1 DEF NoPlainSecret
<1>5. SecretsTypes'
  BY <1>1, NothingHeld, PlainEnvs DEF SecretsInv, SecretsTypes
<1>6. LongestFirst(registry)'
  BY <1>1, <1>2
<1>7. StartHeld(starting, Known)' /\ EnvHeld(procEnv, Known)' /\ EnvHeld(childEnv, Known)'
  BY <1>1, NothingHeld
<1>8. starting'.step = "none"
  BY <1>1, NothingHeld
<1> QED BY <1>1, <1>3, <1>4, <1>5, <1>6, <1>7, <1>8 DEF SecretsInv

LEMMA PrintsKeeps ==
  ASSUME SecretsInv, NEW ks \in SetToSeqs(EnvKeys) \cup {<<k>> : k \in EnvKeys},
         NEW end \in {<<>>, <<NL>>}, Prints(ks, end)
  PROVE  SecretsInv'
<1>1. /\ unsent = <<>> /\ unsent' = Message(ks, end)
      /\ UNCHANGED <<source, registry, starting, procEnv, childEnv, buffer, tornLine, logged>>
      /\ childEnv # NoEnv
  BY DEF Prints
<1>2. Len(ks) \in Nat /\ \A n \in 1..Len(ks) : ks[n] \in EnvKeys
  <2>1. CASE ks \in SetToSeqs(EnvKeys)
    <3>1. PICK c : c = Cardinality(EnvKeys)
      OBVIOUS
    <3>2. c \in Nat
      BY <3>1, SecretsAssumption, FS_CardinalityType
    <3>3. ks \in [1..c -> EnvKeys]
      BY <2>1, <3>1 DEF SetToSeqs
    <3>4. Len(ks) = c
      BY <3>2, <3>3
    <3> QED BY <3>2, <3>3, <3>4
  <2>2. CASE ks \in {<<k>> : k \in EnvKeys}
    BY <2>2
  <2> QED BY <2>1, <2>2
<1>3. PICK S, m : S = Known /\ m = Message(ks, end)
  OBVIOUS
<1>4. S \in SUBSET Maskable
  BY <1>3 DEF Known
<1>5. ASSUME NEW k \in EnvKeys PROVE Holds(Shown_(childEnv[k]), S, FALSE)
  <2>1. PICK e : e = childEnv[k]
    OBVIOUS
  <2>2. e.text \in Seq(Chars) /\ TextHeld(e.text, S)
    BY <1>3, <2>1 DEF SecretsInv, SecretsTypes, Envs, EnvEntries, EnvHeld
  <2>3. CASE IsRef(e)
    <3>1. PICK c : c = Plain("secret://")
      OBVIOUS
    <3>2. c \in Chars /\ c \notin SecretChars
      BY <3>1, CharsAre
    <3>3. <<c>> \in Seq(Chars) /\ ToSet(<<c>>) = {c}
      BY <3>2 DEF ToSet
    <3>4. Clean(<<c>>)
      BY <3>2, <3>3 DEF Clean
    <3>5. Shown_(e) = <<c>>
      BY <2>3, <3>1 DEF Shown_
    <3> QED BY <2>1, <3>3, <3>4, <3>5, PlainHolds
  <2>4. CASE ~IsRef(e)
    <3>1. Shown_(e) = e.text
      BY <2>4 DEF Shown_
    <3>2. Holds(e.text, S, FALSE)
      BY <1>4, <2>2, PlainHolds, ValueHolds DEF TextHeld
    <3> QED BY <2>1, <3>1, <3>2
  <2> QED BY <2>3, <2>4
<1>6. Holds(m, S, FALSE)
  BY <1>2, <1>3, <1>4, <1>5, MessageIs
<1>7. buffer \o unsent = buffer
  BY <1>1 DEF SecretsInv, SecretsTypes
<1>8. Holds(buffer, S, tornLine)
  BY <1>3, <1>7 DEF SecretsInv
<1>9. Holds(buffer \o m, S, tornLine)
  BY <1>4, <1>6, <1>8, JoinHolds
<1>10. Known' = S
  BY <1>1, <1>3 DEF Known
<1>11. Holds(buffer \o unsent, Known, tornLine)'
  BY <1>1, <1>3, <1>9, <1>10
<1>12. unsent' \in Seq(Chars)
  BY <1>1, <1>3, <1>6 DEF Holds
<1>13. SecretsTypes'
  BY <1>1, <1>12 DEF SecretsInv, SecretsTypes
<1>14. NoPlainSecret' /\ LongestFirst(registry)'
  BY <1>1 DEF SecretsInv, NoPlainSecret
<1>15. StartHeld(starting, Known)' /\ EnvHeld(procEnv, Known)' /\ EnvHeld(childEnv, Known)'
  BY <1>1, <1>3, <1>10 DEF SecretsInv
<1>16. (childEnv = NoEnv => buffer = <<>> /\ unsent = <<>>)' /\ (starting.step # "none" => childEnv = NoEnv)'
  BY <1>1 DEF SecretsInv
<1> QED BY <1>11, <1>13, <1>14, <1>15, <1>16, Zenon DEF SecretsInv

\* A part of some output that ends in it is the same part of the whole.
PartOf(data, line, rest, N, a, u, n) ==
  /\ data \in Seq(Chars) /\ line \in Seq(Chars) /\ N = Len(a) + n
  /\ Len(line) = Len(a) + Len(u)
  /\ \A i \in 1..N : line[i] = data[i]
  /\ \A b \in 1..N + 1, e \in 0..N : b - 1 <= e => SubSeq(data, b, e) = SubSeq(line, b, e)
  /\ \A b \in 1..N + 1 : SubSeq(data, b, N) \o rest = SubSeq(line, b, Len(line))
LEMMA PartsOf ==
  ASSUME NEW a \in Seq(Chars), NEW u \in Seq(Chars), NEW n \in 1..Len(u),
         NEW data, data = a \o SubSeq(u, 1, n), NEW line, line = a \o u,
         NEW rest, rest = SubSeq(u, n + 1, Len(u)), NEW N, N = Len(data)
  PROVE  PartOf(data, line, rest, N, a, u, n)
<1>1. PICK p : p = SubSeq(u, 1, n)
  OBVIOUS
<1>2. PICK A, U : A = Len(a) /\ U = Len(u)
  OBVIOUS
<1>3. A \in Nat /\ U \in Nat /\ n \in 1..U
  BY <1>2
<1>4. p \in Seq(Chars) /\ Len(p) = n /\ \A i \in 1..n : p[i] = u[i]
  BY <1>1, <1>2, <1>3
<1>5. rest \in Seq(Chars) /\ Len(rest) = U - n /\ \A i \in 1..U - n : rest[i] = u[n + i]
  <2>1. n + 1 \in 1..Len(u) + 1 /\ Len(u) \in 0..Len(u) /\ (n + 1) - 1 <= Len(u)
    BY <1>2, <1>3
  <2>2. /\ rest \in Seq(Chars) /\ Len(rest) = Len(u) + 1 - (n + 1)
        /\ \A i \in 1..Len(u) + 1 - (n + 1) : rest[i] = u[(n + 1) + i - 1]
    BY <2>1, PieceIs
  <2>3. Len(u) + 1 - (n + 1) = U - n /\ \A i \in 1..U - n : (n + 1) + i - 1 = n + i
    BY <1>2, <1>3
  <2> QED BY <2>2, <2>3
<1>6. /\ data \in Seq(Chars) /\ Len(data) = A + n
      /\ \A i \in 1..A + n : data[i] = IF i <= A THEN a[i] ELSE p[i - A]
  BY <1>1, <1>2, <1>3, <1>4
<1>7. /\ line \in Seq(Chars) /\ Len(line) = A + U
      /\ \A i \in 1..A + U : line[i] = IF i <= A THEN a[i] ELSE u[i - A]
  BY <1>1, <1>2, <1>3
<1>8. ASSUME NEW i \in 1..A + n PROVE line[i] = data[i]
  <2>1. i \in 1..A + U /\ (~(i <= A) => i - A \in 1..n)
    BY <1>3
  <2> QED BY <1>4, <1>6, <1>7, <2>1
<1>9. ASSUME NEW b \in 1..A + n + 1, NEW e \in 0..A + n, b - 1 <= e PROVE SubSeq(data, b, e) = SubSeq(line, b, e)
  <2>1. PICK s, t, z : s = SubSeq(data, b, e) /\ t = SubSeq(line, b, e) /\ z = e + 1 - b
    OBVIOUS
  <2>2. z \in Nat /\ b + z - 1 = e /\ e <= A + n /\ e <= A + U /\ b >= 1
    BY <1>3, <1>9, <2>1
  <2>3. s \in Seq(Chars) /\ Len(s) = z /\ \A i \in 1..z : s[i] = data[b + i - 1]
    <3>1. data \in Seq(Chars) /\ b \in 1..Len(data) + 1 /\ e \in 0..Len(data) /\ b - 1 <= e
      BY <1>6, <1>9
    <3>2. s \in Seq(Chars) /\ Len(s) = e + 1 - b /\ \A i \in 1..e + 1 - b : s[i] = data[b + i - 1]
      BY <2>1, <3>1, PieceIs
    <3> QED BY <2>1, <3>2
  <2>4. t \in Seq(Chars) /\ Len(t) = z /\ \A i \in 1..z : t[i] = line[b + i - 1]
    <3>1. line \in Seq(Chars) /\ b \in 1..Len(line) + 1 /\ e \in 0..Len(line) /\ b - 1 <= e
      BY <1>3, <1>7, <1>9
    <3>2. t \in Seq(Chars) /\ Len(t) = e + 1 - b /\ \A i \in 1..e + 1 - b : t[i] = line[b + i - 1]
      BY <2>1, <3>1, PieceIs
    <3> QED BY <2>1, <3>2
  <2>5. ASSUME NEW i \in 1..z PROVE s[i] = t[i]
    <3>1. b + i - 1 \in 1..A + n
      BY <1>3, <2>2
    <3> QED BY <1>8, <2>3, <2>4, <3>1
  <2>6. s = [i \in 1..z |-> s[i]] /\ t = [i \in 1..z |-> t[i]]
    BY <2>3, <2>4
  <2>7. s = t
    <3>1. [i \in 1..z |-> s[i]] = [i \in 1..z |-> t[i]]
      BY <2>5
    <3> QED BY <2>6, <3>1, Zenon
  <2> QED BY <2>1, <2>7
<1>10. ASSUME NEW b \in 1..A + n + 1 PROVE SubSeq(data, b, A + n) \o rest = SubSeq(line, b, A + U)
  <2>1. PICK s, t, r, z, y : /\ s = SubSeq(data, b, A + n) /\ t = SubSeq(line, b, A + U) /\ r = s \o rest
                             /\ z = A + n + 1 - b /\ y = A + U + 1 - b
    OBVIOUS
  <2>2. z \in Nat /\ y \in Nat /\ b + z - 1 = A + n /\ b + y - 1 = A + U /\ y = z + (U - n) /\ z <= y /\ b >= 1
    BY <1>3, <2>1
  <2>9. PICK e, f, w : e = A + n /\ f = A + U /\ w = U - n
    OBVIOUS
  <2>10. /\ e \in Nat /\ f \in Nat /\ w \in Nat /\ b \in Nat /\ b + z - 1 = e /\ b + y - 1 = f /\ y = z + w
         /\ z = e + 1 - b /\ y = f + 1 - b /\ b >= 1 /\ b <= e + 1 /\ b <= f + 1
    BY <1>3, <2>1, <2>2, <2>9
  <2>3. s \in Seq(Chars) /\ Len(s) = z /\ \A i \in 1..z : s[i] = data[b + i - 1]
    <3>1. s = SubSeq(data, b, e) /\ data \in Seq(Chars) /\ Len(data) = e
      BY <1>6, <2>1, <2>9
    <3>2. b \in 1..Len(data) + 1 /\ e \in 0..Len(data) /\ b - 1 <= e
      BY <2>10, <3>1
    <3>4. s = SubSeq(data, b, e) /\ data \in Seq(Chars)
      BY <3>1
    <3>3. s \in Seq(Chars) /\ Len(s) = e + 1 - b /\ \A i \in 1..e + 1 - b : s[i] = data[b + i - 1]
      BY <3>2, <3>4, PieceIs
    <3> QED BY <2>10, <3>3
  <2>4. t \in Seq(Chars) /\ Len(t) = y /\ \A i \in 1..y : t[i] = line[b + i - 1]
    <3>1. t = SubSeq(line, b, f) /\ line \in Seq(Chars) /\ Len(line) = f
      BY <1>7, <2>1, <2>9
    <3>2. b \in 1..Len(line) + 1 /\ f \in 0..Len(line) /\ b - 1 <= f
      BY <2>10, <3>1
    <3>4. t = SubSeq(line, b, f) /\ line \in Seq(Chars)
      BY <3>1
    <3>3. t \in Seq(Chars) /\ Len(t) = f + 1 - b /\ \A i \in 1..f + 1 - b : t[i] = line[b + i - 1]
      BY <3>2, <3>4, PieceIs
    <3> QED BY <2>10, <3>3
  <2>5. r \in Seq(Chars) /\ Len(r) = y /\ \A i \in 1..y : r[i] = IF i <= z THEN s[i] ELSE rest[i - z]
    <3>1. r = s \o rest /\ rest \in Seq(Chars) /\ Len(rest) = w
      BY <1>5, <2>1, <2>9
    <3>2. y = z + Len(rest)
      BY <2>10, <3>1
    <3>3. s \in Seq(Chars) /\ rest \in Seq(Chars) /\ z = Len(s)
      BY <2>3, <3>1
    <3>6. r = s \o rest /\ s \in Seq(Chars) /\ rest \in Seq(Chars)
      BY <3>1, <3>3, Zenon
    <3>4. r \in Seq(Chars) /\ Len(r) = Len(s) + Len(rest)
      BY <3>6
    <3>5. ASSUME NEW i \in 1..y PROVE r[i] = IF i <= z THEN s[i] ELSE rest[i - z]
      <4>1. i \in 1..Len(s) + Len(rest)
        BY <3>2, <3>3
      <4>2. r[i] = IF i <= Len(s) THEN s[i] ELSE rest[i - Len(s)]
        BY <3>6, <4>1
      <4> QED BY <3>3, <4>2
    <3> QED BY <3>2, <3>3, <3>4, <3>5
  <2>6. ASSUME NEW i \in 1..y PROVE r[i] = t[i]
    <3>1. CASE i <= z
      <4>1. i \in 1..z /\ b + i - 1 \in 1..A + n
        BY <1>3, <2>2, <3>1
      <4> QED BY <1>8, <2>3, <2>4, <2>5, <3>1, <4>1
    <3>2. CASE ~(i <= z)
      <4>1. PICK j : j = i - z
        OBVIOUS
      <4>2. j \in 1..U - n /\ b + i - 1 = A + (n + j) /\ b + i - 1 \in 1..A + U /\ ~(b + i - 1 <= A) /\ (b + i - 1) - A = n + j
        BY <1>3, <2>2, <3>2, <4>1
      <4>3. r[i] = u[n + j]
        BY <1>5, <2>5, <3>2, <4>1, <4>2
      <4>4. line[b + i - 1] = u[n + j]
        BY <1>7, <4>2
      <4> QED BY <2>4, <4>3, <4>4
    <3> QED BY <3>1, <3>2
  <2>7. r = [i \in 1..y |-> r[i]] /\ t = [i \in 1..y |-> t[i]]
    BY <2>4, <2>5
  <2>8. r = t
    <3>1. [i \in 1..y |-> r[i]] = [i \in 1..y |-> t[i]]
      BY <2>6
    <3> QED BY <2>7, <3>1, Zenon
  <2> QED BY <2>1, <2>8
<1>11. N = A + n /\ Len(line) = A + U
  BY <1>6, <1>7
<1>12. ASSUME NEW b \in 1..N + 1, NEW e \in 0..N, b - 1 <= e PROVE SubSeq(data, b, e) = SubSeq(line, b, e)
  BY <1>9, <1>11, <1>12
<1>13. ASSUME NEW b \in 1..N + 1 PROVE SubSeq(data, b, N) \o rest = SubSeq(line, b, Len(line))
  BY <1>10, <1>11
<1> QED BY <1>2, <1>6, <1>7, <1>8, <1>11, <1>12, <1>13 DEF PartOf

\* The lines cut from what was buffered and what came are parts of the covered text
\* between two newlines, and so is what is buffered again.
LEMMA ChildWritesKeeps ==
  ASSUME Apart, SecretsInv, NEW n \in 1..Len(unsent), ChildWrites(n)
  PROVE  SecretsInv'
<1>a. PICK data, line, q, S : /\ data = buffer \o SubSeq(unsent, 1, n) /\ line = buffer \o unsent
                              /\ q = SubSeq(unsent, n + 1, Len(unsent)) /\ S = Known
  OBVIOUS
<1>b. PICK c, N : c = Cut_(data) /\ N = Len(data)
  OBVIOUS
<1>c. PICK over : over = (Len(c.rest) > MaxPartial)
  OBVIOUS
<1>d. PICK x : x = IF over THEN Append(c.lines, c.rest) ELSE c.lines
  OBVIOUS
<1>1. /\ data = buffer \o SubSeq(unsent, 1, n) /\ line = buffer \o unsent /\ c = Cut_(data)
      /\ over = (Len(c.rest) > MaxPartial) /\ x = (IF over THEN Append(c.lines, c.rest) ELSE c.lines)
      /\ S = Known /\ N = Len(data) /\ q = SubSeq(unsent, n + 1, Len(unsent))
  BY <1>a, <1>b, <1>c, <1>d
<1>2. /\ unsent' = q /\ buffer' = (IF over THEN <<>> ELSE c.rest)
      /\ logged' = [m \in DOMAIN x |-> Chunk(x[m], (m = 1 /\ tornLine) \/ (m = Len(x) /\ over))]
      /\ tornLine' = (over \/ (tornLine /\ ~(NL \in ToSet(SubSeq(unsent, 1, n)))))
      /\ UNCHANGED <<source, registry, starting, procEnv, childEnv>>
  BY <1>1 DEF ChildWrites, PipeWrite
<1>3. buffer \in Seq(Chars) /\ unsent \in Seq(Chars) /\ tornLine \in BOOLEAN /\ over \in BOOLEAN
  BY <1>1 DEF SecretsInv, SecretsTypes
<1>4. /\ data \in Seq(Chars) /\ line \in Seq(Chars) /\ N = Len(buffer) + n /\ N \in Nat
      /\ Len(line) = Len(buffer) + Len(unsent) /\ N <= Len(line) /\ N >= 1
      /\ \A i \in 1..N : line[i] = data[i]
      /\ \A b \in 1..N + 1, e \in 0..N : b - 1 <= e => SubSeq(data, b, e) = SubSeq(line, b, e)
      /\ \A b \in 1..N + 1 : SubSeq(data, b, N) \o q = SubSeq(line, b, Len(line))
  <2>3. PartOf(data, line, q, N, buffer, unsent, n)
    BY <1>a, <1>b, <1>3, PartsOf
  <2>1. /\ data \in Seq(Chars) /\ line \in Seq(Chars) /\ N = Len(buffer) + n
        /\ Len(line) = Len(buffer) + Len(unsent)
        /\ \A i \in 1..N : line[i] = data[i]
        /\ \A b \in 1..N + 1, e \in 0..N : b - 1 <= e => SubSeq(data, b, e) = SubSeq(line, b, e)
        /\ \A b \in 1..N + 1 : SubSeq(data, b, N) \o q = SubSeq(line, b, Len(line))
    BY <2>3 DEF PartOf
  <2>2. N \in Nat /\ N <= Len(line) /\ N >= 1
    BY <1>3, <2>1
  <2> QED BY <2>1, <2>2
<1>5. IsCut(c, data, N)
  BY <1>1, <1>4, CutIs
<1>6. Holds(line, S, tornLine) /\ S \in SUBSET Maskable
  BY <1>1 DEF SecretsInv, Known
<1>7. Known' = S /\ LongestFirst(registry)'
  BY <1>1, <1>2 DEF Known, SecretsInv
<1>8. ASSUME NEW m \in 1..Len(c.lines), ~(m = 1 /\ tornLine) PROVE Clean(RedactLine(c.lines[m]))
  <2>1. LineAt(c.lines[m], m = 1, data, N)
    BY <1>5 DEF IsCut
  <2>2. PICK b \in 1..N, e \in 0..N - 1 :
          /\ b - 1 <= e /\ data[e + 1] = NL /\ c.lines[m] = SubSeq(data, b, e)
          /\ (b = 1 /\ m = 1) \/ (b > 1 /\ data[b - 1] = NL)
    BY <2>1 DEF LineAt
  <2>3. /\ b \in 1..N + 1 /\ e \in 0..N /\ e + 1 \in 1..N /\ (b > 1 => b - 1 \in 1..N)
        /\ b \in 1..Len(line) + 1 /\ e \in b - 1..Len(line)
    BY <1>4, <2>2
  <2>4. c.lines[m] = SubSeq(line, b, e) /\ line[e + 1] = NL
    BY <1>4, <2>2, <2>3
  <2>5. (b = 1 /\ ~tornLine) \/ (b > 1 /\ line[b - 1] = NL)
    BY <1>4, <1>8, <2>2, <2>3
  <2>6. Holds(SubSeq(line, b, e), S, FALSE)
    <3>1. PICK f : f = FALSE /\ f \in BOOLEAN
      OBVIOUS
    <3>2. f \/ (b = 1 /\ ~tornLine) \/ (b > 1 /\ line[b - 1] = NL)
      BY <2>5
    <3>3. Holds(SubSeq(line, b, e), S, f)
      BY <1>6, <2>3, <2>4, <3>1, <3>2, PartHolds
    <3> QED BY <3>1, <3>3
  <2>7. Holds(c.lines[m], Known, FALSE)
    BY <1>1, <2>4, <2>6
  <2> QED BY <2>7, RedactIs DEF SecretsInv
<1>9. c.lines \in Seq(Seq(Chars)) /\ c.rest \in Seq(Chars)
  BY <1>5 DEF IsCut
<1>10. NoPlainSecret'
  <2>1. ASSUME NEW m \in DOMAIN logged', ~logged'[m].torn
        PROVE  ToSet(logged'[m].text) \cap SecretChars = {}
    <3>1. PICK t, l : t = ((m = 1 /\ tornLine) \/ (m = Len(x) /\ over)) /\ l = RedactLine(x[m])
      OBVIOUS
    <3>2. m \in DOMAIN x /\ logged'[m] = [text |-> l, torn |-> t]
      BY <1>2, <2>1, <3>1 DEF Chunk
    <3>3. logged'[m].text = l /\ ~t
      BY <2>1, <3>2
    <3>4. m \in 1..Len(c.lines) /\ x[m] = c.lines[m]
      <4>1. CASE over
        <5>1. x = Append(c.lines, c.rest) /\ m # Len(x)
          BY <1>1, <3>1, <3>3, <4>1
        <5>2. x \in Seq(Seq(Chars)) /\ Len(x) = Len(c.lines) + 1 /\ \A i \in 1..Len(c.lines) : x[i] = c.lines[i]
          BY <1>9, <5>1
        <5> QED BY <1>9, <3>2, <5>1, <5>2
      <4>2. CASE ~over
        BY <1>1, <1>9, <3>2, <4>2
      <4> QED BY <4>1, <4>2
    <3>5. Clean(RedactLine(c.lines[m]))
      BY <1>8, <3>1, <3>3, <3>4
    <3>6. Clean(l)
      BY <3>1, <3>4, <3>5
    <3> QED BY <3>3, <3>6 DEF Clean
  <2> QED BY <2>1 DEF NoPlainSecret
<1>11. buffer' \in Seq(Chars) /\ unsent' \in Seq(Chars) /\ tornLine' \in BOOLEAN /\ q \in Seq(Chars)
  <2>1. q \in Seq(Chars)
    BY <1>1, <1>3
  <2>2. buffer' \in Seq(Chars)
    BY <1>2, <1>9
  <2>3. tornLine' \in BOOLEAN
    BY <1>2, <1>3
  <2> QED BY <1>2, <2>1, <2>2, <2>3
<1>12. Holds(buffer' \o unsent', S, tornLine')
  <2>1. PICK t2, z, L : t2 = tornLine' /\ z = buffer' \o unsent' /\ L = Len(line)
    OBVIOUS
  <2>2. L \in Nat /\ L \in L..L /\ N <= L
    BY <1>4, <2>1
  <2>3. CASE over
    <3>1. t2 = TRUE /\ z = <<>> \o q
      BY <1>2, <2>1, <2>3
    <3>2. N + 1 \in 1..N + 1 /\ N + 1 \in 1..L + 1 /\ L \in (N + 1) - 1..L
      BY <1>4, <2>2
    <3>3. SubSeq(data, N + 1, N) = <<>>
      BY <1>4
    <3>4. z = SubSeq(line, N + 1, L)
      BY <1>4, <2>1, <3>1, <3>2, <3>3
    <3>5. Holds(SubSeq(line, N + 1, L), S, TRUE)
      BY <1>6, <2>1, <3>2, PartHolds
    <3> QED BY <2>1, <3>1, <3>4, <3>5
  <2>4. CASE ~over
    <3>1. PICK r \in 1..N + 1 :
            /\ c.rest = SubSeq(data, r, N) /\ \A j \in r..N : data[j] # NL
            /\ (r = 1 /\ c.lines = <<>>) \/ (r > 1 /\ data[r - 1] = NL)
      BY <1>5 DEF IsCut, RestAt
    <3>2. z = SubSeq(line, r, L)
      BY <1>2, <1>4, <2>1, <2>4, <3>1
    <3>3. r \in 1..L + 1 /\ L \in r - 1..L /\ (r > 1 => r - 1 \in 1..N)
      BY <1>4, <2>2
    <3>4. t2 = (tornLine /\ ~(NL \in ToSet(SubSeq(unsent, 1, n)))) /\ t2 \in BOOLEAN
      BY <1>2, <1>3, <2>1, <2>4
    <3>5. ASSUME r = 1 PROVE t2 = tornLine
      <4>1. PICK p : p = SubSeq(unsent, 1, n)
        OBVIOUS
      <4>2. p \in Seq(Chars) /\ Len(p) = n /\ DOMAIN p = 1..n
        BY <1>3, <4>1
      <4>3. ASSUME NEW i \in 1..n PROVE p[i] # NL
        <5>1. Len(buffer) + i \in 1..N /\ Len(buffer) + i \in 1..Len(buffer) + Len(p)
          BY <1>3, <1>4, <4>2
        <5>2. data[Len(buffer) + i] = p[i]
          <6>1. data = buffer \o p
            BY <1>1, <4>1
          <6> QED BY <1>3, <4>2, <5>1, <6>1
        <5>3. Len(buffer) + i \in r..N
          BY <3>5, <5>1
        <5> QED BY <3>1, <5>2, <5>3
      <4>4. NL \notin ToSet(p)
        BY <4>2, <4>3 DEF ToSet
      <4> QED BY <1>3, <3>4, <4>1, <4>4
    <3>6. CASE r = 1 /\ t2 = TRUE
      BY <1>6, <2>1, <3>2, <3>3, <3>6, PartHolds
    <3>7. CASE r = 1 /\ t2 = FALSE
      <4>1. ~tornLine
        BY <3>5, <3>7
      <4>3. t2 \/ (r = 1 /\ ~tornLine) \/ (r > 1 /\ line[r - 1] = NL)
        BY <3>7, <4>1
      <4>4. t2 \in BOOLEAN /\ L = Len(line)
        BY <2>1, <3>7
      <4>2. Holds(SubSeq(line, r, L), S, t2)
        BY <1>6, <3>3, <4>3, <4>4, PartHolds
      <4> QED BY <2>1, <3>2, <4>2
    <3>8. CASE r > 1
      <4>2. PICK j : j = r - 1
        OBVIOUS
      <4>3. j \in 1..N /\ data[j] = NL
        BY <3>1, <3>3, <3>8, <4>2
      <4>4. line[j] = NL
        BY <1>4, <4>3
      <4>1. line[r - 1] = NL
        BY <4>2, <4>4
      <4> QED BY <1>6, <2>1, <3>2, <3>3, <3>4, <3>8, <4>1, PartHolds
    <3>9. r = 1 \/ r > 1
      BY <1>4
    <3> QED BY <3>4, <3>6, <3>7, <3>8, <3>9
  <2> QED BY <1>3, <2>3, <2>4
<1>13. Holds(buffer \o unsent, Known, tornLine)'
  BY <1>7, <1>12
<1>14. SecretsTypes'
  BY <1>2, <1>11 DEF SecretsInv, SecretsTypes
<1>15. StartHeld(starting, Known)' /\ EnvHeld(procEnv, Known)' /\ EnvHeld(childEnv, Known)'
  BY <1>1, <1>2, <1>7 DEF SecretsInv
<1>16. (childEnv = NoEnv => buffer = <<>> /\ unsent = <<>>)'
  <2>1. childEnv # NoEnv
    <3>1. Len(unsent) # 0
      BY <1>3
    <3>2. unsent # <<>>
      BY <3>1
    <3> QED BY <3>2 DEF SecretsInv
  <2> QED BY <1>2, <2>1
<1>17. (starting.step # "none" => childEnv = NoEnv)'
  BY <1>2 DEF SecretsInv
<1> QED BY <1>7, <1>10, <1>13, <1>14, <1>15, <1>16, <1>17, Zenon DEF SecretsInv

LEMMA SecretsStart == SecretsInit => SecretsInv
<1> SUFFICES ASSUME SecretsInit PROVE SecretsInv
  OBVIOUS
<1>1. /\ source \in [Refs -> Values_ \cup {<<>>}] /\ registry = <<>> /\ starting = NotStarting
      /\ procEnv = NoEnv /\ childEnv = NoEnv /\ unsent = <<>> /\ buffer = <<>> /\ tornLine = FALSE
      /\ logged = <<>>
  BY DEF SecretsInit, Missing_
<1>2. LongestFirst(registry)
  BY <1>1 DEF LongestFirst
<1>3. Holds(buffer \o unsent, Known, tornLine)
  BY <1>1, EmptyHolds
<1>4. SecretsTypes
  BY <1>1, NothingHeld, PlainEnvs DEF SecretsTypes
<1>5. NoPlainSecret
  BY <1>1 DEF NoPlainSecret
<1>6. StartHeld(starting, Known) /\ EnvHeld(procEnv, Known) /\ EnvHeld(childEnv, Known)
  BY <1>1, NothingHeld
<1> QED BY <1>1, <1>2, <1>3, <1>4, <1>5, <1>6 DEF SecretsInv

LEMMA SecretsStep ==
  ASSUME Apart, SecretsInv, [SecretsNext]_secretVars
  PROVE  SecretsInv'
<1>1. CASE UNCHANGED secretVars
  <2>1. Quiet /\ UNCHANGED <<source, starting, procEnv, childEnv>>
    BY <1>1 DEF secretVars, Quiet
  <2> QED BY <2>1, QuietKeeps DEF SecretsInv, SecretsTypes, Quiet
<1>2. ASSUME NEW r \in Refs, NEW v \in Values_, SecretSet(r, v) PROVE SecretsInv'
  BY <1>2, SecretSetKeeps
<1>3. ASSUME NEW e \in {Merge(file, env) : file \in EnvFiles, env \in Asked}, StartReads(e) PROVE SecretsInv'
  BY <1>3, StartReadsKeeps
<1>4. CASE StartResolves
  BY <1>4, StartResolvesKeeps
<1>5. CASE StartLaunches
  BY <1>5, StartLaunchesKeeps
<1>6. CASE ChildEnds
  BY <1>6, ChildEndsKeeps
<1>7. CASE RestartChild
  BY <1>7, RestartChildKeeps
<1>8. CASE DaemonRestarts
  BY <1>8, DaemonRestartsKeeps
<1>9. ASSUME NEW k \in EnvKeys, StartRegisters(k) PROVE SecretsInv'
  BY <1>9, StartRegistersKeeps
<1>10. ASSUME NEW env \in Asked, UpdateEnv(env) PROVE SecretsInv'
  BY <1>10, UpdateEnvKeeps
<1>11. ASSUME NEW ks \in SetToSeqs(EnvKeys) \cup {<<k>> : k \in EnvKeys}, NEW end \in {<<>>, <<NL>>},
              Prints(ks, end)
       PROVE  SecretsInv'
  BY <1>11, PrintsKeeps
<1>12. ASSUME NEW n \in 1..Len(unsent), ChildWrites(n) PROVE SecretsInv'
  BY <1>12, ChildWritesKeeps
<1> QED BY <1>1, <1>2, <1>3, <1>4, <1>5, <1>6, <1>7, <1>8, <1>9, <1>10, <1>11, <1>12 DEF SecretsNext

\* However many references, values, variables and starts there are, and in whatever
\* pieces a child writes: no line of the log that is not torn shows a character of a
\* value that can be masked, if no value is to be read across the seam of two others.
THEOREM SecretsStayOut ==
  ASSUME Apart
  PROVE  SecretsSpec => []NoPlainSecret
<1>1. SecretsInit => SecretsInv
  BY SecretsStart
<1>2. SecretsInv /\ [SecretsNext]_secretVars => SecretsInv'
  BY SecretsStep
<1>3. SecretsInv => NoPlainSecret
  BY DEF SecretsInv
<1> QED BY <1>1, <1>2, <1>3, PTL DEF SecretsSpec
=============================================================================
