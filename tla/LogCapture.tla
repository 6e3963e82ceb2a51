----------------------------- MODULE LogCapture -----------------------------
(* Log capture of one process stream (internal/logcap): the RotatingWriter    *)
(* that os/exec copies the child's output into, the rotation it runs when the  *)
(* active file is full, the follower of logs.subscribe and the export of the   *)
(* whole log directory.  Readers take no lock: they see the directory between  *)
(* any two steps of a rotation.                                                *)
(*                                                                             *)
(* The unit of output is what one call of emit writes, a line or a piece of an *)
(* over-long one: a token, numbered in the order the child wrote it, of size 1.*)
EXTENDS Integers, Sequences, FiniteSets, SequencesExt

CONSTANTS Cap,        \* Capturer.MaxFileBytes, in tokens
          MaxFiles,   \* archives kept per stream (5)
          ReadMax,    \* tokens one read of a follower returns (64 KiB)
          TailLines,  \* lines of a follower's first dump (50)
          MaxTok,     \* bound: tokens the child writes
          MaxOpens,   \* bound: writers opened, one per run of the process
          MaxReads,   \* bound: follows and exports
          MaxFaults   \* bound: failed file-system calls

ASSUME CaptureAssumption ==
  /\ {Cap, MaxFiles, ReadMax, TailLines} \subseteq Nat \ {0}
  /\ {MaxTok, MaxOpens, MaxReads, MaxFaults} \subseteq Nat

VARIABLES act,      \* the active file, or Absent
          arch,     \* archives: arch[i][form], form "plain" (.i) or "gz" (.i.gz)
          wpc,      \* where the writer is; "off" without one, "dead" after an error
          wq,       \* tokens of the current Write still to emit
          size,     \* RotatingWriter.size
          shift,    \* the archive index the rotation moves next
          failed,   \* rotErr of the current rotation
          tok,      \* the last token handed to emit
          partial,  \* a started line is buffered
          kept,     \* history: tokens whose emit succeeded
          torn,      \* history: a rotation stopped half-way
          rpc,      \* where the reader is
          off,      \* the follower's offset
          base,     \* history: its first offset
          got,      \* what it sent, in order
          dumped,   \* how much of that was the first dump
          names,    \* files the export has still to add
          esize,    \* the size in the current tar header
          moved,    \* history: a rotation moved files since the reader began
          there,    \* history: tokens on disk when the export listed the files
          out,      \* tokens in the archive it writes
          opens, reads, faults

disk   == <<act, arch>>
writer == <<wpc, wq, size, shift, failed, tok, partial, kept, torn, opens>>
reader == <<rpc, off, base, got, dumped, names, esize, there, out, reads>>
vars   == <<disk, writer, reader, moved, faults>>

Absent == <<0>>
Forms  == {"plain", "gz"}
Slots  == 1..MaxFiles
SizeOf(f) == IF f = Absent THEN 0 ELSE Len(f)
Tokens(f) == IF f = Absent THEN {} ELSE ToSet(f)
OnDisk == Tokens(act) \cup UNION {Tokens(arch[i][s]) : i \in Slots, s \in Forms}

\* A file-system call fails.
Fault == faults < MaxFaults /\ faults' = faults + 1

-----------------------------------------------------------------------------
(* RotatingWriter                                                             *)

\* openWriter appends to the file a former run left and takes its size.
InitialSize == SizeOf(act)
OpenWriter ==
  /\ wpc = "off" /\ opens < MaxOpens
  /\ wpc' = "idle" /\ size' = InitialSize /\ opens' = opens + 1
  /\ act' = IF act = Absent THEN <<>> ELSE act
  /\ UNCHANGED <<arch, wq, shift, failed, tok, partial, kept, torn, reader, moved, faults>>

\* Write gets k complete chunks, the first of which ends what was buffered, and
\* perhaps the beginning of another line.
Write(k, rest) ==
  /\ wpc = "idle" /\ tok + k <= MaxTok /\ (k > 0 \/ rest)
  /\ wq' = [n \in 1..k |-> tok + n] /\ tok' = tok + k
  /\ partial' = rest
  /\ wpc' = IF k = 0 THEN "idle" ELSE "emit"
  /\ UNCHANGED <<disk, size, shift, failed, kept, torn, opens, reader, moved, faults>>

\* An error ends os/exec's copy: the rest of the chunk is lost, the pipe closes
\* and nothing of this run is captured any more.
Die == wpc' = "dead" /\ wq' = <<>> /\ partial' = FALSE

NeedsRotation == size > 0 /\ size + 1 > Cap

\* emit on a file with room: append, or fail.
Emit ==
  /\ wpc = "emit" /\ ~NeedsRotation
  /\ \/ /\ act' = Append(act, Head(wq)) /\ size' = size + 1
        /\ kept' = kept \cup {Head(wq)}
        /\ wq' = Tail(wq) /\ wpc' = IF Tail(wq) = <<>> THEN "idle" ELSE "emit"
        /\ UNCHANGED <<partial, faults>>
     \/ Fault /\ Die /\ UNCHANGED <<act, size, kept>>
  /\ UNCHANGED <<arch, shift, failed, tok, torn, opens, reader, moved>>

\* emit on a full file: rotate closes it first; a failed close is the end.
RotateClose ==
  /\ wpc = "emit" /\ NeedsRotation
  /\ \/ wpc' = "remove" /\ shift' = MaxFiles - 1 /\ failed' = FALSE /\ UNCHANGED <<wq, partial, faults>>
     \/ Fault /\ Die /\ UNCHANGED <<shift, failed>>
  /\ UNCHANGED <<disk, size, tok, kept, torn, opens, reader, moved>>

rotating == <<wq, size, tok, partial, kept, opens, reader>>

\* rotateNow gives up with an error; the writer still reopens the active file.
RotateFails == Fault /\ failed' = TRUE /\ torn' = TRUE /\ wpc' = "reopen" /\ UNCHANGED shift

\* The oldest archive is dropped in both forms.
RotateRemove ==
  /\ wpc = "remove"
  /\ \/ /\ arch' = [arch EXCEPT ![MaxFiles] = [s \in Forms |-> Absent]]
        /\ wpc' = IF MaxFiles = 1 THEN "rename" ELSE "shift"
        /\ UNCHANGED <<shift, failed, torn, faults>>
     \/ /\ RotateFails
        /\ arch' \in {arch, [arch EXCEPT ![MaxFiles]["plain"] = Absent]}
  /\ moved' = (rpc # "idle")
  /\ UNCHANGED <<act, rotating>>

\* os.Rename of one archive form: it replaces the target, and a missing source
\* is not an error.
Renamed(a, i, s) ==
  IF a[i][s] = Absent THEN a ELSE [a EXCEPT ![i + 1][s] = a[i][s], ![i][s] = Absent]
BothRenamed_PlainOnly(i) == Renamed(arch, i, "plain")
BothRenamed(i) == Renamed(Renamed(arch, i, "plain"), i, "gz")

\* Archives move up one index, the oldest first.
RotateShift ==
  /\ wpc = "shift"
  /\ \/ /\ arch' = BothRenamed(shift)
        /\ shift' = shift - 1 /\ wpc' = IF shift = 1 THEN "rename" ELSE "shift"
        /\ UNCHANGED <<failed, torn, faults>>
     \/ RotateFails /\ arch' \in {arch, Renamed(arch, shift, "plain")}
  /\ moved' = (rpc # "idle")
  /\ UNCHANGED <<act, rotating>>

RotateRename ==
  /\ wpc = "rename"
  /\ \/ /\ arch' = [arch EXCEPT ![1]["plain"] = act] /\ act' = Absent
        /\ wpc' = "gzip" /\ UNCHANGED <<shift, failed, torn, faults>>
     \/ RotateFails /\ UNCHANGED disk
  /\ moved' = (rpc # "idle")
  /\ UNCHANGED rotating

\* gzipFile writes .1.gz (a failed one counts as absent) ...
RotateGzip_Ignored ==
  /\ wpc = "gzip" /\ wpc' = "unlink"
  /\ \/ arch' = [arch EXCEPT ![1]["gz"] = arch[1]["plain"]] /\ UNCHANGED faults
     \/ Fault /\ UNCHANGED arch
  /\ UNCHANGED <<act, moved, shift, failed, torn, rotating>>
RotateGzip ==
  /\ wpc = "gzip"
  /\ \/ /\ arch' = [arch EXCEPT ![1]["gz"] = arch[1]["plain"]]
        /\ wpc' = "unlink" /\ UNCHANGED <<shift, failed, torn, faults>>
     \/ RotateFails /\ UNCHANGED arch
  /\ UNCHANGED <<act, moved, rotating>>

\* ... and then removes .1.
RotateUnlink ==
  /\ wpc = "unlink"
  /\ \/ /\ arch' = [arch EXCEPT ![1]["plain"] = Absent]
        /\ wpc' = "reopen" /\ UNCHANGED <<shift, failed, torn, faults>>
     \/ RotateFails /\ UNCHANGED arch
  /\ moved' = (rpc # "idle")
  /\ UNCHANGED <<act, rotating>>

\* The active file is reopened whatever rotateNow returned; its error, or that
\* of the open, fails the Write.
Reopen ==
  /\ wpc = "reopen"
  /\ \/ /\ act' = IF act = Absent THEN <<>> ELSE act
        /\ size' = SizeOf(act)
        /\ IF failed THEN Die ELSE wpc' = "emit" /\ UNCHANGED <<wq, partial>>
        /\ UNCHANGED faults
     \/ Fault /\ Die /\ UNCHANGED <<act, size>>
  /\ shift' = 0 /\ failed' = FALSE
  /\ UNCHANGED <<arch, tok, kept, torn, opens, reader, moved>>

\* The process is reaped: Close flushes the buffered line without a size check.
CloseWriter ==
  /\ wpc \in {"idle", "dead"} /\ wpc' = "off"
  /\ IF partial /\ tok < MaxTok
     THEN /\ tok' = tok + 1 /\ kept' = kept \cup {tok'}
          /\ act' = Append(act, tok')
     ELSE UNCHANGED <<act, tok, kept>>
  /\ partial' = FALSE /\ size' = 0
  /\ UNCHANGED <<arch, wq, shift, failed, torn, opens, reader, moved, faults>>

\* The reader's call ends, and its variables with it.
ReaderGone ==
  /\ rpc' = "idle" /\ off' = 0 /\ base' = 0 /\ got' = <<>> /\ dumped' = 0
  /\ names' = {} /\ esize' = 0 /\ there' = {} /\ out' = {} /\ moved' = FALSE
  /\ UNCHANGED reads

\* The daemon dies: the writer is gone between any two of its steps.
Crash ==
  /\ wpc # "off" /\ wpc' = "off"
  /\ torn' = (torn \/ wpc \in {"shift", "rename", "gzip", "unlink"})
  /\ wq' = <<>> /\ partial' = FALSE /\ size' = 0 /\ shift' = 0 /\ failed' = FALSE
  /\ ReaderGone
  /\ UNCHANGED <<disk, tok, kept, opens, faults>>

-----------------------------------------------------------------------------
(* SubscribeLogs                                                              *)

exporting == <<names, esize, there, out>>
capture == <<disk, writer, faults>>

\* lastN of the lines of a file.
LastN(f, n) == IF SizeOf(f) <= n THEN (IF f = Absent THEN <<>> ELSE f) ELSE SubSeq(f, Len(f) - n + 1, Len(f))

FollowDump ==
  /\ rpc = "idle" /\ reads < MaxReads /\ reads' = reads + 1
  /\ got' = LastN(act, TailLines) /\ dumped' = Len(got')
  /\ rpc' = "dumped"
  /\ UNCHANGED <<capture, off, base, exporting, moved>>

\* The offset is taken after the dump: what was written in between is skipped.
FollowMark ==
  /\ rpc = "dumped" /\ rpc' = "poll"
  /\ off' = SizeOf(act) /\ base' = off' /\ moved' = FALSE
  /\ UNCHANGED <<capture, got, dumped, exporting, reads>>

\* readFollow starts over when the file is shorter than the offset ...
Shrunk_OrSame == SizeOf(act) <= off
Shrunk == SizeOf(act) < off
FollowStat ==
  /\ rpc = "poll" /\ rpc' = "read"
  /\ off' = IF Shrunk THEN 0 ELSE off
  /\ UNCHANGED <<capture, base, got, dumped, exporting, moved, reads>>

\* ... and reads one buffer from the offset on; an absent file has nothing.
Since_Short(n) == IF Len(act) <= 1 THEN <<>> ELSE SubSeq(act, off + 1, IF n < Len(act) THEN n ELSE Len(act) - 1)
Since(n) == IF act = Absent THEN <<>> ELSE SubSeq(act, off + 1, IF n < Len(act) THEN n ELSE Len(act))
FollowRead ==
  /\ rpc = "read" /\ rpc' = "poll"
  /\ got' = got \o Since(off + ReadMax)
  /\ off' = off + Len(Since(off + ReadMax))
  /\ UNCHANGED <<capture, base, dumped, exporting, moved, reads>>

FollowEnd ==
  /\ rpc \in {"poll", "dumped"} /\ ReaderGone
  /\ UNCHANGED capture

-----------------------------------------------------------------------------
(* ExportTarGz                                                                *)

following == <<off, base, got, dumped>>

\* A file of the directory: the active one is index 0.
File(f) == IF f[1] = 0 THEN act ELSE arch[f[1]][f[2]]

\* exportFileNames: what the glob finds, worked through in the order of the names.
AllNames == {<<0, "plain">>} \cup Slots \X Forms
Listed(f) == File(f) # Absent
NamedBefore(f, g) == f[1] < g[1] \/ (f[1] = g[1] /\ f[2] = "plain")
NextName == CHOOSE f \in names : \A g \in names \ {f} : NamedBefore(f, g)

ExportBegin ==
  /\ rpc = "idle" /\ reads < MaxReads /\ reads' = reads + 1
  /\ names' = {f \in AllNames : Listed(f)}
  /\ there' = OnDisk /\ out' = {} /\ moved' = FALSE
  /\ rpc' = "manifest"
  /\ UNCHANGED <<capture, following, esize>>

\* The manifest stats every listed file; one that is gone fails the export.
ExportManifest ==
  /\ rpc = "manifest"
  /\ IF \E f \in names : ~Listed(f) THEN ReaderGone
     ELSE rpc' = "add" /\ UNCHANGED <<following, exporting, moved, reads>>
  /\ UNCHANGED capture

\* addFileToTar: the header carries the size of a stat; a file that vanished
\* since the manifest is left out.
ExportHeader ==
  /\ rpc = "add"
  /\ IF names = {} THEN rpc' = "exported" /\ UNCHANGED <<names, esize>>
     ELSE IF ~Listed(NextName) THEN names' = names \ {NextName} /\ UNCHANGED <<rpc, esize>>
     ELSE esize' = Len(File(NextName)) /\ rpc' = "copy" /\ UNCHANGED names
  /\ UNCHANGED <<capture, following, there, out, moved, reads>>

\* The copy must fill the header's size exactly, or the tar writer fails.
ExportCopy ==
  /\ rpc = "copy"
  /\ IF Listed(NextName) /\ Len(File(NextName)) = esize
     THEN /\ out' = out \cup Tokens(File(NextName))
          /\ names' = names \ {NextName} /\ rpc' = "add"
          /\ UNCHANGED <<following, esize, there, moved, reads>>
     ELSE ReaderGone
  /\ UNCHANGED capture

ExportEnd ==
  /\ rpc = "exported" /\ ReaderGone
  /\ UNCHANGED capture

-----------------------------------------------------------------------------
CaptureInit ==
  /\ act = Absent /\ arch = [i \in Slots |-> [s \in Forms |-> Absent]]
  /\ wpc = "off" /\ wq = <<>> /\ size = 0 /\ shift = 0 /\ failed = FALSE
  /\ tok = 0 /\ partial = FALSE /\ kept = {} /\ torn = FALSE
  /\ rpc = "idle" /\ off = 0 /\ base = 0 /\ got = <<>> /\ dumped = 0
  /\ names = {} /\ esize = 0 /\ moved = FALSE /\ there = {} /\ out = {}
  /\ opens = 0 /\ reads = 0 /\ faults = 0

Rotate == \/ RotateClose \/ RotateRemove \/ RotateShift \/ RotateRename
          \/ RotateGzip \/ RotateUnlink \/ Reopen

WriterNext ==
  \/ OpenWriter
  \/ \E k \in 0..2, rest \in BOOLEAN : Write(k, rest)
  \/ Emit \/ Rotate \/ CloseWriter \/ Crash

ReaderNext ==
  \/ FollowDump \/ FollowMark \/ FollowStat \/ FollowRead \/ FollowEnd
  \/ ExportBegin \/ ExportManifest \/ ExportHeader \/ ExportCopy \/ ExportEnd

CaptureNext == WriterNext \/ ReaderNext

CaptureSpec == CaptureInit /\ [][CaptureNext]_vars

-----------------------------------------------------------------------------
IsStrictlyIncreasing(f) == \A m, n \in DOMAIN f : m < n => f[m] < f[n]
Before(f, g) == \A m \in Tokens(f), n \in Tokens(g) : m < n

\* The directory reads in order from the oldest archive to the active file,
\* whichever step of a rotation the writer, a failure or a crash stopped at: an
\* archive is older than every one below it and than the active file, unless
\* both hold the same content; the two forms of one index always do
\* (capturer.go:139, gzipFile).
ArchivesInOrder ==
  /\ IsStrictlyIncreasing(act)
  /\ \A i \in Slots, s \in Forms :
       /\ Before(arch[i][s], act)
       /\ \A u \in Forms : arch[i][u] \in {arch[i][s], Absent} \/ arch[i][s] = Absent
       /\ \A j \in 1..i - 1, t \in Forms :
            arch[i][s] # arch[j][t] => Before(arch[i][s], arch[j][t])

\* "No output written through it is lost across a rotation" (writer.go:32): what
\* was emitted is on disk until retention drops it, and retention drops the
\* oldest first.
OnlyOldestDropped ==
  \A n \in kept \ OnDisk : \A m \in OnDisk : n < m

\* A follower sends tokens in order and none twice; as long as no rotation ran
\* since it took its offset it also leaves none out.
FollowerFaithful ==
  /\ IsStrictlyIncreasing(got)
  /\ (rpc \in {"poll", "read"} /\ ~moved)
       => SubSeq(got, dumped + 1, Len(got)) = SubSeq(act, base + 1, off)

\* Without a rotation a follower that stays reaches the end of the file.
FollowerCatchesUp ==
  (rpc \in {"poll", "read"}) ~> (rpc = "idle" \/ moved \/ off = SizeOf(act))

\* An export that reports success, and that no rotation overlapped, holds all
\* that was on disk when it listed the directory (export.go:52 "reported as an
\* error rather than as silent success").
ExportComplete ==
  (rpc = "exported" /\ ~moved) => there \subseteq out

\* What the readers that take no lock hand out is what was written.
ReadersFaithful == FollowerFaithful /\ ExportComplete
=============================================================================
