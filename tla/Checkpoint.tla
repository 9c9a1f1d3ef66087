----------------------------- MODULE Checkpoint -----------------------------
(***************************************************************************)
(* writeCheckpoint and readCheckpoint (applications/CHMT/restart/          *)
(* Checkpoint.C) over a file system that forgets.  A checkpoint is a       *)
(* directory with one file, state.chmt.  A write makes the directory,      *)
(* syncs the parent's entry of it, writes a temporary file, syncs and      *)
(* closes it, renames it to state.chmt and syncs the directory.  Each of   *)
(* these calls may fail, which ends the write, and the machine may crash   *)
(* between any two of them.                                                *)
(*                                                                         *)
(* The file system keeps what has been synced.  Of the rest a crash keeps  *)
(* any part: a directory's entry is the last synced one or one of those    *)
(* set since, and a file that was not synced is cut anywhere.  The         *)
(* checkpoint of the n-th write is called n and its file has that number.  *)
(* The parent directory itself is taken to exist on disk.                  *)
(***************************************************************************)
EXTENDS Naturals, FiniteSets

CONSTANTS
  MaxWrites,   (* bound: calls of writeCheckpoint                            *)
  MaxFaults,   (* bound: failing system calls                                *)
  MaxCrashes,  (* bound: crashes                                             *)
  Parts        (* writeAll calls for a file: header, configuration, payload  *)

ASSUME BoundsAssumption == MaxWrites \in Nat /\ MaxFaults \in Nat /\ MaxCrashes \in Nat
ASSUME PartsAssumption == Parts \in Nat \ {0}

Writes == 1 .. MaxWrites
None == 0                 \* no file
Torn == MaxWrites + 1     \* a file readCheckpoint rejects

VARIABLES
  pc,        (* the system call the writer is at                              *)
  writes,    (* writes begun; the one in progress is writes                   *)
  faults,    (* system calls that have failed                                 *)
  crashes,   (* crashes so far                                                *)
  linked,    (* the directory exists                                          *)
  anchored,  (* its entry in the parent has been synced                       *)
  entry,     (* the file state.chmt names, or None                            *)
  settled,   (* the one it named when the directory was last synced           *)
  pending,   (* the ones it has named since                                   *)
  temps,     (* files that have a temporary name                              *)
  orphans,   (* those that kept it because unlink failed or of a crash        *)
  content,   (* per file: the parts in it                                     *)
  synced,    (* per file: whether they are on disk                            *)
  acked      (* the last write that returned true, or None                    *)

memory == <<pc, writes, faults, crashes, acked>>
directory == <<linked, anchored, entry, settled, pending>>
names == <<temps, orphans>>
files == <<content, synced>>
vars == <<memory, directory, names, files>>

Init ==
  /\ pc = "idle" /\ writes = 0 /\ faults = 0 /\ crashes = 0 /\ acked = None
  /\ linked = FALSE /\ anchored = FALSE
  /\ entry = None /\ settled = None /\ pending = {}
  /\ temps = {} /\ orphans = {}
  /\ content = [n \in Writes |-> 0]
  /\ synced = [n \in Writes |-> FALSE]

-----------------------------------------------------------------------------
\* What the writer does with the outcome of a call: go on, return true or,
\* when a call has failed, return false.
Goto(label) == pc' = label /\ UNCHANGED <<writes, faults, crashes, acked>>

Acknowledge ==
  /\ pc' = "idle"
  /\ acked' = writes
  /\ UNCHANGED <<writes, faults, crashes>>

Fail ==
  /\ faults < MaxFaults
  /\ pc' = "idle"
  /\ faults' = faults + 1
  /\ UNCHANGED <<writes, crashes, acked>>

\* unlink(temp) before returning false; its own result is ignored.
Unlink ==
  \/ temps' = temps \ {writes} /\ UNCHANGED orphans
  \/ orphans' = orphans \cup {writes} /\ UNCHANGED temps

Write ==
  /\ pc = "idle"
  /\ writes < MaxWrites
  /\ writes' = writes + 1
  /\ pc' = "mkdir"
  /\ UNCHANGED <<faults, crashes, acked, directory, names, files>>

(***************************************************************************)
(* Mistakes in the protocol that the properties have to notice when they   *)
(* replace the operation.                                                  *)
(***************************************************************************)
\* if (mkdir != 0) skip the parent: it was synced when the directory was made.
MakeDirectoryOnce ==
  /\ pc = "mkdir"
  /\ \/ Goto(IF linked THEN "create" ELSE "parent") /\ linked' = TRUE
     \/ Fail /\ UNCHANGED linked
  /\ UNCHANGED <<anchored, entry, settled, pending, names, files>>

\* Without fsync the data reach the disk some time after the rename.
SyncFileLater ==
  /\ pc = "fsync"
  /\ Goto("close")
  /\ UNCHANGED <<directory, names, files>>

\* The rename is taken to be the end of the write.
RenameAndReturn ==
  /\ pc = "rename"
  /\ \/ /\ Acknowledge
        /\ entry' = writes
        /\ pending' = pending \cup {writes}
        /\ temps' = temps \ {writes}
        /\ UNCHANGED orphans
     \/ Fail /\ Unlink /\ UNCHANGED <<entry, pending>>
  /\ UNCHANGED <<linked, anchored, settled, files>>

\* A close that fails returns at once.
CloseFileReturning ==
  /\ pc = "close"
  /\ \/ Goto("rename")
     \/ Fail
  /\ UNCHANGED <<directory, names, files>>

-----------------------------------------------------------------------------
\* mkdir: made now, or there already (EEXIST).
MakeDirectory ==
  /\ pc = "mkdir"
  /\ \/ Goto("parent") /\ linked' = TRUE
     \/ Fail /\ UNCHANGED linked
  /\ UNCHANGED <<anchored, entry, settled, pending, names, files>>

\* syncDirectory(parent): open, fsync and close; when only close fails the
\* entry is on disk all the same.
SyncParent ==
  /\ pc = "parent"
  /\ \/ Goto("create") /\ anchored' = TRUE
     \/ Fail /\ anchored' \in {anchored, TRUE}
  /\ UNCHANGED <<linked, entry, settled, pending, names, files>>

\* stat and mkstemp.
Create ==
  /\ pc = "create"
  /\ \/ Goto("write") /\ temps' = temps \cup {writes}
     \/ Fail /\ UNCHANGED temps
  /\ UNCHANGED <<orphans, directory, files>>

\* One of the writeAll calls; the last of them is followed by fsync.
WriteFile ==
  /\ pc = "write"
  /\ \/ /\ content' = [content EXCEPT ![writes] = @ + 1]
        /\ Goto(IF content[writes] + 1 = Parts THEN "fsync" ELSE "write")
        /\ UNCHANGED names
     \/ Fail /\ Unlink /\ UNCHANGED content
  /\ UNCHANGED <<synced, directory>>

SyncFile ==
  /\ pc = "fsync"
  /\ \/ /\ Goto("close")
        /\ synced' = [synced EXCEPT ![writes] = TRUE]
        /\ UNCHANGED names
     \/ Fail /\ Unlink /\ UNCHANGED synced
  /\ UNCHANGED <<content, directory>>

CloseFile ==
  /\ pc = "close"
  /\ \/ Goto("rename") /\ UNCHANGED names
     \/ Fail /\ Unlink
  /\ UNCHANGED <<directory, files>>

Rename ==
  /\ pc = "rename"
  /\ \/ /\ Goto("directory")
        /\ entry' = writes
        /\ pending' = pending \cup {writes}
        /\ temps' = temps \ {writes}
        /\ UNCHANGED orphans
     \/ Fail /\ Unlink /\ UNCHANGED <<entry, pending>>
  /\ UNCHANGED <<linked, anchored, settled, files>>

\* syncDirectory(directory); when only close fails the rename is on disk and
\* the write is reported as failed.
SyncDirectory ==
  /\ pc = "directory"
  /\ \/ /\ Acknowledge \/ Fail
        /\ settled' = entry
        /\ pending' = {}
     \/ Fail /\ UNCHANGED <<settled, pending>>
  /\ UNCHANGED <<linked, anchored, entry, names, files>>

\* The machine stops and comes back with what is on disk.
Crash ==
  /\ crashes < MaxCrashes
  /\ crashes' = crashes + 1
  /\ pc' = "idle"
  /\ linked' \in (IF anchored THEN {linked} ELSE {linked, FALSE})
  /\ anchored' = linked'
  /\ entry' \in (IF linked' THEN {settled} \cup pending ELSE {None})
  /\ settled' = entry'
  /\ pending' = {}
  /\ temps' \in SUBSET (IF linked' THEN (temps \cup pending) \ {entry'} ELSE {})
  /\ orphans' = temps'
  /\ content' \in {c \in [Writes -> 0 .. Parts] :
                     \A n \in Writes : IF synced[n] THEN c[n] = content[n] ELSE c[n] <= content[n]}
  /\ synced' = [n \in Writes |-> content[n] > 0]
  /\ UNCHANGED <<writes, faults, acked>>

\* All writes have been made and nothing more happens.
Done == pc = "idle" /\ writes = MaxWrites /\ UNCHANGED vars

Next ==
  \/ Write
  \/ MakeDirectory
  \/ SyncParent
  \/ Create
  \/ WriteFile
  \/ SyncFile
  \/ CloseFile
  \/ Rename
  \/ SyncDirectory
  \/ Crash
  \/ Done

Spec == Init /\ [][Next]_vars

-----------------------------------------------------------------------------
\* What readCheckpoint makes of file n: the checkpoint, or an error when the
\* length or the checksum is wrong.
Decoded(n) == IF n = None THEN None ELSE IF content[n] = Parts THEN n ELSE Torn

\* What it would find now, and what after a crash now.
Visible == Decoded(entry)

Kept(n) ==
  {Decoded(n)} \cup (IF n = None THEN {} ELSE IF synced[n] THEN {} ELSE {Torn})

Outcomes ==
  (IF anchored THEN {} ELSE {None}) \cup UNION {Kept(n) : n \in {settled} \cup pending}

-----------------------------------------------------------------------------
Label == {"idle", "mkdir", "parent", "create", "write", "fsync", "close", "rename", "directory"}

WriterTypes ==
  /\ pc \in Label
  /\ writes \in 0 .. MaxWrites
  /\ faults \in 0 .. MaxFaults
  /\ crashes \in 0 .. MaxCrashes
  /\ acked \in {None} \cup Writes

DirectoryTypes ==
  /\ linked \in BOOLEAN /\ anchored \in BOOLEAN
  /\ entry \in {None} \cup Writes /\ settled \in {None} \cup Writes
  /\ pending \subseteq Writes

FileTypes ==
  /\ temps \subseteq Writes /\ orphans \subseteq Writes
  /\ content \in [Writes -> 0 .. Parts]
  /\ synced \in [Writes -> BOOLEAN]

TypeOK == WriterTypes /\ DirectoryTypes /\ FileTypes

\* Once writeCheckpoint has returned true, neither a later write that fails at
\* any call nor a crash at any point costs that checkpoint: a reader finds it
\* or a later one, whole.
AcknowledgedSurvives ==
  acked # None => \A n \in Outcomes \cup {Visible} : n \in Writes /\ n >= acked

\* A reader never finds a state.chmt it must reject, also while a first write
\* is going on or after it has been cut off by a crash.
NeverTorn == Torn \notin Outcomes \cup {Visible}

\* A write that returns leaves no temporary file behind, whichever call has
\* failed, unless removing it failed as well or a crash has come between.
OnlyOrphansRemain == pc = "idle" => temps \subseteq orphans

\* The directory is a durable register of checkpoints: what a crash can leave
\* is the last settled one or one published since, and a crash decides.
Register == INSTANCE DurableRegister WITH
              Values <- Writes, Nothing <- None,
              current <- Visible, possible <- Outcomes
RegisterSpec == Register!Spec
=============================================================================
