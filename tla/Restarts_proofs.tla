-------------------------- MODULE Restarts_proofs --------------------------
(***************************************************************************)
(* Proofs about the specifications of the run `restarts': Checkpoint, for  *)
(* any number of writes, failing calls, crashes and parts, its refinement  *)
(* of DurableRegister, and SamplingRun, for any windows, controls, steps   *)
(* and troubles.                                                           *)
(***************************************************************************)
EXTENDS MCRestarts, Sequences, WellFoundedInduction, TLAPS

(***************************************************************************)
(* The inductive invariant.                                                *)
(***************************************************************************)
Named == {entry, settled} \cup pending

\* The directory's entry is on disk before there is a file in it.
Anchored ==
  /\ anchored => linked
  /\ pc = "parent" => linked
  /\ pc \notin {"idle", "mkdir", "parent"} => anchored
  /\ ~anchored => Named = {None}
  /\ entry \in {settled} \cup pending

\* How far the file of the write in progress has come.
Progress ==
  /\ pc # "idle" => writes \in Writes /\ acked < writes
  /\ pc \in {"mkdir", "parent", "create"} => content[writes] = 0
  /\ pc = "write" => content[writes] < Parts
  /\ pc \in {"fsync", "close", "rename"} => content[writes] = Parts
  /\ pc \in {"close", "rename"} => synced[writes]
  /\ pc = "directory" => entry = writes
  /\ \A n \in Writes : n > writes => content[n] = 0

\* Only whole files on disk get the name, each write's after the ones before.
Whole ==
  /\ \A n \in Named : n # None => content[n] = Parts /\ synced[n]
  /\ \A n \in Named : n <= writes /\ (pc \notin {"idle", "directory"} => n < writes)

\* The last acknowledged one is settled, or a later one is.
Settled ==
  /\ acked <= writes
  /\ \A n \in Named : n >= acked

Temporary ==
  /\ temps \subseteq orphans \cup {writes}
  /\ pc \in {"idle", "mkdir", "parent", "create", "directory"} => temps \subseteq orphans

IInv ==
  /\ TypeOK
  /\ Anchored
  /\ Progress
  /\ Whole
  /\ Settled
  /\ Temporary

-----------------------------------------------------------------------------
LEMMA InitIInv == Init => IInv
<1> SUFFICES ASSUME Init PROVE IInv
  OBVIOUS
<1> USE BoundsAssumption, PartsAssumption DEF Init
<1>1. TypeOK
  <2>1. WriterTypes
    BY DEF WriterTypes, Label
  <2>2. DirectoryTypes
    BY DEF DirectoryTypes, None
  <2>3. FileTypes
    <3>1. content \in [Writes -> 0 .. Parts]
      BY DEF Writes
    <3>2. synced \in [Writes -> BOOLEAN]
      OBVIOUS
    <3>. QED
      BY <3>1, <3>2 DEF FileTypes
  <2>. QED
    BY <2>1, <2>2, <2>3 DEF TypeOK
<1>2. Anchored /\ Progress /\ Whole /\ Settled /\ Temporary
  BY DEF Anchored, Progress, Whole, Settled, Temporary, Named, None
<1>. QED
  BY <1>1, <1>2 DEF IInv

LEMMA WriteStep == IInv /\ Write => IInv'
<1> SUFFICES ASSUME IInv, Write PROVE IInv'
  OBVIOUS
<1> USE BoundsAssumption, PartsAssumption DEF IInv, Write
<1>1. TypeOK'
  <2>1. pc # "idle" => writes \in Writes
    OBVIOUS
  <2>2. WriterTypes'
    BY <2>1 DEF TypeOK, WriterTypes, Label
  <2>3. DirectoryTypes'
    BY <2>1 DEF TypeOK, WriterTypes, DirectoryTypes, directory
  <2>4. FileTypes'
    BY <2>1 DEF TypeOK, DirectoryTypes, FileTypes, directory, names, files
  <2>. QED
    BY <2>2, <2>3, <2>4 DEF TypeOK
<1>2. Anchored'
  BY DEF Anchored, Named, directory
<1>3. Progress'
  BY DEF Progress, TypeOK, WriterTypes, Settled, None, Writes, Goto, files
<1>4. Whole'
  BY DEF Whole, Progress, Anchored, TypeOK, WriterTypes, DirectoryTypes, FileTypes, Named, None, Writes, directory, files
<1>5. Settled'
  BY DEF Settled, Whole, Progress, Anchored, TypeOK, WriterTypes, FileTypes, Named, None, memory, directory, names
<1>6. Temporary'
  BY DEF Temporary, FileTypes, Progress, memory, directory, names
<1>. QED
  BY <1>1, <1>2, <1>3, <1>4, <1>5, <1>6

LEMMA MakeDirectoryStep == IInv /\ MakeDirectory => IInv'
<1> SUFFICES ASSUME IInv, MakeDirectory PROVE IInv'
  OBVIOUS
<1> USE BoundsAssumption, PartsAssumption DEF IInv, MakeDirectory
<1>1. TypeOK'
  <2>1. pc # "idle" => writes \in Writes
    BY DEF Progress
  <2>2. WriterTypes'
    BY <2>1 DEF TypeOK, WriterTypes, Label, Goto, Fail
  <2>3. DirectoryTypes'
    BY <2>1 DEF TypeOK, WriterTypes, DirectoryTypes, Writes, Goto
  <2>4. FileTypes'
    BY <2>1 DEF TypeOK, DirectoryTypes, FileTypes, names, files
  <2>. QED
    BY <2>2, <2>3, <2>4 DEF TypeOK
<1>2. Anchored'
  BY DEF Anchored, Named, Goto, Fail
<1>3. Progress'
  BY DEF Progress, TypeOK, Named, None, Goto, Fail, files
<1>4. Whole'
  BY DEF Whole, Named, Goto, Fail, files
<1>5. Settled'
  BY DEF Settled, FileTypes, Named, Writes, Goto, Fail, names
<1>6. Temporary'
  BY DEF Temporary, memory, names, files
<1>. QED
  BY <1>1, <1>2, <1>3, <1>4, <1>5, <1>6

LEMMA SyncParentStep == IInv /\ SyncParent => IInv'
<1> SUFFICES ASSUME IInv, SyncParent PROVE IInv'
  OBVIOUS
<1> USE BoundsAssumption, PartsAssumption DEF IInv
<1>1. /\ pc = "parent"
      /\ pc' \in {"create", "idle"} /\ (pc' = "create" => anchored')
      /\ faults' \in 0 .. MaxFaults
      /\ UNCHANGED <<writes, crashes, acked>>
  <2>1. CASE Goto("create") /\ anchored' = TRUE
    <3>1. pc = "parent" /\ pc' = "create" /\ anchored' /\ UNCHANGED <<writes, faults, crashes, acked>>
      BY <2>1 DEF SyncParent, Goto
    <3>. QED
      BY <3>1 DEF TypeOK, WriterTypes
  <2>2. CASE Fail
    <3>1. pc = "parent" /\ pc' = "idle" /\ UNCHANGED <<writes, crashes, acked>>
      BY <2>2 DEF SyncParent, Fail
    <3>2. faults' \in 0 .. MaxFaults
      BY <2>2 DEF Fail, TypeOK, WriterTypes
    <3>. QED
      BY <3>1, <3>2
  <2>. QED
    BY <2>1, <2>2 DEF SyncParent
<1>2. anchored' \in {anchored, TRUE}
  BY DEF SyncParent
<1>3. UNCHANGED <<linked, entry, settled, pending, names, files>>
  BY DEF SyncParent
<1>4. TypeOK'
  <2>1. WriterTypes'
    BY <1>1 DEF TypeOK, WriterTypes, Label
  <2>2. DirectoryTypes'
    BY <1>2, <1>3 DEF TypeOK, DirectoryTypes
  <2>3. FileTypes'
    BY <1>3 DEF TypeOK, FileTypes, names, files
  <2>. QED
    BY <2>1, <2>2, <2>3 DEF TypeOK
<1>5. Anchored'
  BY <1>1, <1>2, <1>3 DEF Anchored, Named
<1>6. Progress'
  BY <1>1, <1>3 DEF Progress, files
<1>7. Whole'
  BY <1>1, <1>3 DEF Whole, Named, files
<1>8. Settled'
  BY <1>1, <1>3 DEF Settled, Named
<1>9. Temporary'
  BY <1>1, <1>3 DEF Temporary, names
<1>. QED
  BY <1>4, <1>5, <1>6, <1>7, <1>8, <1>9

LEMMA CreateStep == IInv /\ Create => IInv'
<1> SUFFICES ASSUME IInv, Create PROVE IInv'
  OBVIOUS
<1> USE BoundsAssumption, PartsAssumption DEF IInv, Create
<1>1. TypeOK'
  <2>1. pc # "idle" => writes \in Writes
    BY DEF Progress
  <2>2. WriterTypes'
    BY <2>1 DEF TypeOK, WriterTypes, Label, Goto, Fail
  <2>3. DirectoryTypes'
    BY <2>1 DEF TypeOK, WriterTypes, DirectoryTypes, Writes, Goto, directory
  <2>4. FileTypes'
    BY <2>1 DEF TypeOK, DirectoryTypes, FileTypes, directory, files
  <2>. QED
    BY <2>2, <2>3, <2>4 DEF TypeOK
<1>2. Anchored'
  BY DEF Anchored, directory
<1>3. Progress'
  BY DEF Progress, Goto, Fail, files
<1>4. Whole'
  BY DEF Whole, Named, Goto, Fail, directory, files
<1>5. Settled'
  BY DEF Settled, FileTypes, Named, Writes, Goto, Fail, memory, directory, names
<1>6. Temporary'
  BY DEF Temporary, Goto, memory, files
<1>. QED
  BY <1>1, <1>2, <1>3, <1>4, <1>5, <1>6

LEMMA WriteFileStep == IInv /\ WriteFile => IInv'
<1> SUFFICES ASSUME IInv, WriteFile PROVE IInv'
  OBVIOUS
<1> USE BoundsAssumption, PartsAssumption DEF IInv, WriteFile
<1>1. TypeOK'
  <2>1. pc # "idle" => writes \in Writes
    BY DEF Progress
  <2>2. WriterTypes'
    BY <2>1 DEF TypeOK, WriterTypes, Label, Goto, Fail
  <2>3. DirectoryTypes'
    BY <2>1 DEF TypeOK, WriterTypes, DirectoryTypes, Writes, Goto, directory
  <2>4. FileTypes'
    <3>1. content' \in [Writes -> 0 .. Parts]
      <4>1. CASE UNCHANGED content
        BY <4>1 DEF TypeOK, FileTypes
      <4>2. CASE content' = [content EXCEPT ![writes] = @ + 1]
        <5>1. content[writes] + 1 \in 0 .. Parts
          BY <2>1 DEF TypeOK, FileTypes, Progress
        <5>. QED
          BY <2>1, <4>2, <5>1 DEF TypeOK, FileTypes
      <4>. QED
        BY <4>1, <4>2
    <3>2. temps' \subseteq Writes /\ orphans' \subseteq Writes
      BY <2>1 DEF TypeOK, FileTypes, names, Unlink
    <3>. QED
      BY <3>1, <3>2 DEF TypeOK, FileTypes
  <2>. QED
    BY <2>2, <2>3, <2>4 DEF TypeOK
<1>2. Anchored'
  BY DEF Anchored, directory
<1>3. Progress'
  <2>1. /\ writes \in Writes /\ acked < writes /\ content[writes] \in 0 .. Parts
        /\ content[writes] < Parts /\ content \in [Writes -> 0 .. Parts]
        /\ \A n \in Writes : n > writes => content[n] = 0
    BY DEF Progress, TypeOK, FileTypes
  <2>2. CASE Fail /\ UNCHANGED content
    BY <2>1, <2>2 DEF Progress, Fail
  <2>3. CASE /\ content' = [content EXCEPT ![writes] = @ + 1]
             /\ Goto(IF content[writes] + 1 = Parts THEN "fsync" ELSE "write")
    <3>1. content'[writes] = content[writes] + 1
      BY <2>1, <2>3
    <3>2. \A n \in Writes : n > writes' => content'[n] = 0
      BY <2>1, <2>3 DEF Goto, Writes
    <3>. QED
      BY <2>1, <2>3, <3>1, <3>2 DEF Progress, Goto
  <2>. QED
    BY <2>2, <2>3
<1>4. Whole'
  BY DEF Whole, Progress, Anchored, TypeOK, WriterTypes, DirectoryTypes, FileTypes, Named, None, Goto, Fail, directory
<1>5. Settled'
  BY DEF Settled, Whole, Progress, Anchored, TypeOK, WriterTypes, DirectoryTypes, FileTypes, Named, Writes, Goto, Fail, memory, directory
<1>6. Temporary'
  BY DEF Temporary, Goto, memory, names, files, Unlink
<1>. QED
  BY <1>1, <1>2, <1>3, <1>4, <1>5, <1>6

LEMMA SyncFileStep == IInv /\ SyncFile => IInv'
<1> SUFFICES ASSUME IInv, SyncFile PROVE IInv'
  OBVIOUS
<1> USE BoundsAssumption, PartsAssumption DEF IInv, SyncFile
<1>1. TypeOK'
  <2>1. pc # "idle" => writes \in Writes
    BY DEF Progress
  <2>2. WriterTypes'
    BY <2>1 DEF TypeOK, WriterTypes, Label, Goto, Fail
  <2>3. DirectoryTypes'
    BY <2>1 DEF TypeOK, WriterTypes, DirectoryTypes, Writes, Goto, directory
  <2>4. FileTypes'
    BY <2>1 DEF TypeOK, DirectoryTypes, FileTypes, directory, names, Unlink
  <2>. QED
    BY <2>2, <2>3, <2>4 DEF TypeOK
<1>2. Anchored'
  BY DEF Anchored, directory
<1>3. Progress'
  BY DEF Progress, TypeOK, FileTypes, Goto, Fail
<1>4. Whole'
  BY DEF Whole, Progress, Anchored, TypeOK, WriterTypes, DirectoryTypes, FileTypes, Named, None, Goto, Fail, directory
<1>5. Settled'
  BY DEF Settled, Whole, Progress, Anchored, TypeOK, WriterTypes, DirectoryTypes, FileTypes, Named, Writes, Goto, Fail, memory, directory
<1>6. Temporary'
  BY DEF Temporary, Goto, memory, names, files, Unlink
<1>. QED
  BY <1>1, <1>2, <1>3, <1>4, <1>5, <1>6

LEMMA CloseFileStep == IInv /\ CloseFile => IInv'
<1> SUFFICES ASSUME IInv, CloseFile PROVE IInv'
  OBVIOUS
<1> USE BoundsAssumption, PartsAssumption DEF IInv, CloseFile
<1>1. TypeOK'
  <2>1. pc # "idle" => writes \in Writes
    BY DEF Progress
  <2>2. WriterTypes'
    BY <2>1 DEF TypeOK, WriterTypes, Label, Goto, Fail
  <2>3. DirectoryTypes'
    BY <2>1 DEF TypeOK, WriterTypes, DirectoryTypes, Writes, Goto, directory
  <2>4. FileTypes'
    BY <2>1 DEF TypeOK, DirectoryTypes, FileTypes, directory, names, files, Unlink
  <2>. QED
    BY <2>2, <2>3, <2>4 DEF TypeOK
<1>2. Anchored'
  BY DEF Anchored, directory
<1>3. Progress'
  BY DEF Progress, Goto, Fail, files
<1>4. Whole'
  BY DEF Whole, Named, Goto, Fail, directory, files
<1>5. Settled'
  BY DEF Settled, FileTypes, Named, Writes, Goto, Fail, memory, directory, names
<1>6. Temporary'
  BY DEF Temporary, Goto, memory, names, files, Unlink
<1>. QED
  BY <1>1, <1>2, <1>3, <1>4, <1>5, <1>6

LEMMA RenameStep == IInv /\ Rename => IInv'
<1> SUFFICES ASSUME IInv, Rename PROVE IInv'
  OBVIOUS
<1> USE BoundsAssumption, PartsAssumption DEF IInv, Rename
<1>1. TypeOK'
  <2>1. pc # "idle" => writes \in Writes
    BY DEF Progress
  <2>2. WriterTypes'
    BY <2>1 DEF TypeOK, WriterTypes, Label, Goto, Fail
  <2>3. DirectoryTypes'
    BY <2>1 DEF TypeOK, WriterTypes, DirectoryTypes, Writes, Goto
  <2>4. FileTypes'
    BY <2>1 DEF TypeOK, DirectoryTypes, FileTypes, files, Unlink
  <2>. QED
    BY <2>2, <2>3, <2>4 DEF TypeOK
<1>2. Anchored'
  BY DEF Anchored
<1>3. Progress'
  BY DEF Progress, Goto, Fail, files
<1>4. Whole'
  <2>1. writes \in Writes /\ content[writes] = Parts /\ synced[writes]
    BY DEF Progress
  <2>2. UNCHANGED <<writes, content, synced>>
    BY DEF Goto, Fail, files
  <2>3. Named' \subseteq Named \cup {writes}
    BY DEF Named
  <2>4. pc' \in {"idle", "directory"}
    BY DEF Goto, Fail
  <2>5. \A n \in Named : n <= writes
    BY DEF Whole
  <2>. QED
    BY <2>1, <2>2, <2>3, <2>4, <2>5 DEF Whole, Writes
<1>5. Settled'
  BY DEF Settled, Whole, Named, Goto, Fail
<1>6. Temporary'
  BY DEF Temporary, memory, files, Unlink
<1>. QED
  BY <1>1, <1>2, <1>3, <1>4, <1>5, <1>6

LEMMA SyncDirectoryStep == IInv /\ SyncDirectory => IInv'
<1> SUFFICES ASSUME IInv, SyncDirectory PROVE IInv'
  OBVIOUS
<1> USE BoundsAssumption, PartsAssumption DEF IInv, SyncDirectory
<1>1. TypeOK'
  <2>1. pc # "idle" => writes \in Writes
    BY DEF Progress
  <2>2. WriterTypes'
    BY <2>1 DEF TypeOK, WriterTypes, Label, Fail, Acknowledge
  <2>3. DirectoryTypes'
    BY <2>1 DEF TypeOK, WriterTypes, DirectoryTypes, Goto, files
  <2>4. FileTypes'
    BY <2>1 DEF TypeOK, DirectoryTypes, FileTypes, names, files
  <2>. QED
    BY <2>2, <2>3, <2>4 DEF TypeOK
<1>2. Anchored'
  BY DEF Anchored
<1>3. Progress'
  BY DEF Progress, Fail, files, Acknowledge
<1>4. Whole'
  BY DEF Whole, Named, Fail, files, Acknowledge
<1>5. Settled'
  BY DEF Settled, Progress, FileTypes, Named, Writes, Goto, Fail, names, files, Acknowledge
<1>6. Temporary'
  BY DEF Temporary, WriterTypes, memory, names, Acknowledge
<1>. QED
  BY <1>1, <1>2, <1>3, <1>4, <1>5, <1>6

LEMMA CrashStep == IInv /\ Crash => IInv'
<1> SUFFICES ASSUME IInv, Crash PROVE IInv'
  OBVIOUS
<1> USE BoundsAssumption, PartsAssumption DEF IInv
<1>1. /\ pc' = "idle" /\ crashes' \in 0 .. MaxCrashes
      /\ UNCHANGED <<writes, faults, acked>>
  BY DEF Crash, TypeOK, WriterTypes
<1>2. linked' \in BOOLEAN /\ anchored' = linked'
  BY DEF Crash, TypeOK, DirectoryTypes
<1>3. ~linked' => ~anchored
  BY DEF Crash, Anchored, TypeOK
<1>4. entry' \in Named
  <2>1. CASE linked'
    BY <2>1 DEF Crash, Named
  <2>2. CASE ~linked'
    BY <1>3, <2>2 DEF Crash, Named, Anchored
  <2>. QED
    BY <2>1, <2>2, <1>2
<1>5. ~linked' => entry' = None
  BY DEF Crash
<1>6. settled' = entry' /\ pending' = {}
  BY DEF Crash
<1>7. Named' = {entry'}
  BY <1>6 DEF Named
<1>8. temps' \subseteq Writes /\ orphans' = temps'
  <2>1. temps' \subseteq temps \cup pending /\ orphans' = temps'
    BY DEF Crash
  <2>. QED
    BY <2>1 DEF TypeOK, FileTypes, DirectoryTypes
<1>9. /\ content' \in [Writes -> 0 .. Parts]
      /\ \A n \in Writes : IF synced[n] THEN content'[n] = content[n] ELSE content'[n] <= content[n]
  BY DEF Crash
<1>10. synced' = [n \in Writes |-> content[n] > 0]
  BY DEF Crash
<1>11. TypeOK'
  <2>1. WriterTypes'
    BY <1>1 DEF TypeOK, WriterTypes, Label
  <2>2. DirectoryTypes'
    BY <1>2, <1>4, <1>6 DEF TypeOK, DirectoryTypes, Named
  <2>3. synced' \in [Writes -> BOOLEAN]
    BY <1>10
  <2>4. FileTypes'
    BY <1>8, <1>9, <2>3 DEF FileTypes
  <2>. QED
    BY <2>1, <2>2, <2>4 DEF TypeOK
<1>12. Anchored'
  BY <1>1, <1>2, <1>5, <1>6, <1>7 DEF Anchored
<1>13. Progress'
  <2>1. ASSUME NEW n \in Writes, n > writes' PROVE content'[n] = 0
    BY <1>1, <1>9, <2>1 DEF Progress
  <2>. QED
    BY <1>1, <2>1 DEF Progress
<1>14. Whole'
  <2>1. ASSUME entry' # None PROVE content'[entry'] = Parts /\ synced'[entry']
    <3>1. entry' \in Writes /\ content[entry'] = Parts /\ synced[entry']
      BY <1>4, <2>1 DEF Whole, Named, TypeOK, DirectoryTypes
    <3>2. content'[entry'] = content[entry']
      BY <1>9, <3>1
    <3>3. synced'[entry'] = (content[entry'] > 0)
      BY <1>10, <3>1
    <3>4. content[entry'] > 0
      BY <3>1
    <3>. QED
      BY <3>1, <3>2, <3>3, <3>4
  <2>. QED
    BY <1>1, <1>4, <1>7, <2>1 DEF Whole
<1>15. Settled'
  BY <1>1, <1>4, <1>7 DEF Settled
<1>16. Temporary'
  BY <1>8 DEF Temporary
<1>. QED
  BY <1>11, <1>12, <1>13, <1>14, <1>15, <1>16

LEMMA StutterStep == IInv /\ UNCHANGED vars => IInv'
  BY DEF IInv, TypeOK, WriterTypes, DirectoryTypes, FileTypes, Anchored, Progress, Whole,
         Settled, Temporary, Named, vars, memory, directory, names, files

LEMMA StepIInv == IInv /\ [Next]_vars => IInv'
  BY WriteStep, MakeDirectoryStep, SyncParentStep, CreateStep, WriteFileStep, SyncFileStep,
     CloseFileStep, RenameStep, SyncDirectoryStep, CrashStep, StutterStep
     DEF Next, Done

LEMMA Invariance == Spec => []IInv
  BY InitIInv, StepIInv, PTL DEF Spec

-----------------------------------------------------------------------------
\* A file that has the name decodes to itself, also after a crash.
LEMMA Reading ==
  ASSUME IInv
  PROVE  /\ \A n \in Named : Decoded(n) = n /\ Kept(n) = {n}
         /\ Visible = entry
         /\ Outcomes = (IF anchored THEN {} ELSE {None}) \cup {settled} \cup pending
<1>1. \A n \in Named : Decoded(n) = n
  BY DEF IInv, Whole, Decoded
<1>2. \A n \in Named : Kept(n) = {n}
  BY <1>1 DEF IInv, Whole, Kept
<1>3. Visible = entry
  BY <1>1 DEF Visible, Named
<1>4. \A n \in {settled} \cup pending : Kept(n) = {n}
  BY <1>2 DEF Named
<1>5. UNION {Kept(n) : n \in {settled} \cup pending} = {settled} \cup pending
  BY <1>4
<1>. QED
  BY <1>1, <1>2, <1>3, <1>5 DEF Outcomes

LEMMA OutcomesNamed == IInv => Outcomes \cup {Visible} \subseteq Named /\ Named \subseteq {None} \cup Writes
<1> SUFFICES ASSUME IInv
             PROVE  Outcomes \cup {Visible} \subseteq Named /\ Named \subseteq {None} \cup Writes
  OBVIOUS
<1>1. ~anchored => settled = None
  BY DEF IInv, Anchored, Named
<1>2. Outcomes \subseteq {settled} \cup pending
  BY <1>1, Reading
<1>3. Named \subseteq {None} \cup Writes
  BY DEF Named, IInv, TypeOK, DirectoryTypes
<1>. QED
  BY <1>2, <1>3, Reading DEF Named

\* Every variable stays within its type, for any bounds.
THEOREM Typing == Spec => []TypeOK
<1>1. IInv => TypeOK
  BY DEF IInv
<1>. QED
  BY Invariance, <1>1, PTL

\* A checkpoint whose write returned true is never lost: whatever calls fail
\* and whenever the machine stops, a reader finds it or a later one.
THEOREM Survival == Spec => []AcknowledgedSurvives
<1>1. IInv => AcknowledgedSurvives
  <2> SUFFICES ASSUME IInv, acked # None, NEW n \in Outcomes \cup {Visible}
               PROVE  n \in Writes /\ n >= acked
    BY DEF AcknowledgedSurvives
  <2>1. n \in {None} \cup Writes /\ n >= acked
    BY OutcomesNamed DEF IInv, Settled
  <2>. QED
    BY <2>1, BoundsAssumption DEF IInv, TypeOK, WriterTypes, None, Writes
<1>. QED
  BY Invariance, <1>1, PTL

\* A reader never finds a file it has to reject.
THEOREM Wholeness == Spec => []NeverTorn
<1>1. IInv => NeverTorn
  BY OutcomesNamed, BoundsAssumption DEF NeverTorn, Torn, None, Writes
<1>. QED
  BY Invariance, <1>1, PTL

\* A write leaves no temporary file that it could have removed.
THEOREM Tidiness == Spec => []OnlyOrphansRemain
<1>1. IInv => OnlyOrphansRemain
  BY DEF IInv, Temporary, OnlyOrphansRemain
<1>. QED
  BY Invariance, <1>1, PTL
-----------------------------------------------------------------------------
LEMMA InitRegister == Init => Register!Init
<1> SUFFICES ASSUME Init PROVE Register!Init
  OBVIOUS
<1>1. Visible = None
  BY DEF Init, Visible, Decoded
<1>2. Outcomes = {None}
  BY DEF Init, Outcomes, Kept, Decoded
<1>. QED
  BY <1>1, <1>2 DEF Register!Init

\* What a reader makes of the directory while the invariant holds.
Reads ==
  /\ Visible = entry
  /\ Outcomes = (IF anchored THEN {} ELSE {None}) \cup {settled} \cup pending

LEMMA Refines == IInv /\ Reads /\ Reads' /\ [Next]_vars => [Register!Next]_(Register!vars)
<1> SUFFICES ASSUME IInv, Reads, Reads', [Next]_vars
             PROVE  [Register!Next]_(Register!vars)
  OBVIOUS
<1>a. Visible = entry /\ Outcomes = (IF anchored THEN {} ELSE {None}) \cup {settled} \cup pending
  BY DEF Reads
<1>b. Visible' = entry' /\ Outcomes' = (IF anchored' THEN {} ELSE {None}) \cup {settled'} \cup pending'
  BY DEF Reads
<1>c. ASSUME UNCHANGED <<anchored, entry, settled, pending>>
      PROVE  UNCHANGED <<Visible, Outcomes>>
  BY <1>a, <1>b, <1>c
<1>1. CASE Rename
  <2>1. CASE Goto("directory")
    <3>1. anchored /\ anchored'
      BY <1>1, <2>1 DEF Rename, IInv, Anchored
    <3>2. entry' = writes /\ settled' = settled /\ pending' = pending \cup {writes}
      BY <1>1, <2>1 DEF Rename, Goto, Fail
    <3>3. writes \in Writes /\ writes \notin {settled} \cup pending
      BY <1>1, BoundsAssumption DEF Rename, IInv, Progress, Whole, Named, Writes
    <3>4. Register!Publish(writes)
      BY <1>a, <1>b, <3>1, <3>2, <3>3 DEF Register!Publish
    <3>. QED
      BY <3>3, <3>4 DEF Register!Next
  <2>2. CASE Fail /\ UNCHANGED <<entry, pending>>
    BY <1>1, <2>2, <1>c DEF Rename, Register!vars
  <2>. QED
    BY <1>1, <2>1, <2>2 DEF Rename
<1>2. CASE SyncDirectory
  <2>1. anchored /\ anchored' = anchored
    BY <1>2 DEF SyncDirectory, IInv, Anchored
  <2>2. entry' = entry
    BY <1>2 DEF SyncDirectory
  <2>3. CASE settled' = entry /\ pending' = {}
    BY <1>a, <1>b, <2>1, <2>2, <2>3 DEF Register!Next, Register!Settle
  <2>4. CASE UNCHANGED <<settled, pending>>
    BY <1>c, <2>1, <2>2, <2>4 DEF Register!vars
  <2>. QED
    BY <1>2, <2>3, <2>4 DEF SyncDirectory
<1>3. CASE Crash
  <2>1. anchored' = linked' /\ settled' = entry' /\ pending' = {}
    BY <1>3 DEF Crash
  <2>2. CASE linked'
    <3>1. entry' \in {settled} \cup pending
      BY <1>3, <2>2 DEF Crash
    <3>2. Outcomes' = {entry'}
      BY <1>b, <2>1, <2>2
    <3>. QED
      BY <1>a, <1>b, <3>1, <3>2 DEF Register!Next, Register!Crash
  <2>3. CASE ~linked'
    <3>1. entry' = None
      BY <1>3, <2>3 DEF Crash
    <3>2. ~anchored
      BY <1>3, <2>3 DEF Crash, IInv, Anchored
    <3>3. Outcomes' = {None}
      BY <1>b, <2>1, <2>3, <3>1
    <3>. QED
      BY <1>a, <1>b, <3>1, <3>2, <3>3 DEF Register!Next, Register!Crash
  <2>. QED
    BY <2>2, <2>3
<1>4. CASE SyncParent
  <2>1. UNCHANGED <<entry, settled, pending>>
    BY <1>4 DEF SyncParent
  <2>2. anchored' = anchored \/ (~anchored /\ anchored')
    BY <1>4 DEF SyncParent
  <2>3. CASE anchored' = anchored
    BY <1>c, <2>1, <2>3 DEF Register!vars
  <2>4. CASE ~anchored /\ anchored'
    <3>1. settled = None /\ pending \subseteq {None}
      BY <2>4 DEF IInv, Anchored, Named
    <3>2. Outcomes = {None} /\ Outcomes' = {None}
      BY <1>a, <1>b, <2>1, <2>4, <3>1
    <3>. QED
      BY <1>a, <1>b, <2>1, <3>2 DEF Register!vars
  <2>. QED
    BY <2>2, <2>3, <2>4
<1>5. CASE Write \/ MakeDirectory \/ Create \/ WriteFile \/ SyncFile \/ CloseFile \/ UNCHANGED vars
  <2>1. UNCHANGED <<anchored, entry, settled, pending>>
    BY <1>5 DEF Write, MakeDirectory, Create, WriteFile, SyncFile, CloseFile, vars, directory
  <2>. QED
    BY <1>c, <2>1 DEF Register!vars
<1>. QED
  BY <1>1, <1>2, <1>3, <1>4, <1>5 DEF Next, Done

\* The directory is a durable register of whole checkpoints: the renames are
\* its publications, a directory sync settles the last of them, and a crash
\* leaves one of those that were published since.
THEOREM Refinement == Spec => RegisterSpec
<1>1. IInv => Reads
  BY Reading DEF Reads
<1>. QED
  BY InitRegister, Refines, Invariance, <1>1, PTL DEF Spec, RegisterSpec, Register!Spec


-----------------------------------------------------------------------------
(* SamplingRun: the inductive invariant.                                     *)
Clocks == [samples : Nat, time : Nat, boundary : Nat, dt : Nat]
Contents ==
  [samples : Nat, time : Nat, boundary : Nat, dt : Nat, failed : BOOLEAN,
   lost : SUBSET Sampling!Mirrors]
FileStates == {"absent", "torn", "short", "whole"}
Directories == [files : [Sampling!FileSet -> FileStates], content : Contents, clock : Clocks]
Verdicts == [of : SUBSET Int, before : SUBSET Int, stationary : BOOLEAN]

Closing == Sampling!FileSet \union {"output", "next"}

RunTypes ==
  /\ phase \in {"down", "advance", "accumulate", "window"} \union Closing
  /\ label \in 0 .. EndLabel
  /\ state \in Contents
  /\ controls \in [boundary : Nat, dt : Nat, given : BOOLEAN]
  /\ totals \in [samples : Nat, time : Nat]
  /\ window \in [samples : 0 .. WindowSamples, number : Nat]
  /\ stable \in Nat
  /\ sum \in SUBSET Int /\ mean \in SUBSET Int
  /\ scratch \in Int
  /\ verdicts \in Seq(Verdicts)
  /\ converged \in BOOLEAN

\* A window is in progress, or the loop has yet to leave one that is complete.
Taken == IF phase = "accumulate" THEN state.samples - 1 ELSE state.samples
Open ==
  \/ phase \in {"advance", "accumulate", "window"}
  \/ phase \in Closing /\ label < EndLabel /\ window.samples < WindowSamples

\* The sums are of the samples since the centre, and the last mean is of those before it.
Centred ==
  /\ Open => /\ scratch = Taken - window.samples
             /\ sum = scratch + 1 .. Taken
             /\ window.number >= 1 => mean = scratch - WindowSamples + 1 .. scratch
  /\ phase \in {"advance", "accumulate"} => window.samples < WindowSamples /\ label < EndLabel
  /\ phase \in Closing /\ label < EndLabel /\ window.samples = WindowSamples =>
       mean = state.samples - WindowSamples + 1 .. state.samples

\* The last verdicts in a row are those that count.
Judged ==
  /\ window.number = Len(verdicts)
  /\ stable =< Len(verdicts)
  /\ \A k \in 0 .. stable - 1 : verdicts[Len(verdicts) - k].stationary
  /\ \A i \in 1 .. Len(verdicts) :
       verdicts[i].stationary => Sampling!ComparedWithNeighbour(verdicts[i])
  /\ stable > 0 => Len(verdicts) >= Sampling!AtLeast(2, MinimumWindows)
  /\ converged => stable >= Sampling!AtLeast(1, StableWindows)

\* The program counts what the state has taken, if no restart has lost the clock.
Tallied ==
  /\ state.failed => phase = "accumulate"
  /\ phase # "down" => controls.dt > 0
  /\ phase # "down" /\ "clock" \notin state.lost =>
       /\ totals.samples = Taken
       /\ state.time = IF phase = "accumulate" THEN totals.time + controls.dt ELSE totals.time
  /\ phase \notin {"down", "advance"} =>
       controls.boundary = state.boundary /\ controls.dt = state.dt
  /\ Sampling!RestartContinues

\* What a restart finds.
Prepared ==
  [files |-> [f \in Sampling!FileSet |-> IF f = "fields" THEN "whole" ELSE "absent"],
   content |-> Sampling!Fresh, clock |-> Sampling!NoClock]
Told(d) ==
  /\ Sampling!DirectoryTrue(d)
  /\ d.clock.boundary = d.content.boundary /\ d.clock.dt = d.content.dt /\ d.clock.dt > 0
Stored ==
  /\ 0 \in DOMAIN disk /\ DOMAIN disk \subseteq 0 .. EndLabel
  /\ disk[0] = Prepared
  /\ \A d \in DOMAIN disk : disk[d] \in Directories /\ (d # 0 => Told(disk[d]))

\* The files of a directory come in their order.
Filing ==
  /\ phase \in Closing \union {"window"} => label >= 1
  /\ \A i \in 1 .. 6 : phase = Sampling!Files[i] =>
       /\ label \in DOMAIN disk
       /\ \A j \in 1 .. 6 :
            /\ j < i => disk[label].files[Sampling!Files[j]] \in {"whole", "short"}
            /\ j > i => disk[label].files[Sampling!Files[j]] = "absent"

SampleInv == RunTypes /\ Centred /\ Judged /\ Tallied /\ Stored /\ Filing

-----------------------------------------------------------------------------
(* SamplingRun: names, numbers and intervals.                                *)
LEMMA FileNames ==
  /\ DOMAIN Sampling!Files = 1 .. 6
  /\ Sampling!Files[1] = "fields" /\ Sampling!Files[2] = "parcels"
  /\ Sampling!Files[3] = "porosity" /\ Sampling!Files[4] = "residual"
  /\ Sampling!Files[5] = "clock" /\ Sampling!Files[6] = "means"
  /\ Sampling!FileSet = {"fields", "parcels", "porosity", "residual", "clock", "means"}
  /\ Sampling!Mirrors = {"parcels", "porosity", "residual", "clock"}
<1>1. DOMAIN Sampling!Files = 1 .. 6 BY DEF Sampling!Files
<1>2. /\ Sampling!Files[1] = "fields" /\ Sampling!Files[2] = "parcels"
      /\ Sampling!Files[3] = "porosity" /\ Sampling!Files[4] = "residual"
      /\ Sampling!Files[5] = "clock" /\ Sampling!Files[6] = "means"
  BY DEF Sampling!Files
<1>3. \A i : i \in 1 .. 6 <=> i \in {1, 2, 3, 4, 5, 6} OBVIOUS
<1>4. Sampling!FileSet = {Sampling!Files[i] : i \in 1 .. 6}
  BY <1>1 DEF Sampling!FileSet, Sampling!Range
<1>5. Sampling!FileSet = {Sampling!Files[1], Sampling!Files[2], Sampling!Files[3],
                          Sampling!Files[4], Sampling!Files[5], Sampling!Files[6]}
  BY <1>3, <1>4
<1> QED BY <1>1, <1>2, <1>5 DEF Sampling!Mirrors

LEMMA PairMax ==
  ASSUME NEW a \in Int, NEW b \in Int
  PROVE  /\ Sampling!AtLeast(a, b) \in Int
         /\ Sampling!AtLeast(a, b) >= a /\ Sampling!AtLeast(a, b) >= b
         /\ Sampling!AtLeast(a, b) \in {a, b}
<1>1. \E m \in {a, b} : \A n \in {a, b} : m >= n
  <2>1. CASE a >= b BY <2>1
  <2>2. CASE ~(a >= b) BY <2>2
  <2> QED BY <2>1, <2>2
<1> QED BY <1>1 DEF Sampling!AtLeast, Sampling!Max

LEMMA OfInterval ==
  ASSUME NEW a \in Int, NEW b \in Int, a =< b
  PROVE  Sampling!Min(a .. b) = a /\ Sampling!Max(a .. b) = b
<1>1. a \in a .. b /\ b \in a .. b /\ \A n \in a .. b : a =< n /\ b >= n OBVIOUS
<1>2. Sampling!Min(a .. b) = a
  <2>1. \E m \in a .. b : \A n \in a .. b : m =< n BY <1>1
  <2>2. Sampling!Min(a .. b) \in a .. b /\ \A n \in a .. b : Sampling!Min(a .. b) =< n
    BY <2>1 DEF Sampling!Min
  <2> QED BY <1>1, <2>2
<1>3. Sampling!Max(a .. b) = b
  <2>1. \E m \in a .. b : \A n \in a .. b : m >= n BY <1>1
  <2>2. Sampling!Max(a .. b) \in a .. b /\ \A n \in a .. b : Sampling!Max(a .. b) >= n
    BY <2>1 DEF Sampling!Max
  <2> QED BY <1>1, <2>2
<1> QED BY <1>2, <1>3

Below == OpToRel(<, Nat)

LEMMA Least ==
  ASSUME NEW T \in SUBSET Nat, T # {}
  PROVE  \E m \in T : \A n \in T : m =< n
<1>1. IsWellFoundedOn(Below, Nat) BY NatLessThanWellFounded DEF Below
<1>2. PICK m \in T : \A n \in T : ~(<<n, m>> \in Below) BY <1>1, WFMin
<1>3. \A a, b \in Nat : a < b => <<a, b>> \in Below BY DEF Below, OpToRel
<1>4. \A n \in T : ~(n < m) BY <1>2, <1>3
<1> QED BY <1>4

\* The last directory is one.
LEMMA LatestThere ==
  ASSUME Sampling!RunAssumption, Stored
  PROVE  Sampling!Latest \in DOMAIN disk /\ Sampling!Latest \in 0 .. EndLabel
<1> DEFINE T == {EndLabel - d : d \in DOMAIN disk}
<1>1. EndLabel \in Nat BY DEF Sampling!RunAssumption
<1>2. T \in SUBSET Nat /\ T # {} BY <1>1 DEF Stored
<1>3. \A d \in DOMAIN disk : d \in 0 .. EndLabel /\ EndLabel - d \in T BY DEF Stored
<1>4. PICK m \in T : \A n \in T : m =< n
  <2> HIDE DEF T
  <2> QED BY <1>2, Least
<1>5. PICK d \in DOMAIN disk : m = EndLabel - d BY <1>4
<1> HIDE DEF T
<1>6. \A e \in DOMAIN disk : d >= e BY <1>1, <1>3, <1>4, <1>5
<1>7. Sampling!Latest \in DOMAIN disk BY <1>6 DEF Sampling!Latest, Sampling!Max
<1> QED BY <1>3, <1>7

-----------------------------------------------------------------------------
(* SamplingRun: the steps.                                                   *)
LEMMA PhaseNames ==
  /\ Closing = {"output", "next", "fields", "parcels", "porosity", "residual", "clock", "means"}
  /\ \A i \in 1 .. 6 : Sampling!Files[i] \in Sampling!FileSet
  /\ \A i, j \in 1 .. 6 : Sampling!Files[i] = Sampling!Files[j] => i = j
<1>1. \A i \in 1 .. 6 : i \in {1, 2, 3, 4, 5, 6} OBVIOUS
<1> QED BY <1>1, FileNames DEF Closing

LEMMA SampleInit == Sampling!RunAssumption /\ Sampling!Init => SampleInv
<1> SUFFICES ASSUME Sampling!RunAssumption, Sampling!Init PROVE SampleInv OBVIOUS
<1>1. EndLabel \in Nat /\ WindowSamples \in Nat BY DEF Sampling!RunAssumption
<1>2. Sampling!Fresh \in Contents BY DEF Sampling!Fresh, Contents
<1>3. /\ phase = "down" /\ label = 0 /\ state = Sampling!Fresh
      /\ controls = [boundary |-> 0, dt |-> 0, given |-> FALSE]
      /\ totals = [samples |-> 0, time |-> 0] /\ window = [samples |-> 0, number |-> 0]
      /\ stable = 0 /\ sum = {} /\ scratch = -1 /\ mean = {} /\ verdicts = <<>>
      /\ converged = FALSE /\ disk = [d \in {0} |-> Prepared]
  BY DEF Sampling!Init, Prepared
<1>4. RunTypes
  <2>1. window \in [samples : 0 .. WindowSamples, number : Nat] BY <1>1, <1>3
  <2>2. controls \in [boundary : Nat, dt : Nat, given : BOOLEAN] BY <1>3
  <2>3. totals \in [samples : Nat, time : Nat] BY <1>3
  <2>4. verdicts \in Seq(Verdicts) /\ sum \in SUBSET Int /\ mean \in SUBSET Int BY <1>3
  <2>5. label \in 0 .. EndLabel BY <1>1, <1>3
  <2>9. state \in Contents BY <1>2, <1>3
  <2>10. scratch \in Int BY <1>3
  <2>6. state \in Contents /\ scratch \in Int /\ stable \in Nat /\ converged \in BOOLEAN
    BY <1>3, <2>9, <2>10
  <2>7. phase \in {"down", "advance", "accumulate", "window"} \union Closing BY <1>3
  <2> QED BY <2>1, <2>2, <2>3, <2>4, <2>5, <2>6, <2>7 DEF RunTypes
<1>5. phase \notin Closing BY <1>3, PhaseNames
<1>6. Centred BY <1>3, <1>5 DEF Centred, Open
<1>7. Judged
  <2>1. Len(verdicts) = 0 /\ \A k \in 0 .. stable - 1 : FALSE BY <1>3
  <2> QED BY <1>3, <2>1 DEF Judged
<1>8. Tallied BY <1>3 DEF Tallied, Sampling!Fresh, Sampling!RestartContinues
<1>9. Stored
  <2>1. Prepared \in Directories
    BY <1>2, FileNames DEF Prepared, Directories, FileStates, Clocks, Sampling!NoClock
  <2>2. DOMAIN disk = {0} /\ disk[0] = Prepared BY <1>3
  <2> QED BY <1>1, <2>1, <2>2 DEF Stored
<1>10. Filing BY <1>3, <1>5, PhaseNames DEF Filing, Closing
<1> QED BY <1>4, <1>6, <1>7, <1>8, <1>9, <1>10 DEF SampleInv

LEMMA EndsKeeps ==
  ASSUME Sampling!RunAssumption, SampleInv, Sampling!Ends, Stored'
  PROVE  SampleInv'
<1>1. EndLabel \in Nat /\ WindowSamples \in Nat BY DEF Sampling!RunAssumption
<1>2. Sampling!Fresh \in Contents BY DEF Sampling!Fresh, Contents
<1>3. /\ phase' = "down" /\ label' = 0 /\ state' = Sampling!Fresh
      /\ controls' = [boundary |-> 0, dt |-> 0, given |-> FALSE]
      /\ totals' = [samples |-> 0, time |-> 0] /\ window' = [samples |-> 0, number |-> 0]
      /\ stable' = 0 /\ sum' = {} /\ scratch' = -1 /\ mean' = {} /\ verdicts' = <<>>
      /\ converged' = FALSE
  BY DEF Sampling!Ends
<1>4. RunTypes'
  <2>1. window' \in [samples : 0 .. WindowSamples, number : Nat] BY <1>1, <1>3
  <2>2. controls' \in [boundary : Nat, dt : Nat, given : BOOLEAN] BY <1>3
  <2>3. totals' \in [samples : Nat, time : Nat] BY <1>3
  <2>4. verdicts' \in Seq(Verdicts) /\ sum' \in SUBSET Int /\ mean' \in SUBSET Int BY <1>3
  <2>5. label' \in 0 .. EndLabel BY <1>1, <1>3
  <2>9. state' \in Contents BY <1>2, <1>3
  <2>10. scratch' \in Int BY <1>3
  <2>6. state' \in Contents /\ scratch' \in Int /\ stable' \in Nat /\ converged' \in BOOLEAN
    BY <1>3, <2>9, <2>10
  <2>7. phase' \in {"down", "advance", "accumulate", "window"} \union Closing BY <1>3
  <2>8. Closing' = Closing BY DEF Closing, Sampling!FileSet, Sampling!Files
  <2> QED BY <2>1, <2>2, <2>3, <2>4, <2>5, <2>6, <2>7, <2>8 DEF RunTypes
<1>5. phase' \notin Closing BY <1>3, PhaseNames
<1>6. Centred' BY <1>3, <1>5 DEF Centred, Open
<1>7. Judged'
  <2>1. Len(verdicts') = 0 /\ \A k \in 0 .. stable' - 1 : FALSE BY <1>3
  <2> QED BY <1>3, <2>1 DEF Judged
<1>8. Tallied' BY <1>3 DEF Tallied, Sampling!Fresh, Sampling!RestartContinues
<1>10. Filing' BY <1>3, <1>5, PhaseNames DEF Filing, Closing
<1> QED BY <1>4, <1>6, <1>7, <1>8, <1>10 DEF SampleInv

\* Steps that write, or do nothing, after a turn's work is done.
LEMMA QuietKeeps ==
  ASSUME Sampling!RunAssumption, SampleInv, UNCHANGED Sampling!run, phase' \in Closing,
         phase \in Closing \/ (phase = "window" /\ window.samples # WindowSamples)
  PROVE  RunTypes' /\ Centred' /\ Judged' /\ Tallied' /\ (phase' \in Closing => label' >= 1)
<1>1. UNCHANGED <<label, state, controls, totals, window, stable, sum, scratch, mean, verdicts,
                  converged>>
  BY DEF Sampling!run
<1>2. RunTypes /\ Centred /\ Judged /\ Tallied /\ Filing BY DEF SampleInv
<1>3. RunTypes' BY <1>1, <1>2 DEF RunTypes
<1>4. phase' \notin {"down", "advance", "accumulate", "window"}
      /\ phase \notin {"down", "advance", "accumulate"}
  BY PhaseNames
<1>5. window.samples \in 0 .. WindowSamples /\ WindowSamples \in Nat
  BY <1>2 DEF RunTypes, Sampling!RunAssumption
<1>6. Centred'
  <2>1. Taken' = Taken /\ Taken = state.samples BY <1>1, <1>4 DEF Taken
  <2>2. Open' => Open BY <1>1, <1>4, <1>5 DEF Open
  <2>3. phase = "window" => window.samples # WindowSamples BY PhaseNames
  <2> QED BY <1>1, <1>2, <1>4, <2>1, <2>2, <2>3 DEF Centred
<1>7. Judged' BY <1>1, <1>2 DEF Judged
<1>8. Tallied'
  <2>1. Taken' = Taken BY <1>1, <1>4 DEF Taken
  <2> QED BY <1>1, <1>2, <1>4, <2>1 DEF Tallied, Sampling!RestartContinues
<1>9. label' >= 1 BY <1>1, <1>2 DEF Filing
<1> QED BY <1>3, <1>6, <1>7, <1>8, <1>9

LEMMA SkipWindowKeeps ==
  ASSUME Sampling!RunAssumption, SampleInv, Sampling!SkipWindow
  PROVE  SampleInv'
<1>1. /\ phase = "window" /\ phase' = "output" /\ window.samples # WindowSamples
      /\ UNCHANGED Sampling!run /\ disk' = disk
  BY DEF Sampling!SkipWindow, Sampling!Goes, Sampling!WindowComplete
<1>2. phase' \in Closing /\ \A i \in 1 .. 6 : phase' # Sampling!Files[i]
  BY <1>1, PhaseNames, FileNames
<1>3. RunTypes' /\ Centred' /\ Judged' /\ Tallied' /\ label' >= 1 BY <1>1, <1>2, QuietKeeps
<1>4. Stored' BY <1>1 DEF SampleInv, Stored
<1>5. Filing' BY <1>2, <1>3 DEF Filing
<1> QED BY <1>3, <1>4, <1>5 DEF SampleInv

LEMMA BeginOutputKeeps ==
  ASSUME Sampling!RunAssumption, SampleInv, Sampling!BeginOutput
  PROVE  SampleInv'
<1> DEFINE d == [files |-> [f \in Sampling!FileSet |->
                              IF f = Sampling!Files[1] THEN "torn" ELSE "absent"],
                 content |-> state,
                 clock |-> [samples |-> totals.samples, time |-> totals.time,
                            boundary |-> controls.boundary, dt |-> controls.dt]]
<1>1. /\ phase = "output" /\ phase' = Sampling!Files[1] /\ disk' = Sampling!Put(disk, label, d)
      /\ UNCHANGED Sampling!run
  BY DEF Sampling!BeginOutput, Sampling!Goes
<1>2. phase \in Closing /\ phase' \in Closing /\ phase # "accumulate" /\ phase \notin {"down", "advance"}
  BY <1>1, PhaseNames, FileNames
<1>3. RunTypes' /\ Centred' /\ Judged' /\ Tallied' /\ label' >= 1 BY <1>1, <1>2, QuietKeeps
<1>4. RunTypes /\ Tallied /\ Stored /\ Filing BY DEF SampleInv
<1>5. label' = label /\ label \in 0 .. EndLabel /\ label >= 1
  BY <1>1, <1>2, <1>4 DEF RunTypes, Filing, Sampling!run
<1>6. d.files[Sampling!Files[1]] = "torn"
      /\ \A j \in 1 .. 6 : j > 1 => d.files[Sampling!Files[j]] = "absent"
  BY PhaseNames
<1>7. d.files["clock"] = "absent" BY <1>6, FileNames
<1>8. d \in Directories
  <2>1. d.clock \in Clocks /\ d.content \in Contents BY <1>4 DEF RunTypes, Clocks
  <2>2. d.files \in [Sampling!FileSet -> FileStates] BY DEF FileStates
  <2> QED BY <2>1, <2>2 DEF Directories
<1>9. Told(d)
  <2>1. /\ state.failed = FALSE /\ controls.dt > 0
        /\ controls.boundary = state.boundary /\ controls.dt = state.dt
        /\ "clock" \notin state.lost =>
             totals.samples = state.samples /\ state.time = totals.time
    BY <1>1, <1>2, <1>4 DEF Tallied, Taken, RunTypes, Contents
  <2>2. /\ d.content = state /\ d.clock.samples = totals.samples /\ d.clock.time = totals.time
        /\ d.clock.boundary = controls.boundary /\ d.clock.dt = controls.dt
    OBVIOUS
  <2> HIDE DEF d
  <2> QED BY <1>7, <2>1, <2>2 DEF Told, Sampling!DirectoryTrue
<1> HIDE DEF d
<1>10. /\ DOMAIN disk' = DOMAIN disk \union {label}
       /\ \A e \in DOMAIN disk' : disk'[e] = IF e = label THEN d ELSE disk[e]
  BY <1>1 DEF Sampling!Put
<1>11. Stored' BY <1>4, <1>5, <1>8, <1>9, <1>10 DEF Stored
<1>12. Filing'
  <2>1. ASSUME NEW i \in 1 .. 6, phase' = Sampling!Files[i] PROVE i = 1
    <3>1. 1 \in 1 .. 6 OBVIOUS
    <3> QED BY <1>1, <2>1, <3>1, PhaseNames
  <2> QED BY <1>3, <1>5, <1>6, <1>10, <2>1 DEF Filing
<1> QED BY <1>3, <1>11, <1>12 DEF SampleInv

\* A file of the directory being written changes its state.
LEMMA FileKeeps ==
  ASSUME Sampling!RunAssumption, SampleInv, NEW i \in 1 .. 6, phase = Sampling!Files[i],
         NEW v \in FileStates, disk' = [disk EXCEPT ![label].files[phase] = v]
  PROVE  /\ Stored'
         /\ label \in DOMAIN disk'
         /\ \A j \in 1 .. 6 :
              disk'[label].files[Sampling!Files[j]] =
                IF j = i THEN v ELSE disk[label].files[Sampling!Files[j]]
<1> DEFINE d == disk[label]
           e == [d EXCEPT !.files[phase] = v]
<1>1. RunTypes /\ Stored /\ Filing BY DEF SampleInv
<1>2. phase \in Closing /\ phase \in Sampling!FileSet BY PhaseNames DEF Closing
<1>3. label \in DOMAIN disk /\ label >= 1 /\ label # 0 BY <1>1, <1>2 DEF Filing, RunTypes
<1>4. d \in Directories /\ Told(d) BY <1>1, <1>3 DEF Stored
<1>5. /\ DOMAIN disk' = DOMAIN disk
      /\ \A x \in DOMAIN disk : disk'[x] = IF x = label THEN e ELSE disk[x]
  BY <1>3
<1>6. /\ \A j \in 1 .. 6 : j < i => d.files[Sampling!Files[j]] \in {"whole", "short"}
      /\ \A j \in 1 .. 6 : j > i => d.files[Sampling!Files[j]] = "absent"
  BY <1>1 DEF Filing
<1> HIDE DEF d
<1>7. /\ e \in Directories /\ e.content = d.content /\ e.clock = d.clock
      /\ \A f \in Sampling!FileSet : e.files[f] = IF f = phase THEN v ELSE d.files[f]
  BY <1>2, <1>4 DEF Directories
<1> HIDE DEF e
<1>8. \A j \in 1 .. 6 : e.files[Sampling!Files[j]] = IF j = i THEN v ELSE d.files[Sampling!Files[j]]
  BY <1>7, PhaseNames
<1>9. ASSUME e.files["clock"] = "whole", NEW f \in Sampling!Mirrors
      PROVE  e.files[f] \in {"whole", "short"}
  <2>1. PICK j \in 1 .. 6 : j \in 2 .. 5 /\ f = Sampling!Files[j]
    <3>1. 2 \in 1 .. 6 /\ 3 \in 1 .. 6 /\ 4 \in 1 .. 6 /\ 5 \in 1 .. 6 OBVIOUS
    <3> QED BY <3>1, FileNames
  <2>2. CASE i > 5
    <3>1. \A k \in 1 .. 6 : k \in 2 .. 5 =>
            e.files[Sampling!Files[k]] = d.files[Sampling!Files[k]]
      BY <1>8, <2>2
    <3>2. 5 \in 1 .. 6 /\ 5 \in 2 .. 5 OBVIOUS
    <3>3. d.files["clock"] = "whole" BY <1>9, <3>1, <3>2, FileNames
    <3>4. d.files[f] \in {"whole", "short"} BY <1>4, <3>3 DEF Told, Sampling!DirectoryTrue
    <3> QED BY <2>1, <3>1, <3>4
  <2>3. CASE i = 5
    <3>1. CASE j = 5
      <4>1. f = "clock" BY <2>1, <3>1, FileNames
      <4> QED BY <1>9, <4>1
    <3>2. CASE j # 5
      <4>1. j < i /\ j # i BY <2>1, <2>3, <3>2
      <4> QED BY <1>6, <1>8, <2>1, <4>1
    <3> QED BY <3>1, <3>2
  <2>4. CASE i < 5
    <3>1. 5 \in 1 .. 6 /\ 5 > i /\ 5 # i BY <2>4
    <3>2. e.files["clock"] = "absent" BY <1>6, <1>8, <3>1, FileNames
    <3> QED BY <1>9, <3>2
  <2> QED BY <2>2, <2>3, <2>4
<1>10. Told(e) BY <1>4, <1>7, <1>9 DEF Told, Sampling!DirectoryTrue
<1>11. Stored' BY <1>1, <1>3, <1>5, <1>7, <1>10 DEF Stored
<1>12. disk'[label] = e BY <1>3, <1>5
<1> QED BY <1>3, <1>5, <1>8, <1>11, <1>12 DEF d

LEMMA OpenFileKeeps ==
  ASSUME Sampling!RunAssumption, SampleInv, Sampling!OpenFile
  PROVE  SampleInv'
<1>1. /\ phase \in Sampling!FileSet /\ disk' = [disk EXCEPT ![label].files[phase] = "torn"]
      /\ phase' = phase /\ UNCHANGED Sampling!run
  BY DEF Sampling!OpenFile
<1>2. PICK i \in 1 .. 6 : phase = Sampling!Files[i]
  <2>1. 1 \in 1 .. 6 /\ 2 \in 1 .. 6 /\ 3 \in 1 .. 6 /\ 4 \in 1 .. 6 /\ 5 \in 1 .. 6 /\ 6 \in 1 .. 6
    OBVIOUS
  <2> QED BY <1>1, <2>1, FileNames
<1>3. /\ Stored' /\ label \in DOMAIN disk'
      /\ \A j \in 1 .. 6 :
           disk'[label].files[Sampling!Files[j]] =
             IF j = i THEN "torn" ELSE disk[label].files[Sampling!Files[j]]
  BY <1>1, <1>2, FileKeeps DEF FileStates
<1>4. phase \in Closing /\ phase' \in Closing BY <1>1 DEF Closing
<1>5. RunTypes' /\ Centred' /\ Judged' /\ Tallied' /\ label' >= 1 BY <1>1, <1>4, QuietKeeps
<1>6. label' = label BY <1>1 DEF Sampling!run
<1>7. Filing'
  <2>1. \A k \in 1 .. 6 : phase' = Sampling!Files[k] => k = i BY <1>1, <1>2, PhaseNames
  <2>2. \A j \in 1 .. 6 :
          /\ j < i => disk[label].files[Sampling!Files[j]] \in {"whole", "short"}
          /\ j > i => disk[label].files[Sampling!Files[j]] = "absent"
    BY <1>2 DEF SampleInv, Filing
  <2>3. \A j \in 1 .. 6 :
          /\ j < i => disk'[label].files[Sampling!Files[j]] \in {"whole", "short"}
          /\ j > i => disk'[label].files[Sampling!Files[j]] = "absent"
    BY <1>3, <2>2
  <2> QED BY <1>3, <1>5, <1>6, <2>1, <2>3 DEF Filing
<1> QED BY <1>3, <1>5, <1>7 DEF SampleInv

\* The files up to the one that is finished or cut short are done with.
LEMMA NextFileKeeps ==
  ASSUME Sampling!RunAssumption, SampleInv, NEW i \in 1 .. 6, phase = Sampling!Files[i],
         phase' = Sampling!After(i), NEW v \in {"whole", "short"},
         disk' = [disk EXCEPT ![label].files[phase] = v], UNCHANGED Sampling!run
  PROVE  SampleInv'
<1>1. /\ Stored' /\ label \in DOMAIN disk'
      /\ \A j \in 1 .. 6 :
           disk'[label].files[Sampling!Files[j]] =
             IF j = i THEN v ELSE disk[label].files[Sampling!Files[j]]
  <2>1. v \in FileStates BY DEF FileStates
  <2> QED BY <2>1, FileKeeps
<1>2. phase' = "next" \/ (i < 6 /\ phase' = Sampling!Files[i + 1])
  <2>1. Len(Sampling!Files) = 6 BY DEF Sampling!Files
  <2> QED BY <2>1 DEF Sampling!After
<1>3. phase \in Closing /\ phase' \in Closing
  <2>1. i < 6 => i + 1 \in 1 .. 6 OBVIOUS
  <2> QED BY <1>2, <2>1, PhaseNames DEF Closing
<1>4. RunTypes' /\ Centred' /\ Judged' /\ Tallied' /\ label' >= 1 BY <1>3, QuietKeeps
<1>5. label' = label BY DEF Sampling!run
<1>6. Filing'
  <2>1. \A k \in 1 .. 6 : Sampling!Files[k] # "next"
    <3>1. "next" \notin Sampling!FileSet BY FileNames
    <3> QED BY <3>1, PhaseNames
  <2>2. ASSUME NEW k \in 1 .. 6, phase' = Sampling!Files[k] PROVE k = i + 1
    <3>1. i < 6 /\ phase' = Sampling!Files[i + 1] BY <1>2, <2>1, <2>2
    <3>2. i + 1 \in 1 .. 6 BY <3>1
    <3> QED BY <2>2, <3>1, <3>2, PhaseNames
  <2>3. \A j \in 1 .. 6 :
          /\ j < i => disk[label].files[Sampling!Files[j]] \in {"whole", "short"}
          /\ j > i => disk[label].files[Sampling!Files[j]] = "absent"
    BY DEF SampleInv, Filing
  <2>4. ASSUME NEW j \in 1 .. 6
        PROVE  /\ j < i + 1 => disk'[label].files[Sampling!Files[j]] \in {"whole", "short"}
               /\ j > i + 1 => disk'[label].files[Sampling!Files[j]] = "absent"
    <3>1. (j < i + 1 => j = i \/ j < i) /\ (j > i + 1 => j > i /\ j # i) OBVIOUS
    <3>2. CASE j = i BY <1>1, <3>1, <3>2
    <3>3. CASE j # i BY <1>1, <2>3, <3>1, <3>3
    <3> QED BY <3>2, <3>3
  <2> QED BY <1>1, <1>4, <1>5, <2>2, <2>4 DEF Filing
<1> QED BY <1>1, <1>4, <1>6 DEF SampleInv

LEMMA ShortWriteKeeps ==
  ASSUME Sampling!RunAssumption, SampleInv, NEW i \in 1 .. 6, Sampling!ShortWrite(i)
  PROVE  SampleInv'
<1>1. /\ phase = Sampling!Files[i]
      /\ disk' = [disk EXCEPT ![label].files[phase] = "short"]
      /\ IF phase = "parcels" THEN Sampling!Ends
                              ELSE phase' = Sampling!After(i) /\ UNCHANGED Sampling!run
  BY DEF Sampling!ShortWrite
<1>2. CASE phase = "parcels"
  <2>1. Stored' BY <1>1, FileKeeps DEF FileStates
  <2> QED BY <1>1, <1>2, <2>1, EndsKeeps
<1>3. CASE phase # "parcels" BY <1>1, <1>3, NextFileKeeps
<1> QED BY <1>2, <1>3

LEMMA FinishFileKeeps ==
  ASSUME Sampling!RunAssumption, SampleInv, NEW i \in 1 .. 6, Sampling!FinishFile(i)
  PROVE  SampleInv'
BY NextFileKeeps DEF Sampling!FinishFile, Sampling!Goes

LEMMA NextTurnKeeps ==
  ASSUME Sampling!RunAssumption, SampleInv, Sampling!NextTurn
  PROVE  SampleInv'
<1> DEFINE complete == window.samples = WindowSamples
<1>1. /\ phase \in {"output", "next"}
      /\ phase' \in {"advance", "down"} /\ (phase' = "advance" => label < EndLabel /\ ~converged)
      /\ IF complete /\ ~converged
           THEN /\ window' = [window EXCEPT !.samples = 0]
                /\ sum' = {} /\ scratch' = state.samples
           ELSE UNCHANGED <<window, sum, scratch>>
      /\ UNCHANGED <<label, state, controls, totals, stable, mean, verdicts, converged, disk>>
  BY DEF Sampling!NextTurn, Sampling!Goes, Sampling!Due, Sampling!Running, Sampling!WindowComplete
<1>2. RunTypes /\ Centred /\ Judged /\ Tallied /\ Stored BY DEF SampleInv
<1>3. /\ phase \in Closing /\ phase \notin {"down", "advance", "accumulate", "window"}
      /\ phase' \notin Closing \union {"window", "accumulate"}
  BY <1>1, PhaseNames
<1>4. WindowSamples \in Nat \ {0} BY DEF Sampling!RunAssumption
<1>5. /\ window.samples \in 0 .. WindowSamples /\ window.number \in Nat
      /\ state \in Contents /\ state.samples \in Nat
  BY <1>2 DEF RunTypes, Contents
<1>6. window' \in [samples : 0 .. WindowSamples, number : Nat] /\ window'.number = window.number
  <2>1. window \in [samples : 0 .. WindowSamples, number : Nat] BY <1>2 DEF RunTypes
  <2>2. 0 \in 0 .. WindowSamples BY <1>4
  <2> QED BY <1>1, <2>1, <2>2
<1>7. RunTypes'
  <2>1. sum' \in SUBSET Int /\ scratch' \in Int BY <1>1, <1>2, <1>5 DEF RunTypes
  <2>2. phase' \in {"down", "advance", "accumulate", "window"} BY <1>1
  <2> QED BY <1>1, <1>2, <1>6, <2>1, <2>2 DEF RunTypes
<1>8. Centred'
  <2>1. CASE phase' = "down" BY <1>3, <2>1 DEF Centred, Open
  <2>2. CASE phase' = "advance"
    <3>1. label' = label /\ label < EndLabel /\ ~converged BY <1>1, <2>2
    <3>2. Taken' = state.samples BY <1>1, <2>2 DEF Taken
    <3>3. CASE complete
      <4>1. window'.samples = 0 /\ sum' = {} /\ scratch' = state.samples /\ mean' = mean
        BY <1>1, <1>2, <3>1, <3>3 DEF RunTypes
      <4>2. mean = state.samples - WindowSamples + 1 .. state.samples
        BY <1>2, <1>3, <3>1, <3>3 DEF Centred
      <4>3. state.samples + 1 .. state.samples = {} /\ state.samples - 0 = state.samples BY <1>5
      <4>4. window'.samples < WindowSamples BY <1>4, <4>1
      <4> QED BY <1>3, <3>1, <3>2, <4>1, <4>2, <4>3, <4>4 DEF Centred
    <3>4. CASE ~complete
      <4>1. window' = window /\ sum' = sum /\ scratch' = scratch /\ mean' = mean BY <1>1, <3>4
      <4>2. window.samples < WindowSamples BY <1>4, <1>5, <3>4
      <4>3. Open /\ Taken = state.samples BY <1>3, <3>1, <4>2 DEF Open, Taken
      <4> QED BY <1>2, <1>3, <3>1, <3>2, <4>1, <4>2, <4>3 DEF Centred
    <3> QED BY <3>3, <3>4
  <2> QED BY <1>1, <2>1, <2>2
<1> HIDE DEF complete
<1>9. Judged' BY <1>1, <1>2, <1>6 DEF Judged
<1>10. Tallied'
  <2>1. ~state.failed BY <1>2, <1>3 DEF Tallied
  <2>2. Taken' = Taken BY <1>1, <1>3 DEF Taken
  <2>3. phase' \in {"down", "advance"} /\ phase' # "accumulate" BY <1>1
  <2> QED BY <1>1, <1>2, <1>3, <2>1, <2>2, <2>3 DEF Tallied, Sampling!RestartContinues
<1>11. Stored' BY <1>1, <1>2 DEF Stored
<1>12. Filing'
  <2>1. \A i \in 1 .. 6 : phase' # Sampling!Files[i] BY <1>3, PhaseNames DEF Closing
  <2> QED BY <1>3, <2>1 DEF Filing
<1> QED BY <1>7, <1>8, <1>9, <1>10, <1>11, <1>12 DEF SampleInv

LEMMA JudgeWindowKeeps ==
  ASSUME Sampling!RunAssumption, SampleInv, NEW still \in BOOLEAN, Sampling!JudgeWindow(still)
  PROVE  SampleInv'
<1> DEFINE number == window.number + 1
           stationary == Sampling!Stationary(number, still)
           v == [of |-> sum, before |-> mean, stationary |-> stationary]
<1>1. /\ window.samples = WindowSamples \/ ~(label < EndLabel)
      /\ phase = "window" /\ phase' = "output"
      /\ window' = [window EXCEPT !.number = number]
      /\ mean' = sum /\ scratch' = -1 /\ verdicts' = Append(verdicts, v)
      /\ stable' = IF stationary THEN stable + 1 ELSE 0
      /\ converged' = (stable' >= Sampling!AtLeast(1, StableWindows))
      /\ UNCHANGED <<label, state, controls, totals, sum, disk>>
  BY DEF Sampling!JudgeWindow, Sampling!Goes, Sampling!WindowComplete, Sampling!Running
<1>2. RunTypes /\ Centred /\ Judged /\ Tallied /\ Stored /\ Filing BY DEF SampleInv
<1>3. WindowSamples \in Nat \ {0} /\ MinimumWindows \in Int /\ StableWindows \in Int
  BY DEF Sampling!RunAssumption
<1>4. /\ window.samples \in 0 .. WindowSamples /\ window.number \in Nat
      /\ state \in Contents /\ state.samples \in Nat
      /\ verdicts \in Seq(Verdicts) /\ stable \in Nat
      /\ sum \in SUBSET Int /\ mean \in SUBSET Int
  BY <1>2 DEF RunTypes, Contents
<1>5. number \in Nat /\ number = window.number + 1 BY <1>4
<1>6. /\ stationary \in BOOLEAN
      /\ stationary => number >= Sampling!AtLeast(2, MinimumWindows) /\ window.samples = WindowSamples
  BY DEF Sampling!Stationary, Sampling!WindowComplete
<1>7. /\ Open /\ Taken = state.samples
      /\ scratch = state.samples - window.samples /\ sum = scratch + 1 .. state.samples
      /\ window.number >= 1 => mean = scratch - WindowSamples + 1 .. scratch
  BY <1>1, <1>2 DEF Centred, Open, Taken
<1> HIDE DEF number, stationary
<1>8. v \in Verdicts BY <1>4, <1>6 DEF Verdicts
<1>9. v.of = sum /\ v.before = mean /\ v.stationary = stationary OBVIOUS
<1> HIDE DEF v
<1>10. /\ phase' \in Closing /\ phase' \notin {"down", "advance", "accumulate", "window"}
       /\ \A i \in 1 .. 6 : phase' # Sampling!Files[i]
  BY <1>1, PhaseNames, FileNames
<1>11. window'.number = number /\ window'.samples = window.samples
       /\ window' \in [samples : 0 .. WindowSamples, number : Nat]
  BY <1>1, <1>2, <1>5 DEF RunTypes
<1>12. stable' \in Nat BY <1>1, <1>4, <1>6
<1>13. RunTypes'
  <2>1. verdicts' \in Seq(Verdicts) BY <1>1, <1>4, <1>8
  <2>2. scratch' \in Int BY <1>1
  <2>3. converged' \in BOOLEAN BY <1>1
  <2> QED BY <1>1, <1>2, <1>4, <1>10, <1>11, <1>12, <2>1, <2>2, <2>3 DEF RunTypes
<1>14. Centred'
  <2>1. ~Open' BY <1>1, <1>10, <1>11 DEF Open
  <2>2. window.samples = WindowSamples => mean' = state.samples - WindowSamples + 1 .. state.samples
    BY <1>1, <1>7
  <2> QED BY <1>1, <1>10, <1>11, <2>1, <2>2 DEF Centred
<1>15. stationary => Sampling!ComparedWithNeighbour(v)
  <2> SUFFICES ASSUME stationary PROVE Sampling!ComparedWithNeighbour(v) OBVIOUS
  <2>1. window.number >= 1
    <3>1. Sampling!AtLeast(2, MinimumWindows) >= 2 /\ Sampling!AtLeast(2, MinimumWindows) \in Int
      BY <1>3, PairMax
    <3> QED BY <1>4, <1>5, <1>6, <3>1
  <2> DEFINE c == scratch
  <2>2. c \in Int /\ c = state.samples - WindowSamples BY <1>4, <1>6, <1>7, <1>3
  <2>3. v.of = c + 1 .. c + WindowSamples /\ v.before = c - WindowSamples + 1 .. c
    BY <1>3, <1>4, <1>7, <1>9, <2>1, <2>2
  <2> HIDE DEF c
  <2>4. /\ Sampling!Min(v.of) = c + 1 /\ Sampling!Max(v.of) = c + WindowSamples
        /\ Sampling!Min(v.before) = c - WindowSamples + 1 /\ Sampling!Max(v.before) = c
    <3>1. /\ c + 1 \in Int /\ c + WindowSamples \in Int /\ c - WindowSamples + 1 \in Int
          /\ c + 1 =< c + WindowSamples /\ c - WindowSamples + 1 =< c
      BY <1>3, <2>2
    <3> QED BY <2>2, <2>3, <3>1, OfInterval
  <2>5. v.of # {} /\ v.before # {}
    <3>1. c + 1 \in c + 1 .. c + WindowSamples /\ c \in c - WindowSamples + 1 .. c BY <1>3, <2>2
    <3> QED BY <2>3, <3>1
  <2>6. (c + 1) + WindowSamples - 1 = c + WindowSamples
        /\ (c - WindowSamples + 1) + WindowSamples - 1 = c
    BY <1>3, <2>2
  <2> QED BY <2>3, <2>4, <2>5, <2>6 DEF Sampling!ComparedWithNeighbour, Sampling!IsWindow
<1>16. Judged'
  <2> DEFINE n == Len(verdicts)
  <2>1. /\ Len(verdicts') = n + 1 /\ n \in Nat
        /\ \A i \in 1 .. n : verdicts'[i] = verdicts[i]
        /\ verdicts'[n + 1] = v
    BY <1>1, <1>4, <1>8
  <2>2. /\ window.number = n /\ stable =< n
        /\ \A k \in 0 .. stable - 1 : verdicts[n - k].stationary
        /\ \A i \in 1 .. n : verdicts[i].stationary => Sampling!ComparedWithNeighbour(verdicts[i])
    BY <1>2 DEF Judged
  <2> HIDE DEF n
  <2>3. window'.number = Len(verdicts') BY <1>5, <1>11, <2>1, <2>2
  <2>4. stable' =< Len(verdicts') BY <1>1, <1>4, <1>6, <2>1, <2>2
  <2>5. ASSUME NEW k \in 0 .. stable' - 1 PROVE verdicts'[Len(verdicts') - k].stationary
    <3>1. stationary /\ stable' = stable + 1 BY <1>1, <1>6, <2>5
    <3>2. CASE k = 0
      <4>1. Len(verdicts') - k = n + 1 BY <2>1, <3>2
      <4> QED BY <1>9, <2>1, <3>1, <4>1
    <3>3. CASE k # 0
      <4>1. k - 1 \in 0 .. stable - 1 /\ Len(verdicts') - k = n - (k - 1)
            /\ n - (k - 1) \in 1 .. n
        BY <1>4, <2>1, <2>2, <3>1, <3>3
      <4>2. verdicts[n - (k - 1)].stationary BY <2>2, <4>1
      <4> QED BY <2>1, <4>1, <4>2
    <3> QED BY <3>2, <3>3
  <2>6. ASSUME NEW i \in 1 .. Len(verdicts'), verdicts'[i].stationary
        PROVE  Sampling!ComparedWithNeighbour(verdicts'[i])
    <3>1. CASE i = n + 1 BY <1>9, <1>15, <2>1, <2>6, <3>1
    <3>2. CASE i # n + 1
      <4>1. i \in 1 .. n BY <2>1, <3>2
      <4> QED BY <2>1, <2>2, <2>6, <4>1
    <3> QED BY <3>1, <3>2
  <2>7. stable' > 0 => Len(verdicts') >= Sampling!AtLeast(2, MinimumWindows)
    BY <1>1, <1>5, <1>6, <2>1, <2>2
  <2> QED BY <1>1, <2>3, <2>4, <2>5, <2>6, <2>7 DEF Judged
<1>17. Tallied'
  <2>1. Taken' = Taken BY <1>1, <1>7, <1>10 DEF Taken
  <2> QED BY <1>1, <1>2, <1>10, <2>1 DEF Tallied, Sampling!RestartContinues
<1>18. Stored' BY <1>1, <1>2 DEF Stored
<1>19. Filing' BY <1>1, <1>2, <1>10 DEF Filing
<1> QED BY <1>13, <1>14, <1>16, <1>17, <1>18, <1>19 DEF SampleInv

LEMMA AccumulateKeeps ==
  ASSUME Sampling!RunAssumption, SampleInv, Sampling!Accumulate
  PROVE  SampleInv'
<1>1. phase = "accumulate" /\ disk' = disk BY DEF Sampling!Accumulate
<1>2. RunTypes /\ Centred /\ Judged /\ Tallied /\ Stored /\ Filing BY DEF SampleInv
<1>3. Stored' BY <1>1, <1>2 DEF Stored
<1>4. CASE Sampling!SeesFailure
  <2>1. Sampling!Ends BY <1>4 DEF Sampling!Accumulate
  <2> QED BY <1>3, <2>1, EndsKeeps
<1>5. CASE ~Sampling!SeesFailure
  <2>1. /\ phase' = "window" /\ sum' = sum \union {state.samples}
        /\ totals' = [samples |-> totals.samples + 1, time |-> totals.time + controls.dt]
        /\ window' = [window EXCEPT !.samples = @ + 1]
        /\ label' = label + 1 /\ ~state.failed
        /\ UNCHANGED <<state, controls, stable, scratch, mean, verdicts, converged>>
    BY <1>5 DEF Sampling!Accumulate, Sampling!SeesFailure
  <2>2. /\ phase' \notin Closing /\ phase' \notin {"down", "advance", "accumulate"}
        /\ phase' \in {"down", "advance", "accumulate", "window"}
    BY <2>1, PhaseNames
  <2>11. \A i \in 1 .. 6 : phase' # Sampling!Files[i] BY <2>2, PhaseNames DEF Closing
  <2>3. /\ WindowSamples \in Nat \ {0} /\ EndLabel \in Nat /\ label \in 0 .. EndLabel
        /\ window.samples \in 0 .. WindowSamples /\ window.number \in Nat
        /\ window.samples < WindowSamples /\ label < EndLabel
        /\ state.samples \in Nat /\ state.time \in Nat
        /\ totals.samples \in Nat /\ totals.time \in Nat /\ controls.dt \in Nat
    BY <1>1, <1>2 DEF RunTypes, Contents, Centred, Sampling!RunAssumption
  <2>4. /\ window'.samples = window.samples + 1 /\ window'.number = window.number
        /\ window' \in [samples : 0 .. WindowSamples, number : Nat]
    <3>1. window \in [samples : 0 .. WindowSamples, number : Nat] BY <1>2 DEF RunTypes
    <3>2. window.samples + 1 \in 0 .. WindowSamples BY <2>3
    <3> QED BY <2>1, <3>1, <3>2
  <2>5. RunTypes'
    <3>1. label' \in 0 .. EndLabel BY <2>1, <2>3
    <3>2. sum' \in SUBSET Int BY <1>2, <2>1, <2>3 DEF RunTypes
    <3>3. totals' \in [samples : Nat, time : Nat] BY <2>1, <2>3
    <3> QED BY <1>2, <2>1, <2>2, <2>4, <3>1, <3>2, <3>3 DEF RunTypes
  <2>6. Taken = state.samples - 1 /\ Taken' = state.samples BY <1>1, <2>1 DEF Taken
  <2>7. Centred'
    <3>1. /\ scratch = Taken - window.samples /\ sum = scratch + 1 .. Taken
          /\ window.number >= 1 => mean = scratch - WindowSamples + 1 .. scratch
      BY <1>1, <1>2 DEF Centred, Open
    <3>2. scratch \in Int BY <1>2 DEF RunTypes
    <3>3. scratch' = Taken' - window'.samples
      <4>1. state.samples - 1 - window.samples = state.samples - (window.samples + 1) BY <2>3
      <4>2. scratch' = state.samples - 1 - window.samples BY <2>1, <2>6, <3>1
      <4> QED BY <2>4, <2>6, <4>1, <4>2
    <3>4. sum' = scratch' + 1 .. Taken'
      <4>1. scratch + 1 =< state.samples BY <2>3, <2>6, <3>1
      <4>2. (scratch + 1 .. state.samples - 1) \union {state.samples} = scratch + 1 .. state.samples
        BY <2>3, <3>2, <4>1
      <4> QED BY <2>1, <2>6, <3>1, <4>2
    <3>5. window'.number >= 1 => mean' = scratch' - WindowSamples + 1 .. scratch'
      BY <2>1, <2>4, <3>1
    <3> QED BY <2>2, <3>3, <3>4, <3>5 DEF Centred
  <2>8. Judged' BY <1>2, <2>1, <2>4 DEF Judged
  <2>9. Tallied' BY <1>1, <1>2, <2>1, <2>2, <2>3, <2>6 DEF Tallied, Sampling!RestartContinues
  <2>10. Filing'
    <3>1. label' >= 1 BY <2>1, <2>3
    <3> QED BY <2>2, <2>11, <3>1 DEF Filing
  <2> QED BY <1>3, <2>5, <2>7, <2>8, <2>9, <2>10 DEF SampleInv
<1> QED BY <1>4, <1>5

LEMMA AdvanceOneStepKeeps ==
  ASSUME Sampling!RunAssumption, SampleInv, NEW fails \in BOOLEAN,
         Sampling!AdvanceOneStep(fails)
  PROVE  SampleInv'
<1>1. /\ phase = "advance" /\ phase' = "accumulate"
      /\ state' = [state EXCEPT !.samples = @ + 1, !.time = @ + controls.dt,
                                !.boundary = controls.boundary, !.dt = controls.dt,
                                !.failed = fails]
      /\ UNCHANGED <<label, controls, totals, window, stable, sum, scratch, mean, verdicts,
                     converged, disk>>
  BY DEF Sampling!AdvanceOneStep, Sampling!Goes
<1>2. RunTypes /\ Centred /\ Judged /\ Tallied /\ Stored BY DEF SampleInv
<1>3. /\ state \in Contents /\ state.samples \in Nat /\ state.time \in Nat
      /\ controls.dt \in Nat /\ controls.boundary \in Nat
  BY <1>2 DEF RunTypes, Contents
<1>4. /\ state'.samples = state.samples + 1 /\ state'.time = state.time + controls.dt
      /\ state'.boundary = controls.boundary /\ state'.dt = controls.dt
      /\ state'.lost = state.lost /\ state' \in Contents
  <2>1. state = [samples |-> state.samples, time |-> state.time, boundary |-> state.boundary,
                 dt |-> state.dt, failed |-> state.failed, lost |-> state.lost]
    BY <1>3 DEF Contents
  <2>2. state' = [samples |-> state.samples + 1, time |-> state.time + controls.dt,
                  boundary |-> controls.boundary, dt |-> controls.dt, failed |-> fails,
                  lost |-> state.lost]
    BY <1>1, <2>1
  <2>3. state.lost \in SUBSET Sampling!Mirrors BY <1>3 DEF Contents
  <2>4. state.samples + 1 \in Nat /\ state.time + controls.dt \in Nat BY <1>3
  <2>5. state' \in Contents BY <1>3, <2>2, <2>3, <2>4 DEF Contents
  <2> QED BY <2>2, <2>5
<1>5. phase' \notin Closing \union {"window", "down", "advance"} BY <1>1, PhaseNames
<1>13. \A i \in 1 .. 6 : phase' # Sampling!Files[i] BY <1>5, PhaseNames DEF Closing
<1>6. RunTypes'
  <2>1. phase' \in {"down", "advance", "accumulate", "window"} BY <1>1
  <2> QED BY <1>1, <1>2, <1>4, <2>1 DEF RunTypes
<1>7. Taken = state.samples /\ Taken' = state.samples BY <1>1, <1>3, <1>4 DEF Taken
<1>8. Centred' BY <1>1, <1>2, <1>5, <1>7 DEF Centred, Open
<1>9. Judged' BY <1>1, <1>2 DEF Judged
<1>10. Tallied' BY <1>1, <1>2, <1>4, <1>5, <1>7 DEF Tallied, Sampling!RestartContinues
<1>11. Stored' BY <1>1, <1>2 DEF Stored
<1>12. Filing' BY <1>5, <1>13 DEF Filing
<1> QED BY <1>6, <1>8, <1>9, <1>10, <1>11, <1>12 DEF SampleInv

LEMMA RestartKeeps ==
  ASSUME Sampling!RunAssumption, SampleInv,
         NEW given \in BOOLEAN, NEW boundary \in Boundaries, NEW deltaT \in Steps,
         NEW n \in 0 .. 3, NEW p \in BOOLEAN, NEW r \in BOOLEAN,
         Sampling!Restart(given, boundary, deltaT, n, p, r)
  PROVE  SampleInv'
<1> DEFINE d == Sampling!Latest
           clock == Sampling!ClockRead(d, n)
           dt == IF clock.dt > 0 /\ ~given THEN clock.dt ELSE deltaT
           lost == disk[d].content.lost \union Sampling!LostBy(d)
<1>1. /\ phase' = "advance" /\ label' = d /\ d < EndLabel
      /\ state' = [disk[d].content EXCEPT !.lost = lost]
      /\ controls' = [boundary |-> IF given THEN boundary ELSE clock.boundary,
                      dt |-> dt, given |-> given]
      /\ totals' = [samples |-> clock.samples, time |-> clock.time]
      /\ window' = [samples |-> 0, number |-> 0] /\ stable' = 0
      /\ sum' = {} /\ scratch' = state'.samples /\ mean' = {} /\ verdicts' = <<>>
      /\ ~converged /\ converged' = converged /\ disk' = disk
  BY DEF Sampling!Restart
<1>2. RunTypes /\ Stored BY DEF SampleInv
<1>3. d \in DOMAIN disk /\ d \in 0 .. EndLabel BY <1>2, LatestThere
<1> HIDE DEF d
<1>4. /\ boundary \in Nat /\ deltaT \in Nat /\ deltaT > 0
      /\ WindowSamples \in Nat \ {0} /\ EndLabel \in Nat
  <2>1. WindowSamples \in Nat \ {0} /\ EndLabel \in Nat BY DEF Sampling!RunAssumption
  <2>2. Boundaries \subseteq Nat /\ Steps \subseteq Nat \ {0} BY DEF Sampling!RunAssumption
  <2>3. boundary \in Nat /\ deltaT \in Nat \ {0} BY <2>2
  <2>4. deltaT > 0 BY <2>3
  <2> QED BY <2>1, <2>3, <2>4
<1>5. disk[d] \in Directories BY <1>2, <1>3 DEF Stored
<1>6. disk[d].content \in Contents /\ disk[d].clock \in Clocks BY <1>5 DEF Directories
<1>7. clock \in Clocks
  <2>1. Sampling!NoClock \in Clocks BY DEF Clocks, Sampling!NoClock
  <2> QED BY <1>6, <2>1 DEF Sampling!ClockRead, Clocks
<1>8. disk[d].files["clock"] = "whole" => clock = disk[d].clock BY DEF Sampling!ClockRead
<1>9. d = 0 => clock = Sampling!NoClock /\ disk[d].content = Sampling!Fresh
  <2> SUFFICES ASSUME d = 0
               PROVE  clock = Sampling!NoClock /\ disk[d].content = Sampling!Fresh
    OBVIOUS
  <2>1. disk[d] = Prepared BY <1>2 DEF Stored
  <2>2. disk[d].files["clock"] = "absent" BY <2>1, FileNames DEF Prepared
  <2> QED BY <2>1, <2>2 DEF Prepared, Sampling!ClockRead
<1>10. d # 0 => Told(disk[d]) BY <1>2, <1>3 DEF Stored
<1>11. lost \in SUBSET Sampling!Mirrors BY <1>6 DEF Contents, Sampling!LostBy
<1>12. d # 0 /\ "clock" \notin lost =>
         disk[d].files["clock"] = "whole" /\ "clock" \notin disk[d].content.lost
  BY FileNames DEF Sampling!LostBy
<1> HIDE DEF clock, lost
<1>13. dt \in Nat /\ dt > 0 /\ (~given /\ clock.dt > 0 => dt = clock.dt)
  <2>1. clock.dt \in Nat BY <1>7 DEF Clocks
  <2> QED BY <1>4, <2>1
<1> HIDE DEF dt
<1>14. /\ state' \in Contents /\ state'.samples = disk[d].content.samples
       /\ state'.time = disk[d].content.time /\ state'.boundary = disk[d].content.boundary
       /\ state'.dt = disk[d].content.dt /\ state'.failed = disk[d].content.failed
       /\ state'.lost = lost
  <2> DEFINE c == disk[d].content
  <2>1. c = [samples |-> c.samples, time |-> c.time, boundary |-> c.boundary,
             dt |-> c.dt, failed |-> c.failed, lost |-> c.lost]
    BY <1>6 DEF Contents
  <2>2. state' = [samples |-> c.samples, time |-> c.time, boundary |-> c.boundary,
                  dt |-> c.dt, failed |-> c.failed, lost |-> lost]
    BY <1>1, <2>1
  <2>3. c.samples \in Nat /\ c.time \in Nat /\ c.boundary \in Nat /\ c.dt \in Nat
        /\ c.failed \in BOOLEAN
    BY <1>6 DEF Contents
  <2> HIDE DEF c
  <2>4. state' \in Contents BY <1>11, <2>2, <2>3 DEF Contents
  <2>5. c = disk[d].content BY DEF c
  <2> QED BY <2>2, <2>4, <2>5
<1>15. state'.samples \in Nat BY <1>14 DEF Contents
<1>16. /\ phase' \notin Closing /\ phase' \notin {"down", "accumulate", "window"}
       /\ phase' \in {"down", "advance", "accumulate", "window"}
  BY <1>1, PhaseNames
<1>17. \A i \in 1 .. 6 : phase' # Sampling!Files[i] BY <1>16, PhaseNames DEF Closing
<1>18. RunTypes'
  <2>1. window' \in [samples : 0 .. WindowSamples, number : Nat] BY <1>1, <1>4
  <2>2. controls' \in [boundary : Nat, dt : Nat, given : BOOLEAN]
    BY <1>1, <1>4, <1>7, <1>13 DEF Clocks
  <2>3. totals' \in [samples : Nat, time : Nat] BY <1>1, <1>7 DEF Clocks
  <2>4. verdicts' \in Seq(Verdicts) /\ sum' \in SUBSET Int /\ mean' \in SUBSET Int BY <1>1
  <2>5. scratch' \in Int BY <1>1, <1>15
  <2>6. converged' \in BOOLEAN /\ stable' \in Nat BY <1>1, <1>2 DEF RunTypes
  <2>7. label' \in 0 .. EndLabel BY <1>1, <1>3
  <2> QED BY <1>14, <1>16, <2>1, <2>2, <2>3, <2>4, <2>5, <2>6, <2>7 DEF RunTypes
<1>19. Centred'
  <2>1. Taken' = state'.samples BY <1>1 DEF Taken
  <2>2. window'.samples = 0 /\ window'.number = 0 /\ window'.samples < WindowSamples
    BY <1>1, <1>4
  <2>3. scratch' = Taken' - window'.samples BY <1>1, <1>15, <2>1, <2>2
  <2>4. sum' = scratch' + 1 .. Taken' BY <1>1, <1>15, <2>1
  <2>5. label' < EndLabel BY <1>1
  <2> QED BY <1>16, <2>2, <2>3, <2>4, <2>5 DEF Centred
<1>20. Judged'
  <2>1. Len(verdicts') = 0 /\ \A k \in 0 .. stable' - 1 : FALSE BY <1>1
  <2>2. window'.number = 0 BY <1>1
  <2> QED BY <1>1, <2>1, <2>2 DEF Judged
<1>21. Tallied'
  <2>1. ~state'.failed
    BY <1>9, <1>10, <1>14 DEF Told, Sampling!DirectoryTrue, Sampling!Fresh
  <2>2. Taken' = state'.samples BY <1>1 DEF Taken
  <2>3. controls'.dt = dt /\ controls'.given = given
        /\ controls'.boundary = (IF given THEN boundary ELSE clock.boundary)
        /\ totals'.samples = clock.samples /\ totals'.time = clock.time
    BY <1>1
  <2>4. "clock" \notin state'.lost =>
          clock.samples = state'.samples /\ clock.time = state'.time
    BY <1>8, <1>9, <1>10, <1>12, <1>14
       DEF Told, Sampling!DirectoryTrue, Sampling!Fresh, Sampling!NoClock
  <2>5. Sampling!RestartContinues'
    <3> SUFFICES ASSUME state'.samples > 0, ~given, "clock" \notin state'.lost
                 PROVE  controls'.boundary = state'.boundary /\ controls'.dt = state'.dt
      BY <2>3 DEF Sampling!RestartContinues
    <3>1. d # 0 BY <1>9, <1>14 DEF Sampling!Fresh
    <3>2. clock = disk[d].clock /\ Told(disk[d]) BY <1>8, <1>10, <1>12, <1>14, <3>1
    <3>3. clock.boundary = state'.boundary /\ clock.dt = state'.dt /\ clock.dt > 0
      BY <1>14, <3>2 DEF Told
    <3> QED BY <1>13, <2>3, <3>3
  <2> QED BY <1>1, <1>13, <1>16, <2>1, <2>2, <2>3, <2>4, <2>5 DEF Tallied
<1>22. Stored' BY <1>1, <1>2 DEF Stored
<1>23. Filing' BY <1>16, <1>17 DEF Filing
<1> QED BY <1>18, <1>19, <1>20, <1>21, <1>22, <1>23 DEF SampleInv

LEMMA RemoveRefusedKeeps ==
  ASSUME Sampling!RunAssumption, SampleInv, NEW p \in BOOLEAN, NEW r \in BOOLEAN,
         Sampling!RemoveRefused(p, r)
  PROVE  SampleInv'
<1>1. /\ phase = "down" /\ Sampling!Latest # 0 /\ phase' = phase /\ UNCHANGED Sampling!run
      /\ disk' = [d \in DOMAIN disk \ {Sampling!Latest} |-> disk[d]]
  BY DEF Sampling!RemoveRefused, Sampling!Restrict
<1>2. UNCHANGED <<label, state, controls, totals, window, stable, sum, scratch, mean, verdicts,
                  converged>>
  BY <1>1 DEF Sampling!run
<1>3. RunTypes /\ Centred /\ Judged /\ Tallied /\ Stored BY DEF SampleInv
<1>4. phase' \notin Closing \union {"window"} /\ phase' = "down" BY <1>1, PhaseNames
<1>5. \A i \in 1 .. 6 : phase' # Sampling!Files[i] BY <1>4, PhaseNames DEF Closing
<1>6. RunTypes' BY <1>1, <1>2, <1>3 DEF RunTypes
<1>7. Centred' BY <1>4 DEF Centred, Open
<1>8. Judged' BY <1>2, <1>3 DEF Judged
<1>9. Tallied' BY <1>1, <1>2, <1>3 DEF Tallied, Taken, Sampling!RestartContinues
<1>10. Stored' BY <1>1, <1>3 DEF Stored
<1>11. Filing' BY <1>4, <1>5 DEF Filing
<1> QED BY <1>6, <1>7, <1>8, <1>9, <1>10, <1>11 DEF SampleInv

LEMMA SampleStep ==
  Sampling!RunAssumption /\ SampleInv /\ [Sampling!Next]_Sampling!vars => SampleInv'
<1> SUFFICES ASSUME Sampling!RunAssumption, SampleInv, [Sampling!Next]_Sampling!vars
             PROVE  SampleInv'
  OBVIOUS
<1>1. CASE Sampling!Accumulate BY <1>1, AccumulateKeeps
<1>2. CASE Sampling!SkipWindow BY <1>2, SkipWindowKeeps
<1>3. CASE Sampling!BeginOutput BY <1>3, BeginOutputKeeps
<1>4. CASE Sampling!OpenFile BY <1>4, OpenFileKeeps
<1>5. CASE Sampling!NextTurn BY <1>5, NextTurnKeeps
<1>6. CASE Sampling!Kill
  <2>1. Sampling!Ends /\ disk' = disk BY <1>6 DEF Sampling!Kill
  <2>2. Stored' BY <2>1 DEF SampleInv, Stored
  <2> QED BY <2>1, <2>2, EndsKeeps
<1>7. CASE UNCHANGED Sampling!vars
  <2>1. UNCHANGED <<phase, label, state, controls, totals, window, stable, sum, scratch, mean,
                    verdicts, converged, disk>>
    BY <1>7 DEF Sampling!vars, Sampling!run
  <2>2. RunTypes' BY <2>1 DEF SampleInv, RunTypes
  <2>3. Centred' BY <2>1 DEF SampleInv, Centred, Open, Taken
  <2>4. Judged' BY <2>1 DEF SampleInv, Judged
  <2>5. Tallied' BY <2>1 DEF SampleInv, Tallied, Taken, Sampling!RestartContinues
  <2>6. Stored' BY <2>1 DEF SampleInv, Stored
  <2>7. Filing' BY <2>1 DEF SampleInv, Filing
  <2> QED BY <2>2, <2>3, <2>4, <2>5, <2>6, <2>7 DEF SampleInv
<1>8. ASSUME NEW b \in BOOLEAN, Sampling!AdvanceOneStep(b) PROVE SampleInv'
  BY <1>8, AdvanceOneStepKeeps
<1>9. ASSUME NEW b \in BOOLEAN, Sampling!JudgeWindow(b) PROVE SampleInv'
  BY <1>9, JudgeWindowKeeps
<1>10. ASSUME NEW i \in 1 .. 6, Sampling!FinishFile(i) PROVE SampleInv'
  BY <1>10, FinishFileKeeps
<1>11. ASSUME NEW i \in 1 .. 6, Sampling!ShortWrite(i) PROVE SampleInv'
  BY <1>11, ShortWriteKeeps
<1>12. ASSUME NEW p \in BOOLEAN, NEW r \in BOOLEAN, Sampling!RemoveRefused(p, r)
       PROVE  SampleInv'
  BY <1>12, RemoveRefusedKeeps
<1>13. ASSUME NEW p \in BOOLEAN, NEW r \in BOOLEAN, NEW given \in BOOLEAN,
              NEW boundary \in Boundaries, NEW deltaT \in Steps, NEW n \in 0 .. 3,
              Sampling!Restart(given, boundary, deltaT, n, p, r)
       PROVE  SampleInv'
  BY <1>13, RestartKeeps
<1>14. CASE Sampling!Over BY <1>7, <1>14 DEF Sampling!Over
<1> QED
  BY <1>1, <1>2, <1>3, <1>4, <1>5, <1>6, <1>7, <1>8, <1>9, <1>10, <1>11, <1>12, <1>13, <1>14,
     FileNames
     DEF Sampling!Next

LEMMA SampleImplies == Sampling!RunAssumption /\ SampleInv => Sampling!RunSound
<1> SUFFICES ASSUME Sampling!RunAssumption, SampleInv PROVE Sampling!RunSound OBVIOUS
<1>1. RunTypes /\ Centred /\ Judged /\ Tallied /\ Stored BY DEF SampleInv
<1>2. Sampling!CentredOnItsWindow
  BY <1>1 DEF Centred, Open, Taken, Sampling!CentredOnItsWindow
<1>3. Sampling!ConvergedOnEvidence
  <2>1. verdicts \in Seq(Verdicts) /\ stable \in Nat BY <1>1 DEF RunTypes
  <2>2. DOMAIN verdicts = 1 .. Len(verdicts) BY <2>1
  <2>3. Sampling!AtLeast(1, StableWindows) \in Int /\ Sampling!AtLeast(1, StableWindows) >= 1
    <3>1. StableWindows \in Int BY DEF Sampling!RunAssumption
    <3> QED BY <3>1, PairMax
  <2>4. ASSUME converged
        PROVE  /\ Len(verdicts) >= Sampling!AtLeast(2, MinimumWindows)
               /\ \A k \in 0 .. Sampling!AtLeast(1, StableWindows) - 1 :
                    verdicts[Len(verdicts) - k].stationary
    <3>1. stable >= Sampling!AtLeast(1, StableWindows) BY <1>1, <2>4 DEF Judged
    <3>2. stable > 0 BY <2>1, <2>3, <3>1
    <3>3. \A k \in 0 .. Sampling!AtLeast(1, StableWindows) - 1 : k \in 0 .. stable - 1
      BY <2>1, <2>3, <3>1
    <3> QED BY <1>1, <3>2, <3>3 DEF Judged
  <2> QED BY <1>1, <2>2, <2>4 DEF Judged, Sampling!ConvergedOnEvidence
<1>4. ASSUME NEW at \in DOMAIN disk PROVE Sampling!DirectoryTrue(disk[at])
  <2>1. CASE at # 0 BY <1>1, <2>1 DEF Stored, Told
  <2>2. CASE at = 0
    <3>1. disk[at] = Prepared BY <1>1, <2>2 DEF Stored
    <3>2. /\ disk[at].files["clock"] = "absent" /\ disk[at].content = Sampling!Fresh
          /\ disk[at].clock = Sampling!NoClock
      BY <3>1, FileNames DEF Prepared
    <3> QED BY <3>2 DEF Sampling!DirectoryTrue, Sampling!Fresh, Sampling!NoClock
  <2> QED BY <2>1, <2>2
<1>5. Sampling!RestartContinues BY <1>1 DEF Tallied
<1> QED BY <1>2, <1>3, <1>4, <1>5 DEF Sampling!RunSound

\* Through any sequence of kills, short writes and restarts of gasUGKPSteady:
\* samples are centred on their window, the program converges on full windows that
\* follow one another, directories tell what they hold, restarts continue.
THEOREM RunsAreSound == Sampling!Spec => []RunSound
<1>1. Sampling!Init => SampleInv BY SampleInit, RunAssumption
<1>2. SampleInv /\ [Sampling!Next]_Sampling!vars => SampleInv' BY SampleStep, RunAssumption
<1>3. SampleInv => RunSound BY SampleImplies, RunAssumption DEF RunSound
<1> QED BY <1>1, <1>2, <1>3, PTL DEF Sampling!Spec
=============================================================================
