------------------------- MODULE Reductions_proofs -------------------------
(***************************************************************************)
(* Proofs about the reductions over the particles of a cell.  First the    *)
(* persistent queue, for any number of blocks, warps and tasks and any set *)
(* of rejected and of idle tasks: its safety properties, and that each of  *)
(* its steps is one of the abstract WorkPool.  Then a whole pass           *)
(* (SegmentedReduction), for any directory and any numbers of cells,       *)
(* blocks and threads: what it publishes is exact.                         *)
(***************************************************************************)
EXTENDS MCReductions, Sequences, FiniteSetTheorems, WellFoundedInduction, TLAPS

(***************************************************************************)
(* The inductive invariant.                                                *)
(***************************************************************************)
Overrun == {b \in Blocks : task[b] >= TaskCount}

Types ==
  /\ cursor \in Nat
  /\ task \in [Blocks -> Int]
  /\ valid \in [Blocks -> BOOLEAN]
  /\ descriptor \in [Blocks -> {NoTask} \cup Tasks]
  /\ scratch \in [Blocks -> [Warps -> {NoTask} \cup Tasks]]
  /\ my \in [Blocks -> [Warps -> Int]]
  /\ pc \in [Blocks -> [Warps -> Label]]
  /\ executed \in [Tasks -> Nat]
  /\ result \in [Tasks -> [Warps -> {NoTask} \cup Tasks]]

\* A block stops claiming with its first claim past the end.
CursorBound == cursor <= TaskCount + Cardinality(Overrun)

\* While one warp is before the first barrier all of them are, and only the
\* leader is ever where thread 0 does something on its own.
Together ==
  \A b \in Blocks, w \in Warps :
    /\ pc[b][w] \in {"claim", "publish", "zero"} => w = Leader
    /\ pc[b][w] \in {"claim", "claimed"} => \A v \in Warps : pc[b][v] \in {"claim", "claimed"}

\* Who has returned saw the end, and whoever goes on did not.
Bounded ==
  \A b \in Blocks, w \in Warps :
    /\ pc[b][w] \in {"sum", "summed", "publish", "zero", "executed", "claim"} => task[b] < TaskCount
    /\ pc[b][w] = "returned" => task[b] >= TaskCount

\* The shared descriptor is that of the shared task.
Current ==
  \A b \in Blocks :
    /\ valid[b] <=> task[b] \in Accepted
    /\ valid[b] => descriptor[b] = task[b]

\* A warp that executes does so for the shared task.
WorkCurrent ==
  \A b \in Blocks, w \in Warps :
    /\ pc[b][w] \in {"sum", "summed", "publish", "zero"} => task[b] \in Accepted /\ my[b][w] = task[b]
    /\ pc[b][w] \in {"sum", "summed", "publish"} => task[b] \notin Idle
    /\ pc[b][w] = "zero" => task[b] \in Idle
    /\ pc[b][w] = "summed" => scratch[b][w] = task[b]
    /\ pc[b][w] = "publish" => \A v \in Warps : scratch[b][v] = task[b]

\* No two blocks have the same task.
Owned ==
  \A b \in Blocks :
    /\ task[b] \in -1 .. cursor - 1
    /\ \A c \in Blocks : b # c /\ task[b] >= 0 => task[b] # task[c]

Busy(b) == pc[b][Leader] \in {"claimed", "decide", "sum", "summed", "publish", "zero"}

\* A claimed task has been published, or a block is about to.
Accounted ==
  /\ \A b \in Blocks : Busy(b) /\ task[b] \in Accepted => executed[task[b]] = 0
  /\ \A n \in Accepted : n < cursor /\ executed[n] = 0 => \E b \in Blocks : Busy(b) /\ task[b] = n
  /\ \A n \in Tasks : n >= cursor => executed[n] = 0

IInv ==
  /\ Types
  /\ CursorBound
  /\ Together
  /\ Bounded
  /\ Current
  /\ WorkCurrent
  /\ Owned
  /\ Accounted
  /\ AtMostOnce
  /\ NoMixing
-----------------------------------------------------------------------------
LEMMA InitIInv == Init => IInv
<1> SUFFICES ASSUME Init PROVE IInv
  OBVIOUS
<1> USE WarpsAssumption, TaskCountAssumption, BlocksAssumption DEF Init
<1>1. Types
  BY DEF Types, Tasks, NoTask, Label
<1>2. CursorBound
  <2>1. Overrun = {}
    BY DEF Overrun, NoTask
  <2>2. QED
    BY <2>1, FS_EmptySet DEF CursorBound
<1>3. Together /\ Bounded /\ Current /\ WorkCurrent
  BY DEF Together, Bounded, Current, WorkCurrent, Accepted, Tasks, NoTask
<1>4. Owned
  BY DEF Owned, NoTask
<1>5. Accounted /\ AtMostOnce /\ NoMixing
  BY DEF Accounted, AtMostOnce, NoMixing, Accepted, Tasks, NoTask, Busy
<1>. QED
  BY <1>1, <1>2, <1>3, <1>4, <1>5 DEF IInv

LEMMA ClaimStep ==
  ASSUME IInv, NEW b \in Blocks, Claim(b)
  PROVE  IInv'
<1> USE WarpsAssumption DEF IInv
<1>1. Types'
  BY TaskCountAssumption DEF Label, Accepted, Types, Claim, Goto
<1>2. CursorBound'
  <2>1. b \notin Overrun
    BY TaskCountAssumption DEF Overrun, Bounded, Types, Claim
  <2>2. IsFiniteSet(Overrun) /\ IsFiniteSet(Overrun')
    BY BlocksAssumption, FS_Subset DEF Overrun
  <2>3. Cardinality(Overrun) \in Nat /\ Cardinality(Overrun') \in Nat
    BY <2>2, FS_CardinalityType
  <2>4. cursor' = cursor + 1 /\ task' = [task EXCEPT ![b] = cursor]
    BY DEF Claim
  <2>5. CASE cursor < TaskCount
    BY <2>3, <2>4, <2>5, TaskCountAssumption DEF CursorBound, Types
  <2>6. CASE cursor >= TaskCount
    <3>1. Overrun' = Overrun \cup {b}
      BY <2>4, <2>6 DEF Overrun, Types
    <3>2. Cardinality(Overrun') = Cardinality(Overrun) + 1
      BY <3>1, <2>1, <2>2, FS_AddElement
    <3>. QED
      BY <3>2, <2>3, <2>4, TaskCountAssumption DEF CursorBound, Types
  <2>. QED
    BY <2>5, <2>6, TaskCountAssumption DEF Types
<1>3. Together'
  BY DEF Types, Label, Together, Claim, Goto
<1>4. Bounded'
  BY TaskCountAssumption DEF Types, Together, Current, WorkCurrent, Accepted, Tasks, Bounded, Claim, Goto
<1>5. Current'
  BY DEF Types, Tasks, Current, Claim
<1>6. WorkCurrent'
  BY DEF Types, Together, Current, Accepted, WorkCurrent, Claim, Goto
<1>7. Owned'
  BY DEF Types, Owned, Claim
<1>8. Accounted'
  <2>1. /\ cursor' = cursor + 1 /\ task' = [task EXCEPT ![b] = cursor]
        /\ pc' = [pc EXCEPT ![b][Leader] = "claimed"] /\ executed' = executed
        /\ pc[b][Leader] = "claim"
    BY DEF Claim, Goto
  <2>2. Busy(b)' /\ ~Busy(b) /\ task'[b] = cursor
    BY <2>1 DEF Busy, Types
  <2>3. \A c \in Blocks : c # b => (Busy(c)' <=> Busy(c)) /\ task'[c] = task[c]
    BY <2>1 DEF Busy, Types
  <2>4. \A c \in Blocks : Busy(c)' /\ task'[c] \in Accepted => executed'[task'[c]] = 0
    BY <2>1, <2>2, <2>3 DEF Accounted, Accepted, Types
  <2>5. ASSUME NEW n \in Accepted, n < cursor', executed'[n] = 0
        PROVE  \E c \in Blocks : Busy(c)' /\ task'[c] = n
    <3>1. CASE n = cursor
      BY <3>1, <2>2
    <3>2. CASE n # cursor
      <4>1. n < cursor
        BY <3>2, <2>5, <2>1 DEF Types, Accepted, Tasks
      <4>2. PICK c \in Blocks : Busy(c) /\ task[c] = n
        BY <4>1, <2>5, <2>1 DEF Accounted
      <4>3. c # b
        BY <4>2, <2>2
      <4>. QED
        BY <4>2, <4>3, <2>3
    <3>. QED
      BY <3>1, <3>2
  <2>6. \A n \in Tasks : n >= cursor' => executed'[n] = 0
    BY <2>1 DEF Accounted, Types, Tasks
  <2>. QED
    BY <2>4, <2>5, <2>6 DEF Accounted
<1>9. AtMostOnce'
  BY DEF Types, WorkCurrent, Accounted, Busy, Accepted, Tasks, AtMostOnce, Claim, Goto
<1>10. NoMixing'
  BY DEF NoMixing, Claim, Goto
<1>. QED
  BY <1>1, <1>2, <1>3, <1>4, <1>5, <1>6, <1>7, <1>8, <1>9, <1>10 DEF IInv

LEMMA PublicizeStep ==
  ASSUME IInv, NEW b \in Blocks, Publicize(b)
  PROVE  IInv'
<1> USE WarpsAssumption DEF IInv
<1>1. Types'
  BY TaskCountAssumption DEF Label, Types, Publicize, Barrier, sharedVars
<1>2. CursorBound'
  BY TaskCountAssumption DEF Overrun, CursorBound, Publicize, Barrier, sharedVars
<1>3. Together'
  BY DEF Types, Together, Publicize, Barrier, sharedVars
<1>4. Bounded'
  BY TaskCountAssumption DEF Together, Current, WorkCurrent, Bounded, Publicize, Barrier, sharedVars
<1>5. Current'
  BY DEF Current, Publicize, Barrier, sharedVars
<1>6. WorkCurrent'
  BY DEF Current, Accepted, Tasks, WorkCurrent, Publicize, Barrier, sharedVars
<1>7. Owned'
  BY DEF Owned, Publicize, Barrier, sharedVars
<1>8. Accounted'
  BY DEF Busy, Types, Together, Bounded, Current, Accounted, Publicize, Barrier, sharedVars
<1>9. AtMostOnce'
  BY DEF Types, AtMostOnce, Publicize, Barrier, sharedVars
<1>10. NoMixing'
  BY DEF NoMixing, Publicize, Barrier, sharedVars
<1>. QED
  BY <1>1, <1>2, <1>3, <1>4, <1>5, <1>6, <1>7, <1>8, <1>9, <1>10 DEF IInv

LEMMA DecideStep ==
  ASSUME IInv, NEW b \in Blocks, NEW w \in Warps, Decide(b, w)
  PROVE  IInv'
<1> USE WarpsAssumption DEF IInv
<1>1. Types'
  BY TaskCountAssumption DEF Label, Types, Decide, Goto, Start, sharedVars
<1>2. CursorBound'
  BY TaskCountAssumption DEF Overrun, CursorBound, Decide, Goto, Start, sharedVars
<1>3. Together'
  BY DEF Types, Together, Decide, Goto, Start, sharedVars
<1>4. Bounded'
  BY TaskCountAssumption DEF Types, Together, Current, WorkCurrent, Accepted, Bounded, Decide, Goto, Start, sharedVars
<1>5. Current'
  BY DEF Types, Current, Decide, sharedVars
<1>6. WorkCurrent'
  BY DEF Types, Current, Accepted, WorkCurrent, Decide, Goto, Start, sharedVars
<1>7. Owned'
  BY DEF Types, Owned, Decide, Goto, sharedVars
<1>8. Accounted'
  <2>1. /\ cursor' = cursor /\ task' = task /\ executed' = executed
        /\ pc[b][w] = "decide"
    BY DEF Decide, sharedVars
  <2>2. \A c \in Blocks : Busy(c)' => Busy(c)
    BY <2>1 DEF Busy, Types, Decide, Goto
  <2>3. \A c \in Blocks : c # b => (Busy(c)' <=> Busy(c))
    BY DEF Busy, Decide, Goto
  <2>4. task[b] \in Accepted /\ Busy(b) => Busy(b)'
    <3>1. SUFFICES ASSUME task[b] \in Accepted, Busy(b) PROVE Busy(b)'
      OBVIOUS
    <3>2. task[b] < TaskCount /\ valid[b]
      BY <3>1, TaskCountAssumption DEF Current, Accepted, Tasks
    <3>3. pc' = [pc EXCEPT ![b][w] = Start(b, w)]
      <4>1. pc' = [pc EXCEPT ![b][w] = IF task[b] >= TaskCount THEN "returned"
                                       ELSE IF valid[b] THEN Start(b, w) ELSE "executed"]
        BY DEF Decide, Goto
      <4>2. ~(task[b] >= TaskCount)
        BY <3>2, TaskCountAssumption DEF Types
      <4>. QED
        BY <3>2, <4>1, <4>2
    <3>4. CASE w = Leader
      BY <3>3, <3>4 DEF Start, Busy, Types
    <3>5. CASE w # Leader
      BY <3>1, <3>3, <3>5 DEF Busy, Types
    <3>. QED
      BY <3>4, <3>5
  <2>5. \A c \in Blocks : Busy(c)' /\ task'[c] \in Accepted => executed'[task'[c]] = 0
    BY <2>1, <2>2 DEF Accounted
  <2>6. ASSUME NEW n \in Accepted, n < cursor', executed'[n] = 0
        PROVE  \E c \in Blocks : Busy(c)' /\ task'[c] = n
    <3>1. PICK c \in Blocks : Busy(c) /\ task[c] = n
      BY <2>1, <2>6 DEF Accounted
    <3>. QED
      BY <3>1, <2>1, <2>3, <2>4
  <2>7. \A n \in Tasks : n >= cursor' => executed'[n] = 0
    BY <2>1 DEF Accounted
  <2>. QED
    BY <2>5, <2>6, <2>7 DEF Accounted
<1>9. AtMostOnce'
  BY DEF Types, WorkCurrent, Accounted, Busy, Accepted, Tasks, AtMostOnce, Decide, Goto, Start, sharedVars
<1>10. NoMixing'
  BY DEF NoMixing, Decide, Goto
<1>. QED
  BY <1>1, <1>2, <1>3, <1>4, <1>5, <1>6, <1>7, <1>8, <1>9, <1>10 DEF IInv

LEMMA SumStep ==
  ASSUME IInv, NEW b \in Blocks, NEW w \in Warps, Sum(b, w)
  PROVE  IInv'
<1> USE WarpsAssumption DEF IInv
<1>1. Types'
  BY TaskCountAssumption DEF Label, Types, Sum, Goto
<1>2. CursorBound'
  BY TaskCountAssumption DEF Overrun, CursorBound, Sum, Goto
<1>3. Together'
  BY DEF Types, Together, Sum, Goto
<1>4. Bounded'
  BY TaskCountAssumption DEF Together, Current, WorkCurrent, Bounded, Sum, Goto
<1>5. Current'
  BY DEF Current, Sum
<1>6. WorkCurrent'
  BY DEF Types, Current, Accepted, WorkCurrent, Sum, Goto
<1>7. Owned'
  BY DEF Types, Owned, Sum, Goto
<1>8. Accounted'
  BY DEF Busy, Types, Together, Current, WorkCurrent, Owned, Accepted, Tasks, Accounted, Sum, Goto
<1>9. AtMostOnce'
  BY DEF Types, AtMostOnce, Sum
<1>10. NoMixing'
  BY DEF NoMixing, Sum, Goto
<1>. QED
  BY <1>1, <1>2, <1>3, <1>4, <1>5, <1>6, <1>7, <1>8, <1>9, <1>10 DEF IInv

LEMMA ReduceStep ==
  ASSUME IInv, NEW b \in Blocks, Reduce(b)
  PROVE  IInv'
<1> USE WarpsAssumption DEF IInv
<1>1. Types'
  BY TaskCountAssumption DEF Label, Types, Reduce, Barrier, sharedVars
<1>2. CursorBound'
  BY TaskCountAssumption DEF Overrun, CursorBound, Reduce, Barrier, sharedVars
<1>3. Together'
  BY DEF Types, Together, Reduce, Barrier, sharedVars
<1>4. Bounded'
  BY TaskCountAssumption DEF Together, Current, WorkCurrent, Bounded, Reduce, Barrier, sharedVars
<1>5. Current'
  BY DEF Current, Reduce, Barrier, sharedVars
<1>6. WorkCurrent'
  BY DEF Current, Accepted, Tasks, WorkCurrent, Reduce, Barrier, sharedVars
<1>7. Owned'
  BY DEF Owned, Reduce, Barrier, sharedVars
<1>8. Accounted'
  BY DEF Busy, Types, Together, Bounded, Current, Accounted, Reduce, Barrier, sharedVars
<1>9. AtMostOnce'
  BY DEF Types, AtMostOnce, Reduce, Barrier, sharedVars
<1>10. NoMixing'
  BY DEF NoMixing, Reduce, Barrier, sharedVars
<1>. QED
  BY <1>1, <1>2, <1>3, <1>4, <1>5, <1>6, <1>7, <1>8, <1>9, <1>10 DEF IInv

LEMMA PublishStep ==
  ASSUME IInv, NEW b \in Blocks, Publish(b)
  PROVE  IInv'
<1> USE WarpsAssumption DEF IInv
<1>1. Types'
  <2>1. my[b][Leader] \in Tasks
    BY DEF Publish, WorkCurrent, Accepted
  <2>2. scratch[b] \in [Warps -> {NoTask} \cup Tasks]
    BY DEF Types
  <2>3. executed' \in [Tasks -> Nat]
    BY <2>1 DEF Types, Publish
  <2>4. result' \in [Tasks -> [Warps -> {NoTask} \cup Tasks]]
    BY <2>1, <2>2 DEF Types, Publish
  <2>5. pc' \in [Blocks -> [Warps -> Label]]
    BY DEF Types, Publish, Goto, Label
  <2>. QED
    BY <2>3, <2>4, <2>5 DEF Types, Publish, sharedVars
<1>2. CursorBound'
  BY TaskCountAssumption DEF Overrun, Types, CursorBound, Publish, Goto, sharedVars
<1>3. Together'
  BY DEF Types, Together, Publish, Goto, sharedVars
<1>4. Bounded'
  BY TaskCountAssumption DEF Together, Current, WorkCurrent, Bounded, Publish, Goto, sharedVars
<1>5. Current'
  BY DEF Current, Publish, sharedVars
<1>6. WorkCurrent'
  BY DEF Current, Accepted, WorkCurrent, Publish, Goto, sharedVars
<1>7. Owned'
  BY DEF Owned, Publish, sharedVars
<1>8. Accounted'
  BY DEF Busy, Types, Together, Current, WorkCurrent, Owned, Accepted, Tasks, Accounted, Publish, Goto, sharedVars
<1>9. AtMostOnce'
  BY DEF Types, WorkCurrent, Accounted, Busy, Tasks, AtMostOnce, Publish, Goto, sharedVars
<1>10. NoMixing'
  BY DEF Types, WorkCurrent, Accepted, Complete, NoMixing, Publish, Goto
<1>. QED
  BY <1>1, <1>2, <1>3, <1>4, <1>5, <1>6, <1>7, <1>8, <1>9, <1>10 DEF IInv

LEMMA ZeroStep ==
  ASSUME IInv, NEW b \in Blocks, Zero(b)
  PROVE  IInv'
<1> USE WarpsAssumption DEF IInv
<1>1. Types'
  <2>1. my[b][Leader] \in Tasks
    BY DEF Zero, WorkCurrent, Accepted
  <2>2. [v \in Warps |-> NoTask] \in [Warps -> {NoTask} \cup Tasks]
    OBVIOUS
  <2>3. executed' \in [Tasks -> Nat]
    BY <2>1 DEF Types, Zero
  <2>4. result' \in [Tasks -> [Warps -> {NoTask} \cup Tasks]]
    BY <2>1, <2>2 DEF Types, Zero
  <2>5. pc' \in [Blocks -> [Warps -> Label]]
    BY DEF Types, Zero, Goto, Label
  <2>. QED
    BY <2>3, <2>4, <2>5 DEF Types, Zero, sharedVars
<1>2. CursorBound'
  BY TaskCountAssumption DEF Overrun, Types, CursorBound, Zero, Goto, sharedVars
<1>3. Together'
  BY DEF Types, Together, Zero, Goto, sharedVars
<1>4. Bounded'
  BY TaskCountAssumption DEF Together, Current, WorkCurrent, Bounded, Zero, Goto, sharedVars
<1>5. Current'
  BY DEF Current, Zero, sharedVars
<1>6. WorkCurrent'
  BY DEF Current, Accepted, WorkCurrent, Zero, Goto, sharedVars
<1>7. Owned'
  BY DEF Owned, Zero, sharedVars
<1>8. Accounted'
  BY DEF Busy, Types, Together, Current, WorkCurrent, Owned, Accepted, Tasks, Accounted, Zero, Goto, sharedVars
<1>9. AtMostOnce'
  BY DEF Types, WorkCurrent, Accounted, Busy, Tasks, AtMostOnce, Zero, Goto, sharedVars
<1>10. NoMixing'
  BY DEF Types, WorkCurrent, Accepted, Complete, NoMixing, Zero, Goto
<1>. QED
  BY <1>1, <1>2, <1>3, <1>4, <1>5, <1>6, <1>7, <1>8, <1>9, <1>10 DEF IInv

LEMMA NextTaskStep ==
  ASSUME IInv, NEW b \in Blocks, NextTask(b)
  PROVE  IInv'
<1> USE WarpsAssumption DEF IInv
<1>1. Types'
  BY TaskCountAssumption DEF Label, Types, NextTask, Barrier, sharedVars
<1>2. CursorBound'
  BY TaskCountAssumption DEF Overrun, CursorBound, NextTask, Barrier, sharedVars
<1>3. Together'
  BY DEF Types, Together, NextTask, Barrier, sharedVars
<1>4. Bounded'
  BY TaskCountAssumption DEF Together, Current, WorkCurrent, Bounded, NextTask, Barrier, sharedVars
<1>5. Current'
  BY DEF Current, NextTask, Barrier, sharedVars
<1>6. WorkCurrent'
  BY DEF Current, Accepted, Tasks, WorkCurrent, NextTask, Barrier, sharedVars
<1>7. Owned'
  BY DEF Owned, NextTask, Barrier, sharedVars
<1>8. Accounted'
  <2>1. /\ cursor' = cursor /\ task' = task /\ executed' = executed
        /\ pc[b][Leader] = "executed"
    BY DEF NextTask, Barrier, sharedVars
  <2>2. \A c \in Blocks : Busy(c)' <=> Busy(c)
    BY <2>1 DEF Busy, Types, NextTask, Barrier
  <2>. QED
    BY <2>1, <2>2 DEF Accounted
<1>9. AtMostOnce'
  BY DEF Types, WorkCurrent, Accounted, Busy, Accepted, Tasks, AtMostOnce, NextTask, Barrier, sharedVars
<1>10. NoMixing'
  BY DEF NoMixing, NextTask, Barrier, sharedVars
<1>. QED
  BY <1>1, <1>2, <1>3, <1>4, <1>5, <1>6, <1>7, <1>8, <1>9, <1>10 DEF IInv

LEMMA StepIInv == IInv /\ [Next]_vars => IInv'
<1> SUFFICES ASSUME IInv, [Next]_vars PROVE IInv'
  OBVIOUS
<1>1. CASE UNCHANGED vars
  BY <1>1 DEF vars, sharedVars, IInv, Types, CursorBound, Overrun, Together, Bounded, Current,
              WorkCurrent, Owned, Busy, Accounted, AtMostOnce, NoMixing
<1>2. ASSUME NEW b \in Blocks, Block(b) PROVE IInv'
  BY <1>2, ClaimStep, PublicizeStep, DecideStep, SumStep, ReduceStep, PublishStep, ZeroStep, NextTaskStep
     DEF Block
<1>. QED
  BY <1>1, <1>2 DEF Next, Done

THEOREM Invariance == Spec => []IInv
  BY InitIInv, StepIInv, PTL DEF Spec

-----------------------------------------------------------------------------
\* The cursor ends at most one claim per block past the task count, and every
\* shared value is of its type.
THEOREM Typing == Spec => []TypeOK
<1>1. IInv => TypeOK
  <2> SUFFICES ASSUME IInv PROVE TypeOK
    OBVIOUS
  <2>1. Cardinality(Overrun) <= Cardinality(Blocks) /\ Cardinality(Overrun) \in Nat
    BY BlocksAssumption, FS_Subset, FS_CardinalityType DEF Overrun
  <2>2. Cardinality(Blocks) \in Nat
    BY BlocksAssumption, FS_CardinalityType
  <2>3. cursor \in 0 .. TaskCount + Cardinality(Blocks)
    BY <2>1, <2>2, TaskCountAssumption DEF IInv, Types, CursorBound
  <2>. QED
    BY <2>3 DEF IInv, Types, TypeOK
<1>. QED
  BY <1>1, Invariance, PTL

\* Whatever the warps' interleaving, the sums published for a task are that
\* task's parts of all the warps: the two barriers of the loop are enough.
THEOREM Separation == Spec => []NoMixing
<1>1. IInv => NoMixing
  BY DEF IInv
<1>. QED
  BY <1>1, Invariance, PTL

\* The cursor hands no task to two blocks.
THEOREM Uniqueness == Spec => []AtMostOnce
<1>1. IInv => AtMostOnce
  BY DEF IInv
<1>. QED
  BY <1>1, Invariance, PTL

LEMMA CompleteIfInvariant == IInv => CompleteWhenOver
<1> SUFFICES ASSUME IInv, Over, NEW n \in Accepted PROVE executed[n] = 1
  BY DEF CompleteWhenOver
<1> USE WarpsAssumption, TaskCountAssumption DEF IInv
<1>1. PICK b \in Blocks : TRUE
  BY BlocksAssumption
<1>2. pc[b][Leader] = "returned"
  BY DEF Over, Returned
<1>3. task[b] >= TaskCount
  BY <1>2 DEF Bounded
<1>4. n < cursor
  BY <1>3 DEF Owned, Types, Accepted, Tasks
<1>5. \A c \in Blocks : ~Busy(c)
  BY DEF Over, Returned, Busy
<1>6. executed[n] # 0
  BY <1>4, <1>5 DEF Accounted
<1>7. executed[n] \in Nat /\ executed[n] <= 1
  BY DEF Types, AtMostOnce, Accepted
<1>. QED
  BY <1>6, <1>7

\* When the kernel has returned, no accepted task is left, however many
\* rejected ones the blocks met.
THEOREM Completeness == Spec => []CompleteWhenOver
  BY CompleteIfInvariant, Invariance, PTL

-----------------------------------------------------------------------------
(***************************************************************************)
(* The queue implements WorkPool: publishing is executing the task, the    *)
(* last warp's return finishes the launch, and all else is a stutter.      *)
(***************************************************************************)
LEMMA PoolInit == Init => Pool!Init
  BY BlocksAssumption, WarpsAssumption
     DEF Init, Pool!Init, Over, Returned, Accepted

\* A warp that has not returned keeps the launch from being over.
LEMMA NotOver ==
  ASSUME NEW b \in Blocks, NEW w \in Warps
  PROVE  /\ pc[b][w] # "returned" => Over = FALSE
         /\ pc'[b][w] # "returned" => Over' = FALSE
  BY DEF Over, Returned

LEMMA StutterStep ==
  ASSUME IInv, NEW b \in Blocks, executed' = executed, NEW w \in Warps,
         pc[b][w] # "returned", pc'[b][w] # "returned"
  PROVE  UNCHANGED Pool!vars
<1>1. Over = FALSE /\ Over' = FALSE
  BY NotOver
<1>. QED
  BY <1>1 DEF Pool!vars

LEMMA PublishingStep ==
  ASSUME IInv, NEW b \in Blocks, pc[b][Leader] \in {"publish", "zero"},
         executed' = [executed EXCEPT ![my[b][Leader]] = @ + 1], Goto(b, Leader, "executed")
  PROVE  Pool!Next
<1> USE WarpsAssumption DEF IInv
<1>1. PICK n \in Accepted : n = my[b][Leader] /\ n = task[b]
  BY DEF WorkCurrent
<1>2. executed[n] = 0
  BY <1>1 DEF Accounted, Busy
<1>3. executed \in [Tasks -> Nat] /\ Accepted \subseteq Tasks
  BY DEF Types, Accepted
<1>4. [m \in Accepted |-> executed'[m]] = [[m \in Accepted |-> executed[m]] EXCEPT ![n] = 1]
  <2>1. \A m \in Accepted : executed'[m] = IF m = n THEN 1 ELSE executed[m]
    BY <1>1, <1>2, <1>3
  <2>. QED
    BY <2>1
<1>5. pc'[b][Leader] = "executed"
  BY DEF Goto, Types
<1>6. Over = FALSE /\ Over' = FALSE
  BY <1>5, NotOver
<1>7. Pool!Execute(n)
  BY <1>1, <1>2, <1>4, <1>6 DEF Pool!Execute
<1>. QED
  BY <1>1, <1>7 DEF Pool!Next

LEMMA RefinementStep == IInv /\ IInv' /\ [Next]_vars => [Pool!Next]_(Pool!vars)
<1> SUFFICES ASSUME IInv, IInv', [Next]_vars PROVE [Pool!Next]_(Pool!vars)
  OBVIOUS
<1> USE WarpsAssumption
<1>1. CASE UNCHANGED vars
  BY <1>1 DEF vars, Pool!vars, Over, Returned
<1>2. ASSUME NEW b \in Blocks, Block(b) PROVE [Pool!Next]_(Pool!vars)
  <2>1. CASE Claim(b)
    <3>1. executed' = executed /\ pc[b][Leader] # "returned" /\ pc'[b][Leader] # "returned"
      BY <2>1 DEF Claim, Goto
    <3>. QED
      BY <3>1, StutterStep
  <2>2. CASE Publicize(b) \/ Reduce(b) \/ NextTask(b)
    <3>1. executed' = executed /\ pc[b][Leader] # "returned" /\ pc'[b][Leader] # "returned"
      BY <2>2 DEF Publicize, Reduce, NextTask, Barrier, IInv, Types
    <3>. QED
      BY <3>1, StutterStep
  <2>3. ASSUME NEW w \in Warps, Sum(b, w) PROVE UNCHANGED Pool!vars
    <3>1. executed' = executed /\ pc[b][w] # "returned" /\ pc'[b][w] # "returned"
      BY <2>3 DEF Sum, Goto, IInv, Types
    <3>. QED
      BY <3>1, StutterStep
  <2>4. ASSUME NEW w \in Warps, Decide(b, w) PROVE [Pool!Next]_(Pool!vars)
    <3>1. executed' = executed /\ pc[b][w] = "decide"
      BY <2>4 DEF Decide
    <3>2. Over = FALSE
      BY <3>1, NotOver
    <3>3. CASE Over'
      <4>1. \A n \in Accepted : executed[n] = 1
        <5>1. CompleteWhenOver'
          BY CompleteIfInvariant, PTL
        <5>. QED
          BY <5>1, <3>1, <3>3 DEF CompleteWhenOver
      <4>2. Over' = TRUE
        BY <3>3 DEF Over
      <4>. QED
        BY <4>1, <4>2, <3>1, <3>2 DEF Pool!Next, Pool!Finish
    <3>4. CASE ~Over'
      <4>1. Over' = FALSE
        BY <3>4 DEF Over
      <4>. QED
        BY <4>1, <3>1, <3>2 DEF Pool!vars
    <3>. QED
      BY <3>3, <3>4
  <2>5. CASE Publish(b)
    BY <2>5, PublishingStep DEF Publish
  <2>6. CASE Zero(b)
    BY <2>6, PublishingStep DEF Zero
  <2>. QED
    BY <1>2, <2>1, <2>2, <2>3, <2>4, <2>5, <2>6 DEF Block
<1>. QED
  BY <1>1, <1>2 DEF Next, Done

\* Every behaviour of the queue is one of the abstract pool of tasks: each is
\* executed once, and the launch finishes only after the last of them.
THEOREM Refinement == Spec => Pool!Init /\ [][Pool!Next]_(Pool!vars)
  BY PoolInit, RefinementStep, Invariance, PTL DEF Spec

-----------------------------------------------------------------------------
(***************************************************************************)
(* The pass.  Sums and searches are recursive functions; what they are for *)
(* every argument is shown by the least argument where it would fail.      *)
(***************************************************************************)

Below == OpToRel(<, Nat)

\* A set of naturals has a least one.
LEMMA Least ==
  ASSUME NEW T \in SUBSET Nat, T # {}
  PROVE  \E m \in T : \A n \in T : m =< n
<1>1. IsWellFoundedOn(Below, Nat) BY NatLessThanWellFounded DEF Below
<1>2. PICK m \in T : \A n \in T : ~(<<n, m>> \in Below) BY <1>1, WFMin
<1>3. \A a, b \in Nat : a < b => <<a, b>> \in Below BY DEF Below, OpToRel
<1>4. \A n \in T : ~(n < m) BY <1>2, <1>3
<1> QED BY <1>4

\* The first n sums of terms, if there is such a function.
IsSum(f, n, terms) ==
  /\ f \in [0 .. n -> Nat]
  /\ f[0] = 0 /\ \A i \in 0 .. n - 1 : f[i + 1] = f[i] + terms[i]

\* Sums of any terms exist.
LEMMA SumsExist ==
  ASSUME NEW N \in Nat, NEW terms, \A i \in 0 .. N - 1 : terms[i] \in Nat
  PROVE  \E f : IsSum(f, N, terms)
<1> DEFINE Bad == {n \in 0 .. N : ~\E f : IsSum(f, n, terms)}
<1>1. SUFFICES ASSUME Bad # {} PROVE FALSE OBVIOUS
<1>2. PICK n \in Bad : \A m \in Bad : n =< m
  <2>1. Bad \in SUBSET Nat OBVIOUS
  <2> HIDE DEF Bad
  <2> QED BY <1>1, <2>1, Least
<1>3. CASE n = 0
  <2>1. IsSum([i \in 0 .. 0 |-> 0], 0, terms) BY DEF IsSum
  <2> QED BY <1>2, <1>3, <2>1
<1>4. CASE n # 0
  <2>1. n - 1 \in 0 .. N /\ n - 1 \notin Bad BY <1>2, <1>4
  <2>2. PICK f : IsSum(f, n - 1, terms) BY <2>1
  <2> DEFINE g == [i \in 0 .. n |-> IF i = n THEN f[n - 1] + terms[n - 1] ELSE f[i]]
  <2>3. /\ n \in Nat /\ n - 1 \in 0 .. n - 1 /\ terms[n - 1] \in Nat
        /\ f \in [0 .. n - 1 -> Nat] /\ f[0] = 0
        /\ \A i \in 0 .. n - 2 : f[i + 1] = f[i] + terms[i]
    BY <2>1, <2>2, <1>2, <1>4 DEF IsSum
  <2>4. IsSum(g, n, terms)
    <3>1. g \in [0 .. n -> Nat] BY <2>3
    <3>2. g[0] = 0 BY <2>3, <1>4
    <3>3. ASSUME NEW i \in 0 .. n - 1 PROVE g[i + 1] = g[i] + terms[i]
      <4>1. CASE i = n - 1 BY <4>1, <2>3
      <4>2. CASE i # n - 1
        <5>1. i \in 0 .. n - 2 /\ i + 1 \in 0 .. n /\ i + 1 # n /\ i \in 0 .. n /\ i # n
          BY <4>2, <2>3
        <5> QED BY <5>1, <2>3
      <4> QED BY <4>1, <4>2
    <3> QED BY <3>1, <3>2, <3>3 DEF IsSum
  <2> QED BY <2>4, <1>2
<1> QED BY <1>3, <1>4

\* RunningSum is what it says.
LEMMA RunningSumOf ==
  ASSUME NEW N \in Nat, NEW terms, \A i \in 0 .. N - 1 : terms[i] \in Nat
  PROVE  IsSum(Pass!RunningSum(N, terms), N, terms)
<1> DEFINE s == Pass!RunningSum(N, terms)
           Body(f) == [i \in 0 .. N |-> IF i = 0 THEN 0 ELSE f[i - 1] + terms[i - 1]]
<1>1. s = CHOOSE f : f = Body(f) BY DEF Pass!RunningSum
<1>2. \E f : f = Body(f)
  <2>1. PICK f : IsSum(f, N, terms) BY SumsExist
  <2>2. ASSUME NEW i \in 0 .. N PROVE f[i] = Body(f)[i]
    <3>1. CASE i = 0 BY <3>1, <2>1 DEF IsSum
    <3>2. CASE i # 0
      <4>1. i - 1 \in 0 .. N - 1 /\ (i - 1) + 1 = i BY <3>2
      <4>2. f[(i - 1) + 1] = f[i - 1] + terms[i - 1] BY <4>1, <2>1 DEF IsSum
      <4> QED BY <3>2, <4>1, <4>2
    <3> QED BY <3>1, <3>2
  <2> QED BY <2>1, <2>2 DEF IsSum
<1>3. s = Body(s) BY <1>1, <1>2
<1> HIDE DEF s
<1>4. s[0] = 0 BY <1>3
<1>5. \A i \in 0 .. N - 1 : s[i + 1] = s[i] + terms[i]
  <2> TAKE i \in 0 .. N - 1
  <2>1. i + 1 \in 0 .. N /\ i + 1 # 0 /\ (i + 1) - 1 = i OBVIOUS
  <2>2. s[i + 1] = Body(s)[i + 1] BY <1>3
  <2> QED BY <2>1, <2>2
<1>6. \A i \in 0 .. N : s[i] \in Nat
  <2> DEFINE Bad == {i \in 0 .. N : s[i] \notin Nat}
  <2>1. SUFFICES ASSUME Bad # {} PROVE FALSE OBVIOUS
  <2>2. PICK i \in Bad : \A m \in Bad : i =< m
    <3>1. Bad \in SUBSET Nat OBVIOUS
    <3> HIDE DEF Bad
    <3> QED BY <2>1, <3>1, Least
  <2>3. i # 0 BY <1>4, <2>2
  <2>4. i - 1 \in 0 .. N - 1 /\ (i - 1) + 1 = i BY <2>3, <2>2
  <2>5. s[i - 1] \in Nat BY <2>2, <2>4
  <2>6. s[i] = s[i - 1] + terms[i - 1] BY <2>4, <1>5
  <2> QED BY <2>2, <2>4, <2>5, <2>6
<1> QED BY <1>3, <1>4, <1>5, <1>6 DEF IsSum, s

\* Sums of naturals do not decrease.
LEMMA SumGrows ==
  ASSUME NEW N \in Nat, NEW terms, \A i \in 0 .. N - 1 : terms[i] \in Nat,
         NEW f, IsSum(f, N, terms)
  PROVE  \A i, j \in 0 .. N : i =< j => f[i] =< f[j]
<1> SUFFICES ASSUME NEW i \in 0 .. N, NEW k \in 0 .. N, i =< k, ~(f[i] =< f[k]) PROVE FALSE
  OBVIOUS
<1> DEFINE Bad == {j \in 0 .. N : i =< j /\ ~(f[i] =< f[j])}
<1>1. PICK j \in Bad : \A m \in Bad : j =< m
  <2>1. Bad \in SUBSET Nat /\ Bad # {} OBVIOUS
  <2> HIDE DEF Bad
  <2> QED BY <2>1, Least
<1>2. f[i] \in Nat /\ f[j] \in Nat BY <1>1 DEF IsSum
<1>3. i < j BY <1>1, <1>2
<1>4. j - 1 \in 0 .. N - 1 /\ (j - 1) + 1 = j /\ i =< j - 1 BY <1>1, <1>3
<1>5. j - 1 \notin Bad BY <1>1
<1>6. f[j] = f[j - 1] + terms[j - 1] /\ f[j - 1] \in Nat
  <2>1. j - 1 \in 0 .. N BY <1>4
  <2>2. f[(j - 1) + 1] = f[j - 1] + terms[j - 1] BY <1>4 DEF IsSum
  <2> QED BY <1>4, <2>1, <2>2 DEF IsSum
<1>7. f[i] =< f[j - 1] BY <1>4, <1>5
<1> QED BY <1>1, <1>2, <1>4, <1>6, <1>7

\* A bounded set of naturals has a greatest one.
LEMMA Greatest ==
  ASSUME NEW T \in SUBSET Nat, T # {}, NEW top \in Nat, \A n \in T : n =< top
  PROVE  \E m \in T : \A n \in T : n =< m
<1> DEFINE U == {m \in Nat : \A n \in T : n =< m}
<1>1. PICK m \in U : \A k \in U : m =< k
  <2>1. U \in SUBSET Nat /\ U # {} OBVIOUS
  <2> HIDE DEF U
  <2> QED BY <2>1, Least
<1>2. m \in T
  <2> SUFFICES ASSUME m \notin T PROVE FALSE OBVIOUS
  <2>1. \A n \in T : n < m BY <1>1
  <2>2. PICK t \in T : TRUE OBVIOUS
  <2>3. m - 1 \in U BY <2>1, <2>2
  <2> QED BY <2>3, <1>1
<1> QED BY <1>1, <1>2

\* The upper-bound search finds the cell whose tasks the task is among.
LEMMA SearchOf ==
  ASSUME Pass!Assumption, taskOffset \in [Pass!CellsAndEnd -> Nat],
         \A a, b \in Pass!CellsAndEnd : a =< b => taskOffset[a] =< taskOffset[b],
         NEW t \in Nat, taskOffset[0] =< t, t < taskOffset[NCells]
  PROVE  LET c == Pass!CellOfTask(t)
         IN c \in Pass!Cells /\ taskOffset[c] =< t /\ t < taskOffset[c + 1]
<1> DEFINE C == Pass!Cells  E == Pass!CellsAndEnd
           Mid(lo, hi) == lo + (hi - lo) \div 2
           Body(f) == [r \in C \X E |->
              IF r[1] + 1 >= r[2] THEN r[1]
              ELSE LET mid == r[1] + (r[2] - r[1]) \div 2
                   IN f[IF taskOffset[mid] <= t THEN <<mid, r[2]>> ELSE <<r[1], mid>>]]
           s == CHOOSE f : f = Body(f)
<1>1. Pass!CellOfTask(t) = s[<<0, NCells>>] BY DEF Pass!CellOfTask
<1>2. /\ NCells \in Nat \ {0} /\ C = 0 .. NCells - 1 /\ E = 0 .. NCells
      /\ 0 \in C /\ NCells \in E /\ C \subseteq E
  BY DEF Pass!Assumption, Pass!Cells, Pass!CellsAndEnd
<1>3. ASSUME NEW lo \in C, NEW hi \in E, lo + 1 < hi
      PROVE  Mid(lo, hi) \in C /\ lo < Mid(lo, hi) /\ Mid(lo, hi) < hi
  BY <1>2, <1>3
<1> DEFINE Mine(lo, hi) == {c \in lo .. hi - 1 : c = lo \/ taskOffset[c] =< t}
           Top(lo, hi) == IF lo + 1 >= hi THEN lo
                          ELSE CHOOSE c \in Mine(lo, hi) : \A d \in Mine(lo, hi) : d =< c
           G == [r \in C \X E |-> Top(r[1], r[2])]
<1>4. ASSUME NEW lo \in C, NEW hi \in E, lo < hi
      PROVE  Top(lo, hi) \in Mine(lo, hi) /\ \A d \in Mine(lo, hi) : d =< Top(lo, hi)
  <2>1. CASE lo + 1 >= hi BY <2>1, <1>2, <1>4
  <2>2. CASE lo + 1 < hi
    <3>1. Mine(lo, hi) \in SUBSET Nat /\ lo \in Mine(lo, hi) /\ hi \in Nat
          /\ \A d \in Mine(lo, hi) : d =< hi
      BY <1>2, <1>4
    <3>2. \E c \in Mine(lo, hi) : \A d \in Mine(lo, hi) : d =< c
      <4> HIDE DEF Mine
      <4> QED BY <3>1, Greatest
    <3>3. ~(lo + 1 >= hi) BY <1>2, <2>2
    <3> HIDE DEF Mine
    <3> QED BY <3>2, <3>3
  <2>3. lo + 1 >= hi \/ lo + 1 < hi BY <1>2
  <2> HIDE DEF Top, Mine
  <2> QED BY <2>1, <2>2, <2>3
<1> HIDE DEF Top, Mine
<1> HIDE DEF C, E
<1>10. ASSUME NEW a \in C, NEW b \in E PROVE G[<<a, b>>] = Top(a, b)
  OBVIOUS
<1>5. \E f : f = Body(f)
  <2>1. ASSUME NEW lo \in C, NEW hi \in E PROVE Top(lo, hi) = Body(G)[<<lo, hi>>]
    <3>1. CASE lo + 1 >= hi
      <4>1. Body(G)[<<lo, hi>>] = lo BY <3>1
      <4> QED BY <3>1, <4>1 DEF Top
    <3>2. CASE lo + 1 < hi
      <4> DEFINE mid == Mid(lo, hi)
      <4>1. mid \in C /\ mid \in E /\ lo < mid /\ mid < hi BY <1>2, <1>3, <3>2
      <4>2. ~(lo + 1 >= hi) BY <1>2, <3>2
      <4>3. Body(G)[<<lo, hi>>] = IF taskOffset[mid] <= t THEN Top(mid, hi) ELSE Top(lo, mid)
        <5> HIDE DEF G
        <5>1. Body(G)[<<lo, hi>>] = G[IF taskOffset[mid] =< t THEN <<mid, hi>> ELSE <<lo, mid>>]
          BY <4>2
        <5> QED BY <5>1, <4>1, <1>10
      <4>6. lo < hi /\ lo \in Int /\ mid \in Int /\ hi \in Int BY <4>1, <1>2
      <4> HIDE DEF mid, Body, G
      <4>4. CASE taskOffset[mid] =< t
        <5>1. Top(mid, hi) \in Mine(mid, hi) /\ \A d \in Mine(mid, hi) : d =< Top(mid, hi)
          BY <4>1, <1>4
        <5>2. Top(lo, hi) \in Mine(lo, hi) /\ \A d \in Mine(lo, hi) : d =< Top(lo, hi)
          BY <4>6, <1>4
        <5>3. mid \in Mine(lo, hi) BY <4>1, <4>4, <4>6 DEF Mine
        <5>4. Top(mid, hi) \in Mine(lo, hi) BY <5>1, <4>1, <4>4, <4>6 DEF Mine
        <5>5. Top(lo, hi) \in Mine(mid, hi) BY <5>2, <5>3, <4>1, <4>4, <4>6 DEF Mine
        <5>6. Top(lo, hi) \in Int /\ Top(mid, hi) \in Int BY <5>1, <5>2, <4>6 DEF Mine
        <5>7. Top(lo, hi) =< Top(mid, hi) /\ Top(mid, hi) =< Top(lo, hi)
          BY <5>1, <5>2, <5>4, <5>5
        <5> QED BY <5>6, <5>7, <4>3, <4>4
      <4>5. CASE ~(taskOffset[mid] =< t)
        <5>1. Top(lo, mid) \in Mine(lo, mid) /\ \A d \in Mine(lo, mid) : d =< Top(lo, mid)
          BY <4>1, <1>4
        <5>2. Top(lo, hi) \in Mine(lo, hi) /\ \A d \in Mine(lo, hi) : d =< Top(lo, hi)
          BY <4>6, <1>4
        <5>3. \A d \in Mine(lo, hi) : d < mid
          <6> SUFFICES ASSUME NEW d \in lo .. hi - 1, d = lo \/ taskOffset[d] =< t, mid =< d
                       PROVE FALSE
            BY <4>6 DEF Mine
          <6>1. d \in E /\ d # lo BY <4>1, <1>2
          <6>2. taskOffset[mid] =< taskOffset[d] /\ taskOffset[mid] \in Nat /\ taskOffset[d] \in Nat
            BY <4>1, <6>1 DEF E
          <6> QED BY <6>1, <6>2, <4>5
        <5>4. Top(lo, mid) \in Mine(lo, hi) BY <5>1, <4>1, <4>6 DEF Mine
        <5>5. Top(lo, hi) \in Mine(lo, mid) BY <5>2, <5>3, <4>1, <4>6 DEF Mine
        <5>6. Top(lo, hi) \in Int /\ Top(lo, mid) \in Int BY <5>1, <5>2, <4>6 DEF Mine
        <5>7. Top(lo, hi) =< Top(lo, mid) /\ Top(lo, mid) =< Top(lo, hi)
          BY <5>1, <5>2, <5>4, <5>5
        <5> QED BY <5>6, <5>7, <4>3, <4>5
      <4> QED BY <4>4, <4>5
    <3>3. lo + 1 >= hi \/ lo + 1 < hi BY <1>2
    <3> HIDE DEF Body, G
    <3> QED BY <3>1, <3>2, <3>3
  <2>2. ASSUME NEW r \in C \X E PROVE G[r] = Body(G)[r]
    <3>1. r[1] \in C /\ r[2] \in E /\ r = <<r[1], r[2]>> OBVIOUS
    <3>2. Top(r[1], r[2]) = Body(G)[<<r[1], r[2]>>] BY <2>1, <3>1
    <3>3. G[r] = Top(r[1], r[2]) OBVIOUS
    <3> HIDE DEF Body, G
    <3> QED BY <3>1, <3>2, <3>3
  <2>3. Body(G) = [r \in C \X E |-> Body(G)[r]]
    <3> HIDE DEF G
    <3> QED OBVIOUS
  <2>4. G = [r \in C \X E |-> G[r]] OBVIOUS
  <2> HIDE DEF G, Body
  <2> QED BY <2>2, <2>3, <2>4
<1>6. s = Body(s) BY <1>5
<1>7. ASSUME NEW lo \in C, NEW hi \in E
      PROVE  s[<<lo, hi>>] = IF lo + 1 >= hi THEN lo
                         ELSE IF taskOffset[Mid(lo, hi)] <= t THEN s[<<Mid(lo, hi), hi>>]
                         ELSE s[<<lo, Mid(lo, hi)>>]
  <2>1. s[<<lo, hi>>] = Body(s)[<<lo, hi>>] BY <1>6
  <2> HIDE DEF s
  <2> QED BY <2>1
<1> HIDE DEF s
<1> DEFINE Around(lo, hi) == lo < hi /\ taskOffset[lo] =< t /\ t < taskOffset[hi]
           Found(lo, hi) == /\ s[<<lo, hi>>] \in C
                            /\ taskOffset[s[<<lo, hi>>]] =< t /\ t < taskOffset[s[<<lo, hi>>] + 1]
           Bad == {m \in Nat : \E lo \in C : \E hi \in E :
                     m = hi - lo /\ Around(lo, hi) /\ ~Found(lo, hi)}
<1>8. Bad = {}
  <2> SUFFICES ASSUME Bad # {} PROVE FALSE OBVIOUS
  <2>1. PICK m \in Bad : \A n \in Bad : m =< n
    <3>1. Bad \in SUBSET Nat OBVIOUS
    <3> HIDE DEF Bad
    <3> QED BY <3>1, Least
  <2>2. PICK lo \in C, hi \in E : m = hi - lo /\ Around(lo, hi) /\ ~Found(lo, hi) BY <2>1
  <2>3. CASE lo + 1 >= hi
    <3>1. hi = lo + 1 BY <2>2, <2>3, <1>2
    <3>2. s[<<lo, hi>>] = lo BY <2>3, <1>7
    <3> QED BY <2>2, <3>1, <3>2
  <2>4. CASE lo + 1 < hi
    <3> DEFINE mid == Mid(lo, hi)
    <3>1. mid \in C /\ mid \in E /\ lo < mid /\ mid < hi /\ taskOffset[mid] \in Nat
      BY <1>2, <1>3, <2>4 DEF E
    <3>2. s[<<lo, hi>>] = IF taskOffset[mid] <= t THEN s[<<mid, hi>>] ELSE s[<<lo, mid>>]
      BY <2>4, <1>7, <1>2
    <3> HIDE DEF mid
    <3>3. hi - mid \in Nat /\ mid - lo \in Nat /\ hi - mid < m /\ mid - lo < m
      BY <3>1, <2>2, <1>2
    <3>4. hi - mid \notin Bad /\ mid - lo \notin Bad
      <4>1. m \in Nat BY <2>1
      <4> HIDE DEF Bad
      <4> QED BY <3>3, <2>1, <4>1
    <3>5. CASE taskOffset[mid] =< t
      <4>1. Around(mid, hi) BY <3>1, <3>5, <2>2
      <4>2. Found(mid, hi) BY <4>1, <3>1, <3>3, <3>4
      <4> QED BY <4>2, <3>2, <3>5, <2>2
    <3>6. CASE ~(taskOffset[mid] =< t)
      <4>1. Around(lo, mid) BY <3>1, <3>6, <2>2
      <4>2. Found(lo, mid) BY <4>1, <3>1, <3>3, <3>4
      <4> QED BY <4>2, <3>2, <3>6, <2>2
    <3> QED BY <3>5, <3>6
  <2> QED BY <2>3, <2>4, <1>2
<1>9. Found(0, NCells)
  <2>1. NCells - 0 \in Nat /\ Around(0, NCells) BY <1>2
  <2> QED BY <2>1, <1>8, <1>2
<1> QED BY <1>1, <1>9 DEF C

\* The set and counting operators of the instanced module are those of this one.
LEMMA SameSize ==
  ASSUME NEW S
  PROVE  Pass!Cardinality(S) = Cardinality(S) /\ Pass!IsFiniteSet(S) = IsFiniteSet(S)
BY DEF Pass!Cardinality, Cardinality, Pass!IsFiniteSet, IsFiniteSet

\* A directory that Init may choose.
Listed ==
  /\ kind \in Pass!Kinds /\ baseOffset \in Pass!Offsets /\ offset \in Pass!Offsets
  /\ Pass!WithinCapacity(kind, baseOffset, offset)

\* Offsets of cells that hold some number of particles each.
Counts(o) ==
  /\ o \in [Pass!CellsAndEnd -> Nat] /\ o[0] = 0
  /\ \A c \in Pass!Cells : o[c] =< o[c + 1]

\* Offsets are the exclusive sums of some numbers of particles.
LEMMA OffsetsCount ==
  ASSUME Pass!Assumption, NEW o \in Pass!Offsets
  PROVE  Counts(o)
<1>1. PICK n \in [Pass!Cells -> Occupancies] : o = Pass!ExclusiveSum(n) BY DEF Pass!Offsets
<1>2. NCells \in Nat /\ \A i \in 0 .. NCells - 1 : n[i] \in Nat
  <2>1. NCells \in Nat /\ \A k \in Occupancies : k \in Nat BY DEF Pass!Assumption
  <2>2. \A i \in 0 .. NCells - 1 : n[i] \in Occupancies BY <1>1 DEF Pass!Cells
  <2> QED BY <2>1, <2>2
<1>3. IsSum(o, NCells, n) BY <1>1, <1>2, RunningSumOf DEF Pass!ExclusiveSum
<1> QED BY <1>2, <1>3 DEF IsSum, Counts, Pass!Cells, Pass!CellsAndEnd

\* What a directory says of its cells is a number of particles, and they fit.
LEMMA DirectoryCounts ==
  ASSUME Pass!Assumption, Listed
  PROVE  /\ Counts(baseOffset) /\ Counts(offset)
         /\ Pass!Population \in Nat /\ Pass!Population =< ParticleCapacity
         /\ \A c \in Pass!Cells :
              /\ baseOffset[c] \in Nat /\ offset[c] \in Nat
              /\ baseOffset[c + 1] \in Nat /\ offset[c + 1] \in Nat
              /\ Pass!BaseCount(c) \in Nat /\ Pass!IndexedCount(c) \in Nat
              /\ baseOffset[c + 1] = baseOffset[c] + Pass!BaseCount(c)
              /\ offset[c + 1] = offset[c] + Pass!IndexedCount(c)
              /\ Pass!CellPopulation(c) \in Nat
<1>1. Counts(baseOffset) /\ Counts(offset) BY OffsetsCount DEF Listed
<1>2. /\ NCells \in Nat \ {0} /\ ParticleCapacity \in Nat
      /\ NCells \in Pass!CellsAndEnd /\ \A c \in Pass!Cells : c \in Pass!CellsAndEnd /\ c + 1 \in Pass!CellsAndEnd
  BY DEF Pass!Assumption, Pass!Cells, Pass!CellsAndEnd
<1>3. baseOffset[NCells] \in Nat /\ offset[NCells] \in Nat BY <1>1, <1>2 DEF Counts
<1>4. kind \in {"full", "baseOnly", "split"} BY DEF Listed, Pass!Kinds
<1>5. Pass!Population \in Nat /\ Pass!Population =< ParticleCapacity
  BY <1>2, <1>3, <1>4 DEF Listed, Pass!WithinCapacity, Pass!Population
<1>6. ASSUME NEW c \in Pass!Cells
      PROVE  /\ baseOffset[c] \in Nat /\ offset[c] \in Nat
             /\ baseOffset[c + 1] \in Nat /\ offset[c + 1] \in Nat
             /\ Pass!BaseCount(c) \in Nat /\ Pass!IndexedCount(c) \in Nat
             /\ baseOffset[c + 1] = baseOffset[c] + Pass!BaseCount(c)
             /\ offset[c + 1] = offset[c] + Pass!IndexedCount(c)
  <2>1. /\ baseOffset[c] \in Nat /\ offset[c] \in Nat
        /\ baseOffset[c + 1] \in Nat /\ offset[c + 1] \in Nat
        /\ baseOffset[c] =< baseOffset[c + 1] /\ offset[c] =< offset[c + 1]
    BY <1>1, <1>2 DEF Counts
  <2> QED BY <2>1 DEF Pass!BaseCount, Pass!IndexedCount
<1>7. \A c \in Pass!Cells : Pass!CellPopulation(c) \in Nat
  BY <1>4, <1>6 DEF Pass!CellPopulation
<1> QED BY <1>1, <1>5, <1>6, <1>7

-----------------------------------------------------------------------------
\* The i-th particle that the directory has in cell c.
At(c, i) ==
  CASE kind = "full"     -> <<"indexed", offset[c] + i>>
    [] kind = "baseOnly" -> <<"direct", baseOffset[c] + i>>
    [] kind = "split"    -> IF i < Pass!BaseCount(c) THEN <<"direct", baseOffset[c] + i>>
                            ELSE <<"indexed", offset[c] + i - Pass!BaseCount(c)>>
Run(c, from, to) == {At(c, i) : i \in from .. to - 1}
First(c) ==
  CASE kind = "full" -> offset[c] [] kind = "baseOnly" -> baseOffset[c] [] kind = "split" -> 0

\* The particles of a cell are its sequence, as long as the cell is.
LEMMA ParticlesRun ==
  ASSUME Pass!Assumption, Listed, NEW c \in Pass!Cells
  PROVE  Pass!Particles(c) = Run(c, 0, Pass!CellPopulation(c))
<1>1. kind \in {"full", "baseOnly", "split"} BY DEF Listed, Pass!Kinds
<1> DEFINE b == baseOffset[c]  o == offset[c]  n == Pass!BaseCount(c)  m == Pass!IndexedCount(c)
<1>2. /\ b \in Nat /\ o \in Nat /\ n \in Nat /\ m \in Nat
      /\ baseOffset[c + 1] = b + n /\ offset[c + 1] = o + m
  BY DirectoryCounts
<1>3. /\ kind = "full" => Pass!Particles(c) = {<<"indexed", i>> : i \in o .. (o + m) - 1}
      /\ kind = "baseOnly" => Pass!Particles(c) = {<<"direct", i>> : i \in b .. (b + n) - 1}
      /\ kind = "split" => Pass!Particles(c) = {<<"indexed", i>> : i \in o .. (o + m) - 1}
                                                 \cup {<<"direct", i>> : i \in b .. (b + n) - 1}
  BY <1>2 DEF Pass!Particles, Pass!Indexed, Pass!Direct
<1>4. /\ kind = "full" => Pass!CellPopulation(c) = m
      /\ kind = "baseOnly" => Pass!CellPopulation(c) = n
      /\ kind = "split" => Pass!CellPopulation(c) = n + m
  BY <1>1 DEF Pass!CellPopulation
<1>5. /\ kind = "full" => \A i : At(c, i) = <<"indexed", o + i>>
      /\ kind = "baseOnly" => \A i : At(c, i) = <<"direct", b + i>>
      /\ kind = "split" => \A i : At(c, i) = IF i < n THEN <<"direct", b + i>>
                                             ELSE <<"indexed", o + i - n>>
  BY DEF At
<1> HIDE DEF b, o, n, m
<1>6. CASE kind = "full"
  <2>1. Run(c, 0, m) = {<<"indexed", o + i>> : i \in 0 .. m - 1} BY <1>5, <1>6 DEF Run
  <2>2. {<<"indexed", o + i>> : i \in 0 .. m - 1} = {<<"indexed", i>> : i \in o .. (o + m) - 1}
    <3>1. \A i \in o .. (o + m) - 1 : i - o \in 0 .. m - 1 /\ o + (i - o) = i BY <1>2
    <3>2. \A i \in 0 .. m - 1 : o + i \in o .. (o + m) - 1 BY <1>2
    <3> QED BY <3>1, <3>2
  <2> QED BY <2>1, <2>2, <1>3, <1>4, <1>6
<1>7. CASE kind = "baseOnly"
  <2>1. Run(c, 0, n) = {<<"direct", b + i>> : i \in 0 .. n - 1} BY <1>5, <1>7 DEF Run
  <2>2. {<<"direct", b + i>> : i \in 0 .. n - 1} = {<<"direct", i>> : i \in b .. (b + n) - 1}
    <3>1. \A i \in b .. (b + n) - 1 : i - b \in 0 .. n - 1 /\ b + (i - b) = i BY <1>2
    <3>2. \A i \in 0 .. n - 1 : b + i \in b .. (b + n) - 1 BY <1>2
    <3> QED BY <3>1, <3>2
  <2> QED BY <2>1, <2>2, <1>3, <1>4, <1>7
<1>8. CASE kind = "split"
  <2> DEFINE P == Run(c, 0, n + m)
             Q == {<<"indexed", i>> : i \in o .. (o + m) - 1}
             R == {<<"direct", i>> : i \in b .. (b + n) - 1}
  <2>1. ASSUME NEW i \in 0 .. (n + m) - 1 PROVE At(c, i) \in Q \cup R
    <3>1. CASE i < n
      <4>1. b + i \in b .. (b + n) - 1 BY <1>2, <3>1
      <4>2. At(c, i) = <<"direct", b + i>> BY <1>5, <1>8, <3>1
      <4> QED BY <4>1, <4>2
    <3>2. CASE ~(i < n)
      <4>1. o + i - n \in o .. (o + m) - 1 BY <1>2, <3>2
      <4>2. At(c, i) = <<"indexed", o + i - n>> BY <1>5, <1>8, <3>2
      <4> QED BY <4>1, <4>2
    <3> QED BY <3>1, <3>2
  <2>2. ASSUME NEW j \in o .. (o + m) - 1 PROVE <<"indexed", j>> \in P
    <3>1. (j - o) + n \in 0 .. (n + m) - 1 /\ ~((j - o) + n < n) /\ o + ((j - o) + n) - n = j
      BY <1>2
    <3>2. At(c, (j - o) + n) = <<"indexed", j>> BY <1>5, <1>8, <3>1
    <3> QED BY <3>1, <3>2 DEF Run
  <2>3. ASSUME NEW j \in b .. (b + n) - 1 PROVE <<"direct", j>> \in P
    <3>1. j - b \in 0 .. (n + m) - 1 /\ j - b < n /\ b + (j - b) = j BY <1>2
    <3>2. At(c, j - b) = <<"direct", j>> BY <1>5, <1>8, <3>1
    <3> QED BY <3>1, <3>2 DEF Run
  <2>4. P \subseteq Q \cup R BY <2>1 DEF Run
  <2>5. Q \subseteq P /\ R \subseteq P BY <2>2, <2>3
  <2> HIDE DEF P
  <2>6. P = Q \cup R BY <2>4, <2>5
  <2> QED BY <2>6, <1>3, <1>4, <1>8 DEF P
<1> QED BY <1>1, <1>6, <1>7, <1>8

\* What a worker visits for a part of a cell's sequence.
LEMMA VisitedRun ==
  ASSUME Pass!Assumption, Listed, NEW c \in Pass!Cells,
         NEW x \in Nat, NEW y \in Nat, x =< y, NEW d,
         d.cell = c, d.begin = First(c) + x, d.end = First(c) + y
  PROVE  Pass!Visited(d) = Run(c, x, y)
<1>1. kind \in {"full", "baseOnly", "split"} BY DEF Listed, Pass!Kinds
<1> DEFINE b == baseOffset[c]  o == offset[c]  n == Pass!BaseCount(c)
           k == Pass!Least(y, n)  l == Pass!Greatest(x, n)
<1>2. b \in Nat /\ o \in Nat /\ n \in Nat BY DirectoryCounts
<1>3. d.cell = c /\ d.begin = First(c) + x /\ d.end = First(c) + y OBVIOUS
<1>4. /\ kind = "full" => First(c) = o
      /\ kind = "baseOnly" => First(c) = b
      /\ kind = "split" => First(c) = 0
  BY DEF First
<1>5. /\ kind = "full" => Pass!Visited(d) = {<<"indexed", i>> : i \in o + x .. (o + y) - 1}
      /\ kind = "baseOnly" => Pass!Visited(d) = {<<"direct", i>> : i \in b + x .. (b + y) - 1}
  BY <1>3, <1>4 DEF Pass!Visited, Pass!Indexed, Pass!Direct
<1>6. kind = "split" => Pass!Visited(d) = {<<"direct", i>> : i \in b + x .. (b + k) - 1}
                          \cup {<<"indexed", i>> : i \in o + l - n .. (o + y - n) - 1}
  <2>1. kind = "split" => d.begin = x /\ d.end = y BY <1>3, <1>4
  <2> QED BY <1>3, <2>1 DEF Pass!Visited, Pass!Indexed, Pass!Direct
<1>7. /\ kind = "full" => \A i : At(c, i) = <<"indexed", o + i>>
      /\ kind = "baseOnly" => \A i : At(c, i) = <<"direct", b + i>>
      /\ kind = "split" => \A i : At(c, i) = IF i < n THEN <<"direct", b + i>>
                                             ELSE <<"indexed", o + i - n>>
  BY DEF At
<1> HIDE DEF b, o, n
<1>8. CASE kind = "full"
  <2>1. Run(c, x, y) = {<<"indexed", o + i>> : i \in x .. y - 1} BY <1>7, <1>8 DEF Run
  <2>2. {<<"indexed", o + i>> : i \in x .. y - 1} = {<<"indexed", i>> : i \in o + x .. (o + y) - 1}
    <3>1. \A i \in o + x .. (o + y) - 1 : i - o \in x .. y - 1 /\ o + (i - o) = i BY <1>2
    <3>2. \A i \in x .. y - 1 : o + i \in o + x .. (o + y) - 1 BY <1>2
    <3> QED BY <3>1, <3>2
  <2> QED BY <2>1, <2>2, <1>5, <1>8
<1>9. CASE kind = "baseOnly"
  <2>1. Run(c, x, y) = {<<"direct", b + i>> : i \in x .. y - 1} BY <1>7, <1>9 DEF Run
  <2>2. {<<"direct", b + i>> : i \in x .. y - 1} = {<<"direct", i>> : i \in b + x .. (b + y) - 1}
    <3>1. \A i \in b + x .. (b + y) - 1 : i - b \in x .. y - 1 /\ b + (i - b) = i BY <1>2
    <3>2. \A i \in x .. y - 1 : b + i \in b + x .. (b + y) - 1 BY <1>2
    <3> QED BY <3>1, <3>2
  <2> QED BY <2>1, <2>2, <1>5, <1>9
<1>10. CASE kind = "split"
  <2> DEFINE P == Run(c, x, y)
             Q == {<<"indexed", i>> : i \in o + l - n .. (o + y - n) - 1}
             R == {<<"direct", i>> : i \in b + x .. (b + k) - 1}
  <2>0. /\ k \in Nat /\ k =< y /\ k =< n /\ (k = y \/ k = n)
        /\ l \in Nat /\ x =< l /\ n =< l /\ (l = x \/ l = n)
    BY <1>2 DEF Pass!Least, Pass!Greatest
  <2> HIDE DEF k, l
  <2>1. ASSUME NEW i \in x .. y - 1 PROVE At(c, i) \in Q \cup R
    <3>1. CASE i < n
      <4>1. b + i \in b + x .. (b + k) - 1 BY <1>2, <3>1, <2>0
      <4>2. At(c, i) = <<"direct", b + i>> BY <1>7, <1>10, <3>1
      <4> QED BY <4>1, <4>2
    <3>2. CASE ~(i < n)
      <4>1. o + i - n \in o + l - n .. (o + y - n) - 1 BY <1>2, <3>2, <2>0
      <4>2. At(c, i) = <<"indexed", o + i - n>> BY <1>7, <1>10, <3>2
      <4> QED BY <4>1, <4>2
    <3> QED BY <3>1, <3>2
  <2>2. ASSUME NEW j \in o + l - n .. (o + y - n) - 1 PROVE <<"indexed", j>> \in P
    <3>1. (j - o) + n \in x .. y - 1 /\ ~((j - o) + n < n) /\ o + ((j - o) + n) - n = j
      BY <1>2, <2>0
    <3>2. At(c, (j - o) + n) = <<"indexed", j>> BY <1>7, <1>10, <3>1
    <3> QED BY <3>1, <3>2 DEF Run
  <2>3. ASSUME NEW j \in b + x .. (b + k) - 1 PROVE <<"direct", j>> \in P
    <3>1. j - b \in x .. y - 1 /\ j - b < n /\ b + (j - b) = j BY <1>2, <2>0
    <3>2. At(c, j - b) = <<"direct", j>> BY <1>7, <1>10, <3>1
    <3> QED BY <3>1, <3>2 DEF Run
  <2>4. P \subseteq Q \cup R BY <2>1 DEF Run
  <2>5. Q \subseteq P /\ R \subseteq P BY <2>2, <2>3
  <2> HIDE DEF P
  <2>6. P = Q \cup R BY <2>4, <2>5
  <2> QED BY <2>6, <1>6, <1>10 DEF P
<1> QED BY <1>1, <1>8, <1>9, <1>10

\* No particle comes twice in the sequence of a cell.
LEMMA RunsApart ==
  ASSUME Pass!Assumption, Listed, NEW c \in Pass!Cells,
         NEW i \in Nat, NEW j \in Nat, At(c, i) = At(c, j)
  PROVE  i = j
<1>1. kind \in {"full", "baseOnly", "split"} BY DEF Listed, Pass!Kinds
<1>2. baseOffset[c] \in Nat /\ offset[c] \in Nat /\ Pass!BaseCount(c) \in Nat BY DirectoryCounts
<1> QED BY <1>1, <1>2 DEF At

\* A run of a sequence has as many particles as places.
LEMMA RunSize ==
  ASSUME Pass!Assumption, Listed, NEW c \in Pass!Cells, NEW x \in Nat, NEW y \in Nat, x =< y
  PROVE  IsFiniteSet(Run(c, x, y)) /\ Cardinality(Run(c, x, y)) = y - x
<1> DEFINE S == x .. y - 1  T == Run(c, x, y)  f == [i \in S |-> At(c, i)]
<1>1. IsFiniteSet(S) /\ Cardinality(S) = y - x
  <2>1. IsFiniteSet(S) /\ Cardinality(S) = IF x > y - 1 THEN 0 ELSE (y - 1) - x + 1 BY FS_Interval
  <2> QED BY <2>1
<1>2. f \in Bijection(S, T)
  <2>1. f \in [S -> T] BY DEF Run
  <2>2. \A i, j \in S : f[i] = f[j] => i = j BY RunsApart
  <2>3. \A t \in T : \E i \in S : f[i] = t BY DEF Run
  <2> QED BY <2>1, <2>2, <2>3 DEF Bijection, Injection, Surjection, IsInjective
<1> QED BY <1>1, <1>2, FS_Bijection DEF ExistsBijection

\* Multiplication by a natural keeps order.
LEMMA Products ==
  ASSUME NEW d \in Nat, NEW a \in Nat, NEW b \in Nat, a =< b
  PROVE  a * d \in Nat /\ b * d \in Nat /\ a * d =< b * d /\ (a < b => a * d + d =< b * d)
<1>1. a * d \in Nat /\ b * d \in Nat OBVIOUS
<1>2. PICK e \in Nat : b = a + e
  <2>1. b - a \in Nat /\ b = a + (b - a) OBVIOUS
  <2> QED BY <2>1
<1>3. b * d = a * d + e * d /\ e * d \in Nat BY <1>2
<1>4. a < b => e * d >= d
  <2>1. SUFFICES ASSUME e >= 1 PROVE e * d >= d BY <1>2
  <2>2. PICK g \in Nat : e = g + 1
    <3>1. e - 1 \in Nat /\ e = (e - 1) + 1 BY <2>1
    <3> QED BY <3>1
  <2>3. e * d = g * d + d /\ g * d \in Nat BY <2>2
  <2> QED BY <2>3
<1> QED BY <1>1, <1>3, <1>4

\* Division with remainder.
LEMMA Quotient ==
  ASSUME NEW c \in Nat \ {0}, NEW a \in Nat
  PROVE  a \div c \in Nat /\ a % c \in 0 .. c - 1 /\ a = (a \div c) * c + (a % c)
OBVIOUS

\* The pieces of d that cover n: those that begin before the end.
LEMMA CeilOf ==
  ASSUME NEW n \in Nat, NEW d \in Nat \ {0}
  PROVE  /\ Pass!CeilDiv(n, d) \in Nat
         /\ \A l \in Nat : l * d \in Nat /\ (l < Pass!CeilDiv(n, d) <=> l * d < n)
<1>1. \A l \in Nat : l * d \in Nat OBVIOUS
<1>2. CASE n = 0
  <2>1. Pass!CeilDiv(n, d) = 0 BY <1>2 DEF Pass!CeilDiv
  <2> QED BY <1>1, <1>2, <2>1
<1>3. CASE n > 0
  <2> DEFINE q == (n - 1) \div d
  <2>1. n - 1 \in Nat BY <1>3
  <2>2. q \in Nat /\ q * d \in Nat /\ q * d =< n - 1 /\ n - 1 < q * d + d
    <3>1. q \in Nat /\ (n - 1) % d \in 0 .. d - 1 /\ n - 1 = q * d + ((n - 1) % d)
      BY <2>1, Quotient
    <3>2. q * d \in Nat BY <3>1
    <3> HIDE DEF q
    <3> QED BY <3>1, <3>2
  <2>3. Pass!CeilDiv(n, d) = q + 1 BY <1>3 DEF Pass!CeilDiv
  <2> HIDE DEF q
  <2>4. ASSUME NEW l \in Nat PROVE l < q + 1 <=> l * d < n
    <3>1. CASE l =< q
      <4>1. l * d =< q * d /\ l * d \in Nat BY <2>2, <3>1, Products
      <4> QED BY <4>1, <2>2, <3>1
    <3>2. CASE q < l
      <4>1. q * d + d =< l * d /\ l * d \in Nat BY <2>2, <3>2, Products
      <4> QED BY <4>1, <2>2, <3>2
    <3> QED BY <3>1, <3>2, <2>2
  <2> QED BY <1>1, <2>2, <2>3, <2>4
<1> QED BY <1>2, <1>3

\* A tile is at least one block of threads.
LEMMA TileOf ==
  ASSUME Pass!Assumption, NEW p \in Nat
  PROVE  Pass!HardwareTile(p) \in Nat /\ Pass!HardwareTile(p) >= BlockThreads
<1> DEFINE w == ResidentBlocks * BlockThreads
           k == IF p = 0 THEN 1 ELSE 1 + (p - 1) \div w
<1>1. BlockThreads \in Nat \ {0} /\ ResidentBlocks \in Nat \ {0} BY DEF Pass!Assumption
<1>2. w \in Nat \ {0}
  <2>1. 1 * BlockThreads =< ResidentBlocks * BlockThreads /\ w \in Nat BY <1>1, Products
  <2> QED BY <1>1, <2>1
<1>3. Pass!HardwareTile(p) = k * BlockThreads BY DEF Pass!HardwareTile
<1> HIDE DEF w
<1>4. k \in Nat /\ 1 =< k
  <2>1. CASE p = 0 BY <2>1
  <2>2. CASE p # 0
    <3>1. (p - 1) \div w \in Nat BY <1>2, <2>2, Quotient
    <3> QED BY <3>1, <2>2
  <2> QED BY <2>1, <2>2
<1> HIDE DEF k
<1>5. 1 * BlockThreads =< k * BlockThreads /\ k * BlockThreads \in Nat BY <1>1, <1>4, Products
<1> QED BY <1>1, <1>3, <1>5

-----------------------------------------------------------------------------
\* The particles of the l-th task of cell c.
Until(c, l) == l * tile + Pass!Least(tile, Pass!CellPopulation(c) - l * tile)
Slice(c, l) == Run(c, l * tile, Until(c, l))
Pieces(c) == Pass!CeilDiv(Pass!CellPopulation(c), tile)

\* The slices of a cell begin and end inside it, and none is empty or too large.
LEMMA SliceBounds ==
  ASSUME Pass!Assumption, Listed, tile \in Nat \ {0}, NEW c \in Pass!Cells
  PROVE  /\ Pieces(c) \in Nat
         /\ \A l \in 0 .. Pieces(c) - 1 :
              /\ l * tile \in Nat /\ Until(c, l) \in Nat /\ l * tile < Until(c, l)
              /\ Until(c, l) =< Pass!CellPopulation(c) /\ Until(c, l) =< l * tile + tile
              /\ Until(c, l) = l * tile + tile \/ Until(c, l) = Pass!CellPopulation(c)
         /\ Pass!CellPopulation(c) =< Pieces(c) * tile /\ Pieces(c) * tile \in Nat
<1> DEFINE n == Pass!CellPopulation(c)
<1>1. n \in Nat BY DirectoryCounts
<1>2. Pieces(c) \in Nat /\ \A l \in Nat : l * tile \in Nat /\ (l < Pieces(c) <=> l * tile < n)
  BY <1>1, CeilOf DEF Pieces
<1>3. Pieces(c) * tile \in Nat /\ ~(Pieces(c) * tile < n) BY <1>2
<1>4. ASSUME NEW l \in 0 .. Pieces(c) - 1
      PROVE  /\ l * tile \in Nat /\ Until(c, l) \in Nat /\ l * tile < Until(c, l)
             /\ Until(c, l) =< n /\ Until(c, l) =< l * tile + tile
             /\ Until(c, l) = l * tile + tile \/ Until(c, l) = n
  <2>1. l * tile \in Nat /\ l * tile < n BY <1>2
  <2>2. Until(c, l) = l * tile + (IF tile < n - l * tile THEN tile ELSE n - l * tile)
    BY DEF Until, Pass!Least
  <2> QED BY <1>1, <2>1, <2>2
<1> QED BY <1>1, <1>2, <1>3, <1>4

\* A slice has one to a tile of particles.
LEMMA SliceSize ==
  ASSUME Pass!Assumption, Listed, tile \in Nat \ {0}, NEW c \in Pass!Cells,
         NEW l \in 0 .. Pieces(c) - 1
  PROVE  /\ Cardinality(Slice(c, l)) = Until(c, l) - l * tile
         /\ Cardinality(Slice(c, l)) \in 1 .. tile
<1>1. /\ l * tile \in Nat /\ Until(c, l) \in Nat /\ l * tile < Until(c, l)
      /\ Until(c, l) =< l * tile + tile
  BY SliceBounds
<1>2. Cardinality(Slice(c, l)) = Until(c, l) - l * tile BY <1>1, RunSize DEF Slice
<1> QED BY <1>1, <1>2

\* The slices of a cell have all its particles, and no others.
LEMMA SlicesCover ==
  ASSUME Pass!Assumption, Listed, tile \in Nat \ {0}, NEW c \in Pass!Cells
  PROVE  UNION {Slice(c, l) : l \in 0 .. Pieces(c) - 1} = Pass!Particles(c)
<1> DEFINE n == Pass!CellPopulation(c)  U == UNION {Slice(c, l) : l \in 0 .. Pieces(c) - 1}
<1>1. n \in Nat /\ Pass!Particles(c) = Run(c, 0, n) BY DirectoryCounts, ParticlesRun
<1>2. Pieces(c) \in Nat BY SliceBounds
<1>3. ASSUME NEW l \in 0 .. Pieces(c) - 1 PROVE Slice(c, l) \subseteq Run(c, 0, n)
  <2>1. l * tile \in Nat /\ Until(c, l) \in Nat /\ Until(c, l) =< n BY SliceBounds
  <2>2. l * tile .. Until(c, l) - 1 \subseteq 0 .. n - 1 BY <2>1, <1>1
  <2> QED BY <2>2 DEF Slice, Run
<1>4. ASSUME NEW i \in 0 .. n - 1 PROVE At(c, i) \in U
  <2> DEFINE l == i \div tile
  <2>1. l \in Nat /\ l * tile \in Nat /\ l * tile =< i /\ i < l * tile + tile
    <3>1. i \in Nat BY <1>1
    <3>2. l \in Nat /\ i % tile \in 0 .. tile - 1 /\ i = l * tile + (i % tile) BY <3>1, Quotient
    <3>3. l * tile \in Nat BY <3>2
    <3> HIDE DEF l
    <3> QED BY <3>2, <3>3
  <2> HIDE DEF l
  <2>2. l * tile < n BY <1>1, <2>1
  <2>3. l < Pieces(c) BY <1>1, <2>1, <2>2, CeilOf DEF Pieces
  <2>4. l \in 0 .. Pieces(c) - 1 BY <1>2, <2>1, <2>3
  <2>5. Until(c, l) = l * tile + tile \/ Until(c, l) = n BY <2>4, SliceBounds
  <2>6. i \in l * tile .. Until(c, l) - 1 BY <1>1, <2>1, <2>5
  <2>7. At(c, i) \in Slice(c, l) BY <2>6 DEF Slice, Run
  <2> QED BY <2>4, <2>7
<1>5. U \subseteq Run(c, 0, n) BY <1>3
<1>6. Run(c, 0, n) \subseteq U
  <2> HIDE DEF U
  <2> QED BY <1>4 DEF Run
<1> QED BY <1>1, <1>5, <1>6

\* No particle is in two slices of a cell.
LEMMA SlicesDisjoint ==
  ASSUME Pass!Assumption, Listed, tile \in Nat \ {0}, NEW c \in Pass!Cells,
         NEW k \in 0 .. Pieces(c) - 1, NEW l \in 0 .. Pieces(c) - 1, k # l
  PROVE  Slice(c, k) \cap Slice(c, l) = {}
<1>0. Pieces(c) \in Nat BY SliceBounds
<1>1. ASSUME NEW a \in 0 .. Pieces(c) - 1, NEW b \in 0 .. Pieces(c) - 1, a < b
      PROVE  Slice(c, a) \cap Slice(c, b) = {}
  <2>1. a \in Nat /\ b \in Nat BY <1>0
  <2>2. a * tile + tile =< b * tile BY <1>1, <2>1, Products
  <2>3. /\ a * tile \in Nat /\ b * tile \in Nat /\ Until(c, a) \in Nat /\ Until(c, b) \in Nat
        /\ Until(c, a) =< a * tile + tile
    BY SliceBounds
  <2>4. SUFFICES ASSUME NEW i \in a * tile .. Until(c, a) - 1,
                        NEW j \in b * tile .. Until(c, b) - 1, At(c, i) = At(c, j)
                 PROVE  FALSE
    BY DEF Slice, Run
  <2>5. i \in Nat /\ j \in Nat /\ i < j BY <2>2, <2>3
  <2>6. i = j BY <2>4, <2>5, RunsApart
  <2> QED BY <2>5, <2>6
<1>2. k < l \/ l < k BY <1>0
<1>3. Slice(c, k) \cap Slice(c, l) = Slice(c, l) \cap Slice(c, k) OBVIOUS
<1> QED BY <1>1, <1>2, <1>3

\* The sizes of the slices of a cell add up to its population.
LEMMA SlicesAdd ==
  ASSUME Pass!Assumption, Listed, tile \in Nat \ {0}, NEW c \in Pass!Cells, NEW f, NEW terms,
         \A l \in 0 .. Pieces(c) - 1 : terms[l] = Cardinality(Slice(c, l)),
         IsSum(f, Pieces(c), terms)
  PROVE  f[Pieces(c)] = Pass!CellPopulation(c)
<1> DEFINE n == Pass!CellPopulation(c)  K == Pieces(c)
           Bad == {k \in 0 .. K : f[k] # (IF k * tile < n THEN k * tile ELSE n)}
<1>1. /\ n \in Nat /\ K \in Nat /\ K * tile \in Nat /\ n =< K * tile
      /\ \A k \in Nat : k * tile \in Nat
  BY DirectoryCounts, SliceBounds
<1>2. Bad = {}
  <2> SUFFICES ASSUME Bad # {} PROVE FALSE OBVIOUS
  <2>1. PICK k \in Bad : \A m \in Bad : k =< m
    <3>1. Bad \in SUBSET Nat BY <1>1
    <3> HIDE DEF Bad
    <3> QED BY <3>1, Least
  <2>2. k \in 0 .. K /\ f[k] # (IF k * tile < n THEN k * tile ELSE n) BY <2>1
  <2>3. k # 0
    <3>1. f[0] = 0 /\ 0 * tile = 0 BY <1>1 DEF IsSum
    <3> QED BY <3>1, <2>2, <1>1
  <2> DEFINE l == k - 1
  <2>4. l \in 0 .. K - 1 /\ l \in 0 .. K /\ l \in Nat /\ l + 1 = k BY <2>2, <2>3, <1>1
  <2>5. l \notin Bad
    <3>1. l < k /\ k \in Int /\ l \in Int BY <2>2, <2>4, <1>1
    <3> HIDE DEF Bad, l
    <3> QED BY <3>1, <2>1
  <2>6. f[l] = (IF l * tile < n THEN l * tile ELSE n) BY <2>4, <2>5
  <2>7. f[k] = f[l] + terms[l] BY <2>4 DEF IsSum
  <2>8. terms[l] = Until(c, l) - l * tile BY <2>4, SliceSize
  <2>9. k * tile = l * tile + tile BY <2>4
  <2>10. /\ l * tile \in Nat /\ Until(c, l) \in Nat /\ l * tile < Until(c, l) /\ Until(c, l) =< n
         /\ Until(c, l) =< l * tile + tile
         /\ Until(c, l) = l * tile + tile \/ Until(c, l) = n
    BY <2>4, SliceBounds
  <2> HIDE DEF l, n
  <2> QED BY <2>2, <2>6, <2>7, <2>8, <2>9, <2>10, <1>1
<1>3. K \in 0 .. K BY <1>1
<1>4. f[K] = (IF K * tile < n THEN K * tile ELSE n) BY <1>2, <1>3
<1> QED BY <1>1, <1>4

\* Each cell has as many tasks as its particles need, and they follow one another.
Cut ==
  /\ tile \in Nat \ {0} /\ tile >= BlockThreads
  /\ taskCount \in [Pass!CellsAndEnd -> Nat]
  /\ \A c \in Pass!Cells : taskCount[c] = Pieces(c)
Placed == IsSum(taskOffset, NCells, taskCount)

\* A descriptor is a piece of its cell, the one that its place says.
Written ==
  /\ DOMAIN tasks = 1 .. taskOffset[NCells] /\ Len(tasks) = taskOffset[NCells]
  /\ \A n \in 1 .. taskOffset[NCells] : \E c \in Pass!Cells : \E l \in 0 .. taskCount[c] - 1 :
       /\ n = taskOffset[c] + l + 1
       /\ tasks[n].cell = c /\ Pass!Visited(tasks[n]) = Slice(c, l)

\* Task offsets are the sums of the task counts.
LEMMA PlacedFacts ==
  ASSUME Pass!Assumption, Cut, Placed
  PROVE  /\ taskOffset \in [Pass!CellsAndEnd -> Nat] /\ taskOffset[0] = 0
         /\ \A c \in Pass!Cells :
              /\ taskOffset[c] \in Nat /\ taskOffset[c + 1] \in Nat /\ taskCount[c] \in Nat
              /\ taskOffset[c + 1] = taskOffset[c] + taskCount[c]
         /\ \A a, b \in Pass!CellsAndEnd : a =< b => taskOffset[a] =< taskOffset[b]
         /\ taskOffset[NCells] \in Nat
<1>1. NCells \in Nat BY DEF Pass!Assumption
<1>2. \A i \in 0 .. NCells - 1 : taskCount[i] \in Nat BY <1>1 DEF Cut, Pass!CellsAndEnd
<1>3. /\ taskOffset \in [0 .. NCells -> Nat] /\ taskOffset[0] = 0
      /\ \A i \in 0 .. NCells - 1 : taskOffset[i + 1] = taskOffset[i] + taskCount[i]
  BY DEF Placed, IsSum
<1>4. \A a, b \in 0 .. NCells : a =< b => taskOffset[a] =< taskOffset[b]
  BY <1>1, <1>2, SumGrows DEF Placed
<1> QED BY <1>1, <1>2, <1>3, <1>4 DEF Pass!Cells, Pass!CellsAndEnd

\* How many particles the cells before c have.
Before(c) ==
  CASE kind = "full" -> offset[c] [] kind = "baseOnly" -> baseOffset[c]
    [] kind = "split" -> baseOffset[c] + offset[c]

\* The arrays that are sized once hold the tasks of any directory.
LEMMA TasksAreFew ==
  ASSUME Pass!Assumption, Listed, Cut, Placed
  PROVE  taskOffset[NCells] =< Pass!TaskCapacity
<1> DEFINE B == BlockThreads  N == NCells
<1>1. N \in Nat \ {0} /\ B \in Nat \ {0} /\ ParticleCapacity \in Nat BY DEF Pass!Assumption
<1>2. kind \in {"full", "baseOnly", "split"} BY DEF Listed, Pass!Kinds
<1>3. ASSUME NEW c \in Pass!Cells
      PROVE  taskCount[c] * B \in Nat /\ taskCount[c] * B =< Pass!CellPopulation(c) + B
  <2> DEFINE n == Pass!CellPopulation(c)  K == taskCount[c]
  <2>1. n \in Nat /\ K = Pass!CeilDiv(n, tile) /\ K \in Nat /\ tile \in Nat \ {0} /\ B =< tile
    BY DirectoryCounts, PlacedFacts, <1>1 DEF Cut, Pieces
  <2> HIDE DEF n, K
  <2>2. K * B \in Nat BY <1>1, <2>1
  <2>3. CASE K = 0
    <3>1. K * B = 0 BY <2>3, <1>1
    <3> QED BY <3>1, <2>1, <1>1 DEF n, K
  <2>4. CASE K # 0
    <3>1. PICK k \in Nat : K = k + 1
      <4>1. K - 1 \in Nat /\ K = (K - 1) + 1 BY <2>1, <2>4
      <4> QED BY <4>1
    <3>2. k * tile < n /\ k * tile \in Nat
      <4>1. k * tile \in Nat /\ (k < Pass!CeilDiv(n, tile) <=> k * tile < n) BY <2>1, CeilOf
      <4>2. k < K BY <3>1, <2>1
      <4> QED BY <4>1, <4>2, <2>1
    <3>3. B * k =< tile * k /\ B * k \in Nat BY <1>1, <2>1, Products
    <3>4. B * k = k * B /\ tile * k = k * tile BY <1>1, <2>1
    <3>5. K * B = k * B + B BY <3>1, <1>1
    <3> QED BY <3>2, <3>3, <3>4, <3>5, <2>1, <1>1, <2>2 DEF n, K
  <2> QED BY <2>3, <2>4
<1>4. /\ \A c \in 0 .. N : Before(c) \in Nat
      /\ \A c \in 0 .. N - 1 : Before(c + 1) = Before(c) + Pass!CellPopulation(c)
      /\ Before(0) = 0 /\ Before(N) = Pass!Population
  <2>1. \A c \in 0 .. N : baseOffset[c] \in Nat /\ offset[c] \in Nat
    BY DirectoryCounts DEF Counts, Pass!CellsAndEnd
  <2>2. baseOffset[0] = 0 /\ offset[0] = 0 BY DirectoryCounts DEF Counts
  <2>3. ASSUME NEW c \in 0 .. N - 1 PROVE Before(c + 1) = Before(c) + Pass!CellPopulation(c)
    <3>1. c \in Pass!Cells BY DEF Pass!Cells
    <3>2. /\ baseOffset[c] \in Nat /\ offset[c] \in Nat
          /\ Pass!BaseCount(c) \in Nat /\ Pass!IndexedCount(c) \in Nat
          /\ baseOffset[c + 1] = baseOffset[c] + Pass!BaseCount(c)
          /\ offset[c + 1] = offset[c] + Pass!IndexedCount(c)
      BY <3>1, DirectoryCounts
    <3> QED BY <1>2, <3>2 DEF Before, Pass!CellPopulation
  <2> QED BY <1>2, <2>1, <2>2, <2>3 DEF Before, Pass!Population
<1>5. ASSUME NEW c \in 0 .. N
      PROVE  /\ taskOffset[c] \in Nat /\ taskOffset[c] * B \in Nat /\ c * B \in Nat
  <2>1. taskOffset[c] \in Nat BY PlacedFacts DEF Pass!CellsAndEnd
  <2> QED BY <1>1, <2>1
<1> DEFINE Bad == {c \in 0 .. N : ~(taskOffset[c] * B =< Before(c) + c * B)}
<1>6. Bad = {}
  <2> SUFFICES ASSUME Bad # {} PROVE FALSE OBVIOUS
  <2>1. PICK c \in Bad : \A m \in Bad : c =< m
    <3>1. Bad \in SUBSET Nat OBVIOUS
    <3> HIDE DEF Bad
    <3> QED BY <3>1, Least
  <2>2. c \in 0 .. N /\ ~(taskOffset[c] * B =< Before(c) + c * B) BY <2>1
  <2>3. c # 0
    <3>1. taskOffset[0] * B = 0 /\ 0 * B = 0 BY <1>1, PlacedFacts
    <3> QED BY <3>1, <2>2, <1>4
  <2>4. PICK e \in 0 .. N - 1 : c = e + 1
    <3>1. c - 1 \in 0 .. N - 1 /\ c = (c - 1) + 1 BY <1>1, <2>2, <2>3
    <3> QED BY <3>1
  <2>5. e \in 0 .. N /\ e < c /\ e \in Pass!Cells BY <1>1, <2>4 DEF Pass!Cells
  <2>6. taskOffset[e] * B =< Before(e) + e * B
    <3>1. e \notin Bad
      <4>1. e \in Int /\ c \in Int BY <2>2, <2>5
      <4> HIDE DEF Bad
      <4> QED BY <4>1, <2>1, <2>5
    <3> QED BY <3>1, <2>5
  <2>7. taskOffset[c] = taskOffset[e] + taskCount[e] /\ taskCount[e] \in Nat /\ taskOffset[e] \in Nat
    BY <2>4, <2>5, PlacedFacts
  <2>8. taskOffset[c] * B = taskOffset[e] * B + taskCount[e] * B BY <2>7, <1>1
  <2>9. c * B = e * B + B BY <2>4, <1>1
  <2>10. taskCount[e] * B \in Nat /\ taskCount[e] * B =< Pass!CellPopulation(e) + B
    BY <1>3, <2>5
  <2>11. /\ Before(e) \in Nat /\ Before(c) = Before(e) + Pass!CellPopulation(e)
         /\ Pass!CellPopulation(e) \in Nat
    BY <1>4, <2>4, <2>5, DirectoryCounts
  <2>12. taskOffset[e] * B \in Nat /\ e * B \in Nat BY <1>5, <2>5
  <2> QED BY <2>2, <2>6, <2>8, <2>9, <2>10, <2>11, <2>12, <1>1
<1>7. N \in 0 .. N BY <1>1
<1> DEFINE q == (ParticleCapacity + B - 1) \div B  t == taskOffset[N]
<1>8. t \in Nat /\ t * B \in Nat /\ N * B \in Nat /\ t * B =< ParticleCapacity + N * B
  <2>1. t * B =< Before(N) + N * B BY <1>6, <1>7
  <2>2. Before(N) \in Nat /\ Before(N) =< ParticleCapacity BY <1>4, DirectoryCounts
  <2>3. t \in Nat /\ t * B \in Nat /\ N * B \in Nat BY <1>5, <1>7
  <2> HIDE DEF t
  <2> QED BY <2>1, <2>2, <2>3, <1>1
<1>9. q \in Nat /\ q * B \in Nat /\ ParticleCapacity =< q * B
  <2>1. ParticleCapacity + B - 1 \in Nat BY <1>1
  <2>2. /\ q \in Nat /\ (ParticleCapacity + B - 1) % B \in 0 .. B - 1
        /\ ParticleCapacity + B - 1 = q * B + ((ParticleCapacity + B - 1) % B)
    BY <1>1, <2>1, Quotient
  <2>3. q * B \in Nat BY <1>1, <2>2
  <2> HIDE DEF q
  <2> QED BY <1>1, <2>2, <2>3
<1>10. t =< q + N
  <2> HIDE DEF q, t
  <2>1. SUFFICES ASSUME q + N < t PROVE FALSE BY <1>1, <1>8, <1>9
  <2>2. (q + N) * B + B =< t * B /\ (q + N) * B \in Nat
    <3>1. q + N \in Nat BY <1>1, <1>9
    <3> QED BY <3>1, <2>1, <1>1, <1>8, Products
  <2>3. (q + N) * B = q * B + N * B BY <1>1, <1>8, <1>9
  <2> QED BY <2>2, <2>3, <1>1, <1>8, <1>9
<1>11. Pass!TaskCapacity = q + 2 * N + 1 BY DEF Pass!TaskCapacity
<1> HIDE DEF q, t
<1> QED BY <1>1, <1>8, <1>9, <1>10, <1>11 DEF t

\* What materialize writes.
LEMMA DescriptorOf ==
  ASSUME Pass!Assumption, Listed, Cut, Placed, NEW t \in 0 .. taskOffset[NCells] - 1
  PROVE  \E c \in Pass!Cells : \E l \in 0 .. taskCount[c] - 1 :
           /\ t = taskOffset[c] + l
           /\ Pass!Descriptor(t).cell = c /\ Pass!Visited(Pass!Descriptor(t)) = Slice(c, l)
<1>1. /\ taskOffset \in [Pass!CellsAndEnd -> Nat] /\ taskOffset[0] = 0 /\ taskOffset[NCells] \in Nat
      /\ \A a, b \in Pass!CellsAndEnd : a =< b => taskOffset[a] =< taskOffset[b]
  BY PlacedFacts
<1>2. t \in Nat /\ taskOffset[0] =< t /\ t < taskOffset[NCells] BY <1>1
<1> DEFINE c == Pass!CellOfTask(t)  l == t - taskOffset[c]
<1>3. c \in Pass!Cells /\ taskOffset[c] =< t /\ t < taskOffset[c + 1] BY <1>1, <1>2, SearchOf
<1> DEFINE d == Pass!Descriptor(t)
<1>4. First(c) \in Nat
  <2>1. kind \in {"full", "baseOnly", "split"} BY DEF Listed, Pass!Kinds
  <2>2. baseOffset[c] \in Nat /\ offset[c] \in Nat BY <1>3, DirectoryCounts
  <2> QED BY <2>1, <2>2 DEF First
<1>5. l \in 0 .. taskCount[c] - 1 /\ t = taskOffset[c] + l
  <2>1. /\ taskOffset[c] \in Nat /\ taskOffset[c + 1] = taskOffset[c] + taskCount[c]
        /\ taskCount[c] \in Nat
    BY <1>3, PlacedFacts
  <2> HIDE DEF c
  <2> QED BY <1>2, <1>3, <2>1
<1>6. taskCount[c] = Pieces(c) /\ tile \in Nat \ {0} BY <1>3 DEF Cut
<1>7. l \in 0 .. Pieces(c) - 1 BY <1>5, <1>6
<1>8. /\ l * tile \in Nat /\ Until(c, l) \in Nat /\ l * tile < Until(c, l)
  BY <1>3, <1>6, <1>7, SliceBounds
<1>9. Pass!CellPopulation(c) \in Nat BY <1>3, DirectoryCounts
<1>10. d.cell = c /\ d.begin = First(c) + l * tile /\ d.end = First(c) + Until(c, l)
  <2> DEFINE n == Pass!CellPopulation(c)
  <2>1. kind \in {"full", "baseOnly", "split"} BY DEF Listed, Pass!Kinds
  <2>2. d.cell = c BY DEF Pass!Descriptor
  <2>3. d.begin = First(c) + l * tile BY <2>1 DEF Pass!Descriptor, First
  <2>4. d.end = First(c) + l * tile + Pass!Least(tile, (First(c) + n) - (First(c) + l * tile))
    <3> DEFINE F == CASE kind = "full" -> offset[c] [] kind = "baseOnly" -> baseOffset[c]
                      [] kind = "split" -> 0
    <3>1. d.end = F + l * tile + Pass!Least(tile, (F + n) - (F + l * tile)) BY DEF Pass!Descriptor
    <3>2. F = First(c) BY DEF First
    <3> HIDE DEF F, n, c, l, d
    <3> QED BY <3>1, <3>2
  <2> HIDE DEF n
  <2>5. (First(c) + n) - (First(c) + l * tile) = n - l * tile BY <1>4, <1>8, <1>9 DEF n
  <2>6. First(c) + l * tile + Pass!Least(tile, n - l * tile) = First(c) + Until(c, l)
    <3>1. Pass!Least(tile, n - l * tile) \in Int BY <1>6, <1>8, <1>9 DEF Pass!Least, n
    <3>2. Until(c, l) = l * tile + Pass!Least(tile, n - l * tile) BY DEF Until, n
    <3> QED BY <3>1, <3>2, <1>4, <1>8
  <2> HIDE DEF c, l, d
  <2> QED BY <2>2, <2>3, <2>4, <2>5, <2>6
<1> HIDE DEF c, l, d
<1>11. Pass!Visited(d) = Slice(c, l)
  <2>1. l * tile =< Until(c, l) BY <1>8
  <2>2. Pass!Visited(d) = Run(c, l * tile, Until(c, l)) BY <1>3, <1>8, <1>10, <2>1, VisitedRun
  <2> QED BY <2>2 DEF Slice
<1> QED BY <1>3, <1>5, <1>10, <1>11 DEF d

\* The list has the cells of S that have several tasks, each of them once.
Lists(S) ==
  /\ multiCells \in Seq(Pass!Cells)
  /\ \A n \in 1 .. Len(multiCells) : multiCells[n] \in S /\ taskCount[multiCells[n]] > 1
  /\ \A c \in S : taskCount[c] > 1 => \E n \in 1 .. Len(multiCells) : multiCells[n] = c
  /\ \A m, n \in 1 .. Len(multiCells) : multiCells[m] = multiCells[n] => m = n

\* Tasks have their places in turn: no two of them the same.
LEMMA PlacesDiffer ==
  ASSUME Pass!Assumption, Cut, Placed, NEW c \in Pass!Cells, NEW l \in 0 .. taskCount[c] - 1
  PROVE  /\ taskOffset[c] + l \in 0 .. taskOffset[NCells] - 1
         /\ \A d \in Pass!Cells : \A m \in 0 .. taskCount[d] - 1 :
              taskOffset[c] + l = taskOffset[d] + m => c = d /\ l = m
<1>1. NCells \in Nat /\ Pass!Cells = 0 .. NCells - 1 /\ Pass!CellsAndEnd = 0 .. NCells
  BY DEF Pass!Assumption, Pass!Cells, Pass!CellsAndEnd
<1>2. /\ \A e \in Pass!Cells :
           /\ taskOffset[e] \in Nat /\ taskCount[e] \in Nat
           /\ taskOffset[e + 1] = taskOffset[e] + taskCount[e]
      /\ \A a, b \in Pass!CellsAndEnd : a =< b => taskOffset[a] =< taskOffset[b]
      /\ taskOffset[NCells] \in Nat
  BY PlacedFacts
<1>3. taskOffset[c] + l \in 0 .. taskOffset[NCells] - 1
  <2>1. c + 1 \in Pass!CellsAndEnd /\ NCells \in Pass!CellsAndEnd /\ c + 1 =< NCells BY <1>1
  <2>2. taskOffset[c + 1] =< taskOffset[NCells] BY <2>1, <1>2
  <2> QED BY <1>2, <2>2
<1>4. ASSUME NEW a \in Pass!Cells, NEW b \in Pass!Cells, NEW k \in 0 .. taskCount[a] - 1,
             NEW m \in 0 .. taskCount[b] - 1, a < b
      PROVE  taskOffset[a] + k # taskOffset[b] + m
  <2>1. a + 1 \in Pass!CellsAndEnd /\ b \in Pass!CellsAndEnd /\ a + 1 =< b BY <1>1, <1>4
  <2>2. taskOffset[a + 1] =< taskOffset[b] BY <2>1, <1>2
  <2> QED BY <1>2, <2>2
<1>5. ASSUME NEW d \in Pass!Cells, NEW m \in 0 .. taskCount[d] - 1,
             taskOffset[c] + l = taskOffset[d] + m
      PROVE  c = d /\ l = m
  <2>1. c = d
    <3>1. ~(c < d) BY <1>4, <1>5
    <3>2. ~(d < c) BY <1>4, <1>5
    <3> QED BY <1>1, <3>1, <3>2
  <2> QED BY <2>1, <1>2, <1>5
<1> QED BY <1>3, <1>5

\* A task of cell c is written where the cell's tasks are placed.
LEMMA WrittenAt ==
  ASSUME Pass!Assumption, Cut, Placed, Written, NEW c \in Pass!Cells,
         NEW l \in 0 .. taskCount[c] - 1
  PROVE  /\ taskOffset[c] + l + 1 \in DOMAIN tasks
         /\ tasks[taskOffset[c] + l + 1].cell = c
         /\ Pass!Visited(tasks[taskOffset[c] + l + 1]) = Slice(c, l)
<1> DEFINE n == taskOffset[c] + l + 1
<1>1. taskOffset[c] \in Nat /\ taskCount[c] \in Nat /\ taskOffset[NCells] \in Nat BY PlacedFacts
<1>2. taskOffset[c] + l \in 0 .. taskOffset[NCells] - 1 BY PlacesDiffer
<1>3. n \in 1 .. taskOffset[NCells] BY <1>1, <1>2
<1>4. PICK d \in Pass!Cells : \E m \in 0 .. taskCount[d] - 1 :
        /\ n = taskOffset[d] + m + 1
        /\ tasks[n].cell = d /\ Pass!Visited(tasks[n]) = Slice(d, m)
  BY <1>3 DEF Written
<1>5. PICK m \in 0 .. taskCount[d] - 1 :
        /\ n = taskOffset[d] + m + 1
        /\ tasks[n].cell = d /\ Pass!Visited(tasks[n]) = Slice(d, m)
  BY <1>4
<1>6. taskOffset[d] \in Nat /\ taskCount[d] \in Nat BY PlacedFacts
<1>7. taskOffset[c] + l = taskOffset[d] + m
  <2>1. l \in Nat /\ m \in Nat /\ taskOffset[c] + l + 1 = taskOffset[d] + m + 1
    BY <1>1, <1>5, <1>6
  <2> QED BY <1>1, <1>6, <2>1
<1>8. c = d /\ l = m BY <1>7, PlacesDiffer
<1> QED BY <1>3, <1>5, <1>8 DEF Written

\* A cell without tasks has no particles.
LEMMA EmptyCell ==
  ASSUME Pass!Assumption, Listed, Cut, NEW c \in Pass!Cells, taskCount[c] = 0
  PROVE  Pass!Particles(c) = {} /\ Pass!CellPopulation(c) = 0
<1>1. Pass!CellPopulation(c) \in Nat BY DirectoryCounts
<1>2. Pass!CeilDiv(Pass!CellPopulation(c), tile) = 0 BY DEF Cut, Pieces
<1>3. 0 * tile = 0 /\ ~(0 < Pass!CeilDiv(Pass!CellPopulation(c), tile)) BY <1>2 DEF Cut
<1>4. ~(0 < Pass!CellPopulation(c)) BY <1>1, <1>3, CeilOf DEF Cut
<1>5. Pass!CellPopulation(c) = 0 BY <1>1, <1>4
<1>6. Pass!Particles(c) = Run(c, 0, 0) BY <1>5, ParticlesRun
<1> QED BY <1>5, <1>6 DEF Run

\* The only task of a cell has all its particles.
LEMMA OneTask ==
  ASSUME Pass!Assumption, Listed, Cut, NEW c \in Pass!Cells, taskCount[c] = 1
  PROVE  Slice(c, 0) = Pass!Particles(c) /\ Cardinality(Slice(c, 0)) = Pass!CellPopulation(c)
<1>1. Pieces(c) = 1 /\ tile \in Nat \ {0} BY DEF Cut
<1>2. UNION {Slice(c, l) : l \in 0 .. Pieces(c) - 1} = Pass!Particles(c) BY <1>1, SlicesCover
<1>3. 0 .. Pieces(c) - 1 = {0} BY <1>1
<1>4. Slice(c, 0) = Pass!Particles(c) BY <1>2, <1>3
<1>5. Pass!CellPopulation(c) \in Nat BY DirectoryCounts
<1>6. Cardinality(Run(c, 0, Pass!CellPopulation(c))) = Pass!CellPopulation(c) - 0 BY <1>5, RunSize
<1> QED BY <1>4, <1>5, <1>6, ParticlesRun

\* The partial sums of a cell's tasks have each of its particles as a term once.
LEMMA PartialsAdd ==
  ASSUME Pass!Assumption, Listed, Cut, Placed, NEW c \in Pass!Cells,
         \A l \in 0 .. taskCount[c] - 1 : partial[taskOffset[c] + l] = Slice(c, l)
  PROVE  /\ UNION {partial[t] : t \in taskOffset[c] .. taskOffset[c] + taskCount[c] - 1}
               = Pass!Particles(c)
         /\ Pass!PartialTerms(taskOffset[c], taskCount[c]) = Pass!CellPopulation(c)
<1> DEFINE o == taskOffset[c]  K == taskCount[c]
           terms == [i \in 0 .. K - 1 |-> Pass!Cardinality(partial[o + i])]
           f == Pass!RunningSum(K, terms)
<1>1. o \in Nat /\ K \in Nat /\ K = Pieces(c) /\ tile \in Nat \ {0} BY PlacedFacts DEF Cut
<1>2. \A l \in 0 .. K - 1 : partial[o + l] = Slice(c, l) OBVIOUS
<1>3. UNION {partial[t] : t \in o .. o + K - 1} = Pass!Particles(c)
  <2>1. UNION {Slice(c, l) : l \in 0 .. K - 1} = Pass!Particles(c) BY <1>1, SlicesCover
  <2> HIDE DEF o, K
  <2>2. ASSUME NEW t \in o .. o + K - 1 PROVE partial[t] \subseteq Pass!Particles(c)
    <3>1. t - o \in 0 .. K - 1 /\ o + (t - o) = t BY <1>1
    <3>2. partial[t] = Slice(c, t - o) BY <3>1, <1>2
    <3> QED BY <3>1, <3>2, <2>1
  <2>3. ASSUME NEW l \in 0 .. K - 1
        PROVE  Slice(c, l) \subseteq UNION {partial[t] : t \in o .. o + K - 1}
    <3>1. o + l \in o .. o + K - 1 BY <1>1
    <3> QED BY <3>1, <1>2
  <2> QED BY <2>1, <2>2, <2>3
<1>4. Pass!PartialTerms(o, K) = f[K] BY DEF Pass!PartialTerms
<1>5. \A l \in 0 .. K - 1 : terms[l] = Cardinality(Slice(c, l)) /\ terms[l] \in Nat
  <2>1. ASSUME NEW l \in 0 .. K - 1
        PROVE  terms[l] = Cardinality(Slice(c, l)) /\ terms[l] \in Nat
    <3>1. terms[l] = Pass!Cardinality(Slice(c, l)) BY <1>2
    <3>2. Cardinality(Slice(c, l)) \in 1 .. tile BY <1>1, SliceSize
    <3>3. Pass!Cardinality(Slice(c, l)) = Cardinality(Slice(c, l)) BY SameSize
    <3> HIDE DEF terms
    <3> QED BY <3>1, <3>2, <3>3, <1>1
  <2> HIDE DEF terms
  <2> QED BY <2>1
<1> HIDE DEF terms, K, o
<1>6. IsSum(f, K, terms) BY <1>1, <1>5, RunningSumOf
<1>7. f[K] = Pass!CellPopulation(c)
  <2> HIDE DEF f
  <2>1. IsSum(f, Pieces(c), terms) BY <1>1, <1>6
  <2>2. \A l \in 0 .. Pieces(c) - 1 : terms[l] = Cardinality(Slice(c, l)) BY <1>1, <1>5
  <2>3. f[Pieces(c)] = Pass!CellPopulation(c) BY <1>1, <2>1, <2>2, SlicesAdd
  <2> QED BY <1>1, <2>3
<1> QED BY <1>3, <1>4, <1>7 DEF o, K

\* The tasks that are written cut every cell.
LEMMA TasksPartition ==
  ASSUME Pass!Assumption, Listed, Cut, Placed, Written
  PROVE  Pass!TasksPartitionCells
<1> SUFFICES ASSUME NEW c \in Pass!Cells
             PROVE  LET own == {n \in DOMAIN tasks : tasks[n].cell = c}
                    IN /\ UNION {Pass!Visited(tasks[n]) : n \in own} = Pass!Particles(c)
                       /\ \A m, n \in own : m # n =>
                            Pass!Visited(tasks[m]) \cap Pass!Visited(tasks[n]) = {}
                       /\ \A n \in own : Pass!Cardinality(Pass!Visited(tasks[n])) \in 1 .. tile
  BY DEF Pass!TasksPartitionCells
<1> DEFINE own == {n \in DOMAIN tasks : tasks[n].cell = c}  K == taskCount[c]
<1>1. K \in Nat /\ K = Pieces(c) /\ tile \in Nat \ {0} /\ taskOffset[c] \in Nat
  BY PlacedFacts DEF Cut
<1>2. ASSUME NEW n \in own
      PROVE  \E l \in 0 .. K - 1 :
               n = taskOffset[c] + l + 1 /\ Pass!Visited(tasks[n]) = Slice(c, l)
  <2>1. n \in 1 .. taskOffset[NCells] /\ tasks[n].cell = c BY DEF Written
  <2> QED BY <2>1 DEF Written
<1>3. ASSUME NEW l \in 0 .. K - 1
      PROVE  \E n \in own : Pass!Visited(tasks[n]) = Slice(c, l)
  <2>1. /\ taskOffset[c] + l + 1 \in own
        /\ Pass!Visited(tasks[taskOffset[c] + l + 1]) = Slice(c, l)
    BY WrittenAt
  <2> QED BY <2>1
<1> HIDE DEF own, K
<1>4. UNION {Pass!Visited(tasks[n]) : n \in own} = Pass!Particles(c)
  <2>1. UNION {Slice(c, l) : l \in 0 .. K - 1} = Pass!Particles(c) BY <1>1, SlicesCover
  <2>2. {Pass!Visited(tasks[n]) : n \in own} = {Slice(c, l) : l \in 0 .. K - 1} BY <1>2, <1>3
  <2> QED BY <2>1, <2>2
<1>5. ASSUME NEW m \in own, NEW n \in own, m # n
      PROVE  Pass!Visited(tasks[m]) \cap Pass!Visited(tasks[n]) = {}
  <2>1. PICK k \in 0 .. K - 1 :
          m = taskOffset[c] + k + 1 /\ Pass!Visited(tasks[m]) = Slice(c, k) BY <1>2
  <2>2. PICK l \in 0 .. K - 1 :
          n = taskOffset[c] + l + 1 /\ Pass!Visited(tasks[n]) = Slice(c, l) BY <1>2
  <2>3. k # l BY <1>5, <2>1, <2>2
  <2>4. Slice(c, k) \cap Slice(c, l) = {} BY <1>1, <2>3, SlicesDisjoint
  <2> QED BY <2>1, <2>2, <2>4
<1>6. ASSUME NEW n \in own PROVE Pass!Cardinality(Pass!Visited(tasks[n])) \in 1 .. tile
  <2>1. PICK l \in 0 .. K - 1 : Pass!Visited(tasks[n]) = Slice(c, l) BY <1>2
  <2>2. Cardinality(Slice(c, l)) \in 1 .. tile BY <1>1, SliceSize
  <2>3. Pass!Cardinality(Slice(c, l)) = Cardinality(Slice(c, l)) BY SameSize
  <2> QED BY <2>1, <2>2, <2>3
<1> QED BY <1>4, <1>5, <1>6 DEF own

\* A complete list is the queue that the second kernel needs.
LEMMA ListExact ==
  ASSUME Lists(Pass!Cells)
  PROVE  Pass!MultiCellsExact
<1>1. DOMAIN multiCells = 1 .. Len(multiCells) BY DEF Lists
<1>2. {multiCells[n] : n \in DOMAIN multiCells} = {c \in Pass!Cells : taskCount[c] > 1}
  BY <1>1 DEF Lists
<1> QED BY <1>1, <1>2 DEF Lists, Pass!MultiCellsExact

(***************************************************************************)
(* The inductive invariant: what each entry of the stream has established  *)
(* for those that follow.  While a queue runs, the tasks that were claimed *)
(* and are not held have been executed.                                    *)
(***************************************************************************)
Summed(c) == sums[c] = Pass!Particles(c) /\ weight[c] = Pass!CellPopulation(c)
Finished(c) == Summed(c) /\ recovered[c] = <<Pass!Particles(c)>>

Arrays ==
  /\ DOMAIN partial = 0 .. Pass!TaskCapacity - 1
  /\ DOMAIN sums = Pass!Cells /\ DOMAIN weight = Pass!Cells /\ DOMAIN recovered = Pass!Cells

\* What the blocks of a queue of count tasks hold.
Claims(count) ==
  /\ cellCursor \in Nat /\ DOMAIN held = Blocks
  /\ \A b \in Blocks :
       \/ held[b] = Pass!NoClaim
       \/ held[b] = Pass!Out /\ count =< cellCursor
       \/ /\ held[b] \in Nat /\ held[b] < cellCursor /\ held[b] < count
          /\ \A a \in Blocks : a # b => held[a] # held[b]

\* Task n has been claimed, and no block is still at it.
Executed(n) == n < cellCursor /\ \A b \in Blocks : held[b] # n

AccumulatedSoFar ==
  /\ \A c \in Pass!Cells : taskCount[c] = 0 => Summed(c)
  /\ \A c \in Pass!Cells : \A l \in 0 .. taskCount[c] - 1 : Executed(taskOffset[c] + l) =>
       IF taskCount[c] = 1 THEN Summed(c) ELSE partial[taskOffset[c] + l] = Slice(c, l)

Accumulated ==
  /\ \A c \in Pass!Cells : taskCount[c] =< 1 => Summed(c)
  /\ \A c \in Pass!Cells : taskCount[c] > 1 =>
       \A l \in 0 .. taskCount[c] - 1 : partial[taskOffset[c] + l] = Slice(c, l)

FinalizedSoFar ==
  /\ \A n \in 0 .. Len(multiCells) - 1 :
       IF Executed(n) THEN Finished(multiCells[n + 1]) ELSE recovered[multiCells[n + 1]] = <<>>
  /\ \A c \in Pass!Cells : taskCount[c] =< 1 =>
       IF c \in pending THEN recovered[c] = <<>> ELSE Finished(c)

Cutting == {"count", "scan", "materialize"}
Publishing == {"resetFinalize", "finalize", "done"}

PassInv ==
  /\ Listed /\ Arrays
  /\ stage \in Cutting \cup {"clear", "resetAccumulate", "accumulate"} \cup Publishing
  /\ stage # "count" => Cut
  /\ stage \notin {"count", "scan"} => Placed
  /\ stage = "scan" => multiCells = <<>>
  /\ stage = "materialize" => pending \subseteq Pass!Cells /\ Lists(Pass!Cells \ pending)
  /\ stage \notin Cutting => Written /\ Lists(Pass!Cells)
  /\ stage \notin {"finalize", "done"} => \A c \in Pass!Cells : recovered[c] = <<>>
  /\ stage = "resetAccumulate" => \A c \in Pass!Cells : taskCount[c] = 0 => Summed(c)
  /\ stage = "accumulate" => Claims(Len(tasks)) /\ AccumulatedSoFar
  /\ stage \in Publishing => Accumulated
  /\ stage = "finalize" =>
       Claims(Len(multiCells)) /\ pending \subseteq Pass!Cells /\ FinalizedSoFar
  /\ stage = "done" => \A c \in Pass!Cells : Finished(c)

-----------------------------------------------------------------------------
\* What a directory lists does not change while the directory does not.
LEMMA SameDirectory ==
  ASSUME UNCHANGED Pass!directoryVars
  PROVE  /\ Listed => Listed'
         /\ \A c : /\ (Pass!CellPopulation(c))' = Pass!CellPopulation(c)
                   /\ (Pass!Particles(c))' = Pass!Particles(c)
<1>1. kind' = kind /\ baseOffset' = baseOffset /\ offset' = offset BY DEF Pass!directoryVars
<1>2. Listed => Listed' BY <1>1 DEF Listed, Pass!WithinCapacity
<1>3. ASSUME NEW c
      PROVE  (Pass!CellPopulation(c))' = Pass!CellPopulation(c)
  BY <1>1 DEF Pass!CellPopulation, Pass!BaseCount, Pass!IndexedCount
<1>4. ASSUME NEW c
      PROVE  (Pass!Particles(c))' = Pass!Particles(c)
  BY <1>1 DEF Pass!Particles, Pass!Indexed, Pass!Direct
<1> QED BY <1>2, <1>3, <1>4

\* An action that leaves directory, tile and counts alone keeps the cutting.
LEMMA SameCut ==
  ASSUME UNCHANGED Pass!directoryVars, tile' = tile, taskCount' = taskCount
  PROVE  /\ Cut => Cut'
         /\ \A c, l : Slice(c, l)' = Slice(c, l)
<1>1. kind' = kind /\ baseOffset' = baseOffset /\ offset' = offset BY DEF Pass!directoryVars
<1>2. \A c : (Pass!CellPopulation(c))' = Pass!CellPopulation(c) BY SameDirectory
<1>3. Cut => Cut' BY <1>2 DEF Cut, Pieces
<1>4. ASSUME NEW c, NEW i PROVE At(c, i)' = At(c, i) BY <1>1 DEF At, Pass!BaseCount
<1>5. ASSUME NEW c, NEW l PROVE Slice(c, l)' = Slice(c, l)
  <2>1. Until(c, l)' = Until(c, l) BY <1>2 DEF Until
  <2> QED BY <2>1, <1>4 DEF Slice, Run
<1> QED BY <1>3, <1>5

\* ... and with the offsets and the tasks, what is written.
LEMMA SameTasks ==
  ASSUME UNCHANGED Pass!directoryVars, tile' = tile, taskCount' = taskCount,
         taskOffset' = taskOffset
  PROVE  /\ Placed => Placed'
         /\ tasks' = tasks /\ Written => Written'
<1>1. kind' = kind /\ baseOffset' = baseOffset /\ offset' = offset BY DEF Pass!directoryVars
<1>2. \A c, l : Slice(c, l)' = Slice(c, l) BY SameCut
<1>3. Placed => Placed' BY DEF Placed
<1>4. ASSUME NEW n, tasks' = tasks PROVE (Pass!Visited(tasks[n]))' = Pass!Visited(tasks[n])
  BY <1>1, <1>4 DEF Pass!Visited, Pass!BaseCount, Pass!Indexed, Pass!Direct
<1>5. tasks' = tasks /\ Written => Written' BY <1>2, <1>4 DEF Written
<1> QED BY <1>3, <1>5

\* An action that leaves the directory and the tasks alone keeps their cutting.
LEMMA SameTaskVars ==
  ASSUME UNCHANGED Pass!directoryVars, UNCHANGED Pass!taskVars
  PROVE  /\ Listed => Listed'
         /\ Cut => Cut'
         /\ Placed => Placed'
         /\ Written => Written'
         /\ \A S : Lists(S) => Lists(S)'
         /\ \A c, l : Slice(c, l)' = Slice(c, l)
         /\ \A c : /\ (Pass!CellPopulation(c))' = Pass!CellPopulation(c)
                   /\ (Pass!Particles(c))' = Pass!Particles(c)
         /\ tile' = tile /\ taskCount' = taskCount /\ taskOffset' = taskOffset
         /\ tasks' = tasks /\ multiCells' = multiCells
<1>1. /\ tile' = tile /\ taskCount' = taskCount /\ taskOffset' = taskOffset
      /\ tasks' = tasks /\ multiCells' = multiCells
  BY DEF Pass!taskVars
<1>2. \A S : Lists(S) => Lists(S)' BY <1>1 DEF Lists
<1> QED BY <1>1, <1>2, SameDirectory, SameCut, SameTasks

-----------------------------------------------------------------------------
\* A directory has been built, and nothing else is known.
LEMMA PassInit ==
  ASSUME Pass!Assumption, Pass!Init
  PROVE  PassInv
<1>1. Listed BY DEF Pass!Init, Listed
<1>2. Arrays BY DEF Pass!Init, Arrays
<1>3. stage = "count" /\ \A c \in Pass!Cells : recovered[c] = <<>> BY DEF Pass!Init
<1> QED BY <1>1, <1>2, <1>3 DEF PassInv, Cutting, Publishing

\* The actions keep the invariant: the count chooses tile and pieces, ...
LEMMA CountKeeps ==
  ASSUME Pass!Assumption, PassInv, Pass!CountTasks
  PROVE  PassInv'
<1>1. /\ stage = "count" /\ stage' = "scan" /\ UNCHANGED Pass!directoryVars
      /\ multiCells' = <<>> /\ UNCHANGED <<partial, sums, weight, recovered>>
      /\ tile' = Pass!HardwareTile(Pass!Population)
      /\ taskCount' = [c \in Pass!CellsAndEnd |->
                         IF c = NCells THEN 0 ELSE Pass!CeilDiv(Pass!CellPopulation(c), tile')]
  BY DEF Pass!CountTasks, Pass!Enter, Pass!resultVars
<1>2. Listed /\ Arrays /\ \A c \in Pass!Cells : recovered[c] = <<>> BY <1>1 DEF PassInv
<1>3. Listed' /\ \A c : (Pass!CellPopulation(c))' = Pass!CellPopulation(c)
  BY <1>1, <1>2, SameDirectory
<1>4. Arrays' BY <1>1, <1>2 DEF Arrays
<1>5. BlockThreads \in Nat \ {0} /\ NCells \in Nat BY DEF Pass!Assumption
<1>6. tile' \in Nat \ {0} /\ tile' >= BlockThreads
  <2>1. Pass!Population \in Nat BY <1>2, DirectoryCounts
  <2>2. tile' \in Nat /\ tile' >= BlockThreads BY <1>1, <2>1, TileOf
  <2> QED BY <2>2, <1>5
<1>7. ASSUME NEW c \in Pass!CellsAndEnd
      PROVE  /\ taskCount'[c] \in Nat
             /\ c # NCells => taskCount'[c] = Pass!CeilDiv(Pass!CellPopulation(c), tile')
  <2>1. CASE c = NCells BY <1>1, <2>1
  <2>2. CASE c # NCells
    <3>1. c \in Pass!Cells BY <1>5, <2>2 DEF Pass!Cells, Pass!CellsAndEnd
    <3>2. Pass!CellPopulation(c) \in Nat BY <1>2, <3>1, DirectoryCounts
    <3>3. Pass!CeilDiv(Pass!CellPopulation(c), tile') \in Nat BY <1>6, <3>2, CeilOf
    <3> QED BY <1>1, <2>2, <3>3
  <2> QED BY <2>1, <2>2
<1>8. \A c \in Pass!Cells : c \in Pass!CellsAndEnd /\ c # NCells
  BY <1>5 DEF Pass!Cells, Pass!CellsAndEnd
<1>9. Cut'
  <2>1. taskCount' \in [Pass!CellsAndEnd -> Nat] BY <1>1, <1>7
  <2>2. \A c \in Pass!Cells : taskCount'[c] = Pieces(c)' BY <1>3, <1>7, <1>8 DEF Pieces
  <2> QED BY <1>6, <2>1, <2>2 DEF Cut
<1>10. \A c \in Pass!Cells : recovered'[c] = <<>> BY <1>1, <1>2
<1> QED BY <1>1, <1>3, <1>4, <1>9, <1>10 DEF PassInv, Cutting, Publishing

\* ... the scan places them, ...
LEMMA ScanKeeps ==
  ASSUME Pass!Assumption, PassInv, Pass!ScanTasks
  PROVE  PassInv'
<1>1. /\ stage = "scan" /\ stage' = "materialize" /\ UNCHANGED Pass!directoryVars
      /\ UNCHANGED <<tile, taskCount, multiCells, partial, sums, weight, recovered>>
      /\ taskOffset' = Pass!ExclusiveSum(taskCount) /\ pending' = Pass!Cells
  BY DEF Pass!ScanTasks, Pass!Enter, Pass!resultVars
<1>2. Listed /\ Arrays /\ Cut /\ multiCells = <<>> /\ \A c \in Pass!Cells : recovered[c] = <<>>
  BY <1>1 DEF PassInv, Cutting, Publishing
<1>3. Listed' /\ Cut' BY <1>1, <1>2, SameDirectory, SameCut
<1>4. Arrays' BY <1>1, <1>2 DEF Arrays
<1>5. Placed'
  <2>1. NCells \in Nat BY DEF Pass!Assumption
  <2>2. \A i \in 0 .. NCells - 1 : taskCount[i] \in Nat
    BY <1>2, <2>1 DEF Cut, Pass!CellsAndEnd
  <2>3. IsSum(Pass!RunningSum(NCells, taskCount), NCells, taskCount)
    BY <2>1, <2>2, RunningSumOf
  <2>4. taskOffset' = Pass!RunningSum(NCells, taskCount) BY <1>1 DEF Pass!ExclusiveSum
  <2> QED BY <1>1, <2>3, <2>4 DEF Placed
<1>6. Lists(Pass!Cells \ pending)'
  <2>1. multiCells' = <<>> BY <1>1, <1>2
  <2>2. Len(multiCells') = 0 /\ multiCells' \in Seq(Pass!Cells) BY <2>1
  <2> QED BY <1>1, <2>2 DEF Lists
<1>7. \A c \in Pass!Cells : recovered'[c] = <<>> BY <1>1, <1>2
<1> QED BY <1>1, <1>3, <1>4, <1>5, <1>6, <1>7 DEF PassInv, Cutting, Publishing

\* ... a thread lists its cell once, ...
LEMMA ListKeeps ==
  ASSUME Pass!Assumption, PassInv, NEW c \in Pass!Cells, Pass!ListCell(c)
  PROVE  PassInv'
<1>1. /\ stage = "materialize" /\ stage' = stage /\ UNCHANGED Pass!directoryVars
      /\ UNCHANGED <<tile, taskCount, taskOffset, tasks, partial, sums, weight, recovered>>
      /\ c \in pending /\ pending' = pending \ {c}
      /\ multiCells' = IF taskCount[c] > 1 THEN Append(multiCells, c) ELSE multiCells
  BY DEF Pass!ListCell, Pass!resultVars
<1>2. /\ Listed /\ Arrays /\ Cut /\ Placed /\ pending \subseteq Pass!Cells
      /\ Lists(Pass!Cells \ pending) /\ \A d \in Pass!Cells : recovered[d] = <<>>
  BY <1>1 DEF PassInv, Cutting, Publishing
<1>3. Listed' /\ Cut' /\ Placed' BY <1>1, <1>2, SameDirectory, SameCut, SameTasks
<1>4. Arrays' BY <1>1, <1>2 DEF Arrays
<1>5. Lists(Pass!Cells \ pending)'
  <2> DEFINE S == Pass!Cells \ pending
  <2>1. Pass!Cells \ pending' = S \cup {c} /\ c \notin S BY <1>1
  <2>2. /\ multiCells \in Seq(Pass!Cells)
        /\ \A n \in 1 .. Len(multiCells) : multiCells[n] \in S /\ taskCount[multiCells[n]] > 1
        /\ \A d \in S : taskCount[d] > 1 => \E n \in 1 .. Len(multiCells) : multiCells[n] = d
        /\ \A m, n \in 1 .. Len(multiCells) : multiCells[m] = multiCells[n] => m = n
    BY <1>2 DEF Lists
  <2> HIDE DEF S
  <2>3. PICK T : T = S \cup {c} OBVIOUS
  <2>4. CASE taskCount[c] > 1
    <3> DEFINE L == Len(multiCells)
    <3>1. multiCells' = Append(multiCells, c) BY <1>1, <2>4
    <3>2. /\ multiCells' \in Seq(Pass!Cells) /\ Len(multiCells') = L + 1 /\ L \in Nat
          /\ multiCells'[L + 1] = c /\ \A n \in 1 .. L : multiCells'[n] = multiCells[n]
      BY <2>2, <3>1
    <3> HIDE DEF L
    <3>3. \A n \in 1 .. L + 1 : n \in 1 .. L \/ n = L + 1 BY <3>2
    <3>4. L + 1 \in 1 .. L + 1 /\ \A n \in 1 .. L : n \in 1 .. L + 1 BY <3>2
    <3>5. \A n \in 1 .. L + 1 : multiCells'[n] \in T /\ taskCount[multiCells'[n]] > 1
      BY <2>2, <2>3, <2>4, <3>2, <3>3 DEF L
    <3>6. \A d \in T : taskCount[d] > 1 => \E n \in 1 .. L + 1 : multiCells'[n] = d
      <4>1. ASSUME NEW d \in T, taskCount[d] > 1 PROVE \E n \in 1 .. L + 1 : multiCells'[n] = d
        <5>1. CASE d = c BY <3>2, <3>4, <5>1
        <5>2. CASE d \in S
          <6>1. PICK n \in 1 .. L : multiCells[n] = d BY <2>2, <4>1, <5>2 DEF L
          <6> QED BY <3>2, <3>4, <6>1
        <5> QED BY <2>3, <5>1, <5>2
      <4> QED BY <4>1
    <3>7. \A m, n \in 1 .. L + 1 : multiCells'[m] = multiCells'[n] => m = n
      <4>1. \A n \in 1 .. L : multiCells'[n] \in S BY <2>2, <3>2 DEF L
      <4>2. \A n \in 1 .. L : multiCells'[n] # c BY <4>1, <2>1
      <4>3. \A m, n \in 1 .. L : multiCells'[m] = multiCells'[n] => m = n BY <2>2, <3>2 DEF L
      <4> QED BY <3>2, <3>3, <4>2, <4>3
    <3> QED BY <1>1, <2>1, <2>3, <3>2, <3>5, <3>6, <3>7 DEF Lists
  <2>5. CASE ~(taskCount[c] > 1)
    <3>1. multiCells' = multiCells BY <1>1, <2>5
    <3>2. \A d \in T : taskCount[d] > 1 => d \in S BY <2>3, <2>5
    <3> QED BY <1>1, <2>1, <2>2, <2>3, <3>1, <3>2 DEF Lists
  <2> QED BY <2>4, <2>5
<1>6. \A d \in Pass!Cells : recovered'[d] = <<>> BY <1>1, <1>2
<1>7. pending' \subseteq Pass!Cells BY <1>1, <1>2
<1> QED BY <1>1, <1>3, <1>4, <1>5, <1>6, <1>7 DEF PassInv, Cutting, Publishing

\* ... the descriptors are the slices of the cells, ...
LEMMA WriteKeeps ==
  ASSUME Pass!Assumption, PassInv, Pass!WriteTasks
  PROVE  PassInv'
<1>1. /\ stage = "materialize" /\ stage' = "clear" /\ UNCHANGED Pass!directoryVars
      /\ UNCHANGED <<tile, taskCount, taskOffset, multiCells, partial, sums, weight, recovered>>
      /\ pending = {}
      /\ tasks' = [n \in 1 .. taskOffset[NCells] |-> Pass!Descriptor(n - 1)]
  BY DEF Pass!WriteTasks, Pass!Enter, Pass!resultVars
<1>2. /\ Listed /\ Arrays /\ Cut /\ Placed
      /\ Lists(Pass!Cells \ pending) /\ \A d \in Pass!Cells : recovered[d] = <<>>
  BY <1>1 DEF PassInv, Cutting, Publishing
<1>3. /\ Listed' /\ Cut' /\ Placed' /\ \A c, l : Slice(c, l)' = Slice(c, l)
  BY <1>1, <1>2, SameDirectory, SameCut, SameTasks
<1>4. Arrays' BY <1>1, <1>2 DEF Arrays
<1>5. Lists(Pass!Cells)'
  <2>1. Pass!Cells \ pending = Pass!Cells BY <1>1
  <2>2. Lists(Pass!Cells) BY <1>2, <2>1
  <2> QED BY <1>1, <2>2 DEF Lists
<1>6. Written'
  <2> DEFINE N == taskOffset[NCells]
  <2>1. /\ N \in Nat
        /\ \A c \in Pass!Cells : taskOffset[c] \in Nat /\ taskCount[c] \in Nat
    BY <1>2, PlacedFacts
  <2>2. DOMAIN tasks' = 1 .. N /\ Len(tasks') = N
    <3>1. PICK D : D = {Pass!Descriptor(n - 1) : n \in 1 .. N} OBVIOUS
    <3>2. tasks' \in [1 .. N -> D] BY <1>1, <3>1
    <3> HIDE DEF N
    <3>3. tasks' \in Seq(D) BY <2>1, <3>2
    <3> QED BY <2>1, <3>2, <3>3
  <2>3. ASSUME NEW n \in 1 .. N
        PROVE  \E c \in Pass!Cells : \E l \in 0 .. taskCount[c] - 1 :
                 /\ n = taskOffset[c] + l + 1
                 /\ tasks'[n].cell = c /\ Pass!Visited(tasks'[n]) = Slice(c, l)
    <3>1. n - 1 \in 0 .. N - 1 BY <2>1
    <3>2. PICK c \in Pass!Cells : \E l \in 0 .. taskCount[c] - 1 :
            /\ n - 1 = taskOffset[c] + l
            /\ Pass!Descriptor(n - 1).cell = c
            /\ Pass!Visited(Pass!Descriptor(n - 1)) = Slice(c, l)
      BY <1>2, <3>1, DescriptorOf
    <3>3. PICK l \in 0 .. taskCount[c] - 1 :
            /\ n - 1 = taskOffset[c] + l
            /\ Pass!Descriptor(n - 1).cell = c
            /\ Pass!Visited(Pass!Descriptor(n - 1)) = Slice(c, l)
      BY <3>2
    <3>4. tasks'[n] = Pass!Descriptor(n - 1) BY <1>1
    <3>5. n = taskOffset[c] + l + 1 BY <2>1, <3>3
    <3> QED BY <3>3, <3>4, <3>5
  <2>4. ASSUME NEW n
        PROVE  (Pass!Visited(tasks[n]))' = Pass!Visited(tasks'[n])
    <3>1. kind' = kind /\ baseOffset' = baseOffset /\ offset' = offset
      BY <1>1 DEF Pass!directoryVars
    <3> QED BY <3>1 DEF Pass!Visited, Pass!BaseCount, Pass!Indexed, Pass!Direct
  <2>5. taskOffset' = taskOffset /\ taskCount' = taskCount BY <1>1
  <2> HIDE DEF N
  <2> QED BY <1>3, <2>2, <2>3, <2>4, <2>5 DEF Written, N
<1>7. \A d \in Pass!Cells : recovered'[d] = <<>> BY <1>1, <1>2
<1> QED BY <1>1, <1>3, <1>4, <1>5, <1>6, <1>7 DEF PassInv, Cutting, Publishing

\* ... an empty cell is right once it is cleared, ...
LEMMA ClearKeeps ==
  ASSUME Pass!Assumption, PassInv, Pass!Clear
  PROVE  PassInv'
<1>1. /\ stage = "clear" /\ stage' = "resetAccumulate"
      /\ UNCHANGED Pass!directoryVars /\ UNCHANGED Pass!taskVars
      /\ UNCHANGED <<partial, recovered>>
      /\ sums' = [c \in Pass!Cells |-> {}] /\ weight' = [c \in Pass!Cells |-> 0]
  BY DEF Pass!Clear, Pass!Enter
<1>2. /\ Listed /\ Arrays /\ Cut /\ Placed /\ Written /\ Lists(Pass!Cells)
      /\ \A c \in Pass!Cells : recovered[c] = <<>>
  BY <1>1 DEF PassInv, Cutting, Publishing
<1>3. Listed' /\ Cut' /\ Placed' /\ Written' /\ Lists(Pass!Cells)' BY <1>1, <1>2, SameTaskVars
<1>4. Arrays' BY <1>1, <1>2 DEF Arrays
<1>5. ASSUME NEW c \in Pass!Cells, taskCount[c] = 0 PROVE Summed(c)'
  <2>1. Pass!Particles(c) = {} /\ Pass!CellPopulation(c) = 0 BY <1>2, <1>5, EmptyCell
  <2>2. (Pass!Particles(c))' = {} /\ (Pass!CellPopulation(c))' = 0 BY <1>1, <2>1, SameTaskVars
  <2>3. sums'[c] = {} /\ weight'[c] = 0 BY <1>1
  <2> QED BY <2>2, <2>3 DEF Summed
<1>6. taskCount' = taskCount BY <1>1 DEF Pass!taskVars
<1>7. \A c \in Pass!Cells : recovered'[c] = <<>> BY <1>1, <1>2
<1> QED BY <1>1, <1>3, <1>4, <1>5, <1>6, <1>7 DEF PassInv, Cutting, Publishing

-----------------------------------------------------------------------------
\* A queue that is reset has nothing claimed.
LEMMA ClaimsStart ==
  ASSUME Pass!Assumption, NEW count \in Nat, cellCursor' = 0,
         held' = [b \in Blocks |-> Pass!NoClaim]
  PROVE  Claims(count)' /\ \A n \in Nat : ~Executed(n)'
BY DEF Claims, Executed, Pass!NoClaim

\* A claim keeps claims in order, and executes nothing.
LEMMA ClaimOf ==
  ASSUME NEW count \in Nat, Claims(count), NEW b \in Blocks, held[b] = Pass!NoClaim,
         held' = [held EXCEPT ![b] = IF cellCursor < count THEN cellCursor ELSE Pass!Out],
         cellCursor' = cellCursor + 1
  PROVE  Claims(count)' /\ \A n \in 0 .. count - 1 : Executed(n)' <=> Executed(n)
<1>1. cellCursor \in Nat /\ DOMAIN held = Blocks BY DEF Claims
<1>2. \A a \in Blocks :
        \/ held[a] = -1
        \/ held[a] = -2 /\ count =< cellCursor
        \/ /\ held[a] \in Nat /\ held[a] < cellCursor /\ held[a] < count
           /\ \A e \in Blocks : e # a => held[a] # held[e]
  BY DEF Claims, Pass!NoClaim, Pass!Out
<1> DEFINE h == IF cellCursor < count THEN cellCursor ELSE -2
<1>3. /\ DOMAIN held' = Blocks /\ held'[b] = h /\ \A a \in Blocks : a # b => held'[a] = held[a]
  BY <1>1 DEF Pass!Out
<1>4. held[b] = -1 BY DEF Pass!NoClaim
<1>7. held'[b] = cellCursor \/ held'[b] = -2
  <2>1. CASE cellCursor < count BY <1>3, <2>1
  <2>2. CASE ~(cellCursor < count) BY <1>3, <2>2
  <2> QED BY <2>1, <2>2
<1>5. Claims(count)'
  <2>1. ASSUME NEW a \in Blocks
        PROVE  \/ held'[a] = -1
               \/ held'[a] = -2 /\ count =< cellCursor + 1
               \/ /\ held'[a] \in Nat /\ held'[a] < cellCursor + 1 /\ held'[a] < count
                  /\ \A e \in Blocks : e # a => held'[a] # held'[e]
    <3>1. CASE a = b
      <4>1. CASE cellCursor < count
        <5>1. held'[a] = cellCursor BY <1>3, <3>1, <4>1
        <5>2. \A e \in Blocks : e # a => held'[e] # cellCursor BY <1>1, <1>2, <1>3, <3>1
        <5> QED BY <1>1, <4>1, <5>1, <5>2
      <4>2. CASE ~(cellCursor < count) BY <1>1, <1>3, <3>1, <4>2
      <4> QED BY <4>1, <4>2
    <3>2. CASE a # b
      <4>1. held'[a] = held[a] BY <1>3, <3>2
      <4>2. held[a] \in Nat => held'[b] # held[a]
        <5>1. held[a] \in Nat => held[a] < cellCursor BY <1>1, <1>2
        <5> QED BY <1>1, <1>7, <5>1
      <4> QED BY <1>1, <1>2, <1>3, <4>1, <4>2
    <3> QED BY <3>1, <3>2
  <2> QED BY <1>1, <1>3, <2>1 DEF Claims, Pass!NoClaim, Pass!Out
<1>6. ASSUME NEW n \in 0 .. count - 1 PROVE Executed(n)' <=> Executed(n)
  <2>1. ASSUME Executed(n)' PROVE Executed(n)
    <3>1. n < cellCursor + 1 /\ \A a \in Blocks : held'[a] # n BY <2>1 DEF Executed
    <3>2. n < cellCursor
      <4>1. cellCursor < count => cellCursor # n BY <1>3, <3>1
      <4> QED BY <1>1, <3>1, <4>1
    <3>3. \A a \in Blocks : held[a] # n BY <1>3, <1>4, <3>1
    <3> QED BY <3>2, <3>3 DEF Executed
  <2>2. ASSUME Executed(n) PROVE Executed(n)'
    <3>1. n < cellCursor /\ \A a \in Blocks : held[a] # n BY <2>2 DEF Executed
    <3>2. held'[b] # n BY <1>1, <1>7, <3>1
    <3>3. \A a \in Blocks : held'[a] # n BY <1>3, <3>1, <3>2
    <3>4. n < cellCursor' BY <1>1, <3>1
    <3> QED BY <3>3, <3>4 DEF Executed
  <2> QED BY <2>1, <2>2
<1> QED BY <1>5, <1>6

\* A block that is through with its task has executed that one.
LEMMA ReleaseOf ==
  ASSUME NEW count \in Nat, Claims(count), NEW b \in Blocks, held[b] >= 0,
         held' = [held EXCEPT ![b] = Pass!NoClaim], cellCursor' = cellCursor
  PROVE  /\ Claims(count)' /\ held[b] \in 0 .. count - 1 /\ ~Executed(held[b])
         /\ \A n \in 0 .. count - 1 : Executed(n)' <=> (Executed(n) \/ n = held[b])
<1>1. cellCursor \in Nat /\ DOMAIN held = Blocks BY DEF Claims
<1>2. \A a \in Blocks :
        \/ held[a] = -1
        \/ held[a] = -2 /\ count =< cellCursor
        \/ /\ held[a] \in Nat /\ held[a] < cellCursor /\ held[a] < count
           /\ \A e \in Blocks : e # a => held[a] # held[e]
  BY DEF Claims, Pass!NoClaim, Pass!Out
<1>3. /\ DOMAIN held' = Blocks /\ held'[b] = -1 /\ \A a \in Blocks : a # b => held'[a] = held[a]
  BY <1>1 DEF Pass!NoClaim
<1>4. /\ held[b] \in Nat /\ held[b] < cellCursor /\ held[b] < count
      /\ \A e \in Blocks : e # b => held[b] # held[e]
  BY <1>2
<1>5. Claims(count)'
  <2>1. ASSUME NEW a \in Blocks
        PROVE  \/ held'[a] = -1
               \/ held'[a] = -2 /\ count =< cellCursor
               \/ /\ held'[a] \in Nat /\ held'[a] < cellCursor /\ held'[a] < count
                  /\ \A e \in Blocks : e # a => held'[a] # held'[e]
    <3>1. CASE a = b BY <1>3, <3>1
    <3>2. CASE a # b
      <4>1. held'[a] = held[a] BY <1>3, <3>2
      <4> QED BY <1>1, <1>2, <1>3, <4>1
    <3> QED BY <3>1, <3>2
  <2> QED BY <1>1, <1>3, <2>1 DEF Claims, Pass!NoClaim, Pass!Out
<1>6. ASSUME NEW n \in 0 .. count - 1 PROVE Executed(n)' <=> (Executed(n) \/ n = held[b])
  <2>1. ASSUME Executed(n)', n # held[b] PROVE Executed(n)
    <3>1. n < cellCursor /\ \A a \in Blocks : held'[a] # n BY <2>1 DEF Executed
    <3>2. \A a \in Blocks : held[a] # n BY <1>3, <2>1, <3>1
    <3> QED BY <3>1, <3>2 DEF Executed
  <2>2. ASSUME Executed(n) PROVE Executed(n)'
    <3>1. n < cellCursor /\ \A a \in Blocks : held[a] # n BY <2>2 DEF Executed
    <3>2. \A a \in Blocks : held'[a] # n BY <1>3, <3>1
    <3> QED BY <3>1, <3>2 DEF Executed
  <2>3. ASSUME n = held[b] PROVE Executed(n)'
    <3>1. \A a \in Blocks : held'[a] # n
      <4>1. ASSUME NEW a \in Blocks PROVE held'[a] # n
        <5>1. CASE a = b BY <1>3, <5>1
        <5>2. CASE a # b BY <1>3, <1>4, <2>3, <5>2
        <5> QED BY <5>1, <5>2
      <4> QED BY <4>1
    <3> QED BY <1>4, <2>3, <3>1 DEF Executed
  <2> QED BY <2>1, <2>2, <2>3
<1>7. ~Executed(held[b]) BY DEF Executed
<1> QED BY <1>4, <1>5, <1>6, <1>7

\* When all blocks have returned, every task has been executed.
LEMMA AllExecuted ==
  ASSUME Pass!Assumption, NEW count \in Nat, Claims(count),
         \A b \in Blocks : held[b] = Pass!Out
  PROVE  \A n \in 0 .. count - 1 : Executed(n)
<1>1. PICK b \in Blocks : TRUE BY DEF Pass!Assumption
<1>2. held[b] = -2 BY DEF Pass!Out
<1>3. cellCursor \in Nat /\ count =< cellCursor BY <1>2 DEF Claims, Pass!NoClaim
<1>4. \A a \in Blocks : held[a] = -2 BY DEF Pass!Out
<1> QED BY <1>3, <1>4 DEF Executed

\* An action that leaves the published sums of a cell alone keeps what they are.
LEMMA SameSums ==
  ASSUME UNCHANGED Pass!directoryVars, NEW c, sums'[c] = sums[c], weight'[c] = weight[c]
  PROVE  Summed(c)' <=> Summed(c)
<1>1. /\ (Pass!Particles(c))' = Pass!Particles(c)
      /\ (Pass!CellPopulation(c))' = Pass!CellPopulation(c)
  BY SameDirectory
<1> QED BY <1>1 DEF Summed

\* The lengths of the two queues, and what the second one lists.
LEMMA CountsOfQueues ==
  ASSUME Pass!Assumption, Listed, Cut, Placed, Written, Lists(Pass!Cells)
  PROVE  /\ Len(tasks) \in Nat /\ Len(tasks) = taskOffset[NCells]
         /\ Len(multiCells) \in Nat
         /\ \A n \in 0 .. Len(multiCells) - 1 :
              /\ n + 1 \in 1 .. Len(multiCells)
              /\ multiCells[n + 1] \in Pass!Cells /\ taskCount[multiCells[n + 1]] > 1
<1>1. Len(tasks) = taskOffset[NCells] /\ taskOffset[NCells] \in Nat BY PlacedFacts DEF Written
<1>2. Len(multiCells) \in Nat BY DEF Lists
<1>3. ASSUME NEW n \in 0 .. Len(multiCells) - 1
      PROVE  /\ n + 1 \in 1 .. Len(multiCells)
             /\ multiCells[n + 1] \in Pass!Cells /\ taskCount[multiCells[n + 1]] > 1
  <2>1. n + 1 \in 1 .. Len(multiCells) BY <1>2
  <2> QED BY <2>1 DEF Lists
<1> QED BY <1>1, <1>2, <1>3

\* ... the queue starts over, nothing of it executed, ...
LEMMA StartAccumulate ==
  ASSUME Pass!Assumption, PassInv, Pass!Reset("resetAccumulate", "accumulate", {})
  PROVE  PassInv'
<1>1. /\ stage = "resetAccumulate" /\ stage' = "accumulate"
      /\ UNCHANGED Pass!directoryVars /\ UNCHANGED Pass!taskVars
      /\ UNCHANGED <<partial, sums, weight, recovered>>
      /\ cellCursor' = 0 /\ held' = [b \in Blocks |-> Pass!NoClaim]
  BY DEF Pass!Reset, Pass!Enter, Pass!resultVars
<1>2. /\ Listed /\ Arrays /\ Cut /\ Placed /\ Written /\ Lists(Pass!Cells)
      /\ \A c \in Pass!Cells : recovered[c] = <<>>
      /\ \A c \in Pass!Cells : taskCount[c] = 0 => Summed(c)
  BY <1>1 DEF PassInv, Cutting, Publishing
<1>3. /\ Listed' /\ Cut' /\ Placed' /\ Written' /\ Lists(Pass!Cells)'
      /\ taskCount' = taskCount /\ taskOffset' = taskOffset /\ tasks' = tasks
  BY <1>1, <1>2, SameTaskVars
<1>4. Arrays' BY <1>1, <1>2 DEF Arrays
<1>5. PICK k \in Nat : k = Len(tasks) BY <1>2, CountsOfQueues
<1>6. Claims(k)' /\ \A n \in Nat : ~Executed(n)' BY <1>1, ClaimsStart
<1>7. Claims(Len(tasks))' BY <1>3, <1>5, <1>6 DEF Claims
<1>8. AccumulatedSoFar'
  <2>1. \A c \in Pass!Cells : taskCount'[c] = 0 => Summed(c)'
    BY <1>1, <1>2, <1>3, SameSums
  <2>2. ASSUME NEW c \in Pass!Cells, NEW l \in 0 .. taskCount[c] - 1
        PROVE  ~Executed(taskOffset[c] + l)'
    <3>1. taskOffset[c] + l \in 0 .. taskOffset[NCells] - 1 BY <1>2, PlacesDiffer
    <3>2. PICK n \in Nat : n = taskOffset[c] + l BY <3>1, <1>2, PlacedFacts
    <3>3. ~(n < cellCursor' /\ \A b \in Blocks : held'[b] # n) BY <1>6 DEF Executed
    <3> QED BY <1>3, <3>2, <3>3 DEF Executed
  <2> QED BY <1>3, <2>1, <2>2 DEF AccumulatedSoFar
<1>9. \A c \in Pass!Cells : recovered'[c] = <<>> BY <1>1, <1>2
<1> QED BY <1>1, <1>3, <1>4, <1>7, <1>8, <1>9 DEF PassInv, Cutting, Publishing

\* ... a claim changes nothing that is summed, ...
LEMMA ClaimKeeps ==
  ASSUME Pass!Assumption, PassInv, NEW b \in Blocks, Pass!Claim(b)
  PROVE  PassInv'
<1>1. /\ stage \in {"accumulate", "finalize"} /\ stage' = stage
      /\ UNCHANGED Pass!directoryVars /\ UNCHANGED Pass!taskVars
      /\ UNCHANGED <<partial, sums, weight, recovered, pending>>
      /\ held[b] = Pass!NoClaim /\ cellCursor' = cellCursor + 1
  BY DEF Pass!Claim, Pass!resultVars
<1>0. /\ stage = "accumulate" =>
           held' = [held EXCEPT ![b] = IF cellCursor < Len(tasks) THEN cellCursor ELSE Pass!Out]
      /\ stage # "accumulate" =>
           held' = [held EXCEPT ![b] = IF cellCursor < Len(multiCells) THEN cellCursor ELSE Pass!Out]
  BY DEF Pass!Claim
<1>2. Listed /\ Arrays /\ Cut /\ Placed /\ Written /\ Lists(Pass!Cells)
  BY <1>1 DEF PassInv, Cutting, Publishing
<1>3. /\ Listed' /\ Cut' /\ Placed' /\ Written' /\ Lists(Pass!Cells)'
      /\ taskCount' = taskCount /\ taskOffset' = taskOffset /\ tasks' = tasks
      /\ multiCells' = multiCells /\ \A c, l : Slice(c, l)' = Slice(c, l)
  BY <1>1, <1>2, SameTaskVars
<1>4. Arrays' BY <1>1, <1>2 DEF Arrays
<1>5. \A c \in Pass!Cells : Summed(c)' <=> Summed(c) BY <1>1, SameSums
<1>6. CASE stage = "accumulate"
  <2>1. Claims(Len(tasks)) /\ AccumulatedSoFar /\ \A c \in Pass!Cells : recovered[c] = <<>>
    BY <1>6 DEF PassInv, Cutting, Publishing
  <2>2. PICK k \in Nat : k = Len(tasks) BY <1>2, CountsOfQueues
  <2>3. k = taskOffset[NCells] BY <1>2, <2>2, CountsOfQueues
  <2>4. Claims(k)' /\ \A n \in 0 .. k - 1 : Executed(n)' <=> Executed(n)
    <3>1. Claims(k) /\ held' = [held EXCEPT ![b] = IF cellCursor < k THEN cellCursor ELSE Pass!Out]
      BY <1>0, <1>6, <2>1, <2>2
    <3> QED BY <1>1, <3>1, ClaimOf
  <2>5. Claims(Len(tasks))' BY <1>3, <2>2, <2>4 DEF Claims
  <2>6. AccumulatedSoFar'
    <3>1. ASSUME NEW c \in Pass!Cells, NEW l \in 0 .. taskCount[c] - 1,
                 Executed(taskOffset[c] + l)'
          PROVE  IF taskCount[c] = 1 THEN Summed(c)
                 ELSE partial[taskOffset[c] + l] = Slice(c, l)
      <4>1. PICK n \in 0 .. k - 1 : n = taskOffset[c] + l BY <1>2, <2>3, PlacesDiffer
      <4>2. Executed(n)' BY <1>3, <3>1, <4>1 DEF Executed
      <4>3. Executed(taskOffset[c] + l) BY <2>4, <4>1, <4>2
      <4> QED BY <2>1, <4>3 DEF AccumulatedSoFar
    <3>2. \A c \in Pass!Cells : taskCount[c] = 0 => Summed(c) BY <2>1 DEF AccumulatedSoFar
    <3> QED BY <1>1, <1>3, <1>5, <3>1, <3>2 DEF AccumulatedSoFar
  <2>7. \A c \in Pass!Cells : recovered'[c] = <<>> BY <1>1, <2>1
  <2>8. stage' = "accumulate" BY <1>1, <1>6
  <2> QED BY <2>8, <1>3, <1>4, <2>5, <2>6, <2>7 DEF PassInv, Cutting, Publishing
<1>7. CASE stage = "finalize"
  <2>1. /\ Claims(Len(multiCells)) /\ pending \subseteq Pass!Cells /\ FinalizedSoFar
        /\ Accumulated
    BY <1>7 DEF PassInv, Cutting, Publishing
  <2>2. PICK k \in Nat : k = Len(multiCells) BY <1>2, CountsOfQueues
  <2>4. Claims(k)' /\ \A n \in 0 .. k - 1 : Executed(n)' <=> Executed(n)
    <3>1. Claims(k) /\ held' = [held EXCEPT ![b] = IF cellCursor < k THEN cellCursor ELSE Pass!Out]
      BY <1>0, <1>7, <2>1, <2>2
    <3> QED BY <1>1, <3>1, ClaimOf
  <2>5. Claims(Len(multiCells))' BY <1>3, <2>2, <2>4 DEF Claims
  <2>6. \A c \in Pass!Cells : (Finished(c)' <=> Finished(c)) /\ recovered'[c] = recovered[c]
    <3>1. \A c : (Pass!Particles(c))' = Pass!Particles(c) BY <1>1, SameDirectory
    <3> QED BY <1>1, <1>5, <3>1 DEF Finished
  <2>7. FinalizedSoFar'
    <3>1. \A n \in 0 .. k - 1 : multiCells[n + 1] \in Pass!Cells
      BY <1>2, <2>2, CountsOfQueues
    <3>2. \A n \in 0 .. k - 1 :
            IF Executed(n) THEN Finished(multiCells[n + 1]) ELSE recovered[multiCells[n + 1]] = <<>>
      BY <2>1, <2>2 DEF FinalizedSoFar
    <3>3. \A n \in 0 .. k - 1 :
            IF Executed(n)' THEN Finished(multiCells[n + 1])'
            ELSE recovered'[multiCells[n + 1]] = <<>>
      <4> SUFFICES ASSUME NEW n \in 0 .. k - 1
                   PROVE  IF Executed(n)' THEN Finished(multiCells[n + 1])'
                          ELSE recovered'[multiCells[n + 1]] = <<>>
        OBVIOUS
      <4>1. PICK c \in Pass!Cells : c = multiCells[n + 1] BY <3>1
      <4>2. Finished(multiCells[n + 1])' <=> Finished(c)' BY <1>3, <4>1 DEF Finished, Summed
      <4>3. IF Executed(n) THEN Finished(c) ELSE recovered[c] = <<>> BY <3>2, <4>1
      <4> QED BY <2>4, <2>6, <4>1, <4>2, <4>3
    <3>4. \A c \in Pass!Cells : taskCount[c] =< 1 =>
            IF c \in pending' THEN recovered'[c] = <<>> ELSE Finished(c)'
      BY <1>1, <2>1, <2>6 DEF FinalizedSoFar
    <3> QED BY <1>3, <2>2, <3>3, <3>4 DEF FinalizedSoFar
  <2>8. Accumulated' BY <1>1, <1>3, <1>5, <2>1 DEF Accumulated
  <2>9. stage' = "finalize" /\ pending' \subseteq Pass!Cells BY <1>1, <1>7, <2>1
  <2> QED BY <2>9, <1>3, <1>4, <2>5, <2>7, <2>8 DEF PassInv, Cutting, Publishing
<1> QED BY <1>1, <1>6, <1>7

\* ... a task publishes its cell or leaves its slice's sum, ...
LEMMA AccumulateKeeps ==
  ASSUME Pass!Assumption, PassInv, NEW b \in Blocks, Pass!Accumulate(b)
  PROVE  PassInv'
<1>1. /\ stage = "accumulate" /\ stage' = stage
      /\ UNCHANGED Pass!directoryVars /\ UNCHANGED Pass!taskVars
      /\ recovered' = recovered /\ cellCursor' = cellCursor
      /\ held[b] >= 0 /\ held' = [held EXCEPT ![b] = Pass!NoClaim]
  BY DEF Pass!Accumulate
<1>2. /\ Listed /\ Arrays /\ Cut /\ Placed /\ Written /\ Lists(Pass!Cells)
      /\ Claims(Len(tasks)) /\ AccumulatedSoFar /\ \A c \in Pass!Cells : recovered[c] = <<>>
  BY <1>1 DEF PassInv, Cutting, Publishing
<1>3. /\ Listed' /\ Cut' /\ Placed' /\ Written' /\ Lists(Pass!Cells)'
      /\ taskCount' = taskCount /\ taskOffset' = taskOffset /\ tasks' = tasks
      /\ \A c, l : Slice(c, l)' = Slice(c, l)
      /\ \A c : /\ (Pass!CellPopulation(c))' = Pass!CellPopulation(c)
                /\ (Pass!Particles(c))' = Pass!Particles(c)
  BY <1>1, <1>2, SameTaskVars
<1>4. PICK k \in Nat : k = Len(tasks) BY <1>2, CountsOfQueues
<1>5. k = taskOffset[NCells] BY <1>2, <1>4, CountsOfQueues
<1>6. /\ Claims(k)' /\ held[b] \in 0 .. k - 1
      /\ \A n \in 0 .. k - 1 : Executed(n)' <=> (Executed(n) \/ n = held[b])
  <2>1. Claims(k) BY <1>2, <1>4
  <2> QED BY <1>1, <2>1, ReleaseOf
<1>7. Claims(Len(tasks))' BY <1>3, <1>4, <1>6 DEF Claims
<1>8. PICK h \in 0 .. k - 1 : h = held[b] BY <1>6
<1>9. PICK e \in Pass!Cells : \E l \in 0 .. taskCount[e] - 1 :
        /\ h + 1 = taskOffset[e] + l + 1
        /\ tasks[h + 1].cell = e /\ Pass!Visited(tasks[h + 1]) = Slice(e, l)
  <2>1. h + 1 \in 1 .. taskOffset[NCells] BY <1>4, <1>5
  <2> QED BY <1>2, <2>1 DEF Written
<1>10. PICK p \in 0 .. taskCount[e] - 1 :
        /\ h + 1 = taskOffset[e] + p + 1
        /\ tasks[h + 1].cell = e /\ Pass!Visited(tasks[h + 1]) = Slice(e, p)
  BY <1>9
<1>11. /\ h = taskOffset[e] + p /\ taskCount[e] \in Nat /\ taskOffset[e] \in Nat /\ p \in Nat
       /\ taskOffset[NCells] \in Nat
  <2>1. taskOffset[e] \in Nat /\ taskCount[e] \in Nat /\ taskOffset[NCells] \in Nat
    BY <1>2, PlacedFacts
  <2>2. h \in Nat /\ p \in Nat /\ h + 1 = taskOffset[e] + p + 1 BY <1>10, <2>1, <1>4
  <2> QED BY <2>1, <2>2
<1>12. /\ taskCount[e] = 1 =>
            /\ sums' = [sums EXCEPT ![e] = Slice(e, p)]
            /\ weight' = [weight EXCEPT ![e] = Pass!Cardinality(Slice(e, p))]
            /\ partial' = partial
       /\ taskCount[e] # 1 =>
            partial' = [partial EXCEPT ![h] = Slice(e, p)] /\ sums' = sums /\ weight' = weight
  BY <1>8, <1>10 DEF Pass!Accumulate, Pass!Publish
<1>13. Arrays' BY <1>1, <1>2, <1>12 DEF Arrays
\* What the executed task leaves is what it should, and nothing else changes.
<1>14. taskCount[e] = 1 => Summed(e)'
  <2> SUFFICES ASSUME taskCount[e] = 1 PROVE Summed(e)' OBVIOUS
  <2>1. p = 0 BY <1>11
  <2>2. Slice(e, 0) = Pass!Particles(e) /\ Cardinality(Slice(e, 0)) = Pass!CellPopulation(e)
    BY <1>2, OneTask
  <2>3. Pass!Cardinality(Slice(e, 0)) = Cardinality(Slice(e, 0)) BY SameSize
  <2>4. sums'[e] = Slice(e, 0) /\ weight'[e] = Pass!Cardinality(Slice(e, 0))
    BY <1>2, <1>12, <2>1 DEF Arrays
  <2> QED BY <1>3, <2>2, <2>3, <2>4 DEF Summed
<1>15. ASSUME NEW c \in Pass!Cells, Summed(c), taskCount[c] =< 1 PROVE Summed(c)'
  <2>1. CASE c = e
    <3>1. taskCount[e] = 1 BY <1>11, <1>15, <2>1
    <3> QED BY <3>1, <2>1, <1>14
  <2>2. CASE c # e
    <3>1. sums'[c] = sums[c] /\ weight'[c] = weight[c] BY <1>2, <1>12, <2>2 DEF Arrays
    <3> QED BY <1>1, <1>15, <3>1, SameSums
  <2> QED BY <2>1, <2>2
<1>16. \A n \in 0 .. k - 1 : n \in DOMAIN partial
  <2>1. taskOffset[NCells] =< Pass!TaskCapacity BY <1>2, TasksAreFew
  <2>2. Pass!TaskCapacity \in Int
    <3>1. ParticleCapacity \in Nat /\ BlockThreads \in Nat \ {0} /\ NCells \in Nat
      BY DEF Pass!Assumption
    <3>2. (ParticleCapacity + BlockThreads - 1) \div BlockThreads \in Int BY <3>1
    <3> QED BY <3>1, <3>2 DEF Pass!TaskCapacity
  <2>3. \A n \in 0 .. k - 1 : n \in 0 .. Pass!TaskCapacity - 1 BY <1>5, <1>11, <2>1, <2>2
  <2> QED BY <1>2, <2>3 DEF Arrays
<1>17. /\ taskCount[e] # 1 => partial'[h] = Slice(e, p)
       /\ \A n \in 0 .. k - 1 : n # h => partial'[n] = partial[n]
  BY <1>12, <1>16
<1>18. AccumulatedSoFar'
  <2>1. ASSUME NEW c \in Pass!Cells, taskCount[c] = 0 PROVE Summed(c)'
    <3>1. Summed(c) BY <1>2, <2>1 DEF AccumulatedSoFar
    <3> QED BY <1>15, <2>1, <3>1
  <2>2. ASSUME NEW c \in Pass!Cells, NEW l \in 0 .. taskCount[c] - 1,
               Executed(taskOffset[c] + l)'
        PROVE  IF taskCount[c] = 1 THEN Summed(c)' ELSE partial'[taskOffset[c] + l] = Slice(c, l)
    <3>1. PICK n \in 0 .. k - 1 : n = taskOffset[c] + l BY <1>2, <1>5, PlacesDiffer
    <3>2. Executed(n)' BY <1>3, <2>2, <3>1 DEF Executed
    <3>3. Executed(n) \/ n = h BY <1>6, <1>8, <3>1, <3>2
    <3>4. CASE n = h
      <4>1. taskOffset[e] + p = taskOffset[c] + l BY <1>11, <3>1, <3>4
      <4>2. e = c /\ p = l BY <1>2, <4>1, PlacesDiffer
      <4> QED BY <1>14, <1>17, <3>1, <3>4, <4>2
    <3>5. CASE n # h
      <4>1. Executed(taskOffset[c] + l) BY <3>1, <3>3, <3>5
      <4>2. IF taskCount[c] = 1 THEN Summed(c) ELSE partial[taskOffset[c] + l] = Slice(c, l)
        BY <1>2, <4>1 DEF AccumulatedSoFar
      <4>3. taskCount[c] \in Nat BY <1>2, PlacedFacts
      <4>4. taskCount[c] = 1 => Summed(c)' BY <1>15, <4>2, <4>3
      <4> QED BY <1>17, <3>1, <3>5, <4>2, <4>4
    <3> QED BY <3>4, <3>5
  <2> QED BY <1>3, <2>1, <2>2 DEF AccumulatedSoFar
<1>19. \A c \in Pass!Cells : recovered'[c] = <<>> BY <1>1, <1>2
<1> QED BY <1>1, <1>3, <1>7, <1>13, <1>18, <1>19 DEF PassInv, Cutting, Publishing

\* ... at the end every task has been executed, ...
LEMMA AccumulateEnds ==
  ASSUME Pass!Assumption, PassInv, Pass!KernelEnds("accumulate", "resetFinalize")
  PROVE  PassInv'
<1>1. /\ stage = "accumulate" /\ stage' = "resetFinalize"
      /\ UNCHANGED Pass!directoryVars /\ UNCHANGED Pass!taskVars
      /\ UNCHANGED <<partial, sums, weight, recovered>>
      /\ \A b \in Blocks : held[b] = Pass!Out
  BY DEF Pass!KernelEnds, Pass!Enter, Pass!resultVars
<1>2. /\ Listed /\ Arrays /\ Cut /\ Placed /\ Written /\ Lists(Pass!Cells)
      /\ Claims(Len(tasks)) /\ AccumulatedSoFar /\ \A c \in Pass!Cells : recovered[c] = <<>>
  BY <1>1 DEF PassInv, Cutting, Publishing
<1>3. /\ Listed' /\ Cut' /\ Placed' /\ Written' /\ Lists(Pass!Cells)'
      /\ taskCount' = taskCount /\ taskOffset' = taskOffset
      /\ \A c, l : Slice(c, l)' = Slice(c, l)
  BY <1>1, <1>2, SameTaskVars
<1>4. Arrays' BY <1>1, <1>2 DEF Arrays
<1>5. PICK k \in Nat : k = Len(tasks) BY <1>2, CountsOfQueues
<1>6. k = taskOffset[NCells] BY <1>2, <1>5, CountsOfQueues
<1>7. \A n \in 0 .. k - 1 : Executed(n)
  <2>1. Claims(k) BY <1>2, <1>5
  <2> QED BY <1>1, <2>1, AllExecuted
<1>8. \A c \in Pass!Cells : \A l \in 0 .. taskCount[c] - 1 :
        IF taskCount[c] = 1 THEN Summed(c) ELSE partial[taskOffset[c] + l] = Slice(c, l)
  <2>1. ASSUME NEW c \in Pass!Cells, NEW l \in 0 .. taskCount[c] - 1
        PROVE  Executed(taskOffset[c] + l)
    <3>1. taskOffset[c] + l \in 0 .. k - 1 BY <1>2, <1>6, PlacesDiffer
    <3> QED BY <1>7, <3>1
  <2> QED BY <1>2, <2>1 DEF AccumulatedSoFar
<1>9. \A c \in Pass!Cells : taskCount[c] \in Nat BY <1>2, PlacedFacts
<1>10. \A c \in Pass!Cells : taskCount[c] =< 1 => Summed(c)
  <2> SUFFICES ASSUME NEW c \in Pass!Cells, taskCount[c] =< 1 PROVE Summed(c) OBVIOUS
  <2>1. CASE taskCount[c] = 0 BY <1>2, <2>1 DEF AccumulatedSoFar
  <2>2. CASE taskCount[c] = 1
    <3>1. 0 \in 0 .. taskCount[c] - 1 BY <2>2
    <3> QED BY <1>8, <2>2, <3>1
  <2> QED BY <1>9, <2>1, <2>2
<1>11. \A c \in Pass!Cells : Summed(c)' <=> Summed(c) BY <1>1, SameSums
<1>12. Accumulated' BY <1>1, <1>3, <1>8, <1>9, <1>10, <1>11 DEF Accumulated
<1>13. \A c \in Pass!Cells : recovered'[c] = <<>> BY <1>1, <1>2
<1> QED BY <1>1, <1>3, <1>4, <1>12, <1>13 DEF PassInv, Cutting, Publishing

\* ... the second queue starts over, ...
LEMMA StartFinalize ==
  ASSUME Pass!Assumption, PassInv, Pass!Reset("resetFinalize", "finalize", Pass!Cells)
  PROVE  PassInv'
<1>1. /\ stage = "resetFinalize" /\ stage' = "finalize"
      /\ UNCHANGED Pass!directoryVars /\ UNCHANGED Pass!taskVars
      /\ UNCHANGED <<partial, sums, weight, recovered>>
      /\ cellCursor' = 0 /\ held' = [b \in Blocks |-> Pass!NoClaim] /\ pending' = Pass!Cells
  BY DEF Pass!Reset, Pass!Enter, Pass!resultVars
<1>2. /\ Listed /\ Arrays /\ Cut /\ Placed /\ Written /\ Lists(Pass!Cells) /\ Accumulated
      /\ \A c \in Pass!Cells : recovered[c] = <<>>
  BY <1>1 DEF PassInv, Cutting, Publishing
<1>3. /\ Listed' /\ Cut' /\ Placed' /\ Written' /\ Lists(Pass!Cells)'
      /\ taskCount' = taskCount /\ taskOffset' = taskOffset /\ multiCells' = multiCells
      /\ \A c, l : Slice(c, l)' = Slice(c, l)
  BY <1>1, <1>2, SameTaskVars
<1>4. Arrays' BY <1>1, <1>2 DEF Arrays
<1>5. PICK k \in Nat : k = Len(multiCells) BY <1>2, CountsOfQueues
<1>6. Claims(k)' /\ \A n \in Nat : ~Executed(n)' BY <1>1, ClaimsStart
<1>7. Claims(Len(multiCells))' BY <1>3, <1>5, <1>6 DEF Claims
<1>8. \A c \in Pass!Cells : Summed(c)' <=> Summed(c) BY <1>1, SameSums
<1>9. Accumulated' BY <1>1, <1>2, <1>3, <1>8 DEF Accumulated
<1>10. FinalizedSoFar'
  <2>1. \A n \in 0 .. k - 1 : ~Executed(n)' /\ recovered'[multiCells[n + 1]] = <<>>
    <3>1. \A n \in 0 .. k - 1 : multiCells[n + 1] \in Pass!Cells
      BY <1>2, <1>5, CountsOfQueues
    <3>2. \A n \in 0 .. k - 1 : ~Executed(n)' BY <1>6
    <3> QED BY <1>1, <1>2, <3>1, <3>2
  <2>2. \A c \in Pass!Cells : c \in pending' /\ recovered'[c] = <<>> BY <1>1, <1>2
  <2> QED BY <1>3, <1>5, <2>1, <2>2 DEF FinalizedSoFar
<1>11. pending' \subseteq Pass!Cells BY <1>1
<1> QED BY <1>1, <1>3, <1>4, <1>7, <1>9, <1>10, <1>11 DEF PassInv, Cutting, Publishing

\* ... a listed cell is published once, from its own tasks' sums, ...
LEMMA FinalizeKeeps ==
  ASSUME Pass!Assumption, PassInv, NEW b \in Blocks, Pass!Finalize(b)
  PROVE  PassInv'
<1>1. /\ stage = "finalize" /\ stage' = stage
      /\ UNCHANGED Pass!directoryVars /\ UNCHANGED Pass!taskVars
      /\ partial' = partial /\ pending' = pending /\ cellCursor' = cellCursor
      /\ held[b] >= 0 /\ held' = [held EXCEPT ![b] = Pass!NoClaim]
  BY DEF Pass!Finalize
<1>2. /\ Listed /\ Arrays /\ Cut /\ Placed /\ Written /\ Lists(Pass!Cells) /\ Accumulated
      /\ Claims(Len(multiCells)) /\ pending \subseteq Pass!Cells /\ FinalizedSoFar
  BY <1>1 DEF PassInv, Cutting, Publishing
<1>3. /\ Listed' /\ Cut' /\ Placed' /\ Written' /\ Lists(Pass!Cells)'
      /\ taskCount' = taskCount /\ taskOffset' = taskOffset /\ multiCells' = multiCells
      /\ \A c, l : Slice(c, l)' = Slice(c, l)
      /\ \A c : /\ (Pass!CellPopulation(c))' = Pass!CellPopulation(c)
                /\ (Pass!Particles(c))' = Pass!Particles(c)
  BY <1>1, <1>2, SameTaskVars
<1>4. PICK k \in Nat : k = Len(multiCells) BY <1>2, CountsOfQueues
<1>5. /\ Claims(k)' /\ held[b] \in 0 .. k - 1 /\ ~Executed(held[b])
      /\ \A n \in 0 .. k - 1 : Executed(n)' <=> (Executed(n) \/ n = held[b])
  <2>1. Claims(k) BY <1>2, <1>4
  <2> QED BY <1>1, <2>1, ReleaseOf
<1>6. Claims(Len(multiCells))' BY <1>3, <1>4, <1>5 DEF Claims
<1>7. PICK h \in 0 .. k - 1 : h = held[b] BY <1>5
<1>8. \A n \in 0 .. k - 1 : multiCells[n + 1] \in Pass!Cells /\ taskCount[multiCells[n + 1]] > 1
  BY <1>2, <1>4, CountsOfQueues
<1>9. PICK e \in Pass!Cells : e = multiCells[h + 1] BY <1>8
<1>10. taskCount[e] > 1 /\ taskCount[e] # 1 BY <1>8, <1>9
<1>11. /\ UNION {partial[t] : t \in taskOffset[e] .. taskOffset[e] + taskCount[e] - 1}
            = Pass!Particles(e)
       /\ Pass!PartialTerms(taskOffset[e], taskCount[e]) = Pass!CellPopulation(e)
  <2>1. \A l \in 0 .. taskCount[e] - 1 : partial[taskOffset[e] + l] = Slice(e, l)
    BY <1>2, <1>10 DEF Accumulated
  <2> QED BY <1>2, <2>1, PartialsAdd
<1>12. /\ sums' = [sums EXCEPT ![e] =
                     UNION {partial[t] : t \in taskOffset[e] .. taskOffset[e] + taskCount[e] - 1}]
       /\ weight' = [weight EXCEPT ![e] = Pass!PartialTerms(taskOffset[e], taskCount[e])]
       /\ recovered' = [recovered EXCEPT ![e] = Append(@, sums'[e])]
  BY <1>7, <1>9, <1>10 DEF Pass!Finalize, Pass!Publish, Pass!Recover
<1>13. Arrays' BY <1>1, <1>2, <1>12 DEF Arrays
<1>14. ASSUME NEW c \in Pass!Cells, c # e
       PROVE  /\ Summed(c)' <=> Summed(c)
              /\ Finished(c)' <=> Finished(c)
              /\ recovered'[c] = recovered[c]
  <2>1. sums'[c] = sums[c] /\ weight'[c] = weight[c] /\ recovered'[c] = recovered[c]
    BY <1>2, <1>12, <1>14 DEF Arrays
  <2>2. Summed(c)' <=> Summed(c) BY <1>1, <2>1, SameSums
  <2> QED BY <1>3, <2>1, <2>2 DEF Finished
<1>15. Finished(e)'
  <2>1. sums'[e] = Pass!Particles(e) /\ weight'[e] = Pass!CellPopulation(e)
    BY <1>2, <1>11, <1>12 DEF Arrays
  <2>2. recovered[e] = <<>> BY <1>2, <1>4, <1>5, <1>7, <1>9 DEF FinalizedSoFar
  <2>3. recovered'[e] = Append(<<>>, Pass!Particles(e)) BY <1>2, <1>12, <2>1, <2>2 DEF Arrays
  <2>4. recovered'[e] = <<Pass!Particles(e)>> BY <2>3
  <2> QED BY <1>3, <2>1, <2>4 DEF Finished, Summed
<1>16. \A c \in Pass!Cells : taskCount[c] =< 1 => c # e BY <1>2, <1>10, PlacedFacts
<1>17. Accumulated' BY <1>1, <1>2, <1>3, <1>14, <1>16 DEF Accumulated
<1>18. FinalizedSoFar'
  <2>1. ASSUME NEW n \in 0 .. k - 1
        PROVE  IF Executed(n)' THEN Finished(multiCells[n + 1])'
               ELSE recovered'[multiCells[n + 1]] = <<>>
    <3>1. PICK c \in Pass!Cells : c = multiCells[n + 1] BY <1>8
    <3>2. Finished(multiCells[n + 1])' <=> Finished(c)' BY <1>3, <3>1 DEF Finished, Summed
    <3>3. CASE n = h BY <1>5, <1>7, <1>9, <1>15, <3>1, <3>2, <3>3
    <3>4. CASE n # h
      <4>1. c # e
        <5>1. n + 1 \in 1 .. Len(multiCells) /\ h + 1 \in 1 .. Len(multiCells)
          BY <1>4
        <5>2. multiCells[n + 1] = multiCells[h + 1] => n + 1 = h + 1 BY <1>2, <5>1 DEF Lists
        <5> QED BY <1>9, <3>1, <3>4, <5>2
      <4>2. IF Executed(n) THEN Finished(c) ELSE recovered[c] = <<>>
        BY <1>2, <1>4, <3>1 DEF FinalizedSoFar
      <4>3. Executed(n)' <=> Executed(n) BY <1>5, <1>7, <3>4
      <4> QED BY <1>14, <3>1, <3>2, <4>1, <4>2, <4>3
    <3> QED BY <3>3, <3>4
  <2>2. \A c \in Pass!Cells : taskCount[c] =< 1 =>
          IF c \in pending' THEN recovered'[c] = <<>> ELSE Finished(c)'
    BY <1>1, <1>2, <1>14, <1>16 DEF FinalizedSoFar
  <2> QED BY <1>3, <1>4, <2>1, <2>2 DEF FinalizedSoFar
<1>19. pending' \subseteq Pass!Cells BY <1>1, <1>2
<1> QED BY <1>1, <1>3, <1>6, <1>13, <1>17, <1>18, <1>19 DEF PassInv, Cutting, Publishing

\* ... a light cell is recovered from the sum it has, ...
LEMMA LightKeeps ==
  ASSUME Pass!Assumption, PassInv, NEW e \in Pass!Cells, Pass!RecoverLight(e)
  PROVE  PassInv'
<1>1. /\ stage = "finalize" /\ stage' = stage
      /\ UNCHANGED Pass!directoryVars /\ UNCHANGED Pass!taskVars
      /\ UNCHANGED <<partial, sums, weight, held, cellCursor>>
      /\ e \in pending /\ pending' = pending \ {e}
      /\ IF taskCount[e] <= 1 THEN recovered' = [recovered EXCEPT ![e] = Append(@, sums[e])]
         ELSE recovered' = recovered
  BY DEF Pass!RecoverLight, Pass!queueVars, Pass!Recover
<1>2. /\ Listed /\ Arrays /\ Cut /\ Placed /\ Written /\ Lists(Pass!Cells) /\ Accumulated
      /\ Claims(Len(multiCells)) /\ pending \subseteq Pass!Cells /\ FinalizedSoFar
  BY <1>1 DEF PassInv, Cutting, Publishing
<1>3. /\ Listed' /\ Cut' /\ Placed' /\ Written' /\ Lists(Pass!Cells)'
      /\ taskCount' = taskCount /\ taskOffset' = taskOffset /\ multiCells' = multiCells
      /\ \A c, l : Slice(c, l)' = Slice(c, l)
      /\ \A c : (Pass!Particles(c))' = Pass!Particles(c)
  BY <1>1, <1>2, SameTaskVars
<1>4. PICK k \in Nat : k = Len(multiCells) BY <1>2, CountsOfQueues
<1>5. Claims(Len(multiCells))' BY <1>1, <1>2, <1>3 DEF Claims
<1>6. Arrays' BY <1>1, <1>2 DEF Arrays
<1>7. \A c \in Pass!Cells : Summed(c)' <=> Summed(c) BY <1>1, SameSums
<1>8. Accumulated' BY <1>1, <1>2, <1>3, <1>7 DEF Accumulated
<1>9. \A n \in 0 .. k - 1 : multiCells[n + 1] \in Pass!Cells /\ taskCount[multiCells[n + 1]] > 1
  BY <1>2, <1>4, CountsOfQueues
<1>10. ASSUME NEW c \in Pass!Cells, c # e \/ taskCount[c] > 1
       PROVE  (Finished(c)' <=> Finished(c)) /\ recovered'[c] = recovered[c]
  <2>1. recovered'[c] = recovered[c]
    <3>1. CASE taskCount[e] <= 1
      <4>1. c # e BY <1>10, <3>1, <1>2, PlacedFacts
      <4> QED BY <1>1, <1>2, <3>1, <4>1 DEF Arrays
    <3>2. CASE ~(taskCount[e] <= 1) BY <1>1, <3>2
    <3> QED BY <3>1, <3>2
  <2> QED BY <1>3, <1>7, <2>1 DEF Finished
<1>11. taskCount[e] =< 1 => Finished(e)'
  <2> SUFFICES ASSUME taskCount[e] =< 1 PROVE Finished(e)' OBVIOUS
  <2>1. recovered[e] = <<>> /\ Summed(e) BY <1>1, <1>2 DEF FinalizedSoFar, Accumulated
  <2>2. recovered'[e] = Append(<<>>, sums[e]) BY <1>1, <1>2, <2>1 DEF Arrays
  <2>3. recovered'[e] = <<Pass!Particles(e)>> BY <2>1, <2>2 DEF Summed
  <2> QED BY <1>3, <1>7, <2>1, <2>3 DEF Finished
<1>12. FinalizedSoFar'
  <2>1. ASSUME NEW n \in 0 .. k - 1
        PROVE  IF Executed(n)' THEN Finished(multiCells[n + 1])'
               ELSE recovered'[multiCells[n + 1]] = <<>>
    <3>1. PICK c \in Pass!Cells : c = multiCells[n + 1] /\ taskCount[c] > 1 BY <1>9
    <3>2. Finished(multiCells[n + 1])' <=> Finished(c)' BY <1>3, <3>1 DEF Finished, Summed
    <3>3. IF Executed(n) THEN Finished(c) ELSE recovered[c] = <<>>
      BY <1>2, <1>4, <3>1 DEF FinalizedSoFar
    <3>4. Executed(n)' <=> Executed(n) BY <1>1 DEF Executed
    <3> QED BY <1>10, <3>1, <3>2, <3>3, <3>4
  <2>2. ASSUME NEW c \in Pass!Cells, taskCount[c] =< 1
        PROVE  IF c \in pending' THEN recovered'[c] = <<>> ELSE Finished(c)'
    <3>1. CASE c = e BY <1>1, <1>11, <2>2, <3>1
    <3>2. CASE c # e BY <1>1, <1>2, <1>10, <2>2, <3>2 DEF FinalizedSoFar
    <3> QED BY <3>1, <3>2
  <2> QED BY <1>3, <1>4, <2>1, <2>2 DEF FinalizedSoFar
<1>13. pending' \subseteq Pass!Cells BY <1>1, <1>2
<1> QED BY <1>1, <1>3, <1>5, <1>6, <1>8, <1>12, <1>13 DEF PassInv, Cutting, Publishing

\* ... and at the end every cell is finished.
LEMMA FinalizeEnds ==
  ASSUME Pass!Assumption, PassInv, Pass!KernelEnds("finalize", "done")
  PROVE  PassInv'
<1>1. /\ stage = "finalize" /\ stage' = "done"
      /\ UNCHANGED Pass!directoryVars /\ UNCHANGED Pass!taskVars
      /\ UNCHANGED <<partial, sums, weight, recovered>>
      /\ pending = {} /\ \A b \in Blocks : held[b] = Pass!Out
  BY DEF Pass!KernelEnds, Pass!Enter, Pass!resultVars
<1>2. /\ Listed /\ Arrays /\ Cut /\ Placed /\ Written /\ Lists(Pass!Cells) /\ Accumulated
      /\ Claims(Len(multiCells)) /\ FinalizedSoFar
  BY <1>1 DEF PassInv, Cutting, Publishing
<1>3. /\ Listed' /\ Cut' /\ Placed' /\ Written' /\ Lists(Pass!Cells)'
      /\ taskCount' = taskCount /\ taskOffset' = taskOffset
      /\ \A c, l : Slice(c, l)' = Slice(c, l)
      /\ \A c : (Pass!Particles(c))' = Pass!Particles(c)
  BY <1>1, <1>2, SameTaskVars
<1>4. Arrays' BY <1>1, <1>2 DEF Arrays
<1>5. PICK k \in Nat : k = Len(multiCells) BY <1>2, CountsOfQueues
<1>6. \A n \in 0 .. k - 1 : Executed(n)
  <2>1. Claims(k) BY <1>2, <1>5
  <2> QED BY <1>1, <2>1, AllExecuted
<1>7. \A c \in Pass!Cells : Summed(c)' <=> Summed(c) BY <1>1, SameSums
<1>8. Accumulated' BY <1>1, <1>2, <1>3, <1>7 DEF Accumulated
<1>9. ASSUME NEW c \in Pass!Cells PROVE Finished(c)
  <2>1. CASE taskCount[c] =< 1 BY <1>1, <1>2, <2>1 DEF FinalizedSoFar
  <2>2. CASE ~(taskCount[c] =< 1)
    <3>1. taskCount[c] > 1 BY <1>2, <2>2, PlacedFacts
    <3>2. PICK m \in 1 .. k : multiCells[m] = c BY <1>2, <1>5, <3>1 DEF Lists
    <3>3. PICK n \in 0 .. k - 1 : m = n + 1
      <4>1. m - 1 \in 0 .. k - 1 /\ m = (m - 1) + 1 OBVIOUS
      <4> QED BY <4>1
    <3> QED BY <1>2, <1>5, <1>6, <3>2, <3>3 DEF FinalizedSoFar
  <2> QED BY <2>1, <2>2
<1>10. \A c \in Pass!Cells : Finished(c)' BY <1>1, <1>3, <1>7, <1>9 DEF Finished
<1> QED BY <1>1, <1>3, <1>4, <1>8, <1>10 DEF PassInv, Cutting, Publishing

\* A step of the queue, or none, keeps the invariant.
LEMMA StutterKeeps ==
  ASSUME PassInv, UNCHANGED passVars
  PROVE  PassInv'
<1>1. UNCHANGED Pass!directoryVars /\ UNCHANGED Pass!taskVars
  BY DEF passVars, Pass!directoryVars, Pass!taskVars
<1>2. /\ UNCHANGED <<stage, partial, sums, weight, recovered, held, cellCursor, pending>>
      /\ UNCHANGED <<tile, taskCount, taskOffset, tasks, multiCells>>
  BY DEF passVars
<1>4. /\ Listed => Listed'
      /\ Cut => Cut'
      /\ Placed => Placed'
      /\ Written => Written'
      /\ \A S : Lists(S) => Lists(S)'
      /\ \A c, l : Slice(c, l)' = Slice(c, l)
      /\ \A c : /\ (Pass!CellPopulation(c))' = Pass!CellPopulation(c)
                /\ (Pass!Particles(c))' = Pass!Particles(c)
  BY <1>1, SameTaskVars
<1>5. Lists(Pass!Cells \ pending) => Lists(Pass!Cells \ pending)' BY <1>2 DEF Lists
<1>6. \A c : Summed(c)' <=> Summed(c) BY <1>1, <1>2, SameSums
<1>7. \A c : Finished(c)' <=> Finished(c) BY <1>2, <1>4, <1>6 DEF Finished
<1>8. \A n : Executed(n)' <=> Executed(n) BY <1>2 DEF Executed
<1>9. Arrays => Arrays' BY <1>2 DEF Arrays
<1>10. /\ Claims(Len(tasks)) => Claims(Len(tasks))'
       /\ Claims(Len(multiCells)) => Claims(Len(multiCells))'
  BY <1>2 DEF Claims
<1>11. AccumulatedSoFar => AccumulatedSoFar' BY <1>2, <1>4, <1>6, <1>8 DEF AccumulatedSoFar
<1>12. Accumulated => Accumulated' BY <1>2, <1>4, <1>6 DEF Accumulated
<1>13. FinalizedSoFar => FinalizedSoFar'
  <2>1. \A n : Finished(multiCells[n + 1])' <=> Finished(multiCells[n + 1])
    <3> SUFFICES ASSUME NEW n
                 PROVE  Finished(multiCells[n + 1])' <=> Finished(multiCells[n + 1])
      OBVIOUS
    <3>1. PICK c : c = multiCells[n + 1] OBVIOUS
    <3>2. Finished(multiCells[n + 1])' <=> Finished(c)' BY <1>2, <3>1 DEF Finished, Summed
    <3> QED BY <1>7, <3>1, <3>2
  <2> QED BY <1>2, <1>7, <1>8, <2>1 DEF FinalizedSoFar
<1> QED BY <1>2, <1>4, <1>5, <1>6, <1>7, <1>9, <1>10, <1>11, <1>12, <1>13
        DEF PassInv, Cutting, Publishing

-----------------------------------------------------------------------------
\* Every step of the pass keeps the invariant.
LEMMA PassKeeps ==
  ASSUME Pass!Assumption, PassInv, Pass!Next
  PROVE  PassInv'
<1>1. CASE Pass!Stream
  BY <1>1, CountKeeps, ScanKeeps, WriteKeeps, ClearKeeps, StartAccumulate, AccumulateEnds,
     StartFinalize, FinalizeEnds DEF Pass!Stream
<1>2. CASE Pass!Kernel
  BY <1>2, ListKeeps, LightKeeps, ClaimKeeps, AccumulateKeeps, FinalizeKeeps DEF Pass!Kernel
<1>3. CASE Pass!Done
  <2>1. UNCHANGED passVars
    BY <1>3 DEF Pass!Done, Pass!vars, passVars, Pass!directoryVars, Pass!taskVars,
                Pass!queueVars, Pass!resultVars
  <2> QED BY <2>1, StutterKeeps
<1> QED BY <1>1, <1>2, <1>3 DEF Pass!Next

\* The invariant says that the pass is exact.
LEMMA PassExact ==
  ASSUME Pass!Assumption, PassInv
  PROVE  MomentsExact
<1>1. Pass!TasksFit BY TasksAreFew DEF PassInv, Pass!TasksFit
<1>2. Pass!TasksPartitionCells
  <2>1. CASE stage \in Cutting BY <2>1 DEF Pass!TasksPartitionCells, Cutting
  <2>2. CASE stage \notin Cutting BY <2>2, TasksPartition DEF PassInv, Cutting
  <2> QED BY <2>1, <2>2
<1>3. Pass!MultiCellsExact
  <2>1. CASE stage \in Cutting BY <2>1 DEF Pass!MultiCellsExact, Cutting
  <2>2. CASE stage \notin Cutting BY <2>2, ListExact DEF PassInv, Cutting
  <2> QED BY <2>1, <2>2
<1>4. Pass!SumsExact BY DEF PassInv, Pass!SumsExact, Finished, Summed
<1> QED BY <1>1, <1>2, <1>3, <1>4 DEF MomentsExact, Pass!MomentsExact, Pass!CuttingExact

\* The invariant holds of every behaviour.
LEMMA PassInvariant == MCSpec => []PassInv
<1>1. MCInit => PassInv BY PassAssumption, PassInit DEF MCInit
<1>2. PassInv /\ [MCNext]_<<part, vars, passVars>> => PassInv'
  <2> SUFFICES ASSUME PassInv, [MCNext]_<<part, vars, passVars>> PROVE PassInv' OBVIOUS
  <2>1. CASE QueueNext BY <2>1, StutterKeeps DEF QueueNext
  <2>2. CASE PassNext BY <2>2, PassAssumption, PassKeeps DEF PassNext
  <2>3. CASE UNCHANGED <<part, vars, passVars>> BY <2>3, StutterKeeps
  <2> QED BY <2>1, <2>2, <2>3 DEF MCNext
<1> QED BY <1>1, <1>2, PTL DEF MCSpec

\* A pass of the reduction is exact, for any numbers of cells, blocks and threads
\* and any directory within capacity: its tasks fit the arrays and cut every cell
\* into disjoint ranges, and every cell's published sum and recovery have each of
\* its particles once.
THEOREM PassIsExact == MCSpec => []MomentsExact
<1>1. PassInv => MomentsExact BY PassAssumption, PassExact
<1> QED BY <1>1, PassInvariant, PTL
=============================================================================
