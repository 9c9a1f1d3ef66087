--------------------------- MODULE PersistentQueue ---------------------------
(***************************************************************************)
(* runCsrPersistentQueue (common/CsrPersistentQueue.cuh): the work queue   *)
(* every segmented reduction runs on.  The blocks of a launch take task    *)
(* numbers from one global cursor until it has passed the task count.  In  *)
(* a block only thread 0 touches the cursor; it hands the task to the      *)
(* other threads through shared memory, between two barriers.  The step of *)
(* the model is the warp: within a block its threads move together, and    *)
(* warp Leader is the one that contains thread 0.                          *)
(*                                                                         *)
(* An execution is modelled by the way all the operations of the queue     *)
(* use the block (common/GpuBlockComponentReduction.cuh): each warp sums   *)
(* its part of the descriptor in shared memory into a shared slot, a       *)
(* barrier follows, and thread 0 adds the slots up and publishes the sum.  *)
(* The pool operation leaves early when no collision can happen in the     *)
(* cell: thread 0 then publishes zeros and no barrier is met on the way.   *)
(***************************************************************************)
EXTENDS Integers, FiniteSets

CONSTANTS
  Blocks,     (* the blocks of the launch, csrHeavyWorkerGrid of them        *)
  Warps,      (* the warps of a block                                        *)
  Leader,     (* the warp of thread 0                                        *)
  TaskCount,  (* count: immutable during the launch                          *)
  Rejected,   (* the tasks operation.prepare returns false for               *)
  Idle        (* the tasks execute leaves at once: zero collision probability *)

ASSUME BlocksAssumption == IsFiniteSet(Blocks) /\ Blocks # {}
ASSUME WarpsAssumption == Leader \in Warps
ASSUME TaskCountAssumption == TaskCount \in Nat
ASSUME RejectedAssumption == Rejected \subseteq Nat
ASSUME IdleAssumption == Idle \subseteq Nat

Tasks == 0 .. TaskCount - 1
Accepted == Tasks \ Rejected
NoTask == -1

\* What is to be published for a task: the part of every warp, or zeros.
Complete(n) == [w \in Warps |-> IF n \in Idle THEN NoTask ELSE n]

VARIABLES
  cursor,      (* *csrHeavyTaskCursor, 0 after resetCsrPersistentQueue       *)
  task,        (* shared, per block: the task number thread 0 got            *)
  valid,       (* shared, per block: whether it is to be executed            *)
  descriptor,  (* shared, per block: the task whose descriptor was copied    *)
  scratch,     (* shared, per block and warp: the task the warp's sum is of  *)
  my,          (* per warp: the task number as passed to execute             *)
  pc,          (* per warp: where it is                                      *)
  executed,    (* how often the sums of a task have been published           *)
  result       (* the sums last published for a task, as a copy of scratch   *)

sharedVars == <<task, valid, descriptor, scratch>>
vars == <<cursor, sharedVars, my, pc, executed, result>>

Init ==
  /\ cursor = 0
  /\ task       = [b \in Blocks |-> NoTask]
  /\ valid      = [b \in Blocks |-> FALSE]
  /\ descriptor = [b \in Blocks |-> NoTask]
  /\ scratch    = [b \in Blocks |-> [w \in Warps |-> NoTask]]
  /\ my         = [b \in Blocks |-> [w \in Warps |-> NoTask]]
  /\ pc = [b \in Blocks |-> [w \in Warps |-> IF w = Leader THEN "claim" ELSE "claimed"]]
  /\ executed = [n \in Tasks |-> 0]
  /\ result   = [n \in Tasks |-> [w \in Warps |-> NoTask]]

-----------------------------------------------------------------------------
\* A barrier of block b: passed by all its warps when all have reached it.
Barrier(b, barrier, leaderNext, othersNext) ==
  /\ \A w \in Warps : pc[b][w] = barrier
  /\ pc' = [pc EXCEPT ![b] = [w \in Warps |-> IF w = Leader THEN leaderNext ELSE othersNext]]
  /\ UNCHANGED <<cursor, sharedVars, my, executed, result>>

Goto(b, w, label) == pc' = [pc EXCEPT ![b][w] = label]

\* Where execute begins: the shared descriptor tells whether there is work.
Start(b, w) ==
  IF descriptor[b] \notin Idle THEN "sum" ELSE IF w = Leader THEN "zero" ELSE "executed"

(***************************************************************************)
(* Mistakes, among them those the comments of the file warn of, that the   *)
(* properties have to notice when they replace the operation.              *)
(***************************************************************************)
\* The task is only read, and the cursor moved on without regard to others.
ClaimNotAtomic(b) ==
  /\ pc[b][Leader] = "claim"
  /\ \E seen \in {cursor, cursor - 1} \cap Nat :
       /\ task'  = [task EXCEPT ![b] = seen]
       /\ valid' = [valid EXCEPT ![b] = seen < TaskCount /\ seen \notin Rejected]
       /\ descriptor' = [descriptor EXCEPT ![b] = seen]
       /\ cursor' = seen + 1
  /\ Goto(b, Leader, "claimed")
  /\ UNCHANGED <<scratch, my, executed, result>>

\* if (!valid) return: a rejected task ends the worker.
DecideLeavingOnRejection(b, w) ==
  /\ pc[b][w] = "decide"
  /\ my' = [my EXCEPT ![b][w] = task[b]]
  /\ Goto(b, w, IF ~valid[b] THEN "returned" ELSE Start(b, w))
  /\ UNCHANGED <<cursor, sharedVars, executed, result>>

\* The first __syncthreads is missing: a warp decides before thread 0 claims.
PublicizeWithoutBarrier(b) ==
  /\ \E w \in Warps : pc[b][w] = "claimed" /\ Goto(b, w, "decide")
  /\ UNCHANGED <<cursor, sharedVars, my, executed, result>>

\* The second __syncthreads is missing: thread 0 claims while others execute.
NextTaskWithoutBarrier(b) ==
  /\ \E w \in Warps :
       /\ pc[b][w] = "executed"
       /\ Goto(b, w, IF w = Leader THEN "claim" ELSE "claimed")
  /\ UNCHANGED <<cursor, sharedVars, my, executed, result>>

-----------------------------------------------------------------------------
\* task = atomicAdd(csrHeavyTaskCursor, 1); valid = task < count && prepare:
\* prepare copies the task's descriptor to shared memory.
Claim(b) ==
  /\ pc[b][Leader] = "claim"
  /\ task'   = [task EXCEPT ![b] = cursor]
  /\ valid'  = [valid EXCEPT ![b] = cursor \in Accepted]
  /\ descriptor' = [descriptor EXCEPT ![b] = IF cursor \in Accepted THEN cursor ELSE @]
  /\ cursor' = cursor + 1
  /\ Goto(b, Leader, "claimed")
  /\ UNCHANGED <<scratch, my, executed, result>>

Publicize(b) == Barrier(b, "claimed", "decide", "decide")

\* if (task >= count) return; if (valid) execute(task).
Decide(b, w) ==
  /\ pc[b][w] = "decide"
  /\ my' = [my EXCEPT ![b][w] = task[b]]
  /\ Goto(b, w, IF task[b] >= TaskCount THEN "returned"
                ELSE IF valid[b] THEN Start(b, w) ELSE "executed")
  /\ UNCHANGED <<cursor, sharedVars, executed, result>>

\* The warp's partial sum over the descriptor's particles goes to warpPartials.
Sum(b, w) ==
  /\ pc[b][w] = "sum"
  /\ scratch' = [scratch EXCEPT ![b][w] = descriptor[b]]
  /\ Goto(b, w, "summed")
  /\ UNCHANGED <<cursor, task, valid, descriptor, my, executed, result>>

Reduce(b) == Barrier(b, "summed", "publish", "executed")

\* Thread 0 adds the warps' sums up and writes them out under the task number.
Publish(b) ==
  /\ pc[b][Leader] = "publish"
  /\ executed' = [executed EXCEPT ![my[b][Leader]] = @ + 1]
  /\ result' = [result EXCEPT ![my[b][Leader]] = scratch[b]]
  /\ Goto(b, Leader, "executed")
  /\ UNCHANGED <<cursor, sharedVars, my>>

\* Thread 0 publishes zeros for a task there is nothing to do for.
Zero(b) ==
  /\ pc[b][Leader] = "zero"
  /\ executed' = [executed EXCEPT ![my[b][Leader]] = @ + 1]
  /\ result' = [result EXCEPT ![my[b][Leader]] = [w \in Warps |-> NoTask]]
  /\ Goto(b, Leader, "executed")
  /\ UNCHANGED <<cursor, sharedVars, my>>

\* The final barrier: shared descriptors and partials are reused after it.
NextTask(b) == Barrier(b, "executed", "claim", "claimed")

Block(b) ==
  \/ Claim(b)
  \/ Publicize(b)
  \/ \E w \in Warps : Decide(b, w) \/ Sum(b, w)
  \/ Reduce(b)
  \/ Publish(b)
  \/ Zero(b)
  \/ NextTask(b)

Returned(b) == \A w \in Warps : pc[b][w] = "returned"
Over == \A b \in Blocks : Returned(b)

\* The kernel has returned; the stream goes on to its next entry.
Done == Over /\ UNCHANGED vars

Next == Done \/ \E b \in Blocks : Block(b)

\* Blocks are resident until they return, and a resident block is scheduled.
Spec == Init /\ [][Next]_vars /\ \A b \in Blocks : WF_vars(Block(b))

-----------------------------------------------------------------------------
Label == {"claim", "claimed", "decide", "sum", "summed", "publish", "zero", "executed", "returned"}

\* Types; the cursor passes the count by at most one claim per block.
TypeOK ==
  /\ cursor \in 0 .. TaskCount + Cardinality(Blocks)
  /\ task \in [Blocks -> Int]
  /\ valid \in [Blocks -> BOOLEAN]
  /\ descriptor \in [Blocks -> {NoTask} \cup Tasks]
  /\ scratch \in [Blocks -> [Warps -> {NoTask} \cup Tasks]]
  /\ my \in [Blocks -> [Warps -> Int]]
  /\ pc \in [Blocks -> [Warps -> Label]]
  /\ executed \in [Tasks -> Nat]
  /\ result \in [Tasks -> [Warps -> {NoTask} \cup Tasks]]

\* What is published for a task is made of that task's part of every warp: no
\* warp still reads or writes shared memory when it is reused for another task.
NoMixing ==
  \A n \in Tasks : executed[n] > 0 => result[n] = Complete(n)

\* No task is carried out twice: the segmented pool draws random numbers and
\* changes particle states, so a repetition would not be harmless.
AtMostOnce == \A n \in Tasks : executed[n] <= 1

\* When the last worker has returned every accepted task has been carried out,
\* also when the workers met tasks that prepare rejected.
CompleteWhenOver == Over => \A n \in Accepted : executed[n] = 1

\* Every worker returns.
Termination == <>Over

\* The queue implements the pool of tasks its callers rely on.
Pool == INSTANCE WorkPool WITH
          executed <- [n \in Accepted |-> executed[n]],
          over <- Over
PoolSpec == Pool!Spec
=============================================================================
