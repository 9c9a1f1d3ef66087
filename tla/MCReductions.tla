---------------------------- MODULE MCReductions ----------------------------
(***************************************************************************)
(* Reductions over the particles of each cell: a behaviour is one of the   *)
(* persistent queue, or one of a whole pass, which takes the queue as it   *)
(* is shown to behave.  What is proved of both extends this module; the    *)
(* queue has its larger instance in MCPersistentQueue.                     *)
(***************************************************************************)
EXTENDS PersistentQueue

CONSTANTS NCells, ParticleCapacity, BlockThreads, ResidentBlocks, Occupancies

VARIABLES part, kind, baseOffset, offset, stage, tile, taskCount, taskOffset, tasks,
          multiCells, pending, cellCursor, held, partial, sums, weight, recovered

Pass == INSTANCE SegmentedReduction WITH cursor <- cellCursor

ASSUME PassAssumption == Pass!Assumption

\* An empty cell, the smallest one, one of several tasks with a partly filled
\* last tile, and one that holds every particle there can be.
MCOccupancies == {0, 1, 9, 16}

passVars == <<kind, baseOffset, offset, stage, tile, taskCount, taskOffset, tasks, multiCells,
              pending, cellCursor, held, partial, sums, weight, recovered>>

\* The directory that the behaviours of the queue have and do not use.
HoldPass == kind = "baseOnly" /\ baseOffset[NCells] = 0

MCInit ==
  /\ Init /\ Pass!Init
  /\ part \in {"queue", "pass"} /\ (part = "queue" => HoldPass)

QueueNext == part = "queue" /\ Next /\ UNCHANGED <<part, passVars>>
PassNext == part = "pass" /\ Pass!Next /\ UNCHANGED <<part, vars>>
MCNext == QueueNext \/ PassNext

MCSpec ==
  /\ MCInit /\ [][MCNext]_<<part, vars, passVars>>
  /\ WF_<<part, vars, passVars>>(
       part = "pass" /\ (Pass!Stream \/ Pass!Kernel) /\ UNCHANGED <<part, vars>>)

\* A pass of the reduction is exact (SegmentedReduction).
MomentsExact == Pass!MomentsExact
\* Every pass ends (SegmentedReduction).
Completes == part = "pass" => Pass!Completes
=============================================================================
