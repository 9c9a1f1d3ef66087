-------------------------- MODULE SegmentedReduction --------------------------
(***************************************************************************)
(* The segmented ("heavy") reduction over the particles of each cell: a    *)
(* cell directory is cut into tasks of at most a tile of particles         *)
(* (common/GpuReductionTask*.cuh), the workers of a persistent queue sum   *)
(* the tasks, and a second queue adds up the partial sums of the cells     *)
(* that have several tasks (common/GpuSegmentedMomentWorkers.cuh,          *)
(* GpuSegmentedPoolWorkers.cuh, GpuMomentRecovery.cuh).                    *)
(*                                                                         *)
(* The queue is taken as PersistentQueue shows it to behave: a block       *)
(* claims a task number and then executes the task in one step.  Entries   *)
(* of the CUDA stream run one after the other; inside a kernel the threads *)
(* or blocks that touch shared memory are steps of their own.  One pass is *)
(* modelled, from whatever an earlier pass has left in device memory.      *)
(***************************************************************************)
EXTENDS Integers, FiniteSets, Sequences

CONSTANTS
  NCells,            (* s.nCells                                             *)
  ParticleCapacity,  (* np                                                   *)
  BlockThreads,      (* reductionBlockThreads                                *)
  ResidentBlocks,    (* multiprocessorCount*lightBlocksPerSm                 *)
  Blocks,            (* the blocks of a queue kernel                         *)
  Occupancies        (* bound: the numbers of particles a cell may have      *)

Assumption ==
  /\ NCells \in Nat \ {0} /\ ParticleCapacity \in Nat
  /\ BlockThreads \in Nat \ {0} /\ ResidentBlocks \in Nat \ {0}
  /\ Occupancies \subseteq 0 .. ParticleCapacity
  /\ IsFiniteSet(Blocks) /\ Blocks # {}

Cells == 0 .. NCells - 1
CellsAndEnd == 0 .. NCells
Kinds == {"full", "baseOnly", "split"}

VARIABLES
  kind,        (* the directory the pass reduces over                        *)
  baseOffset,  (* preBaseCellOffset                                          *)
  offset,      (* cellParticleOffset                                         *)
  stage,       (* the entry of the stream that runs                          *)
  tile,        (* csrHeavyTileParticles                                      *)
  taskCount,   (* csrCellTaskCount                                           *)
  taskOffset,  (* csrCellTaskOffset                                          *)
  tasks,       (* csrReductionTasks, the first csrHeavyTaskCount of them     *)
  multiCells,  (* csrMultiTaskCellList, the first csrHeavyCellCount of it    *)
  pending,     (* cells whose thread of the running kernel has yet to run    *)
  cursor,      (* csrHeavyTaskCursor                                         *)
  held,        (* per block: the task number it has claimed                  *)
  partial,     (* csrHeavyPartials, by task                                  *)
  sums,        (* per cell: the particles whose sum is published             *)
  weight,      (* per cell: how many terms the published sum has             *)
  recovered    (* per cell: the sums the field recovery has been done from   *)

directoryVars == <<kind, baseOffset, offset>>
taskVars == <<tile, taskCount, taskOffset, tasks, multiCells>>
queueVars == <<cursor, held>>
resultVars == <<partial, sums, weight, recovered>>
vars == <<directoryVars, stage, taskVars, pending, queueVars, resultVars>>

NoClaim == -1
Out == -2     \* the block has returned
Stale == {<<"stale", 0>>}   \* what an array holds before the pass writes it

-----------------------------------------------------------------------------
(***************************************************************************)
(* Sizes.                                                                  *)
(***************************************************************************)
CeilDiv(n, d) == IF n > 0 THEN 1 + (n - 1) \div d ELSE 0

\* Single-particle tiles: finer than the task array is sized for.
HardwareTileTooSmall(population) == 1

\* hardwareReductionTile: whole blocks per tile, so many that the resident
\* threads of the device share the population evenly.  (The clamps to the
\* largest int are out of reach of any population a device can hold.)
HardwareTile(population) ==
  LET concurrency == ResidentBlocks * BlockThreads
      shares == IF population = 0 THEN 1 ELSE 1 + (population - 1) \div concurrency
  IN shares * BlockThreads

\* The length of csrReductionTasks and of csrHeavyPartials.
TaskCapacity == (ParticleCapacity + BlockThreads - 1) \div BlockThreads + 2 * NCells + 1

BaseCount(c) == baseOffset[c + 1] - baseOffset[c]
IndexedCount(c) == offset[c + 1] - offset[c]

\* How many particles the directory of the pass has in cell c, and in all.
CellPopulation(c) ==
  CASE kind = "full"     -> IndexedCount(c)
    [] kind = "baseOnly" -> BaseCount(c)
    [] kind = "split"    -> BaseCount(c) + IndexedCount(c)
Population ==
  CASE kind = "full"     -> offset[NCells]
    [] kind = "baseOnly" -> baseOffset[NCells]
    [] kind = "split"    -> baseOffset[NCells] + offset[NCells]

\* The particles the directory has in cell c: by index through
\* sortedParticleIndex, or directly by position in the compacted base.
Indexed(from, to) == {<<"indexed", i>> : i \in from .. to - 1}
Direct(from, to)  == {<<"direct", i>> : i \in from .. to - 1}
Particles(c) ==
  (IF kind \in {"full", "split"} THEN Indexed(offset[c], offset[c + 1]) ELSE {}) \cup
  (IF kind \in {"baseOnly", "split"} THEN Direct(baseOffset[c], baseOffset[c + 1]) ELSE {})

Least(m, n) == IF m < n THEN m ELSE n
Greatest(m, n) == IF m < n THEN n ELSE m

\* The sums of the first 0, 1, ..., n terms.
RunningSum(n, terms) ==
  LET sum[i \in 0 .. n] == IF i = 0 THEN 0 ELSE sum[i - 1] + terms[i - 1]
  IN sum

\* Exclusive scan of per-cell counts (cub::DeviceScan::ExclusiveSum).
ExclusiveSum(counts) == RunningSum(NCells, counts)

\* A lower-bound search: wrong for the first task of a cell.
CellOfTaskStrict(t) ==
  LET search[r \in Cells \X CellsAndEnd] ==
        IF r[1] + 1 >= r[2] THEN r[1]
        ELSE LET mid == r[1] + (r[2] - r[1]) \div 2
             IN search[IF taskOffset[mid] < t THEN <<mid, r[2]>> ELSE <<r[1], mid>>]
  IN search[<<0, NCells>>]

\* materialize: upper-bound search for the cell a task belongs to.
CellOfTask(t) ==
  LET search[r \in Cells \X CellsAndEnd] ==
        IF r[1] + 1 >= r[2] THEN r[1]
        ELSE LET mid == r[1] + (r[2] - r[1]) \div 2
             IN search[IF taskOffset[mid] <= t THEN <<mid, r[2]>> ELSE <<r[1], mid>>]
  IN search[<<0, NCells>>]

\* The descriptor of a task: a range of the directory, or for the split
\* directory a range of the cell's logical sequence, base before injection.
Descriptor(t) ==
  LET c     == CellOfTask(t)
      local == t - taskOffset[c]
      first == CASE kind = "full"     -> offset[c]
                 [] kind = "baseOnly" -> baseOffset[c]
                 [] kind = "split"    -> 0
      begin == first + local * tile
      limit == first + CellPopulation(c)
  IN [cell |-> c, begin |-> begin, end |-> begin + Least(tile, limit - begin)]

\* The particles a worker visits for a descriptor.
Visited(d) ==
  LET nBase == BaseCount(d.cell)
  IN CASE kind = "full"     -> Indexed(d.begin, d.end)
       [] kind = "baseOnly" -> Direct(d.begin, d.end)
       [] kind = "split"    ->
            Direct(baseOffset[d.cell] + d.begin, baseOffset[d.cell] + Least(d.end, nBase))
            \cup Indexed(offset[d.cell] + Greatest(d.begin, nBase) - nBase,
                         offset[d.cell] + d.end - nBase)

-----------------------------------------------------------------------------
\* Directories: offsets of cells that hold the given numbers of particles.
Offsets == {ExclusiveSum(n) : n \in [Cells -> Occupancies]}
WithinCapacity(kd, b, o) ==
  /\ b[NCells] + (IF kd = "full" THEN 0 ELSE o[NCells]) <= ParticleCapacity
  /\ o[NCells] <= ParticleCapacity
  /\ kd = "baseOnly" => o[NCells] = 0
  /\ kd = "full" => b[NCells] = 0

\* A directory has just been built; everything the pass writes is left over
\* from an earlier pass, the queue's cursor past the end of the earlier queue.
Init ==
  /\ kind \in Kinds
  /\ baseOffset \in Offsets
  /\ offset \in Offsets
  /\ WithinCapacity(kind, baseOffset, offset)
  /\ stage = "count"
  /\ tile = HardwareTile(ParticleCapacity)
  /\ taskCount = [c \in CellsAndEnd |-> 1]
  /\ taskOffset = [c \in CellsAndEnd |-> c]
  /\ tasks = <<>>
  /\ multiCells = <<0>>
  /\ pending = {}
  /\ cursor = NCells + Cardinality(Blocks)
  /\ held = [b \in Blocks |-> Out]
  /\ partial = [t \in 0 .. TaskCapacity - 1 |-> Stale]
  /\ sums = [c \in Cells |-> Stale]
  /\ weight = [c \in Cells |-> 0]
  /\ recovered = [c \in Cells |-> <<>>]

Enter(from, to) == stage = from /\ stage' = to

\* The list of multi-task cells of the last directory is added to.
CountWithoutClearing ==
  /\ Enter("count", "scan")
  /\ tile' = HardwareTile(Population)
  /\ taskCount' = [c \in CellsAndEnd |->
                     IF c = NCells THEN 0 ELSE CeilDiv(CellPopulation(c), tile')]
  /\ tasks' = <<>>
  /\ UNCHANGED <<directoryVars, taskOffset, multiCells, pending, queueVars, resultVars>>

\* countCsrReductionTasksKernel.
CountTasks ==
  /\ Enter("count", "scan")
  /\ tile' = HardwareTile(Population)
  /\ taskCount' = [c \in CellsAndEnd |->
                     IF c = NCells THEN 0 ELSE CeilDiv(CellPopulation(c), tile')]
  /\ tasks' = <<>>
  /\ multiCells' = <<>>
  /\ UNCHANGED <<directoryVars, taskOffset, pending, queueVars, resultVars>>

ScanTasks ==
  /\ Enter("scan", "materialize")
  /\ taskOffset' = ExclusiveSum(taskCount)
  /\ pending' = Cells
  /\ UNCHANGED <<directoryVars, tile, taskCount, tasks, multiCells, queueVars, resultVars>>

\* materializeCsrReductionTasksKernel: the thread of cell c lists the cell if it
\* has several tasks; the atomicAdd decides the order of the list.
ListCell(c) ==
  /\ stage = "materialize"
  /\ c \in pending
  /\ pending' = pending \ {c}
  /\ multiCells' = IF taskCount[c] > 1 THEN Append(multiCells, c) ELSE multiCells
  /\ UNCHANGED <<directoryVars, stage, tile, taskCount, taskOffset, tasks, queueVars, resultVars>>

\* ... and the descriptors are written, each by one thread, to its own entry.
WriteTasks ==
  /\ Enter("materialize", "clear")
  /\ pending = {}
  /\ tasks' = [n \in 1 .. taskOffset[NCells] |-> Descriptor(n - 1)]
  /\ UNCHANGED <<directoryVars, tile, taskCount, taskOffset, multiCells, pending,
                 queueVars, resultVars>>

\* clearParticleMomentsKernel, clearPoissonThermalPoolKernel.
Clear ==
  /\ Enter("clear", "resetAccumulate")
  /\ sums' = [c \in Cells |-> {}]
  /\ weight' = [c \in Cells |-> 0]
  /\ UNCHANGED <<directoryVars, taskVars, pending, queueVars, partial, recovered>>

\* The finalizing kernel is launched on the queue as the accumulation left it.
ResetOnlyOnce(from, to, threads) ==
  /\ Enter(from, to)
  /\ cursor' = IF from = "resetAccumulate" THEN 0 ELSE cursor
  /\ held' = [b \in Blocks |-> NoClaim]
  /\ pending' = threads
  /\ UNCHANGED <<directoryVars, taskVars, resultVars>>

\* resetCsrPersistentQueue, and the launch of the kernel that follows it.
Reset(from, to, threads) ==
  /\ Enter(from, to)
  /\ cursor' = 0
  /\ held' = [b \in Blocks |-> NoClaim]
  /\ pending' = threads
  /\ UNCHANGED <<directoryVars, taskVars, resultVars>>

\* A block that finds the queue empty gives its claim back and tries again.
ClaimPolling(b) ==
  /\ stage \in {"accumulate", "finalize"}
  /\ held[b] = NoClaim
  /\ LET count == IF stage = "accumulate" THEN Len(tasks) ELSE Len(multiCells)
     IN IF cursor < count THEN held' = [held EXCEPT ![b] = cursor] /\ cursor' = cursor + 1
                          ELSE UNCHANGED queueVars
  /\ UNCHANGED <<directoryVars, stage, taskVars, pending, resultVars>>

\* A block of the running kernel claims a task number; past the end it returns.
Claim(b) ==
  /\ stage \in {"accumulate", "finalize"}
  /\ held[b] = NoClaim
  /\ LET count == IF stage = "accumulate" THEN Len(tasks) ELSE Len(multiCells)
     IN held' = [held EXCEPT ![b] = IF cursor < count THEN cursor ELSE Out]
  /\ cursor' = cursor + 1
  /\ UNCHANGED <<directoryVars, stage, taskVars, pending, resultVars>>

Publish(c, particles, terms) ==
  /\ sums' = [sums EXCEPT ![c] = particles]
  /\ weight' = [weight EXCEPT ![c] = terms]

\* CsrMomentOperation, CsrPoolOperation: the only task of a cell publishes the
\* cell, one of several leaves a partial sum.
Accumulate(b) ==
  /\ stage = "accumulate"
  /\ held[b] >= 0
  /\ held' = [held EXCEPT ![b] = NoClaim]
  /\ LET d == tasks[held[b] + 1]
     IN IF taskCount[d.cell] = 1
        THEN Publish(d.cell, Visited(d), Cardinality(Visited(d))) /\ UNCHANGED partial
        ELSE /\ partial' = [partial EXCEPT ![held[b]] = Visited(d)]
             /\ UNCHANGED <<sums, weight>>
  /\ UNCHANGED <<directoryVars, stage, taskVars, pending, cursor, recovered>>

\* The terms in the partial sums of n tasks, added up from task first on.
PartialTerms(first, n) ==
  RunningSum(n, [i \in 0 .. n - 1 |-> Cardinality(partial[first + i])])[n]

Recover(c, from) == recovered' = [recovered EXCEPT ![c] = Append(@, from)]

\* CsrMomentRecoveryOperation: add up the partial sums of a listed cell,
\* publish them and recover the cell's fields from them.
Finalize(b) ==
  /\ stage = "finalize"
  /\ held[b] >= 0
  /\ held' = [held EXCEPT ![b] = NoClaim]
  /\ LET c == multiCells[held[b] + 1]
         own == taskOffset[c] .. taskOffset[c] + taskCount[c] - 1
     IN IF taskCount[c] = 1
        THEN Recover(c, sums[c]) /\ UNCHANGED <<sums, weight>>
        ELSE /\ Publish(c, UNION {partial[t] : t \in own},
                        PartialTerms(taskOffset[c], taskCount[c]))
             /\ Recover(c, sums'[c])
  /\ UNCHANGED <<directoryVars, stage, taskVars, pending, cursor, partial>>

\* A thread of the blocks past the queue's: cells the queue does not handle.
RecoverLight(c) ==
  /\ stage = "finalize"
  /\ c \in pending
  /\ pending' = pending \ {c}
  /\ IF taskCount[c] <= 1 THEN Recover(c, sums[c]) ELSE UNCHANGED recovered
  /\ UNCHANGED <<directoryVars, stage, taskVars, queueVars, partial, sums, weight>>

\* A kernel is over when all its blocks have returned.
KernelEnds(from, to) ==
  /\ Enter(from, to)
  /\ \A b \in Blocks : held[b] = Out
  /\ pending = {}
  /\ UNCHANGED <<directoryVars, taskVars, pending, queueVars, resultVars>>

Done == stage = "done" /\ UNCHANGED vars

Stream ==
  \/ CountTasks
  \/ ScanTasks
  \/ WriteTasks
  \/ Clear
  \/ Reset("resetAccumulate", "accumulate", {})
  \/ KernelEnds("accumulate", "resetFinalize")
  \/ Reset("resetFinalize", "finalize", Cells)
  \/ KernelEnds("finalize", "done")

Kernel ==
  \/ \E c \in Cells : ListCell(c) \/ RecoverLight(c)
  \/ \E b \in Blocks : Claim(b) \/ Accumulate(b) \/ Finalize(b)

Next == Stream \/ Kernel \/ Done

\* A stream runs its entries, and a kernel its threads, to the end.
Spec == Init /\ [][Next]_vars /\ WF_vars(Stream \/ Kernel)

-----------------------------------------------------------------------------
\* Every task is written inside csrReductionTasks and csrHeavyPartials, whatever
\* the directory: they are sized once, the tile is chosen anew for every pass.
TasksFit == stage \notin {"count", "scan"} => taskOffset[NCells] <= TaskCapacity

\* The tasks cut every cell's particles into disjoint ranges, none of them empty
\* or larger than a tile.
TasksPartitionCells ==
  stage \notin {"count", "scan", "materialize"} =>
    \A c \in Cells :
      LET own == {n \in DOMAIN tasks : tasks[n].cell = c}
      IN /\ UNION {Visited(tasks[n]) : n \in own} = Particles(c)
         /\ \A m, n \in own : m # n => Visited(tasks[m]) \cap Visited(tasks[n]) = {}
         /\ \A n \in own : Cardinality(Visited(tasks[n])) \in 1 .. tile

\* The queue of the second kernel is exactly the cells with several tasks.
MultiCellsExact ==
  stage \notin {"count", "scan", "materialize"} =>
    /\ {multiCells[n] : n \in DOMAIN multiCells} = {c \in Cells : taskCount[c] > 1}
    /\ \A m, n \in DOMAIN multiCells : multiCells[m] = multiCells[n] => m = n

\* The cutting into tasks is exact: it stays inside the arrays, covers every
\* particle once, and finds the cells whose tasks must be added up.
CuttingExact == TasksFit /\ TasksPartitionCells /\ MultiCellsExact

\* After the pass the published sum of every cell, empty ones and ones with
\* stale partial sums included, has each particle of the cell as a term once,
\* and the cell's fields were recovered once, from that sum.
SumsExact ==
  stage = "done" =>
    \A c \in Cells : /\ sums[c] = Particles(c) /\ weight[c] = CellPopulation(c)
                    /\ recovered[c] = <<Particles(c)>>

\* A pass of the reduction is exact, from the cutting to the recovered fields.
MomentsExact == CuttingExact /\ SumsExact

\* Every pass ends.
Completes == <>(stage = "done")
=============================================================================
