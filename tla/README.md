# Formal verification of ugkp-thermal

TLA+ models of the control of ugkp-thermal, the TLC runs that check them on
small instances, and theorems that the TLA+ proof system checks for every value
of the constants.

ugkp-thermal couples a gas solver and a particle (UGKWP) solver, both resident
on a GPU, with walls, radiation and solids, and drives them from OpenFOAM
applications. Much of what makes it correct is numerics, which this directory
does not touch. What is modelled is the control around the numerics: which
thread, kernel, stream or step does what, in which order, on which of the shared
counters, lists, flags, clocks and buffers, and what happens when an array is
full, a call fails or the process is gone.

1. [The system](#1-the-system): its parts, their state, operations and hard behaviours
2. [Modules](#2-modules): which module models which part, and how they fit together
3. [Runs](#3-runs): what TLC checks, with which bounds and fairness
4. [Proofs](#4-proofs): what is proved, from what, along which argument
5. [Findings](#5-findings)
6. [What is not modelled](#6-what-is-not-modelled)
7. [Plan](#7-plan)

Paths below are relative to the repository. `C/` stands for
`applications/CHMT/`, `S.cu` for
`applications/gasUGKP/private_backend/GpuResidentStrict.cu`, `T.cu` for
`common/thermal/GpuResidentStrict.cu` and `T/` for `applications/CHT/thermal/`.

## 1. The system

### Layers

    applications         CHMT (gas + wall + radiation + material, coupled windows)
      |                  CHT (gas + particles + solid heat), gasUGKP, gasUGKPSteady
      |                      one host thread; OpenFOAM case, output, checkpoints
      v
    resident back ends   S.cu, T.cu, C/gpu/Backend.cu, C/gpu/MaterialBackend.cu
      |                      host mirrors of device state; kernels, graphs and copies
      |                      are submitted to CUDA streams and run later, in order
      v
    kernels              common/*.cuh, common/operators/*.cuh
                             thousands of threads over shared counters and lists

The host runs ahead of the device and looks at it seldom; most decisions are
taken from flags the host keeps about what it has submitted. Nothing but the
host thread submits work. Files are written by the host between windows.

### Parts of the particle core

| Part | State | Operations | Correct when |
|---|---|---|---|
| Boundary injection (`common/operators/injectBoundaryParticlesKernel.cuh`) | particle counter, particle arrays, residual mass per source | one thread per inflow face: accumulate, claim a slot, undo a refused claim, write, store | slots are handed out once and leave no hole; a refusal means the array is full; mass is neither made nor lost |
| Persistent task queue (`common/CsrPersistentQueue.cuh`) | a cursor in global memory, a task in shared memory per block | claim by the leader, two barriers, work of every warp, reset | a task is executed once, by all warps of one block, with nothing of another task mixed in |
| Segmented reduction (`common/GpuReductionTask*.cuh`, `GpuSegmented*Workers.cuh`, `GpuMomentRecovery.cuh`) | task counts, offsets and descriptors, list of cells of several tasks, partial sums | count, scan, materialise, reduce, finalise, recover | every particle of a cell enters that cell's sum once, however the cell is cut |
| Particle phase (`common/GpuParticlePhaseGraph.cuh`, `GpuParticleDirectoryHost.cuh`, `GpuAutomaticCsrSchedule.cuh`, `GpuParticleBufferCommit.cuh`, `S.cu`, `T.cu`) | host mirror flags, recorded graphs, device directories, task list, schedule, double buffers, two clocks | record, replay, restart, reconfigure; inject, bin, build, decide, kick, pool, couple, track, compact | each stage reads a directory of exactly the particles there are; a replayed recording is what the host would submit now |
| Directory kernels (`common/operators/countParticlesByCellKernel.cuh`, `GpuCellLocalPrimary.cuh`, `GpuInjectionDirectory.cuh`) | counts, offsets, sorted indices | count, scan, scatter | a permutation of the particles grouped by cell |
| Diagnostics (`common/Diagnostics.H`, `DiagnosticsHost.H`, `GpuDiagnosticsOwner.cuh`) | saturating counters, a sample per category, a fatal latch; on the host what has been seen and is to be reported | record a warning, latch a fatal, guard a kernel; observe, dispatch, collect | nothing counted is lost or reported twice; the first fatal stops what follows and is what is reported |
| Collision pool, tracking, packing pressure | per-particle and per-cell numbers | sampling, ray tracing, convex projection | numerics |

### Parts of the coupled program

| Part | State | Operations | Correct when |
|---|---|---|---|
| Coupled windows (`C/CHMT.C`, `C/io/MultirateEvolution.C`, `C/gpu/Backend.cu`, `C/coupling/IntervalContracts.H`, `C/coupling/WindowTime.H`, `C/materials/MaterialDrive.H`, `C/materials/CpuMaterialDriver.C`, `C/io/CoupledRadiation.C`) | accepted state in frontend and back end, clocks of host and device, archived wall history, material cursor, radiation budget | begin, microstep, download, radiate, material step and slices, commit, publish, restart | a window takes effect as a whole; nothing that crosses the wall is lost, repeated or applied under another drive |
| Checkpoints (`C/restart/Checkpoint.C`) | final and temporary files, directory entries, what of them is on disk | make directory, write, sync, close, rename, sync directory; read | an acknowledged checkpoint survives any crash; a reader never finds part of one |
| Transfer queue and gas storage (`C/gpu/HostTransferQueue.H`, `C/gpu/SharedGasDeviceStorage.cuh`) | pinned staging slots, pending readbacks, a stream | upload, download, finish, drain; write, read, observe | staging is not reused while a copy needs it; an operation's readbacks arrive together or not at all, and are there when it succeeds |
| Gas, walls, chemistry, material laws, geometry, films | fields | pure functions and solves | numerics |
| Exchange ledger, device resources, device slices (`C/coupling/`, `C/gpu/Resource*`, `C/gpu/ResidentMaterialSlice.*`) | packets with consumer masks; staged allocations; a cursor | see [what is not modelled](#6-what-is-not-modelled) | |

### Parts of the thermal and steady programs

| Part | State | Operations | Correct when |
|---|---|---|---|
| CHT driver and solid coupling (`applications/CHT/diluteUgkwpFoam.C`, `T/GpuSolidThermalCoupler.C`, `T/GpuThermalExchangeState.C`, `common/thermal/ThermalCouplingSchedule.H`) | wall ledgers on the device, committed exchange state, mirrors, time directories with a manifest | step, exchange if due, radiate if due, stage mirrors, write, commit the manifest, restart | every tick's heat reaches the solid once; a directory with a manifest is whole, as long as no later process writes over it |
| Streams of an exchange (`T/GpuSolidThermalCoupler.C`, `T.cu`, `common/thermal/GpuWallEnergy64.cu`, `common/gpu/Solid*`, `DiscreteOrdinateRadiation.cu`) | up to eleven streams, events, buffers that one owner lends another | borrow, solve, preview, enqueue, apply, reset, publish, download | a kernel reads what it would if each call were synchronous |
| Solid iteration (`common/gpu/SolidThermalIteration.cu`, `SolidThermalProperties.cu`, `ImplicitDiffusion.cu`) | iterate, window, anchors, prescribed energies, two reports, a shared fatal latch | a graph that the device repeats; an outer one over two regions in contact | a window takes its energy in once, however often it is repeated; how it ends is on record |
| Radiation (`common/gpu/DiscreteOrdinateRadiation.cu`, `OrderedUpwind*`, `ExecutionGraph.*`) | intensities, sweep levels, workspaces shared by directions, reports | iterate over batches of directions; sweep level by level | as one direction, and one cell, after the other |
| Steady loops (`applications/gasUGKPSteady/`) | sampling window, sums, stability counters, a clock file, mirrors | step, sample, judge a window, write a directory, restart | a claim of convergence rests on full windows; a restart continues the run it claims to |

### How they interact

- The particle phase calls the segmented reduction, which calls the persistent
  queue twice (heavy tasks, then the partial sums of cells of several tasks) over
  one cursor, and the injection kernel, whose counter is the number of particles
  the directories are built from.
- The host talks to the device through streams: order of submission is order of
  execution, and nothing is known of the device until the host waits.
- Frontend, gas back end and material driver each hold the accepted state of
  the coupled program. The gas writes a history that the material consumes
  later; it goes through device memory, through a download, and through slices.
- Checkpoints hold the accepted state between windows and are the only thing
  of CHMT that survives a process; CHT and gasUGKPSteady have time directories,
  of several files each.
- CHT alternates fluid steps with exchanges. An exchange takes the wall ledgers, solves
  radiation (source iteration, and in it a sweep per direction) and the solid (iteration on the device),
  and gives the wall back to the fluid; all of it submitted to streams of five owners.

### What is hard

- *Interleaving*: threads of one kernel over a counter that is increased and, if
  refused, decreased again; leaders and warps of a block over one shared task.
- *Stale state*: directories and task lists that are valid across steps only if
  no particle has appeared in between; recordings of work that depends on flags
  the recorded work changes; a CFL estimate kept over several microsteps.
- *Two copies*: buffer pointers, clocks and readiness flags exist on host and
  device and are never compared at run time.
- *Partial failure*: a failing call in the middle of an operation whose transfers
  still run; a window that fails after its gas has advanced.
- *Crash and restart*: every system call of a checkpoint may be the last, and so may
  each file of a time directory, of which a restart sees only what is there.
- *Work that repeats itself*: graphs whose bodies the device repeats until they
  converge, with failures and budgets that the host learns of afterwards.
- *Lent buffers*: streams that are ordered by events alone.
- *Boundaries*: arrays that are full, cells that are empty, durations a
  floating-point number cannot hold, fractions that do not add up to one.

`PROJECT.json` lists the hazards, each at the line where it bites and with the
property that catches it.

## 2. Modules

### How they fit together

    WorkPool  <-- implements --  PersistentQueue        the queue of one kernel
                                       |  taken as shown
                                       v
    ParticleInjection            SegmentedReduction     one pass over a directory
          |  particles                 |  sums
          +----------> ParticlePhase <-+                whole steps, host and device

    AtomicExchange <-- implements -- CoupledWindow      the run of windows
                                       |  saves
                                       v
    DurableRegister <-- implements -- Checkpoint        one file, many crashes

    UpwindSweep --- SourceIteration                     one direction, all of them
                          |                  SolidIteration
                          +--> ExchangeStreams <--+     one exchange on the device
                                  |
                            ThermalExchange             steps, exchanges, directories

    TransferQueue                                       one operation's transfers
    DiagnosticsLatch                                    what any kernel reports
    SamplingRun                                         the sampled steady run

A larger module takes a smaller one in the form the smaller one is shown to
have. SegmentedReduction lets a block claim a number and execute the whole task
in one step, because PersistentQueue implements WorkPool: nothing of another
task is mixed in (`NoMixing`), no task is done twice, none is left. ParticlePhase
has one operation for a reduction and one for the injection. CoupledWindow
publishes a state in one step and finds one of the saved states after a crash,
because Checkpoint implements DurableRegister. Its download takes a window's records over
only when the operation has succeeded, and then all of them are there, which is `AllOrNothing` of TransferQueue;
a failed one may have delivered them too, and they are not looked at.
SourceIteration solves a direction in one step, as UpwindSweep shows that its threads do;
ExchangeStreams has one call for a solve of radiation and one for the solid, and
ThermalExchange has a whole exchange as one step, because no kernel can tell
(`AsIfSynchronous`). These steps from module to module are by reading, not by a proof.

A proof module `X_proofs` extends `X` (`DeviceIterations_proofs`, `Restarts_proofs`, `Particles_proofs` and
`Reductions_proofs` extend the MC modules of their names and are about all specifications in them;
`ThermalExchange_proofs` extends ExchangeStreams as well); a module `MCX` extends `X` with the sets
that TLC enumerates. Four MC modules put specifications side by side that
share no state (`MCDeviceIterations`: SolidIteration, UpwindSweep and SourceIteration;
`MCRestarts`: Checkpoint and SamplingRun; `MCParticles`: ParticleInjection and ParticlePhase; `MCReductions`: a small PersistentQueue and SegmentedReduction): the initial state
chooses one of them, and the variables of the others stay as they are. A property of an instanced
one is given a name there (`SweepIsSequential`, `AsSequential`, `RunSound`, `ReadsExact`, `RecordingsCurrent`,
`HostFollowsDevice`, `MomentsExact`, `Completes`). `PROJECT.json`, "map", has the source lines of every
definition. Definitions named after a plausible bug (`ClaimPastEnd`,
`SyncFileLater`, `SlabEndNext`, ...) stand beside the one they would replace and
are used by no specification: they are what a property is tested against.

### ParticleInjection

One launch after another of `injectBoundaryParticlesKernel`, with one process
per source, as the kernel has one thread per source: nothing is shared but the
counter and the arrays.

| Action | Code |
|---|---|
| `Skip`, `Accumulate`, `Begin` | early returns; residual plus inflow; how many parcels that is |
| `Claim` | `atomicAdd` on the counter and the test of the slot it returned |
| `Undo` | the `atomicSub` of a refused claim, a second step |
| `Write` | the parcel and its id at its slot |
| `Store` | the residual mass: what was available less what became parcels |
| `Compact` | between launches: survivors move to the front (external: what later kernels leave) |

`pc` is the program counter per thread; a source's mass is a small number in
units that make one parcel `ParcelMass`. Sampled positions and velocities are
left out.

### PersistentQueue, WorkPool

`runCsrPersistentQueue` with one process per warp. A barrier (`__syncthreads`) is one
step that every warp of the block waits for (`Publicize`, `Reduce`, `NextTask`);
`Claim` is the leader's `atomicAdd` and its write to shared memory; `Decide`,
`Sum`, `Publish` and `Zero` are the operation's `prepare`, warp sums and results.
A task may be rejected by `prepare` (`Rejected`) or leave lanes without work
(`Idle`). `result[n]` records which task's part each warp contributed, so mixing
shows. WorkPool is the abstract pool: each accepted task once, and over only
when all are done.

### SegmentedReduction

One pass: `CountTasks`, `ScanTasks`, `ListCell` (one thread per cell, in any
order), `WriteTasks`, `Clear`, `Reset`, then `Claim`/`Accumulate` of the workers,
`Finalize` of the cells with several tasks, `RecoverLight`. A directory is `full`,
`baseOnly` or `split` (a base part and an injected part indexed separately), as
in the code. A sum is the set of the particles that entered it together with how
many entered, so that a particle missed and one counted twice both show. Floating-point
addition is not modelled: the order of addition changes bits, not terms.
Every array starts with stale contents.

### ParticlePhase

The host is a record of its flags (`base`: preBaseDirectoryReady, `split`:
useSplitPreDirectory, `injection`, `ready`: csrTasksReady, `prepared`, `buffer`:
which of two buffers is the current one). A function of the host maps such a
record, with the operations it submits appended (at first none: `Flags`), to another: `BinParticles`,
`PreTransport`, `Schedule`, `Directory`, `Couple`, `Transport`, `Submit`.
`Launch` is `launchParticlePhaseGraph`: choose the entry by two flags, record it
if there is none or the epoch has changed, publish the interval, submit, set the
mirror. `Execute` runs the first operation of the stream on the device. The
device's `active` is open at each inspection, as the occupancy of cells is.
`Restart` uploads particles before the first step; `Configure` stands for any
change of launch geometry with the synchronisation after it. Particles are
tokens, one for all the particles that share a last event; a directory is the
set of tokens it indexes. `config.thermal` chooses the back end: that of `T.cu` has the same
host protocol compiled with other switches. It knows no directory of the base
alone (`CurrentKind`), clears and rebuilds the injected part and its tasks also when there are no
sources (`PreTransport`), sizes the tiles from the directory before it builds tasks
(`PrepareDirectoryTasks`), copies the survivors late, by the directory instead of along with
the moments (`Compact`), and captures the base after the commit.

### TransferQueue

The queue's methods are operators giving the set of possible results. Any CUDA
call and any allocation may fail, at any point inside a method; the stream is a
process of its own that copies an element at a time (`Copy`). `Write`, `Read`,
`Observe`, `Abandon` are the operations of the gas storage that use it.
`delivered` holds what destinations have received, `expected` what they should.
`Observe` may fail after the readbacks have been delivered: observeDiagnostics finishes the queue, and
only then looks for a fatal report among what has arrived. Whether there is one is open.

### Checkpoint, DurableRegister

One action per system call of `writeCheckpoint`, each of which may fail; `Crash`
at any point keeps what has been synced and any part of the rest, in any
combination of file and directory. A temporary that a failed `unlink` or a crash
leaves is an orphan. `content` is how many parts of a file have been written,
`Decoded` what `readCheckpoint` makes of it. DurableRegister is what users rely
on: whole values, and a crash that can choose only between the last settled
value and one published since.

### DiagnosticsLatch

Threads of a kernel raise warnings and fatals whenever they like; each atomic
operation of `recordWarning` and `recordFatal` is an action (`RecordWarning` reads the
counter, `Increment`, `Retry` and `Saturated` are the three outcomes of a turn of
the loop, `ClaimSample` and `WriteSample` the claim and the plain writes after
it). `BlockEnters` is the guard at the entry of a kernel, for a whole block. The
host appends to `stream` and runs ahead of it; `CompleteReadback`,
`CourantReadback`, `RefuseUpload`, `Collect` and `Release` are the places where the
gasUGKP back end observes, reports and gives up. A record is the operation it is
stamped with. `owner.report` holds what is new and not yet reported; `origin` and
`raised` are history, read by the properties alone.

### CoupledWindow, AtomicExchange

| Action | Code |
|---|---|
| `Begin` | the loop of `CHMT.C`, beginGasWindow of `C/gpu/Backend.cu` |
| `Microstep` | one round of the gas loop: proposal, CFL estimate if due, bounded step, gas, archive of the wall history, both clocks |
| `Download` | downloadGasWindow: publication of the archived frames |
| `Radiate` | `C/io/CoupledRadiation.C` when the window is due; the check that the history is complete |
| `BeginStep`, `Slice`, `FinishStep` | a material step: how far its drive holds, the slices of records, the share of radiation |
| `Commit` | the candidate, accepted by frontend and back end |
| `Publish` | the checkpoint, at its cadence, forced at both ends |
| `Stop`, `Restart` | a failing call or a kill; a new process from a checkpoint |

Time is in ticks. `Durations` are the spans that one floating-point number holds;
the compensated clocks of the code hold their sums. So rounding is modelled where it
matters: the longest representable step to the end of a window may fall short
of it (`Bounded`), and another microstep is needed. Amounts are integers and a
fraction of one is rounded down, so that slices do not add up unless the last one
takes the rest. One amount stands for all a packet carries and one regime for
the drive; two regimes are farther apart than the tolerance. Radiation brings
one unit of heat per tick, all of it to the wall. `gasSteps` is kept modulo
CourantInterval, which is all it is used for. Left out: the fallback to the last accepted
dt (nextDt is never zero here), the options that switch off the first
and last checkpoint, moving geometry, particles' own exchange, wall programs of
more than two knots, heat that conduction brings in through other boundaries. AtomicExchange is what a
run promises: accepted states follow each other window by window, balanced, and a run resumes
only from one that was saved.

### ThermalExchange

| Action | Code |
|---|---|
| `AdvanceOneStep` | a turn of the loop of `applications/CHT/diluteUgkwpFoam.C` up to the exchange: the ledgers fill |
| `Exchange`, `NotDue` | exchangeIfDue of `T/GpuSolidThermalCoupler.C`: ledgers and radiation to the solid, ledgers reset, wall back to the gas, state committed |
| `StageMirrors`, `WriteTemporary`, `WriteObject`, `CommitManifest` | persistAtWriteTime, file by file: particle mirrors, pending ledger under a temporary name, OpenFOAM's objects in any order, the rename |
| `Crash` | a kill or a failing call anywhere, the file being written cut off |
| `Restart` | a new process from any directory that passes the checks of `T/GpuThermalExchangeState.C`; the user has removed the later ones or left them |

Heat is known by the tick it crossed the wall in: a ledger is the set of ticks it holds, and the solid
counts how often it has received each. A file remembers which process wrote it, when and after what, so that
a directory mixed from two writes would show. A restart may be from the prepared case, which
has no ledger: what had gathered before the first exchange is then lost (`dropped`), as in the code.

The program starts where `runTime.timePath()` says, and does not ask whether there are later
directories. A process that comes to one of them writes its mirrors, its temporary ledger, its fields and its state into it before the
rename refuses to replace the ledger that is there (`CommitManifest`), and ends. What is left has the old ledger beside new
files, and a later start accepts it. `overwritten` is the set of such directories, those where
the process was killed half way among them, and `sound` says that the running state comes from none of them;
both are history, and no guard reads them.

### UpwindSweep, SourceIteration

UpwindSweep: `Levels` is the plan that `OrderedUpwindPlan::build` makes for the signs of the fluxes;
the threads of a level (`Gather`, `Store`) run in any order over one array; a cell of higher index upstream
is read from the snapshot. A value is the number of the sweep that wrote it; a store may find that its value is
none. Numbers, residuals and the harmonic correction are left out: whether a residual is above
its target is open.

SourceIteration: one graph, launched by `Launch` and repeated by the device. Directions
run in batches of as many as there are workspaces; `Prepare` and `SolveDirection` of a batch interleave,
`Publish` is in angular order. What goes wrong is chosen beforehand (`trouble`), so that the
property can say what the sequential algorithm would have made of it.

### SolidIteration, ExchangeStreams

SolidIteration: for each region the body `begin`, `assemble`, `solve`, `finish` that the device repeats;
in contact an outer body that restores the window of both, advances both as branches that interleave,
and judges them. A temperature is the set of energies that went into it; how a window
ends (converged, out of iterations, fatal) is open at each `finish`. The latch of the diagnostics is shared by
the regions; a property or a residual that is no number sets it.

ExchangeStreams: the host's calls in the order of exchangeIfDue and persistAtWriteTime. A call
submits kernels and waits; an event is a wait of a set of streams for their producer (`WaitsFor`); a kernel
knows the kernels its stream followed when it was submitted, and runs when they have. A buffer's content is the number of the kernel that wrote
it, so that an early or late read shows as another number than the program order would give.
CUDA itself is external. The specification is `StreamsSpec`, because its proofs extend the module together
with ThermalExchange.

### SamplingRun

The loop of `applications/gasUGKPSteady/steadyParticleLoop.H`, a call an action: `AdvanceOneStep` (whose kernels may fail),
`Accumulate`, `JudgeWindow` or `SkipWindow`, `BeginOutput`, `OpenFile`, `FinishFile`, `NextTurn`. A file is absent, torn, short
or whole. `ShortWrite` is a write that fails: it ends the program at the parcels, costs a warning at the
clock, and goes unnoticed at porosity and residual, whose streams are not checked
after the last line. `Restart` reads what is there: a mirror that is absent is taken
as never needed, and a torn clock or list may still be read up to the tear. `content.lost` is
history and names what restarts have silently gone without.

## 3. Runs

`tlc -config X.cfg M`; each run takes about three minutes at most. Bounds are CONSTANTS.

| Run | Instance | States | Shows |
|---|---|---|---|
| injection | 2 sources, 3 slots, parcel mass 2, inflows 0, 1, 3, 6; two launches with a compaction between | 177,636 | slots are exclusive and dense, refusals justified, mass conserved, launches end |
| injection_ids | the same | | a violation: see [Findings](#5-findings) |
| queue | 2 blocks of 3 warps, 5 tasks, 2 rejected, 1 idle | 26,863 | no mixing, every worker returns; implements WorkPool (at most once and completeness are proved) |
| segmented | 3 cells of 0, 1, 9 or 16 particles of at most 16, 2 threads per block, 3 resident blocks, 2 workers; and a queue of one task beside it | 37,267 | tasks fit and partition the cells and sums are exact after every pass (`MomentsExact`); the pass ends |
| transfers | 2 arrays, sizes 0 to 2, 3 operations of up to 2 transfers, 2 faults, a fatal report at any completion | 2,133,179 | staging is not shared, uploads arrive; readbacks all or none, and all when the operation succeeds |
| phase | both back ends, with and without sources; levels L0, L1, L2, auto, with a mixture and on L0 also without; intervals 0 and 1, 4 steps, inspection every 2nd, 1 reconfiguration; and a small injection (1 source, 2 slots) beside it | 737,435 | every reader sees exactly the particles; recordings, pointers, flags and intervals agree |
| restarts | 4 writes, 3 faults, 2 crashes, files of 2 parts; and windows of 2 samples, a directory every 5, 7 samples in all, 2 troubles | 287,151 | acknowledged checkpoints survive, readers find whole ones, implements DurableRegister; a steady run's claims and directories are true |
| window | windows of 7, 7 and 3 ticks, durations of two significant bits, 1 stop | 35,120 | windows tile, host and device agree (`HistoryShared`), exchange conserved, radiation once, CFL seed held; implements AtomicExchange; the run ends |
| diagnostics | 3 blocks, 3 warnings over a counter up to 2, 2 fatals, 2 kernels of 2 operations, 1 fault | 766,067 | counters exact, evidence whole and of the right operation, later kernels stopped, everything reported once, kernels end |
| thermal | 6 ticks in steps of 1 or 2, exchanges from 3 on, every second with radiation, writes every 2, 2 restarts | 2,259,752 | heat arrives once, directories are whole, the cadence is kept, across restarts from any directory and refused commits |
| device | 1 or 2 regions, 2 iterations, 3 of contact, 2 exchanges; 4 cells and 6 faces with every sign, 2 sweeps; and 3 directions in 1 to 3 workspaces, 2 iterations, 2 solves, up to 2 failures | 807,455 | energies enter once and endings are accounted for; levels compute the sequential sweep; batches end as the sequential iteration |
| exchange | 3 exchanges over eleven streams | 20,721 | no read depends on the speed of a stream |

Why these bounds are enough to be interesting:

- *injection*: three slots for up to six parcels of two sources, so that a claim
  of one source is refused between claim and undo of the other; a compaction that
  frees any number of slots before the second launch. 1 and 3 leave residuals.
- *queue*: more tasks than workers, so that every block claims again after its
  shared memory was used, and meets rejected and idle tasks before accepted ones;
  two warps besides the leader, so that one can be early and one late.
- *segmented*: 9 and 16 particles give cells of several tasks with and without a
  partly filled last tile, 0 and 1 empty and light ones; three cells put an empty
  cell before, between and after others, where the offsets repeat; 2 threads and 3
  resident blocks give tiles of 2, 4 and 6 particles.
- *transfers*: an operation needs two transfers for a second one to fail; a third operation
  runs over what the second left after a failed synchronisation of the first.
- *phase*: each of the four recordings is made, replayed, and made again after a
  reconfiguration, by each back end; the host may be all four steps ahead; with inspection in
  every second advance, the schedule flips, is kept, and flips back.
- *restarts*: for checkpoints, a first write that fails after the directory was made and a second
  that finds it there; an acknowledged file, a failed one on top, then a crash. For directories,
  the fifth sample is in the middle of a window of two and the last window is cut short by the end at seven; two
  kills in one directory, or a failed write and a kill of the run that continues from it; two stable windows in a row.
- *window*: 7 is not a duration, so the first windows need at least three microsteps and 3
  does; a growing archive (1, 2, 4, 8 frames); microsteps and material steps whose
  limits do not divide each other; two windows between CFL estimates, radiation
  and checkpoints, the third window short, so that each cadence crosses a window.

- *diagnostics*: two of three threads can fail the same compare-and-swap, the third
  warning finds the counter full, and two fatals compete; one operation more than
  the first, so that a kernel runs when the host has announced the next; a second
  kernel after the one that failed. The threads of a block share nothing but the
  guard, which takes them as one: one thread per block.

- *thermal*: steps of two ticks, so that exchanges fall due after three or four; writes that fall on an exchange, between two,
  and before the first; a radiation every second exchange, so that six ticks see one exchange without and one with it. Three processes: one
  that commits a directory, one that starts before it, comes to it, overwrites it and is refused (or killed half way), and one
  that starts from what is left there. The last one only runs: a crash with no restart to come is left out, since it changes nothing but the
  torn file, which the second process has already met.
- *device*: a budget of two, so that an iterate is repeated, restored and cut off; three of contact, so that the relaxation has
  a residual to remember; a second exchange, which starts from the anchors of the first. Of four cells all pairs but one are
  neighbours and one pair shares two faces, so that a cell has up to three
  cells upstream, on either side of it in the order, and cycles occur; two sweeps, so that a value of the last one can be
  taken for one of this. Three directions fill one batch, two
  unequal ones, or three; two failures compete within a batch, between batches and between iterations.
- *exchange*: of three exchanges over the streams, the
  second may overtake what is left of the first, and the third borrows what the first did.

Fairness. In ParticleInjection, PersistentQueue and SegmentedReduction each
thread (block, stream) is weakly fair: a resident thread of a launch is scheduled
until it returns, and blocks of these kernels wait for no other block, so that
each gets its turn however few are resident. Barriers are not assumed to open; that they do is what `Termination` and
`LaunchTerminates` show. CoupledWindow assumes that the process goes on
unless it is stopped (`WF_vars(Advance)`), one host thread that only calls; nobody
is assumed to restart it, hence `Completes` says "finished or dead". DiagnosticsLatch
assumes that the device works as long as it can (`WF_vars(Device)`) and nothing
of the host: a thread in a loop must get out by itself. The others
have safety only: what they wait for is the device, which they model as slow as
it likes.

Deadlock is checked in every run but `window`, which really stops when it is
finished or dead; the others have an explicit last state. The modules of the thermal and
steady programs have safety only: that the device's loops end is their budget, which the
properties bound (`EndsAccountable`, `AsSequential`), and everything else is the host's own loop.

## 4. Proofs

`tlapm X_proofs.tla`. The theorems hold for every value of the constants, under
the named assumptions of the modules.

**Particles_proofs.** First ParticleInjection, for any finite set of sources, any capacity, any
inflows: `Typing` (with the bound of the counter, at most one above the capacity per
source), `Exclusion` (SlotsExclusive), `PrefixLeft` (PrefixAtLaunchEnd),
`RefusalJustified` (RefusedOnlyWhenFull), `Conservation` (MassConserved).
Exclusion is not inductive: why is a slot that `atomicAdd` hands out free? The
invariant answers with `Prefix`: the counter, less the increments of the refused
claims that have not been undone, is a number Base; the slots that hold a
parcel or are claimed for one are exactly 0 .. Base - 1; and there is a refused
claim only if Base is the capacity. A successful claim then finds no refused one
in flight and takes slot Base, and an undo changes the counter and the set of
refused claims together. Conservation has an invariant of its own, `Mass`,
which says at each program counter how much of the inflow is where.

Then ParticlePhase, for any of its configurations, any period of inspection, any lengths
of steps, and any number of steps, changes of configuration and steps that the host is ahead
(`PhaseAssumption`, which run `phase` evaluates): `PhaseInvariant`, and from it
`ReadersReadExactly` (ReadsExact), `RecordingsAreCurrent` (RecordingsCurrent) and
`HostKnowsDevice` (HostFollowsDevice). What an operation reads is only known when the device gets to it,
and none of the three is inductive; the invariant has to speak of what is still to come.
`Leads` says it of a piece of the stream: each of its operations, from every device it can
meet whatever the inspections decided before it, finds what it reads (`Safe`), and the last leaves a device of a given set.
Two pieces that fit follow one another (`LeadsOn`), so that the operations of a step are
followed as the host emits them, one function of the host after another:
the directory is one of exactly the particles there are, with the tasks that the host's flags
say (`PreTransportDirects`, `ScheduleDirects`), until the tracking moves them
and the compaction leaves a base for the next step (`CompactCompacts`, `StepEnds`). `Streamed` says that the whole stream
leads from the device of now to one at rest (`AtRest`), through the intervals that were asked for.
A recording is what would be submitted now because of `Flagged`: the flags are those from before the first step, or
the ones that every step leaves (`Post`), whether it was recorded or replayed; the entry is chosen by the
one flag in which these differ, and by the zero step, and the epoch
covers the rest (`Recorded`).

**Reductions_proofs.** First PersistentQueue. For any finite non-empty set of blocks, any warps with
a leader, any number of tasks: `Typing`, `Separation` (NoMixing), `Uniqueness`
(AtMostOnce), `Completeness` (CompleteWhenOver), and `Refinement`: initial states
are the pool's and each step is a step of the pool or changes nothing of it. The
invariant says which warps can be apart (`Together`: all of a block are between
the same two barriers), that what a warp has read from shared memory is what
is there now while it works (`Current`, `WorkCurrent`), that a task below the
cursor is either held by one block or accounted for (`Owned`, `Accounted`), and that
the cursor passes the number of tasks by at most one claim per block (`Bounded`,
`CursorBound`). Completeness needs `Accounted`: a block leaves only with a claim
past the end, so that every number below it has been given to some block.

Then a pass of SegmentedReduction, for any numbers of cells, particles, threads and blocks, any occupancies and
any directory of the three kinds within capacity (`PassAssumption`, which run `segmented` evaluates): `PassIsExact`
(MomentsExact). Half of it is arithmetic. The particles of a cell are a sequence (`ParticlesRun`), base before injection where
the directory is split, and a worker visits a piece of it (`VisitedRun`). Pieces of a tile cover it, disjoint and
none empty (`SlicesCover`, `SlicesDisjoint`, `SliceSize`); their number, summed over the cells, fits the arrays, since every tile has at
least one block's threads (`TasksAreFew`). Offsets repeat at empty cells, and the binary search still ends at the one cell whose tasks the
number is among (`SearchOf`). The other half is the invariant, entry by entry of the stream (`PassInv`): the cutting
(`Cut`, `Placed`, `Written`), the list, complete but for the cells whose thread has yet to run and without repetition (`Lists`), and,
while a queue runs, that each task below the cursor which no block holds has left what it should (`AccumulatedSoFar`,
`FinalizedSoFar`). A kernel's end means that the cursor is past the end and nothing is held (`AllExecuted`).
Stale sums of the pass before never show, because only partial sums of the cell's own tasks are added up, and
these have been written by then.

**Restarts_proofs.** First Checkpoint, for any numbers of writes, faults, crashes and parts:
`Typing`, `Survival` (AcknowledgedSurvives), `Wholeness` (NeverTorn), `Tidiness`
(OnlyOrphansRemain), and `Refinement` (the whole of RegisterSpec, which has no
fairness). The invariant says how far a write has come at each call (`Progress`),
that every name that a crash could leave refers to a file whose content is
synced (`Whole`), that the last settled entry is at least as new as the last
acknowledged write (`Settled`), that an entry exists in a crash's outcome only if its
directory does (`Anchored`), and where temporaries come from (`Temporary`).

Then SamplingRun, for any length of windows and run, any cadence, any integers as
the user's minima, any boundary values and steps, and any number of troubles
(`RunAssumption`, which run `restarts` evaluates): `RunsAreSound` (RunSound). Why is
a clock that is whole one to be believed? `Filing` answers with the order of `Files`: at
each file those before it are done with and those after it absent, so that the clock
becomes whole last of the mirrors; and a window, a step or a restart never touches a directory
that exists (`Stored`). What a restart reads is then what the run had counted, and `Tallied`
carries that through the steps: clock and state agree between two steps and differ
by exactly one during a step, unless a restart lost the clock. For the windows, `Centred` says that the sums are of the
consecutive samples since the centre and that the last mean is of the window just before them,
also through the turn that writes a directory before it opens the next window; hence `Judged`: whatever counts as
stationary was compared with its neighbour, and the last `stable` verdicts all count.
`LatestThere` shows that the latest directory is one.

**DiagnosticsLatch_proofs.** For any finite non-empty sets of blocks and lanes
(`ThreadsAssumption`), any non-empty set of warning categories
(`CategoriesAssumption`) and any limit of the counters (`CountAssumption`):
`Counting` (CountsExact), `Stopping` (StoppedAfterFatal), `Evidence` (EvidenceWhole)
and `Reporting` (ReportedOnce). CountsExact speaks of
counters that no thread is in the middle of; its invariant has to say what they
are meanwhile (`Counted`): the warnings raised, less the threads still in the
compare-and-swap loop, up to the limit. That a thread may then leave the loop because
of the value it read needs `OldBound`: a counter only grows, so who has read it at the
limit finds it there. StoppedAfterFatal needs that no thread is inside a kernel
between two kernels (`IdleBetween`), and that the context is as latched as the
device remembers (`Latched`); the host only appends behind the running kernel.
The evidence is whole where the host looks, not at all times: a claim may be ahead of
what is written for it, but then a thread of the running kernel is about to write
(`Claims`), the stamp it writes is the running kernel's, because stamps travel
in the stream (`Stamps`), and the host copies only when there is no kernel left. What it
has copied, seen, kept for its report and handed over always adds up (`Consumption`).

**CoupledWindow_proofs.** For any length of windows and run, any set of durations, any
cadence and bounds (the named assumptions of CoupledWindow): `Typed`, `OneHistory`
(HistoryShared), `OneDrive` (HeldDrive), `NothingLost` (EnergyAccounted), `SeedMoves` (the
action property SeedHeld) and `WindowsAreAtomic` (the whole of AtomicSpec, which has no fairness).
The invariant adds to HistoryShared how far the gas is, in terms of the last record (`Reached`),
where the material's cursor is in the record it cuts and that the records of a slab are all of one
regime (`Cutting`), and, at each phase, where the energy of the window is (`Accounted`): what the
gas has given is in the history; what of it has been cut off is in the solid or in the current
step; and `cursor.used` is how much of the current record is gone, so that the last slice of a record
leaves nothing behind. `Seeded` carries the seed through windows that make no estimate.

**TransferQueue_proofs.** For any number of arrays, operations and transfers, any sizes, any number
of failing calls and a fatal report at any completion: `Intact` (UploadsIntact), `Whole` (AllOrNothing) and `Untouched` (the action property
ClosedStayUntouched). The copies in flight use slots of their own (`Disjoint`): a slot is taken
again only after the stream has been waited for, on success and on each path of a failure. `Underway` says
of an array what it will hold once the stream is empty: the content of the last upload to it in flight, or
what it holds; and `Fetching` says of a readback that its content is there or that the copy that brings
it reads an array no earlier upload in the stream will spoil. Each method of the queue is proved as a
lemma about the queues it may return (`QueueInv`), whatever call fails in it.

**ThermalExchange_proofs.** For runs of any length, any interval, time step and radiation frequency, any number of
crashes, and restarts from any accepted directory: `HeatAccounted` (EnergyAccounted), `DirectoriesAreWhole` (SavedIsWhole) and `OnSchedule`
(ScheduleKept). The three need one another: what a restart resumes is only as balanced as the directory it
reads. So the invariant (`ThermalInv`) has the balance of heat (`Accounted`) of the running process (`Live`) and of every directory with
a ledger that no other process has written into (`Claimed`, `Whole`), up to its own time. Both are under a condition: heat is accounted
for while `sound` holds, and the lineage that a file carries (`past`) says whether it did when the file was written. What holds
of every file, whoever wrote it, is kept apart (`Contents`): a state file knows the exchanges
behind it (`Remembered`, `Recorded`), so that the schedule survives a start from a directory of two processes; and a directory of
before the first exchange has no trace of one while a later one has, which makes a start from the middle of a write refuse or be
harmless (`Rooted`, `Begun`). `Staged` and `Writing` say what is in the directory being written, at each stage, and that it is among the overwritten
ones if it had a ledger. `Finished` is the second part of SavedIsWhole made inductive: a running process has its own ledger
in every directory it has written to and left. It holds because the only way out of a write is a rename that
was not refused.

The second half is about ExchangeStreams, for any number of exchanges and one solid or two:
`KernelsFindTheirInputs` (AsIfSynchronous) and `KernelsAtOnceShareNothing`, which says of kernels that
may run at the same time that they have no buffer in common. The second is also what
entitles the model to run a kernel in one step. `SomeKernelMayRun` excludes that streams wait for one another in a circle.
The invariant `StreamsInv` has two layers.

- What is on the device (`Sound`). `Behind(n, waited, kernels)` says that a kernel that waits for `waited` cannot
  run before kernel n: n is in every set that holds `waited` and, with a pending kernel,
  all that this one waits for. `Ordered`: of two pending kernels that use the same buffer, the later
  is behind the earlier. `Expected`: what a kernel was promised of a buffer is what the last pending kernel
  before it that writes to the buffer will leave there, or, without one, what is there now.
  A kernel that may run is behind no pending kernel (`NoneAhead`), so it finds what
  it was promised, and the rest keep what they have (`RunSound`).
- Who keeps what (`Kept`). Each buffer has a stream that is behind all kernels at work on it (`Keeps`). This is what has to
  be known between two calls of the host, and it says in one table (`Keeper`) who may use
  what when: the parcels are the null stream's, go to the transport with the solve of radiation, on to the material and come
  back when the preview waits for its heat; from the solid to the last `publish`, temperatures are kept by the streams of
  their owners as well (`Owned`), which is why the downloads need no wait. A wait lets a stream
  take over what the producer keeps (`WaitSound`); a kernel needs its stream to be the keeper of all it uses, and
  takes it from anyone else (`KernelSound`). A call of the host is a sequence of the two
  (`Passes`, `CallsKeep`), and each call is proved by naming the keepers after each of its
  steps. A missing wait shows as a step that does not pass its buffers on. A download
  is `save`d from the table while the host waits for it: nobody needs to be behind it, since nothing is submitted before it is done.

**DeviceIterations_proofs.** Three specifications that share no state, side by side.

- SolidIteration, for any budgets and any number of exchanges: `EnergiesExact` (WindowExact) and
  `ExchangesEndAccountable` (EndsAccountable). A temperature holds each energy of the exchanges so far once
  (`Exact`), but where that is true depends on the stage: of the solution between exchanges (`Rested`), of the
  anchors while the only region iterates (`Alone`), of the window both regions are restored to in contact (`Together`).
  A fatal record suspends all of it. `Relaxing` ties the residual that relaxation remembers to the
  iterate, the candidate and the exchange it came from; `Budgeted` and `Reported` count and account for the ends.
- UpwindSweep, for any mesh, any signs of the fluxes and any number of sweeps: `SweepsAreSequential`
  (SweepIsSequential). First the plan: the recursive definition of the levels has a solution (`AllLeveled`, cell by
  cell), hence is one, and the level of a cell is above that of every cell of lower index upstream (`LevelsRise`). Then
  the sweep: the levels before the running one have ended and those after it have not begun (`Staggered`), only
  a thread that has ended has written or failed (`Written`), and what a thread has read is what the sequential sweep
  reads and stays so, because the cells it depends on have ended (`Gathered`).
  Its assumption on mesh and constants is `DirectionAssumption` of MCDeviceIterations, which run `device` evaluates.
- SourceIteration, for any number of directions, workspaces, iterations and solves and whatever goes wrong:
  `BatchesAreSequential` (AsSequential). What the sequential iteration would have met by now (`Fatal`) is
  empty as long as there is no failure, and the failure is the first of it (`FirstFailure`); an angle has the intensity of this
  iteration exactly if it was published before the failure (`Intensity`). That needs the batches to follow one another
  and the angles of a batch to be published in order (`InBatches`, over lemmas about the quotients that number them), a workspace
  to be its angle's own from preparation to publication (`OwnWorkspace`), and the sources to be of the right
  iteration: the last one when angles are solved at once (`FrozenBefore`), else this one for the angles before (`SolvedFrom`).
  Its assumption is `AnglesAssumption` of MCDeviceIterations, which `device` evaluates too.

The library's induction theorems take an operator as a parameter and cannot be used by the installed
provers. Where a proof needs a least or greatest number (the first record at a time, the last exchange
before one, the first cell that could not be given a level), it takes it from the well-foundedness of < on the naturals, which is stated
with sets (`Least`, `Greatest`); so it shows for recursive functions, too, what they compute (`RunningSumOf`, `SearchOf`, `AllLeveled`).

**Only model-checked**: liveness (`LaunchTerminates`, `Termination`, `Completes`
of SegmentedReduction and CoupledWindow, `Drains`, and the fairness part of
PoolSpec), which is beyond the prover. Each invariant and each action property of a passing
run is a theorem.

## 5. Findings

*Particle ids may repeat* (run `injection_ids`). The kernel derives `pOrigId` from the
source's number and the slot (`common/operators/injectBoundaryParticlesKernel.cuh:141`).
Compaction moves parcels and frees slots, and a later parcel of the same source in a freed slot
gets the id of one that is still alive. `tool/CHT/refine_particle_cells.py:125`
and its counterpart for gasUGKP take ids to be unique: they reject a restart that
holds an id twice, which a run with an inflow boundary can write.

Two behaviours came up that no text of the repository excludes, so that no run has them as a violation; the properties are
stated with them.

*A refused commit leaves a directory of two processes* (run `thermal`). `commitManifestAtomically`
(`T/GpuThermalExchangeState.C:944`) does not replace a ledger that is there, but mirrors, fields
and state have been written over by then (`T/GpuSolidThermalCoupler.C:2374-2419`). The process ends; the directory has the ledger of the
first process beside the files of the second; and the start-up checks (`T/GpuThermalExchangeState.C:637-667`) ask which files exist, not
whether they belong together, so that a later start accepts it. Its heat then need not add up: where the two processes exchanged at
different ticks, the heat of a tick can be both in the solid and in the ledger. It takes a restart from a directory before the last one, with the later
ones left in place. `EnergyAccounted` and `SavedIsWhole` except exactly these directories (`sound`, `overwritten`), and what
SavedIsWhole says of them is that the process that overwrote one goes no further. `ScheduleKept` holds without an exception.

*A failed operation may have delivered* (run `transfers`). A fatal report is found after the readbacks have been copied to their destinations
(`C/gpu/SharedGasDeviceStorage.cuh:325-335`), and the operation fails all the same. The callers look at the destinations only
after success. `AllOrNothing` therefore says of a failed operation that it has brought all or nothing.

All other properties hold without such an exception.

## 6. What is not modelled

- Numerics: fluxes, moments, sampling, ray tracing, projection, wall layers,
  chemistry, material laws, conduction, radiation transport, geometry. TLC has
  no real numbers; where a number decides control (durations, fractions,
  populations), the model has integers with the same rounding.
- Memory ordering below the level of atomics and barriers. Kernels on one stream
  are ordered; shared memory is read after a barrier, as modelled.
- Widths of integers: counters are far below 2^31 for any array that fits a GPU;
  the cast of the number of parcels of a face to int (`common/operators/injectBoundaryParticlesKernel.cuh:87`), which could overflow for
  an absurdly small parcel mass, is left out, since the model's masses are small integers.
- Films, and with them the exchange ledger and its coordinator
  (`C/coupling/ExchangeLedger.*`, `Coordinator.H`): only the film and material transport code uses them, and the
  coupled window does not drive it in this version, so that nothing says in which order their
  operations may come.
- `publishResourceReplacement` of `C/gpu/ResourceTransaction.H`: it has no caller.
- The device twin of the material slices (`C/gpu/ResidentMaterialSlice.*`): a kernel per slice
  on one stream, which does what the slices of CoupledWindow do.
- `common/gpu/PinnedTransferQueue.cuh`: a transfer queue that throws at the first failure and so ends the
  program, without the recovery that makes `HostTransferQueue.H` hard.
- The gas loop of gasUGKPSteady: one residual check per interval and the same clock file as the particle loop.
- FSH (legacy), tools and validation scripts.
- Parts of modelled components: source descriptors, formatting and suppression of
  diagnostics, and their batched observation in CHMT; geometry
  staging and reconfiguration of the gas storage; payload and schema versions of
  checkpoints; mapping between the meshes of CHT, and the parsing of its manifest; harmonic
  correction of the sweeps.
- What becomes of a report that is pending when a back end is released with neither a sink nor a caller who collects: `delete diagnosticOwner`
  (`S.cu:1356`) drops it. The model leaves it with the owner, and `ReportedOnce`, which counts it as pending there, does not cover its loss.
- The collection of the last radiation at write time (`T/GpuSolidThermalCoupler.C:2398`), which reads buffers of the
  radiation for output fields only: ExchangeStreams has no call for it.
- `downloadGasWindow` (`C/gpu/Backend.cu:744-747`) can return after a failed launch while readbacks of the history are still queued. Their
  destinations belong to the back end and outlive the operation, and the window that failed ends the program; `Abandon` of TransferQueue stands for failures
  with no read in the queue, and leaves this one out.
- What the code does not promise: a steady restart that finds a mirror missing, or a porosity or residual file cut short by a
  full disk, goes on without what is not there. SamplingRun has this behaviour (`content.lost`, "short"), and its properties make an exception of it.

The models cover a twentieth of the code, and most of what is left cannot be added to that: it is
floating-point kernels (fluxes, moments, ray tracing, projection, chemistry, constitutive laws) and the marshalling
around them, allocation and upload of some hundred arrays by name, dictionaries, formatting. What control
there is in those files is modelled above, where one was found.

`PROJECT.json`, "components", lists every part with its status.

## 7. Plan

The order follows what the results depend on: what loses or invents particles, mass and
energy comes first, and the larger modules are written on what the smaller ones promise.

Done: all modules above; the proofs of section 4.

Next, models, if a need arises:

1. GasStorage: configuration of `SharedGasDeviceStorage.cuh` over TransferQueue.
2. CellDirectory: count, scan and scatter as threads; the directory that
   ParticlePhase and SegmentedReduction take as given.
3. The order of Runge-Kutta stages; the gas loop of gasUGKPSteady.

Next, proofs: none for what the runs check now, whose safety is all proved. New modules come
with theirs.
