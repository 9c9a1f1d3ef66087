---------------------------- MODULE ParticlePhase ----------------------------
(***************************************************************************)
(* The particle phase of a resident gas step (submitParticles of           *)
(* applications/gasUGKP/private_backend/GpuResidentStrict.cu, and          *)
(* submitResidentThermalParticles of common/thermal/GpuResidentStrict.cu): *)
(* which directory of the particles each stage builds, which one each      *)
(* stage reads, and the task list of the segmented reduction with them.    *)
(*                                                                         *)
(* The two back ends share the host protocol of the directories and differ *)
(* at compile time: the thermal one has no kind of directory for the base  *)
(* alone and one flag less, sizes its tiles at the host's request, and     *)
(* captures the base after the commit instead of before it.                *)
(*                                                                         *)
(* The host decides with flags of its own (preBaseDirectoryReady,          *)
(* useSplitPreDirectory, csrTasksReady, ...) and never looks at the device.*)
(* It does not run the phase either: the phase is recorded as a CUDA graph,*)
(* one per combination of two flags, and a later step replays the recording*)
(* (common/GpuParticlePhaseGraph.cuh).  The host runs ahead of the device, *)
(* which executes the submitted operations in their order; the choice      *)
(* between the segmented and the plain reduction is the device's own       *)
(* (common/GpuAutomaticCsrSchedule.cuh, GpuCsrConditionalGraph.cuh).       *)
(*                                                                         *)
(* Particles are represented by what has last happened to them: a token    *)
(* <<"injected", n>>, <<"moved", n>> or <<"base", n>> stands for all the   *)
(* particles injected, tracked or compacted in step n.  A directory is the *)
(* set of tokens it indexes.  A failing CUDA call ends the program.        *)
(***************************************************************************)
EXTENDS Integers, Sequences, FiniteSets, SequencesExt

CONSTANTS
  Configurations,   (* the configurations a run may have: see config         *)
  AutoInterval,     (* csrHeavyAutoInterval                                  *)
  TimeSteps,        (* the time steps a caller may take                      *)
  MaxSteps,         (* bound: steps                                          *)
  MaxConfigurations (* bound: later changes of the configuration             *)

Assumption ==
  /\ Configurations \subseteq [level : {"L0", "L1", "L2", "auto"}, sources : BOOLEAN,
                               mixture : BOOLEAN, thermal : BOOLEAN]
  /\ AutoInterval \in Nat \ {0}
  /\ TimeSteps \subseteq Nat
  /\ MaxSteps \in Nat /\ MaxConfigurations \in Nat

VARIABLES
  config,   (* level: csrLevel; sources: nBoundarySources > 0; mixture:      *)
            (* pairedMixture; thermal: which of the two back ends            *)
  host,     (* the flags of the host's DeviceState                           *)
  entries,  (* particlePhaseGraphs.entry                                     *)
  clock,    (* what the host knows of time: previous, submitted; the end of  *)
            (* the last step asked for; steps, configurations: counters      *)
  stream,   (* operations submitted and not yet executed                     *)
  asked,    (* the intervals asked for by the launches not yet finished      *)
  device    (* the device's copy of the state, and device memory             *)

vars == <<config, host, entries, clock, stream, asked, device>>

Kinds == {"full", "baseOnly", "split"}
Index == [base : BOOLEAN, zero : BOOLEAN]

CellLocal == config.level # "L0"     \* and csrSplitPreDirectoryEnabled with it
Automatic == config.level = "auto"   \* csrHeavyReductionMode = 2
Enabled   == config.level \in {"L2", "auto"}

Idle == [dt |-> 0, end |-> 0, active |-> FALSE]
NoEntry == [recorded |-> FALSE]

\* A directory, task list or interval no step has written yet is empty.
Init ==
  /\ config \in Configurations
  /\ host = [base |-> FALSE, split |-> FALSE, injection |-> FALSE, ready |-> FALSE,
             prepared |-> "full", buffer |-> 0, epoch |-> 0, grid |-> 0, present |-> config.sources]
  /\ entries = [i \in Index |-> NoEntry]
  /\ clock = [previous |-> Idle, submitted |-> FALSE, end |-> 0,
              steps |-> 0, configurations |-> 0]
  /\ stream = <<>>
  /\ asked = <<>>
  /\ device = [population |-> {}, bins |-> {}, base |-> {}, tasks |-> {}, gathered |-> {},
               step |-> 0, buffer |-> 0, baseReady |-> FALSE,
               advances |-> 0, inspect |-> FALSE, active |-> Enabled,
               interval |-> Idle, clock |-> Idle]

-----------------------------------------------------------------------------
(***************************************************************************)
(* The host's side: each operator takes the host's flags with the program  *)
(* submitted so far, and returns them after a function of the source.      *)
(***************************************************************************)
Emit(h, op) == [h EXCEPT !.program = Append(@, op)]

\* prepareCsrSegmentedReductionTasksImpl.
PrepareTasks(h, kind, onInspection) ==
  IF ~Enabled THEN [h EXCEPT !.ready = FALSE]
  ELSE [Emit(h, [op |-> "build", kind |-> kind, onInspection |-> onInspection])
          EXCEPT !.ready = TRUE, !.prepared = kind]

\* selectParticleDirectory.
SelectDirectory(h, split) ==
  [h EXCEPT !.split = split, !.injection = split /\ ~config.thermal, !.ready = FALSE]

\* prepareParticleDirectoryTasks: the thermal back end sizes the tiles first,
\* from the number of particles the directory of the moment has.
PrepareDirectoryTasks(h, kind) ==
  PrepareTasks(IF config.thermal /\ Enabled
               THEN Emit(h, [op |-> "policy", split |-> h.split]) ELSE h, kind, FALSE)

\* binParticlesByCell.
BinParticles(h) ==
  PrepareDirectoryTasks(Emit(SelectDirectory(h, FALSE), [op |-> "bin"]), "full")

\* The injected part is left as it was when there are no sources.
PreTransportKeepingBins(h) ==
  IF ~CellLocal \/ ~h.base THEN BinParticles(h)
  ELSE IF ~config.sources /\ ~config.thermal THEN [h EXCEPT !.injection = FALSE, !.split = TRUE]
  ELSE LET selected == SelectDirectory(h, TRUE)
       IN PrepareDirectoryTasks(
            IF config.sources THEN Emit(selected, [op |-> "binInjected"]) ELSE selected, "split")

\* preparePreTransportParticleDirectory.  Without sources the injected part is
\* none; the base directory of the isothermal back end has its tasks already.
PreTransport(h) ==
  LET injected == [op |-> IF config.sources THEN "binInjected" ELSE "zeroBins"]
  IN IF ~CellLocal \/ ~h.base THEN BinParticles(h)
     ELSE IF ~config.sources /\ ~config.thermal
          THEN [Emit(h, injected) EXCEPT !.injection = FALSE, !.split = TRUE]
          ELSE PrepareDirectoryTasks(Emit(SelectDirectory(h, TRUE), injected), "split")

\* currentPreTransportDirectoryKind.
CurrentKind(h) ==
  IF ~h.split THEN "full" ELSE IF config.thermal \/ h.injection THEN "split" ELSE "baseOnly"

\* Tasks that are there already are taken to fit whatever the device decides.
ScheduleTrustingTasks(h, kind) ==
  IF ~Automatic THEN h
  ELSE LET decided == Emit(Emit(h, [op |-> "begin"]), [op |-> "decide", kind |-> kind])
       IN IF h.ready /\ h.prepared = kind THEN decided
          ELSE PrepareTasks([decided EXCEPT !.ready = FALSE], kind, FALSE)

\* runAutomaticCsrSchedule.
Schedule(h, kind) ==
  IF ~Automatic THEN h
  ELSE LET decided == Emit(Emit(h, [op |-> "begin"]), [op |-> "decide", kind |-> kind])
       IN IF h.ready /\ h.prepared = kind THEN PrepareTasks(decided, kind, TRUE)
          ELSE PrepareTasks([decided EXCEPT !.ready = FALSE], kind, FALSE)

\* prepareParticleDirectoryAndSchedule.
Directory(h) ==
  IF ~CellLocal THEN h
  ELSE LET prepared == PreTransport(h) IN Schedule(prepared, CurrentKind(prepared))

\* applyCollisionalPressureKick: nothing in an interval of length zero.
Kick(h, split, zero) ==
  IF zero THEN h ELSE Emit(h, [op |-> "kick", sorted |-> CellLocal, split |-> split])

\* launchMixtureParticleCoupling: the atomic path builds the directory here.
Couple(h) ==
  IF ~config.mixture THEN h
  ELSE LET binned == IF CellLocal THEN h ELSE BinParticles(h)
       IN Emit(binned, [op |-> "couple", split |-> binned.split])

Inject(h) == IF config.sources THEN Emit(h, [op |-> "inject"]) ELSE h

\* Whether the injected part is read is a flag or, in the thermal back end,
\* whether there are sources.
Pool(h) ==
  Emit(h, [op |-> "pool", sorted |-> CellLocal, split |-> h.split,
           injection |-> IF config.thermal THEN config.sources ELSE h.injection])

\* The buffers are swapped, and the new offsets kept as the base of the next
\* step.  The survivors have been copied along with the moments, or are now.
Compact(h) ==
  IF ~CellLocal THEN Emit(h, [op |-> "select"])
  ELSE IF config.thermal
       THEN Emit(Emit(Emit(h, [op |-> "gather"]), [op |-> "commit"]), [op |-> "capture"])
       ELSE LET captured == Emit(h, [op |-> "capture"])
                tasks == IF config.sources THEN captured
                         ELSE PrepareTasks(captured, "baseOnly", FALSE)
            IN Emit(tasks, [op |-> "commit"])

\* From the tracking to the commit.
Transport(h, zero) ==
  LET tracked == Emit(h, [op |-> "track", grid |-> host.grid])
      binned == IF CellLocal THEN BinParticles(tracked) ELSE tracked
      moments == Emit(binned, [op |-> "moments", sorted |-> CellLocal])
  IN Compact(Kick(moments, FALSE, zero))

\* The directory is taken to be ready after the atomic path's compaction too.
SubmitReadyAlways(h, zero) ==
  LET ready == Directory(Inject(h))
      done == Transport(Couple(Pool(Kick(ready, ready.split, zero))), zero)
  IN [Emit(done, [op |-> "finish"]) EXCEPT !.base = TRUE, !.split = FALSE]

\* submitParticles, and the end of the interval.
Submit(h, zero) ==
  LET ready == Directory(Inject(h))
      done == Transport(Couple(Pool(Kick(ready, ready.split, zero))), zero)
  IN [Emit(done, [op |-> "finish"]) EXCEPT !.base = CellLocal, !.split = FALSE]

Mirror(h) == [base |-> h.base, split |-> h.split, injection |-> h.injection,
              ready |-> h.ready, prepared |-> h.prepared]
Flags == [program |-> <<>>, base |-> host.base, split |-> host.split,
          injection |-> host.injection, ready |-> host.ready, prepared |-> host.prepared]
Submitted(zero) == Submit(Flags, zero)

\* Recorded once, whatever the flags of the host are by then.
IndexByTimeStep(dt) == [base |-> FALSE, zero |-> dt = 0]

\* The entry a step uses.
EntryIndex(dt) == [base |-> host.base, zero |-> dt = 0]

\* The device's own continuation is used for any end of the interval.
ContinuesAnyEnd(requested) ==
  clock.submitted /\ requested.dt = clock.previous.dt

\* The requested interval is the one the device can find by itself.
Continues(requested) ==
  /\ clock.submitted
  /\ requested = [clock.previous EXCEPT !.end = @ + clock.previous.dt]

Recording(dt) ==
  LET h == Submitted(dt = 0)
  IN [recorded |-> TRUE, program |-> h.program, mirror |-> Mirror(h), epoch |-> host.epoch]

\* A new recording only when there is none.
CurrentEntryOnce(dt) ==
  LET entry == entries[EntryIndex(dt)]
  IN IF entry.recorded THEN entry ELSE Recording(dt)

\* The entry, recorded anew when there is none or the epoch has changed.
CurrentEntry(dt) ==
  LET entry == entries[EntryIndex(dt)]
  IN IF entry.recorded /\ entry.epoch = host.epoch THEN entry ELSE Recording(dt)

\* Replay, without what the recorded phase does to the pointers of the host.
AdaptMirrorOnly(entry) ==
  [host EXCEPT !.base = entry.mirror.base, !.split = entry.mirror.split,
     !.injection = entry.mirror.injection, !.ready = entry.mirror.ready,
     !.prepared = entry.mirror.prepared]

\* adapt and restoreParticleDirectoryMirror.
Adapt(entry) ==
  [host EXCEPT !.base = entry.mirror.base, !.split = entry.mirror.split,
     !.injection = entry.mirror.injection, !.ready = entry.mirror.ready,
     !.prepared = entry.mirror.prepared, !.buffer = 1 - @]

\* launchParticlePhaseGraph.
Launch(dt, end) ==
  LET requested == [dt |-> dt, end |-> end, active |-> TRUE]
      advance == Continues(requested)
      interval == [op |-> "interval", advance |-> advance,
                   interval |-> IF advance THEN [requested EXCEPT !.end = 0] ELSE requested]
      entry == CurrentEntry(dt)
  IN /\ host.present
     /\ clock.steps < MaxSteps
     /\ entries' = [entries EXCEPT ![EntryIndex(dt)] = entry]
     /\ stream' = stream \o <<interval>> \o entry.program
     /\ asked' = Append(asked, requested)
     /\ host' = Adapt(entry)
     /\ clock' = [clock EXCEPT !.previous = requested, !.submitted = TRUE,
                               !.end = end, !.steps = @ + 1]
     /\ UNCHANGED <<config, device>>

\* ugkwpGpuResidentStrictUploadParticleRestartMirror with particles, which the
\* solver calls before its first step: the copies wait for the device, and the
\* moments are rebuilt by operations submitted directly.
Restart ==
  /\ clock.steps = 0
  /\ stream = <<>>
  /\ device.population = {}
  /\ LET binned == IF CellLocal THEN BinParticles(Flags) ELSE Flags
     IN /\ stream' = Append(binned.program, [op |-> "moments", sorted |-> CellLocal])
        /\ host' = [host EXCEPT !.ready = binned.ready, !.prepared = binned.prepared,
                                !.split = binned.split, !.injection = binned.injection,
                                !.present = TRUE]
  /\ device' = [device EXCEPT !.population = {<<"moved", 0>>}]
  /\ UNCHANGED <<config, entries, clock, asked>>

\* Changes of the launch geometry and syncDeviceState: the host's copy replaces
\* the device's, once it is idle.
Configure ==
  /\ clock.configurations < MaxConfigurations
  /\ stream = <<>>
  /\ clock' = [clock EXCEPT !.configurations = @ + 1]
  /\ host' = [host EXCEPT !.epoch = @ + 1, !.grid = 1 - @]
  /\ device' = [device EXCEPT !.buffer = host.buffer, !.baseReady = host.base,
                              !.interval = Idle]
  /\ UNCHANGED <<config, entries, stream, asked>>

-----------------------------------------------------------------------------
(***************************************************************************)
(* The device's side: each operator takes a state d of the device.         *)
(***************************************************************************)
\* The particles the directory of a kind indexes.
Content(d, kind) ==
  CASE kind = "full"     -> d.bins
    [] kind = "baseOnly" -> d.base
    [] kind = "split"    -> d.base \cup d.bins

Heavy(d) == Enabled /\ d.active

\* The particles an operation reads.
Reads(d, o) ==
  CASE o.op = "kick" ->
         IF ~o.sorted THEN d.population
         ELSE Content(d, IF o.split THEN "split" ELSE "full")
    [] o.op = "couple" -> Content(d, IF o.split THEN "split" ELSE "full")
    [] o.op = "pool" ->
         IF ~o.sorted THEN d.population
         ELSE IF Heavy(d) THEN d.tasks
         ELSE IF ~o.split THEN d.bins
         ELSE d.base \cup IF o.injection THEN d.bins ELSE {}
    [] o.op = "moments" ->
         IF ~o.sorted THEN d.population
         ELSE IF Heavy(d) THEN d.tasks ELSE d.bins
    [] o.op = "gather" -> d.bins
    [] o.op = "policy" -> Content(d, IF o.split THEN "split" ELSE "full")
    [] o.op = "decide" -> IF d.inspect THEN Content(d, o.kind) ELSE d.population

Readers == {"kick", "couple", "pool", "moments", "gather", "policy", "decide"}

Compacted(particles) ==
  {IF t[1] = "moved" THEN <<"base", t[2]>> ELSE t : t \in particles}

\* What an operation does, in all the ways the device may decide.
Published(d, o) ==
  LET given == IF o.advance THEN [o.interval EXCEPT !.end = d.clock.end + o.interval.dt]
                            ELSE o.interval
  IN [d EXCEPT !.interval = given, !.clock = given, !.step = @ + 1]

Injected(d) == [d EXCEPT !.population = @ \cup {<<"injected", d.step>>}]
Binned(d) == [d EXCEPT !.bins = d.population]
ZeroedBins(d) == [d EXCEPT !.bins = {}]
\* The particles past the compacted ones.
BinnedInjected(d) == [d EXCEPT !.bins = {t \in d.population : t[1] = "injected"}]

\* The device follows its decision; the tasks of an inactive schedule are none.
Built(d, o) ==
  IF o.onInspection /\ ~d.inspect THEN d
  ELSE [d EXCEPT !.tasks = IF Heavy(d) THEN Content(d, o.kind) ELSE {}]

BegunInspection(d) ==
  [d EXCEPT !.advances = @ + 1,
     !.inspect = d.advances + 1 = 1 \/ (d.advances + 1) % AutoInterval = 0]

\* Which way the occupancy falls is open.
Decided(d) == IF d.inspect THEN {[d EXCEPT !.active = a] : a \in BOOLEAN} ELSE {d}

Tracked(d) == [d EXCEPT !.population = IF @ = {} THEN {} ELSE {<<"moved", d.step>>}]
\* The survivors, into the buffers that are to become the current ones.
Gathered(d, o) == [d EXCEPT !.gathered = Reads(d, o)]
Captured(d) == [d EXCEPT !.base = Compacted(d.gathered), !.baseReady = TRUE]
Committed(d) ==
  [d EXCEPT !.population = Compacted(d.gathered), !.buffer = 1 - @, !.baseReady = TRUE]
\* The selection uses the index array as its scratch.
Selected(d) ==
  [d EXCEPT !.population = Compacted(@), !.bins = {}, !.buffer = 1 - @, !.baseReady = FALSE]
Over(d) == [d EXCEPT !.interval.active = FALSE]

Outcomes(d, o) ==
  CASE o.op = "interval"    -> {Published(d, o)}
    [] o.op = "inject"      -> {Injected(d)}
    [] o.op = "bin"         -> {Binned(d)}
    [] o.op = "zeroBins"    -> {ZeroedBins(d)}
    [] o.op = "binInjected" -> {BinnedInjected(d)}
    [] o.op = "build"       -> {Built(d, o)}
    [] o.op = "begin"       -> {BegunInspection(d)}
    [] o.op = "decide"      -> Decided(d)
    [] o.op = "track"       -> {Tracked(d)}
    [] o.op = "moments" /\ ~config.thermal -> {Gathered(d, o)}
    [] o.op = "gather"      -> {Gathered(d, o)}
    [] o.op = "capture"     -> {Captured(d)}
    [] o.op = "commit"      -> {Committed(d)}
    [] o.op = "select"      -> {Selected(d)}
    [] o.op = "finish"      -> {Over(d)}
    [] OTHER                -> {d}

Execute ==
  /\ stream # <<>>
  /\ stream' = Tail(stream)
  /\ device' \in Outcomes(device, Head(stream))
  /\ asked' = IF Head(stream).op = "finish" THEN Tail(asked) ELSE asked
  /\ UNCHANGED <<config, host, entries, clock>>

Finished == clock.steps = MaxSteps /\ stream = <<>> /\ UNCHANGED vars

\* A step ends where the last one plus its interval does, or elsewhere: after a
\* restart of the caller's time, or rounding.
Next ==
  \/ \E dt \in TimeSteps, late \in {0, 1} : Launch(dt, clock.end + dt + late)
  \/ Restart
  \/ Configure
  \/ Execute
  \/ Finished

Spec == Init /\ [][Next]_vars
-----------------------------------------------------------------------------
\* Whatever an operation reads its particles from, directory or task list,
\* holds exactly the particles there are when the device executes it: none
\* that is missing, counted twice or gone.  A task list left over from another
\* decision, directory or step would show here.
ReadsExact ==
  stream # <<>> /\ Head(stream).op \in Readers => Reads(device, Head(stream)) = device.population

\* What the next step of either kind replays, and the flags it leaves, are
\* what the host's code would submit and leave with the flags of now.
RecordingsCurrent ==
  \A dt \in TimeSteps :
    LET h == Submitted(dt = 0)
        entry == CurrentEntry(dt)
    IN entry.program = h.program /\ entry.mirror = Mirror(h)

\* With nothing left to execute, the host's copy of the buffer pointers is the
\* device's; it is what every upload, download and synchronization works with.
PointersAgree == stream = <<>> => host.buffer = device.buffer

\* When the host takes the directory of the last compaction to be ready, it
\* is: the base offsets cover the particles there are.
BaseReadyIsExact ==
  stream = <<>> /\ host.base => device.baseReady /\ device.base = device.population

\* The device works in the interval the caller asked for, also when it has
\* continued from its own clock, and also when the host is steps ahead.
IntervalInForce ==
  stream # <<>> /\ Head(stream).op \in {"inject", "track"} => device.interval = asked[1]

\* What the host knows of the device without asking it is so: the pointers, the
\* base offsets, and the interval it is in.
HostFollowsDevice == PointersAgree /\ BaseReadyIsExact /\ IntervalInForce
=============================================================================
