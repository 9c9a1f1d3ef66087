------------------------------- MODULE SamplingRun -------------------------------
(***************************************************************************)
(* gasUGKPSteady with particles: physical steps are sampled in windows     *)
(* until the means of the windows stay where they are.  The run leaves     *)
(* time directories, file by file, and may be killed between any two       *)
(* calls, or in the middle of a file, or find the disk full; it starts     *)
(* again from the last directory that it accepts.                          *)
(*                                                                         *)
(* Time labels count samples.  The physical state is known by the number   *)
(* of samples it has taken, and a mean by the samples it is of.            *)
(***************************************************************************)
EXTENDS Integers, Sequences, FiniteSetsExt, SequencesExt, Functions

CONSTANTS
  WindowSamples, MinimumWindows, StableWindows,   \* of the steadyGas controls
  EndLabel, WriteInterval,                        \* endTime and writeInterval
  Boundaries, Steps,                              \* values the user may give
  MaxTroubles                                     \* bound on kills and failed writes

RunAssumption ==
  /\ {WindowSamples, EndLabel, WriteInterval, MaxTroubles} \subseteq Nat \ {0}
  /\ MinimumWindows \in Int /\ StableWindows \in Int
  /\ 0 \in Boundaries /\ Boundaries \subseteq Nat
  /\ Steps \subseteq Nat \ {0} /\ Steps # {}

AtLeast(bound, n) == Max({bound, n})

\* Everything a directory holds, in the order it is written.
ClockFirst == <<"fields", "clock", "parcels", "porosity", "residual", "means">>
Files == <<"fields", "parcels", "porosity", "residual", "clock", "means">>
FileSet == Range(Files)

VARIABLES
  phase,      \* what the process does: "down", or its next call
  label,      \* of runTime
  content,    \* the physical state: the samples and the time it has taken, the controls of
              \* its last step, whether a kernel of it failed, what its restarts have lost
  controls,   \* boundary and step in force; the user gave one of them
  totals,     \* samples and time, as the program counts them
  window,     \* samplesInWindow and windows
  stable,     \* stableWindows
  sum,        \* samples in the sums of the device
  scratch,    \* what the shared device array holds: the centre of a window, or statistics
  mean,       \* samples of the mean of the last window
  verdicts,   \* history: windows that were judged in this process
  converged,
  disk,       \* directories: their files, content and clock
  troubles    \* kills and failed writes so far

run == <<label, content, controls, totals, window, stable, sum, scratch, mean,
         verdicts, converged>>
vars == <<phase, run, disk, troubles>>

NoClock == [samples |-> 0, time |-> 0, boundary |-> 0, dt |-> 0]
Mirrors == {"parcels", "porosity", "residual", "clock"}
Fresh == [samples |-> 0, time |-> 0, boundary |-> 0, dt |-> 0, failed |-> FALSE, lost |-> {}]
Put(f, k, v) == [x \in DOMAIN f \union {k} |-> IF x = k THEN v ELSE f[x]]

Init ==
  /\ phase = "down" /\ label = 0
  /\ content = Fresh
  /\ controls = [boundary |-> 0, dt |-> 0, given |-> FALSE]
  /\ totals = [samples |-> 0, time |-> 0]
  /\ window = [samples |-> 0, number |-> 0] /\ stable = 0
  /\ sum = {} /\ scratch = -1 /\ mean = {} /\ verdicts = <<>>
  /\ converged = FALSE
  /\ disk = [d \in {0} |->
       [files |-> [f \in FileSet |-> IF f = "fields" THEN "whole" ELSE "absent"],
        content |-> Fresh, clock |-> NoClock]]
  /\ troubles = 0

\* The memory of a process that is gone.
Ends ==
  /\ phase' = "down" /\ label' = 0 /\ content' = Fresh
  /\ controls' = [boundary |-> 0, dt |-> 0, given |-> FALSE]
  /\ totals' = [samples |-> 0, time |-> 0]
  /\ window' = [samples |-> 0, number |-> 0] /\ stable' = 0
  /\ sum' = {} /\ scratch' = -1 /\ mean' = {} /\ verdicts' = <<>>
  /\ converged' = FALSE

Goes(at, next) == phase = at /\ phase' = next
Running == label < EndLabel
WriteTime == label % WriteInterval = 0

----------------------------------------------------------------------------
(* Start and restart.                                                      *)

Latest == Max(DOMAIN disk)

\* Fields and parcels are read whole or not at all.  A torn list of numbers may
\* end in a number that is still one.
Accepted(files, porosityRead, residualRead) ==
  /\ files["fields"] = "whole" /\ files["parcels"] \in {"whole", "absent"}
  /\ files["porosity"] \in {"torn", "short"} => porosityRead
  /\ files["residual"] \in {"torn", "short"} => residualRead

\* readSteadyRestartState of a whole file, or of one that ends after n lines: it
\* may be rejected, or else what is missing keeps its default.
ClockRead(d, n) ==
  IF disk[d].files["clock"] = "whole" THEN disk[d].clock
  ELSE IF disk[d].files["clock"] = "absent" THEN NoClock
  ELSE LET c == disk[d].clock
       IN [boundary |-> IF n >= 1 THEN c.boundary ELSE 0, time |-> IF n >= 2 THEN c.time ELSE 0,
           samples |-> IF n >= 3 THEN c.samples ELSE 0, dt |-> 0]

\* Every mirror that is not there is taken for one that was never needed.
LostBy(d) == IF d = 0 THEN {} ELSE {f \in Mirrors : disk[d].files[f] # "whole"}

\* The user may give boundaryTime and samplingDeltaT; without the latter deltaT
\* counts, if the clock has no step either.
Restart(given, boundary, deltaT, n, porosityRead, residualRead) ==
  LET clock == ClockRead(Latest, n)
      dt == IF clock.dt > 0 /\ ~given THEN clock.dt ELSE deltaT
  IN /\ phase = "down" /\ ~converged /\ Latest < EndLabel
     /\ Accepted(disk[Latest].files, porosityRead, residualRead)
     /\ phase' = "advance" /\ label' = Latest
     /\ content' = [disk[Latest].content EXCEPT !.lost = @ \union LostBy(Latest)]
     /\ controls' = [boundary |-> IF given THEN boundary ELSE clock.boundary,
                     dt |-> dt, given |-> given]
     /\ totals' = [samples |-> clock.samples, time |-> clock.time]
     /\ window' = [samples |-> 0, number |-> 0] /\ stable' = 0
     /\ sum' = {} /\ scratch' = content'.samples /\ mean' = {} /\ verdicts' = <<>>
     /\ UNCHANGED <<converged, disk, troubles>>

\* The user removes a directory that is refused.
RemoveRefused(porosityRead, residualRead) ==
  /\ phase = "down" /\ Latest # 0
  /\ ~Accepted(disk[Latest].files, porosityRead, residualRead)
  /\ disk' = Restrict(disk, DOMAIN disk \ {Latest})
  /\ UNCHANGED <<phase, run, troubles>>

----------------------------------------------------------------------------
(* One turn of the loop.                                                   *)

\* The kernels of a step, which may fail as they run.
AdvanceOneStep(fails) ==
  /\ Running /\ Goes("advance", "accumulate")
  /\ content' = [content EXCEPT !.samples = @ + 1, !.time = @ + controls.dt,
                                !.boundary = controls.boundary, !.dt = controls.dt,
                                !.failed = fails]
  /\ UNCHANGED <<label, controls, totals, window, stable, sum, scratch, mean, verdicts,
                 converged, disk, troubles>>

\* The host has waited for the step when it takes its sample; a fatal record
\* ends the program.
SeesNothing == FALSE
SeesFailure == content.failed

Accumulate ==
  /\ phase = "accumulate"
  /\ IF SeesFailure
       THEN Ends
       ELSE /\ phase' = "window"
            /\ sum' = sum \union {content.samples}
            /\ totals' = [samples |-> totals.samples + 1, time |-> totals.time + controls.dt]
            /\ window' = [window EXCEPT !.samples = @ + 1]
            /\ label' = label + 1
            /\ UNCHANGED <<content, controls, stable, scratch, mean, verdicts, converged>>
  /\ UNCHANGED <<disk, troubles>>

WindowComplete == window.samples = WindowSamples

StationaryPartial(number, still) == number >= AtLeast(2, MinimumWindows) /\ still
Stationary(number, still) == number >= AtLeast(2, MinimumWindows) /\ WindowComplete /\ still

\* finishSamplingWindow overwrites the centres by the statistics.  Whether
\* the mean has moved is up to the flow.
JudgeWindow(still) ==
  LET number == window.number + 1
      stationary == Stationary(number, still)
  IN /\ WindowComplete \/ ~Running
     /\ Goes("window", "output")
     /\ window' = [window EXCEPT !.number = number]
     /\ mean' = sum /\ scratch' = -1
     /\ verdicts' = Append(verdicts, [of |-> sum, before |-> mean, stationary |-> stationary])
     /\ stable' = IF stationary THEN stable + 1 ELSE 0
     /\ converged' = (stable' >= AtLeast(1, StableWindows))
     /\ UNCHANGED <<label, content, controls, totals, sum, disk, troubles>>

SkipWindow ==
  /\ ~WindowComplete /\ Running /\ Goes("window", "output")
  /\ UNCHANGED <<run, disk, troubles>>

Due == WriteTime \/ converged \/ ~Running

\* A directory appears with the first of its files.
BeginOutput ==
  /\ Due /\ Goes("output", Files[1])
  /\ disk' = Put(disk, label,
       [files |-> [f \in FileSet |-> IF f = Files[1] THEN "torn" ELSE "absent"],
        content |-> content,
        clock |-> [samples |-> totals.samples, time |-> totals.time,
                   boundary |-> controls.boundary, dt |-> controls.dt]])
  /\ UNCHANGED <<run, troubles>>

OpenFile ==
  /\ phase \in FileSet /\ disk[label].files[phase] = "absent"
  /\ disk' = [disk EXCEPT ![label].files[phase] = "torn"]
  /\ UNCHANGED <<phase, run, troubles>>

MeansDue == mean # {} /\ (WindowComplete \/ converged \/ ~Running)

\* The means are written only if there are any.
After(i) ==
  IF i = Len(Files) \/ (Files[i + 1] = "means" /\ ~MeansDue) THEN "next" ELSE Files[i + 1]

FinishFile(i) ==
  /\ Goes(Files[i], After(i))
  /\ disk[label].files[phase] = "torn"
  /\ disk' = [disk EXCEPT ![label].files[phase] = "whole"]
  /\ UNCHANGED <<run, troubles>>

\* A write that fails ends the program when the file is the parcels; a clock costs a
\* warning, and of the others nobody takes notice.
ShortWrite(i) ==
  /\ phase = Files[i] /\ phase \in Mirrors /\ troubles < MaxTroubles
  /\ disk[label].files[phase] = "torn"
  /\ disk' = [disk EXCEPT ![label].files[phase] = "short"]
  /\ troubles' = troubles + 1
  /\ IF phase = "parcels" THEN Ends ELSE phase' = After(i) /\ UNCHANGED run

NextTurn ==
  /\ \/ ~Due /\ Goes("output", "advance")
     \/ Goes("next", IF Running /\ ~converged THEN "advance" ELSE "down")
  /\ IF WindowComplete /\ ~converged
       THEN /\ window' = [window EXCEPT !.samples = 0]
            /\ sum' = {} /\ scratch' = content.samples
       ELSE UNCHANGED <<window, sum, scratch>>
  /\ UNCHANGED <<label, content, controls, totals, stable, mean, verdicts, converged,
                 disk, troubles>>

Kill ==
  /\ phase # "down" /\ troubles < MaxTroubles
  /\ Ends /\ troubles' = troubles + 1
  /\ UNCHANGED disk

Over == phase = "down" /\ (converged \/ Latest >= EndLabel) /\ UNCHANGED vars

Next ==
  \/ Accumulate \/ SkipWindow \/ BeginOutput \/ OpenFile \/ NextTurn \/ Kill \/ Over
  \/ \E b \in BOOLEAN : AdvanceOneStep(b) \/ JudgeWindow(b)
  \/ \E i \in DOMAIN Files : FinishFile(i) \/ ShortWrite(i)
  \/ \E p, r \in BOOLEAN :
       \/ RemoveRefused(p, r)
       \/ \E given \in BOOLEAN, boundary \in Boundaries, deltaT \in Steps, n \in 0 .. 3 :
            Restart(given, boundary, deltaT, n, p, r)

Spec == Init /\ [][Next]_vars

----------------------------------------------------------------------------
(* Properties.                                                             *)

\* Every sample of the window in progress is measured from the state at its
\* beginning.
CentredOnItsWindow ==
  phase = "accumulate" => scratch = content.samples - 1 - window.samples

\* A window that counts as stationary is full, and was compared with the full
\* window that ended just before it.
IsWindow(samples) ==
  samples # {} /\ samples = Min(samples) .. Min(samples) + WindowSamples - 1
ComparedWithNeighbour(v) ==
  IsWindow(v.of) /\ IsWindow(v.before) /\ Min(v.of) = Max(v.before) + 1

\* The criteria are reached by the last windows in a row, and never by the
\* first ones of a process.
ConvergedOnEvidence ==
  /\ \A i \in DOMAIN verdicts : verdicts[i].stationary => ComparedWithNeighbour(verdicts[i])
  /\ converged =>
       /\ Len(verdicts) >= AtLeast(2, MinimumWindows)
       /\ \A k \in 0 .. AtLeast(1, StableWindows) - 1 :
            verdicts[Len(verdicts) - k].stationary

\* The clock of a directory is whole only when no mirror is missing or in progress,
\* and counts what the state beside it has taken, unless an earlier restart
\* found no clock.  No directory holds a state whose step failed.
DirectoryTrue(d) ==
  /\ d.files["clock"] = "whole" => \A f \in Mirrors : d.files[f] \in {"whole", "short"}
  /\ "clock" \notin d.content.lost =>
       d.clock.samples = d.content.samples /\ d.clock.time = d.content.time
  /\ ~d.content.failed

\* A restart goes on with the boundary values and the step of the run it
\* continues, unless the user gives others or the clock was lost.
RestartContinues ==
  (phase = "advance" /\ content.samples > 0 /\ ~controls.given /\ "clock" \notin content.lost)
    => controls.boundary = content.boundary /\ controls.dt = content.dt

\* Through kills and restarts the run of steadyParticleLoop.H claims no more
\* than it has measured, and its directories tell what they hold.
RunSound ==
  /\ CentredOnItsWindow
  /\ ConvergedOnEvidence
  /\ \A at \in DOMAIN disk : DirectoryTrue(disk[at])
  /\ RestartContinues
=============================================================================
