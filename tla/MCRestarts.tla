---------------------------- MODULE MCRestarts ----------------------------
(***************************************************************************)
(* The two ways of the repository to survive a crash: a behaviour is one   *)
(* of the checkpoints of CHMT, or one of the time directories of           *)
(* gasUGKPSteady.                                                          *)
(***************************************************************************)
EXTENDS Checkpoint

CONSTANTS WindowSamples, MinimumWindows, StableWindows, EndLabel, WriteInterval,
          Boundaries, Steps, MaxTroubles

VARIABLES program, phase, label, state, controls, totals, window, stable, sum, scratch, mean,
          verdicts, converged, disk, troubles

Sampling == INSTANCE SamplingRun WITH content <- state
ASSUME RunAssumption == Sampling!RunAssumption

others ==
  <<phase, label, state, controls, totals, window, stable, sum, scratch, mean,
  verdicts, converged, disk, troubles>>

MCInit == Init /\ Sampling!Init /\ program \in {"CHMT", "gasUGKPSteady"}

MCNext ==
  \/ program = "CHMT" /\ Next /\ UNCHANGED <<program, others>>
  \/ program = "gasUGKPSteady" /\ Sampling!Next /\ UNCHANGED <<program, vars>>

MCSpec == MCInit /\ [][MCNext]_<<program, vars, others>>

\* Claims and directories of the steady run are true (SamplingRun).
RunSound == Sampling!RunSound
=============================================================================
