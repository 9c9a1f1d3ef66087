----------------------------- MODULE MCParticles -----------------------------
(***************************************************************************)
(* Particles in the resident back ends: a behaviour is one of the          *)
(* injection at the boundary, or one of the particle phase of whole steps, *)
(* which takes the injection as one operation.  What is proved of both     *)
(* extends this module; the injection has its larger instance in           *)
(* MCParticleInjection.                                                    *)
(***************************************************************************)
EXTENDS ParticleInjection

CONSTANTS Configurations, AutoInterval, TimeSteps, MaxPhases, MaxConfigurations

VARIABLES part, config, host, entries, clock, stream, asked, device

Phase == INSTANCE ParticlePhase WITH MaxSteps <- MaxPhases

ASSUME PhaseAssumption == Phase!Assumption

\* Every level with and without sources, in both back ends.  Past L0 a mixture
\* only adds a reader, and is there; on L0 it builds the directory it reads.
MCConfigurations ==
  {c \in [level : {"L0", "L1", "L2", "auto"}, sources : BOOLEAN,
          mixture : BOOLEAN, thermal : BOOLEAN] : c.level = "L0" \/ c.mixture}

phaseVars == <<config, host, entries, clock, stream, asked, device>>

\* The configuration that the behaviours of the injection have and do not use.
HoldPhase == config = [level |-> "L0", sources |-> TRUE, mixture |-> FALSE, thermal |-> FALSE]

MCInit ==
  /\ part \in {"injection", "phase"} /\ (part = "injection" => HoldPhase)
  /\ Init /\ Phase!Init

MCNext ==
  \/ part = "injection" /\ Next /\ UNCHANGED <<part, phaseVars>>
  \/ part = "phase" /\ Phase!Next /\ UNCHANGED <<part, vars>>

MCSpec == MCInit /\ [][MCNext]_<<part, vars, phaseVars>>

\* What every operation of the phase reads (ParticlePhase).
ReadsExact == Phase!ReadsExact
\* What every step replays (ParticlePhase).
RecordingsCurrent == Phase!RecordingsCurrent
\* What the host knows of the device (ParticlePhase).
HostFollowsDevice == Phase!HostFollowsDevice
=============================================================================
