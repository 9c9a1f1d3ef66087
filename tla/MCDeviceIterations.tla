------------------------ MODULE MCDeviceIterations ------------------------
(***************************************************************************)
(* Three iterations that the device runs by itself, as a graph that it     *)
(* repeats: a behaviour is one of the iteration over the solid, or one of  *)
(* the linear solve of a single direction of radiation, or one of the      *)
(* source iteration, the solve of radiation over all directions.           *)
(***************************************************************************)
EXTENDS SolidIteration

CONSTANTS CellCount, Faces, SweepIterations,
          Directions, SourceIterations, Solves, Troubles

VARIABLES graph,
          flux, phase, level, current, previous, read, thread, failures, linear,
          stage, controls, trouble, solve, batch, direction, intensities, frozen,
          workspace, solved, source, unsettled, inputs

Sweep == INSTANCE UpwindSweep WITH MaximumIterations <- SweepIterations, report <- linear
Source == INSTANCE SourceIteration WITH
  phase <- stage, linear <- solved, report <- source, warnings <- unsettled

ASSUME DirectionAssumption == Sweep!SweepAssumption
ASSUME AnglesAssumption == Source!SourceAssumption

\* Four cells, all pairs but one adjacent, one pair over two faces.
Face(o, a, k) == [owner |-> o, adjacent |-> a, number |-> k]
MCFaces == {Face(1, 2, 1), Face(1, 3, 1), Face(2, 3, 1), Face(2, 4, 1),
            Face(3, 4, 1), Face(3, 4, 2)}

\* At most two things go wrong, in the first solve or in the second.
Budget == IF SourceIterations > 1 THEN SourceIterations ELSE 1
Accidents ==
  [solve : 1 .. Solves, iteration : 1 .. Budget, place : {0}, kind : {"incident"}]
    \union [solve : 1 .. Solves, iteration : 1 .. Budget, place : 1 .. Directions,
            kind : {"prepare", "linear", "slow"}]
    \union [solve : 1 .. Solves, iteration : {Budget + 1}, place : 1 .. 3, kind : {"result"}]
MCTroubles ==
  UNION {{{t, u} : t, u \in {f \in Accidents : f.solve = n}} : n \in 1 .. Solves} \union {{}}

sweepVars == <<flux, phase, level, current, previous, read, thread, failures, linear>>
sourceVars == <<stage, controls, trouble, solve, batch, direction, intensities, frozen,
                workspace, solved, source, unsettled, inputs>>

\* What varies initially is held in the graphs that a behaviour is not one of.
HoldSolid == regions = Regions
HoldSweep == flux = [f \in Faces |-> 0]
HoldSource == trouble = {} /\ controls = [parallel |-> FALSE, concurrent |-> 1]

MCInit ==
  /\ \/ graph = "solid" /\ HoldSweep /\ HoldSource
     \/ graph = "sweep" /\ HoldSolid /\ HoldSource
     \/ graph = "source" /\ HoldSolid /\ HoldSweep
  /\ Init /\ Sweep!Init /\ Source!Init

MCNext ==
  \/ graph = "solid" /\ Next /\ UNCHANGED <<graph, sweepVars, sourceVars>>
  \/ graph = "sweep" /\ Sweep!Next /\ UNCHANGED <<graph, vars, sourceVars>>
  \/ graph = "source" /\ Source!Next /\ UNCHANGED <<graph, vars, sweepVars>>

MCSpec == MCInit /\ [][MCNext]_<<graph, vars, sweepVars, sourceVars>>

\* The threads compute what a sweep over the cells in order would (UpwindSweep).
SweepIsSequential == Sweep!SweepIsSequential

\* The source iteration ends as a sequential one would (SourceIteration).
AsSequential == Source!AsSequential
=============================================================================
