----------------------------- MODULE UpwindSweep -----------------------------
(***************************************************************************)
(* The linear solve of one radiation direction.  The plan sorts the cells  *)
(* into levels, one kernel a level, and the threads of a kernel run at     *)
(* once; what they compute has to be the sweep over the cells one after    *)
(* the other, each with the new values of the cells before it.             *)
(*                                                                         *)
(* A value is the number of the sweep that wrote it.                       *)
(***************************************************************************)
EXTENDS Integers, FiniteSetsExt

CONSTANTS
  CellCount,
  Faces,              \* internal faces: [owner, adjacent, number]
  MaximumIterations   \* linearIterations

Cells == 1 .. CellCount

SweepAssumption ==
  /\ CellCount \in Nat \ {0}
  /\ Faces \subseteq [owner : Cells, adjacent : Cells, number : Nat]
  /\ MaximumIterations \in Int

VARIABLES
  flux,      \* sign of the flux through each face, out of its owner
  phase,     \* what the stream executes: "begin", "level", "finish", "done"
  level,     \* the kernel that is running
  current, previous,   \* values and their snapshot
  read,      \* what the threads of this sweep have read, by cell
  thread,    \* of each cell in this sweep: "idle", "gathered" or "ended"
  failures,  \* cells that kept their value in this sweep because it is none
  report     \* UpwindLinearReport

vars == <<flux, phase, level, current, previous, read, thread, failures, report>>

Unread == [n \in {} |-> 0]
NoCell == 0

----------------------------------------------------------------------------
(* OrderedUpwindPlan::build.                                               *)

\* The cells a cell takes its inflow from.
Upstream(cell) ==
  {f.adjacent : f \in {f \in Faces : cell = f.owner /\ flux[f] < 0}}
    \union {f.owner : f \in {f \in Faces : cell = f.adjacent /\ flux[f] > 0}}

LevelAfterAll(lower) == IF lower = {} THEN 0 ELSE Max(lower)
LevelAfter(lower) == IF lower = {} THEN 0 ELSE Max(lower) + 1

Levels[cell \in Cells] == LevelAfter({Levels[n] : n \in {n \in Upstream(cell) : n < cell}})

LevelCells(l) == {cell \in Cells : Levels[cell] = l}
LastLevel == Max({Levels[cell] : cell \in Cells})

----------------------------------------------------------------------------
(* OrderedUpwindGraph.                                                     *)

\* A first residual that is no number, or no sweep allowed, still costs one sweep.
NeedsSweep(iterations, aboveTarget, finite) ==
  /\ aboveTarget \/ (iterations = 0 /\ (MaximumIterations <= 0 \/ ~finite))
  /\ iterations < Max({1, MaximumIterations})

Init ==
  /\ flux \in [Faces -> {-1, 0, 1}]
  /\ phase = "begin"
  /\ level = 0
  /\ current = [cell \in Cells |-> 0]
  /\ previous = [cell \in Cells |-> 0]
  /\ read = [cell \in Cells |-> Unread]
  /\ thread = [cell \in Cells |-> "idle"]
  /\ failures = {}
  /\ report = [iterations |-> 0, errorCell |-> NoCell, active |-> FALSE, above |-> TRUE]

\* initialize, the residual of the first values and beginSolve.  A direction that
\* could not be prepared is not solved.
BeginSolve ==
  /\ phase = "begin"
  /\ \E above, finite, externalFailure \in BOOLEAN :
       LET active == ~externalFailure /\ NeedsSweep(0, above, finite) IN
       /\ finite \/ ~above
       /\ report' = [report EXCEPT !.active = active, !.above = above]
       /\ phase' = IF active THEN "snapshot" ELSE "done"
  /\ UNCHANGED <<flux, level, current, previous, read, thread, failures>>

Snapshot ==
  /\ phase = "snapshot"
  /\ previous' = current
  /\ level' = 0
  /\ read' = [cell \in Cells |-> Unread]
  /\ thread' = [cell \in Cells |-> "idle"]
  /\ phase' = "level"
  /\ UNCHANGED <<flux, current, failures, report>>

\* The new value of a cell with a lower index, the snapshot of the others.
AlwaysCurrent(cell, neighbour) == current[neighbour]
ValueOf(cell, neighbour) ==
  IF neighbour < cell THEN current[neighbour] ELSE previous[neighbour]

\* A thread of orderedUpwindLevel, in two steps: it sums up its inflow ...
Gather(cell) ==
  /\ phase = "level" /\ cell \in LevelCells(level) /\ thread[cell] = "idle"
  /\ thread' = [thread EXCEPT ![cell] = "gathered"]
  /\ read' = [read EXCEPT ![cell] = [n \in Upstream(cell) |-> ValueOf(cell, n)]]
  /\ UNCHANGED <<flux, phase, level, current, previous, failures, report>>

\* ... and stores its value, unless that is negative or not a number.
Store(cell) ==
  /\ phase = "level" /\ thread[cell] = "gathered"
  /\ thread' = [thread EXCEPT ![cell] = "ended"]
  /\ \/ current' = [current EXCEPT ![cell] = report.iterations + 1] /\ UNCHANGED failures
     \/ failures' = failures \union {cell} /\ UNCHANGED current
  /\ UNCHANGED <<flux, phase, level, previous, read, report>>

NextLevel ==
  /\ phase = "level" /\ \A cell \in LevelCells(level) : thread[cell] = "ended"
  /\ IF level = LastLevel THEN phase' = "finish" /\ UNCHANGED level
                          ELSE level' = level + 1 /\ UNCHANGED phase
  /\ UNCHANGED <<flux, current, previous, read, thread, failures, report>>

FirstFailure == IF failures = {} THEN NoCell ELSE Min(failures)

\* The residual of the new values and finishSweep.
FinishSweep ==
  /\ phase = "finish"
  /\ \E above \in BOOLEAN :
       LET iterations == report.iterations + 1
           active == FirstFailure = NoCell /\ NeedsSweep(iterations, above, TRUE)
       IN /\ report' = [iterations |-> iterations, errorCell |-> FirstFailure,
                        active |-> active, above |-> above]
          /\ phase' = IF active THEN "snapshot" ELSE "done"
  /\ UNCHANGED <<flux, level, current, previous, read, thread, failures>>

Done == phase = "done" /\ UNCHANGED vars

Next ==
  \/ BeginSolve \/ Snapshot \/ NextLevel \/ FinishSweep \/ Done
  \/ \E cell \in Cells : Gather(cell) \/ Store(cell)

Spec == Init /\ [][Next]_vars

----------------------------------------------------------------------------
(* Properties.                                                             *)

\* Whatever order the threads of a level run in, each cell reads what it would
\* in a sweep over the cells one after the other: the value of this sweep from
\* the cells before it, unless they failed, and that of the last one from the others.  The
\* failure that is reported is the one such a sweep meets first, and no later sweep
\* hides it.
SweepIsSequential ==
  LET sweep == report.iterations + (IF phase \in {"level", "finish"} THEN 1 ELSE 0) IN
  /\ phase # "snapshot" => \A cell \in Cells : \A n \in DOMAIN read[cell] :
       read[cell][n] = IF n < cell /\ n \notin failures THEN sweep ELSE sweep - 1
  /\ phase = "done" /\ sweep > 0 => \A cell \in Cells :
       /\ DOMAIN read[cell] = Upstream(cell)
       /\ current[cell] = IF cell \in failures THEN sweep - 1 ELSE sweep
       /\ cell \in failures => report.errorCell \in failures /\ report.errorCell <= cell
=============================================================================
