--------------------------- MODULE SourceIteration ---------------------------
(***************************************************************************)
(* The source iteration of the discrete ordinates: one graph on the device *)
(* that prepares, solves and publishes the directions batch by batch, as   *)
(* many at once as there are workspaces, until the intensities settle, the *)
(* budget is spent or something failed.  The host only launches it.        *)
(*                                                                         *)
(* The intensities of a direction are known by the iteration that wrote    *)
(* them, 0 for what a solve starts from.                                   *)
(***************************************************************************)
EXTENDS Integers, FiniteSetsExt

CONSTANTS
  Directions,        \* how many angles there are
  SourceIterations,  \* of RadiationControls
  Solves,            \* bound of the exploration
  Troubles           \* what may go wrong and where: sets of the records below

Angles == 1 .. Directions
Budget == IF SourceIterations > 1 THEN SourceIterations ELSE 1

\* In iteration i a place is 0 for the incident flux or an angle, which cannot
\* be prepared, fails in its linear solve, or does not converge there.  After
\* the loop, as iteration Budget + 1, the places are the three results.
InLoop == [solve : 1 .. Solves, iteration : 1 .. Budget, place : {0}, kind : {"incident"}]
  \union [solve : 1 .. Solves, iteration : 1 .. Budget, place : Angles,
          kind : {"prepare", "linear", "slow"}]
AfterLoop == [solve : 1 .. Solves, iteration : {Budget + 1}, place : 1 .. 3, kind : {"result"}]

SourceAssumption ==
  /\ Directions \in Nat \ {0} /\ SourceIterations \in Nat /\ Solves \in Nat
  /\ \A trouble \in Troubles : trouble \subseteq InLoop \union AfterLoop

VARIABLES
  controls,     \* parallelAngles and the number of workspaces
  trouble,      \* what goes wrong in this run
  solve, phase, \* which solve, and how far its graph is
  batch,        \* of the directions, from 0
  direction,    \* of each angle: "waiting", "prepared", "solved", "published"
  intensities, frozen,
  workspace,    \* shared by the angles that are equal modulo their number
  linear,       \* the report of each direction's linear solve
  report,       \* SourceReport
  warnings,     \* RadiationDirectionWarning
  inputs        \* history: the intensities that each published angle was solved from

vars == <<controls, trouble, solve, phase, batch, direction, intensities, frozen,
          workspace, linear, report, warnings, inputs>>

None == [kind |-> "none"]
Happens(place, kind) ==
  {t \in trouble : t.solve = solve /\ t.iteration = report.iterations
                   /\ t.place = place /\ t.kind = kind}
First(failures) == IF failures = {} THEN None ELSE CHOOSE t \in failures : TRUE

\* concurrentAngles of initialize; maximumConcurrentAngles of 0 is no limit.
ConcurrentAngles(parallel, maximum) ==
  IF parallel THEN Max({1, Min({Directions, IF maximum > 0 THEN maximum ELSE Directions})})
              ELSE 1

OneWorkspace(angle) == 0
WorkspaceOf(angle) == (angle - 1) % controls.concurrent
Batch == {a \in Angles : (a - 1) \div controls.concurrent = batch}
LastBatch == (Directions - 1) \div controls.concurrent

LiveIntensities == intensities

\* With concurrent angles the sources are those of the last iteration; without,
\* each direction sees what the ones before it have just published.
Angular == IF controls.parallel THEN frozen ELSE intensities

Init ==
  /\ \E parallel \in BOOLEAN, maximum \in 0 .. Directions :
       controls = [parallel |-> parallel, concurrent |-> ConcurrentAngles(parallel, maximum)]
  /\ trouble \in Troubles
  /\ solve = 0 /\ phase = "idle" /\ batch = 0
  /\ direction = [a \in Angles |-> "waiting"]
  /\ intensities = [a \in Angles |-> 0] /\ frozen = intensities
  /\ workspace = [w \in 0 .. Directions - 1 |-> [angle |-> 0, failure |-> None, input |-> frozen]]
  /\ linear = [a \in Angles |-> [external |-> None, error |-> None, slow |-> FALSE]]
  /\ report = [iterations |-> 0, failure |-> None]
  /\ warnings = [a \in Angles |-> 0]
  /\ inputs = [a \in Angles |-> frozen]

\* The host launches sourceExecutable; initializeSource and the warnings cleared.
Launch ==
  /\ phase = "idle" /\ solve < Solves
  /\ solve' = solve + 1
  /\ phase' = "begin"
  /\ intensities' = [a \in Angles |-> 0]
  /\ report' = [iterations |-> 0, failure |-> None]
  /\ warnings' = [a \in Angles |-> 0]
  /\ UNCHANGED <<controls, trouble, batch, direction, frozen, workspace, linear, inputs>>

\* beginSourceIteration; the intensities are frozen; incidentFlux, rememberFailure.
BeginIteration ==
  /\ phase = "begin"
  /\ report' = [iterations |-> report.iterations + 1,
                failure |-> First({t \in trouble : t.solve = solve
                  /\ t.iteration = report.iterations + 1 /\ t.kind = "incident"})]
  /\ frozen' = IF controls.parallel THEN intensities ELSE frozen
  /\ direction' = [a \in Angles |-> "waiting"]
  /\ batch' = 0
  /\ phase' = "directions"
  /\ UNCHANGED <<controls, trouble, solve, intensities, workspace, linear, warnings, inputs>>

\* reset, stopFailedDirection and prepareDirection.  After a failure nothing is
\* prepared and the workspace carries the failure on.
Prepare(a) ==
  /\ phase = "directions" /\ a \in Batch /\ direction[a] = "waiting"
  /\ workspace' = [workspace EXCEPT ![WorkspaceOf(a)] =
       [angle |-> a, input |-> Angular,
        failure |-> IF report.failure # None THEN report.failure
                                             ELSE First(Happens(a, "prepare"))]]
  /\ direction' = [direction EXCEPT ![a] = "prepared"]
  /\ UNCHANGED <<controls, trouble, solve, phase, batch, intensities, frozen, linear,
                 report, warnings, inputs>>

\* The graph of appendSolve: UpwindSweep, or nothing for a workspace that failed.
SolveDirection(a) ==
  /\ phase = "directions" /\ direction[a] = "prepared"
  /\ LET failed == workspace[WorkspaceOf(a)].failure IN
     linear' = [linear EXCEPT ![a] =
       [external |-> failed,
        error |-> IF failed = None THEN First(Happens(a, "linear")) ELSE None,
        slow |-> failed = None /\ Happens(a, "slow") # {}]]
  /\ direction' = [direction EXCEPT ![a] = "solved"]
  /\ UNCHANGED <<controls, trouble, solve, phase, batch, intensities, frozen, workspace,
                 report, warnings, inputs>>

WhenSolved(a) == direction[a] = "solved"
InOrder(a) ==
  /\ direction[a] = "solved"
  /\ \A b \in Batch : direction[b] = IF b < a THEN "published" ELSE "solved"

\* finishDirectionReport and relaxedDirection, in angular order, once the whole
\* batch is solved.
Publish(a) ==
  /\ phase = "directions" /\ a \in Batch /\ InOrder(a)
  /\ LET failure == IF report.failure # None THEN report.failure
                    ELSE IF linear[a].external # None THEN linear[a].external
                    ELSE linear[a].error
     IN /\ report' = [report EXCEPT !.failure = failure]
        /\ warnings' = [warnings EXCEPT ![a] =
             IF failure = None /\ linear[a].slow THEN report.iterations ELSE @]
        /\ IF failure = None
             THEN /\ intensities' = [intensities EXCEPT ![a] = report.iterations]
                  /\ inputs' = [inputs EXCEPT ![a] = workspace[WorkspaceOf(a)].input]
             ELSE UNCHANGED <<intensities, inputs>>
  /\ direction' = [direction EXCEPT ![a] = "published"]
  /\ UNCHANGED <<controls, trouble, solve, phase, batch, frozen, workspace, linear>>

NextBatch ==
  /\ phase = "directions" /\ \A a \in Batch : direction[a] = "published"
  /\ IF batch = LastBatch THEN phase' = "finish" /\ UNCHANGED batch
                          ELSE batch' = batch + 1 /\ UNCHANGED phase
  /\ UNCHANGED <<controls, trouble, solve, direction, intensities, frozen, workspace,
                 linear, report, warnings, inputs>>

Continues(settled) ==
  report.failure = None /\ report.iterations < Budget /\ ~settled

FinishIteration ==
  /\ phase = "finish"
  /\ \E settled \in BOOLEAN : phase' = IF Continues(settled) THEN "begin" ELSE "results"
  /\ UNCHANGED <<controls, trouble, solve, batch, direction, intensities, frozen,
                 workspace, linear, report, warnings, inputs>>

\* incidentFlux, moments and boundaryResult; the first failure of all is kept.
FirstOf(results) ==
  IF results = {} THEN None ELSE CHOOSE t \in results : \A u \in results : t.place <= u.place

Results ==
  /\ phase = "results"
  /\ report' = [report EXCEPT !.failure = IF @ # None THEN @
       ELSE FirstOf({t \in trouble : t.solve = solve /\ t.kind = "result"})]
  /\ phase' = "idle"
  /\ UNCHANGED <<controls, trouble, solve, batch, direction, intensities, frozen,
                 workspace, linear, warnings, inputs>>

Done == phase = "idle" /\ solve = Solves /\ UNCHANGED vars

Next ==
  \/ Launch \/ BeginIteration \/ NextBatch \/ FinishIteration \/ Results \/ Done
  \/ \E a \in Angles : Prepare(a) \/ SolveDirection(a) \/ Publish(a)

Spec == Init /\ [][Next]_vars

----------------------------------------------------------------------------
(* Properties.                                                             *)

Before(t, u) ==
  \/ t.iteration < u.iteration
  \/ t.iteration = u.iteration /\ t.place < u.place
  \/ t.iteration = u.iteration /\ t.place = u.place /\ t.kind = "prepare" /\ u.kind = "linear"

\* A solve ends as the sequential algorithm over the angles would, however many are
\* solved at once: its failure is the first of that order; the angles before
\* it have been published by the last iteration and the others by the one
\* before; each was solved in a workspace of its own from the intensities that
\* the controls ask for; and a warning names the last iteration in which its
\* angle did not converge.
AsSequential ==
  phase = "idle" /\ solve > 0 =>
    LET reached == {t \in trouble : t.solve = solve /\ t.kind # "slow"
                      /\ (t.iteration <= report.iterations \/ t.iteration > Budget)}
        failed(a) == report.failure # None
          /\ report.failure.iteration <= Budget /\ report.failure.place <= a
    IN /\ IF reached = {}
            THEN report.failure = None
            ELSE /\ report.failure \in reached
                 /\ \A t \in reached : ~Before(t, report.failure)
       /\ \A a \in Angles :
            /\ intensities[a] = report.iterations - (IF failed(a) THEN 1 ELSE 0)
            /\ intensities[a] > 0 => \A b \in Angles :
                 inputs[a][b] =
                   intensities[a] - (IF ~controls.parallel /\ b < a THEN 0 ELSE 1)
            /\ warnings[a] = Max({0} \union {t.iteration : t \in {t \in trouble :
                 /\ t.solve = solve /\ t.kind = "slow" /\ t.place = a
                 /\ t.iteration <= intensities[a]}})
=============================================================================
