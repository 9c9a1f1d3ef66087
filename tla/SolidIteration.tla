------------------------------ MODULE SolidIteration ------------------------------
(***************************************************************************)
(* The nonlinear solution of the solid in one thermal exchange, which the  *)
(* device iterates by itself in a recorded graph: of one region, or of two *)
(* in contact.  In contact an outer loop repeats the whole window of both  *)
(* regions, at the same time, with another energy between them.  Nothing   *)
(* returns to the host but the state of the solid and the reports.         *)
(*                                                                         *)
(* A temperature is the energies it has received.  The diagnostics of the  *)
(* two regions are shared: one may see a fatal record of the other.        *)
(***************************************************************************)
EXTENDS Integers, FiniteSets

CONSTANTS
  MaximumIterations,      \* of the solution of a region in a window
  ContactIterations,      \* of the energy of contact
  MaxExchanges            \* bound of the exploration

ASSUME BudgetsAssumption ==
  /\ MaximumIterations \in Nat /\ ContactIterations \in Nat /\ MaxExchanges \in Nat

Regions == {"primary", "auxiliary"}

VARIABLES
  regions,     \* the primary one, or both in contact
  exchange,    \* number of the exchange
  outer,       \* progress of the graph: "idle", "evaluate", "candidates"
  inner,       \* progress of each region: "out", "begin", "assemble", "solve", "finish"
  solution,    \* energies in the temperature of a region, and whether they balance
  anchor,      \* energies in the temperature a window starts from
  window,      \* the solution when the window was first entered
  prescribed,  \* energies prescribed at the boundary
  scheduled,   \* windows by which the clock of the boundary jumps is advanced
  shown,       \* energies in the temperature that contact sees
  between,     \* the energy of contact
  residual,    \* the iteration whose residual relaxation remembers
  report,      \* SolidThermalIteration of each region
  contact,     \* SolidContactIteration
  fatal,       \* the latch of the diagnostics
  warnings     \* warnings recorded in the exchange

data == <<solution, anchor, window, prescribed, scheduled, residual>>
vars == <<regions, exchange, outer, inner, data, shown, between, report, contact, fatal, warnings>>

Interface(e) == [kind |-> "interface", exchange |-> e, iterate |-> 0]
Contact(e, k) == [kind |-> "contact", exchange |-> e, iterate |-> k]
Untouched == [energies |-> {}, balanced |-> TRUE]
Empty == [iteration |-> 0, valid |-> TRUE, converged |-> FALSE]
OneAtLeast(budget) == IF budget > 1 THEN budget ELSE 1
InContact == regions = Regions

Init ==
  /\ regions \in {{"primary"}, Regions}
  /\ exchange = 0 /\ outer = "idle"
  /\ inner = [r \in Regions |-> "out"]
  /\ solution = [r \in Regions |-> Untouched]
  /\ anchor = [r \in Regions |-> {}] /\ window = solution
  /\ prescribed = anchor /\ shown = anchor
  /\ scheduled = [r \in Regions |-> 0]
  /\ between = Contact(0, 0)
  /\ residual = [r \in Regions |-> <<0, between, 0>>]
  /\ report = [r \in Regions |-> Empty] /\ contact = Empty
  /\ fatal = FALSE /\ warnings = {}

\* A fatal record stays.  It is raised by a property or a residual that is no number.
MayFail == fatal' \in {fatal, TRUE}

----------------------------------------------------------------------------
(* The window of one region.                                               *)

\* SolidThermalIterationGraph::enqueue
Enqueue ==
  /\ outer = "idle" /\ ~InContact /\ exchange < MaxExchanges
  /\ exchange' = exchange + 1
  /\ inner' = [inner EXCEPT !["primary"] = "begin"]
  /\ outer' = "candidates" /\ warnings' = {}
  /\ UNCHANGED <<regions, data, shown, between, report, contact, fatal>>

Prescribed(r) ==
  (IF r = "primary" THEN {Interface(exchange)} ELSE {})
    \union (IF InContact THEN {between} ELSE {})

StartKeeping(r) == solution[r]
Start(r) == IF InContact THEN window[r] ELSE solution[r]

AnchorsThenStart(r) == solution[r].energies
Anchors(r) == Start(r).energies

\* A candidate of contact starts again from the window; the graph of one
\* region starts where it is, and has its clock advanced here.
BeginThermalWindow(r) ==
  /\ inner[r] = "begin"
  /\ solution' = [solution EXCEPT ![r] = Start(r)]
  /\ prescribed' = [prescribed EXCEPT ![r] = Prescribed(r)]
  /\ anchor' = [anchor EXCEPT ![r] = Anchors(r)]
  /\ report' = [report EXCEPT ![r] = [Empty EXCEPT !.valid = ~fatal]]
  /\ scheduled' = [scheduled EXCEPT ![r] = IF InContact THEN @ ELSE @ + 1]
  /\ inner' = [inner EXCEPT ![r] = IF fatal THEN "out" ELSE "assemble"]
  /\ outer' = IF fatal /\ ~InContact THEN "idle" ELSE outer
  /\ UNCHANGED <<regions, exchange, window, residual, shown, between, contact, fatal, warnings>>

\* The iteration is counted, and properties are evaluated at the last iterate.
Assemble(r) ==
  /\ inner[r] = "assemble"
  /\ report' = [report EXCEPT ![r].iteration = @ + 1]
  /\ MayFail
  /\ inner' = [inner EXCEPT ![r] = "solve"]
  /\ UNCHANGED <<regions, exchange, outer, data, shown, between, contact, warnings>>

\* The linear system adds what is prescribed to the anchors, whatever the last
\* iterate was.  Relaxation, and properties that change on the way, may leave
\* a part of it out.
Solve(r) ==
  /\ inner[r] = "solve"
  /\ \E balanced \in BOOLEAN :
       solution' = [solution EXCEPT ![r] =
         [energies |-> anchor[r] \union prescribed[r], balanced |-> balanced]]
  /\ residual' = [residual EXCEPT ![r] = <<exchange, between, report[r].iteration>>]
  /\ MayFail
  /\ inner' = [inner EXCEPT ![r] = "finish"]
  /\ UNCHANGED <<regions, exchange, outer, anchor, window, prescribed, scheduled, shown, between,
                 report, contact, warnings>>

AgainPastBudget(valid, converged, iteration, budget) ==
  valid /\ ~converged /\ iteration =< OneAtLeast(budget)
Again(valid, converged, iteration, budget) ==
  valid /\ ~converged /\ iteration < OneAtLeast(budget)

\* 34014 to 34017: the budget is spent on a valid iterate that has not converged.
Warned(valid, converged, again, reasons) ==
  IF valid /\ ~converged /\ ~again THEN warnings \union reasons ELSE warnings

FinishThermalIteration(r, still) ==
  LET valid == ~fatal
      converged == valid /\ still /\ solution[r].balanced
      again == Again(valid, converged, report[r].iteration, MaximumIterations)
  IN /\ inner[r] = "finish"
     /\ report' = [report EXCEPT ![r] = [@ EXCEPT !.valid = valid, !.converged = converged]]
     /\ warnings' = Warned(valid, converged, again,
                           (IF solution[r].balanced THEN {} ELSE {<<"residual", r>>})
                             \union (IF still THEN {} ELSE {<<"change", r>>}))
     /\ inner' = [inner EXCEPT ![r] = IF again THEN "assemble" ELSE "out"]
     /\ outer' = IF InContact \/ again THEN outer ELSE "idle"
     /\ UNCHANGED <<regions, exchange, data, shown, between, contact, fatal>>

----------------------------------------------------------------------------
(* The window of two regions in contact.                                   *)

\* enqueueContactWindowStart of both, and beginContactWindow.
EnqueueContact ==
  /\ outer = "idle" /\ InContact /\ exchange < MaxExchanges
  /\ exchange' = exchange + 1
  /\ window' = solution
  /\ scheduled' = [r \in Regions |-> scheduled[r] + 1]
  /\ shown' = [r \in Regions |-> solution[r].energies]
  /\ MayFail
  /\ contact' = [Empty EXCEPT !.valid = ~fatal']
  /\ outer' = IF fatal' THEN "idle" ELSE "evaluate"
  /\ warnings' = {}
  /\ UNCHANGED <<regions, inner, solution, anchor, prescribed, residual, between, report>>

\* One energy, given by one region and taken by the other; then both candidates.
Evaluate ==
  /\ outer = "evaluate"
  /\ between' = Contact(exchange, contact.iteration + 1)
  /\ inner' = [r \in Regions |-> "begin"]
  /\ outer' = "candidates"
  /\ UNCHANGED <<regions, exchange, data, shown, report, contact, fatal, warnings>>

OneDone == inner["primary"] = "out"
BothDone == \A r \in Regions : inner[r] = "out"

\* What contact sees is renewed for both, then finishContactIteration.
FinishContactIteration(still, settled) ==
  /\ outer = "candidates" /\ InContact /\ BothDone
  /\ shown' = [r \in Regions |-> solution[r].energies]
  /\ MayFail
  /\ LET valid == ~fatal'
         iteration == contact.iteration + 1
         converged == valid /\ still /\ settled
         again == Again(valid, converged, iteration, ContactIterations)
     IN /\ contact' = [iteration |-> iteration, valid |-> valid, converged |-> converged]
        /\ warnings' = Warned(valid, converged, again,
                              (IF still THEN {} ELSE {<<"temperature", "contact">>})
                                \union (IF settled THEN {} ELSE {<<"energy", "contact">>}))
        /\ outer' = IF again THEN "evaluate" ELSE "idle"
  /\ UNCHANGED <<regions, exchange, inner, data, between, report>>

Done == outer = "idle" /\ exchange = MaxExchanges /\ UNCHANGED vars

Window(r) ==
  \/ BeginThermalWindow(r) \/ Assemble(r) \/ Solve(r)
  \/ \E still \in BOOLEAN : FinishThermalIteration(r, still)

Next ==
  \/ Enqueue \/ EnqueueContact \/ Evaluate \/ Done
  \/ \E r \in Regions : Window(r)
  \/ \E still, settled \in BOOLEAN : FinishContactIteration(still, settled)

Spec == Init /\ [][Next]_vars

----------------------------------------------------------------------------
(* Properties.                                                             *)

Energies(r) == solution[r].energies
Exchanges == 1 .. exchange
OfContact(set) == {x \in set : x.kind = "contact"}

\* However many iterates, and candidates of contact, were solved on the way, the
\* gas's energy of every exchange is in the solid once, and so is one energy
\* of contact, which is the same in the region that gives it and in the one
\* that takes it; and the clocks of both boundaries count the exchanges.
EachEnergyOnce ==
  outer = "idle" /\ ~fatal =>
    /\ Energies("primary") \ OfContact(Energies("primary")) = {Interface(e) : e \in Exchanges}
    /\ OfContact(Energies("auxiliary")) = Energies("auxiliary")
    /\ InContact =>
         /\ Energies("auxiliary") = OfContact(Energies("primary"))
         /\ \A e \in Exchanges : Cardinality({x \in Energies("auxiliary") : x.exchange = e}) = 1
    /\ \A r \in regions : scheduled[r] = exchange

\* The energy of contact is computed from the temperatures of one candidate.
ContactSeesOneCandidate ==
  outer = "evaluate" =>
    /\ OfContact(shown["primary"]) = shown["auxiliary"]
    /\ \A r \in Regions : shown[r] = Energies(r)

\* Relaxation never mixes in a residual of another candidate or exchange.
RelaxationOfThisWindow ==
  \A r \in Regions :
    inner[r] = "solve" /\ report[r].iteration > 1 =>
      residual[r] = <<exchange, between, report[r].iteration - 1>>

\* A window of the solid takes in what it should, and nothing else.
WindowExact == EachEnergyOnce /\ ContactSeesOneCandidate /\ RelaxationOfThisWindow

\* The exchange ends in one of three ways: by a fatal record, which the report
\* of the graph shows although it may be of the other region or of a
\* candidate that is over; with balanced and converged solutions; or with a
\* warning of this exchange for each solution that is not.
Outcome == IF InContact THEN contact ELSE report["primary"]
Warns(of) == \E w \in warnings : w[2] = of
EndsAccountable ==
  outer = "idle" /\ exchange > 0 =>
    /\ Outcome.valid = ~fatal
    /\ Outcome.iteration =< OneAtLeast(IF InContact THEN ContactIterations ELSE MaximumIterations)
    /\ ~fatal =>
         /\ \A r \in regions : Warns(r) \/ (report[r].converged /\ solution[r].balanced)
         /\ InContact => Warns("contact") \/ contact.converged
=============================================================================
