---------------------- MODULE DeviceIterations_proofs ----------------------
(***************************************************************************)
(* Proofs about the three iterations that the device runs by itself.       *)
(*                                                                         *)
(* SolidIteration, for any budgets and any number of exchanges: the solid  *)
(* takes in each energy once, the energy of contact is that of one         *)
(* candidate, relaxation stays within its window, and an exchange ends     *)
(* converged, with a warning or with a fatal record.                       *)
(*                                                                         *)
(* UpwindSweep, for any mesh, any signs of the fluxes and any number of    *)
(* sweeps: the threads of the levels compute what a sweep over the cells   *)
(* one after the other would.                                              *)
(*                                                                         *)
(* SourceIteration, for any number of directions, iterations and solves,   *)
(* any number of workspaces and any failures: the batches of directions    *)
(* end as the iteration over the directions one after the other would.     *)
(***************************************************************************)
EXTENDS MCDeviceIterations, FiniteSetTheorems, WellFoundedInduction, TLAPS

-----------------------------------------------------------------------------
(* SolidIteration: the inductive invariant.                                  *)

Energy == [kind : {"interface", "contact"}, exchange : Nat, iterate : Nat]
Solutions == [energies : SUBSET Energy, balanced : BOOLEAN]
Reports == [iteration : Nat, valid : BOOLEAN, converged : BOOLEAN]
Reasons == {"residual", "change", "temperature", "energy"} \X (Regions \union {"contact"})

Types ==
  /\ regions \in {{"primary"}, Regions} /\ exchange \in Nat
  /\ outer \in {"idle", "evaluate", "candidates"}
  /\ inner \in [Regions -> {"out", "begin", "assemble", "solve", "finish"}]
  /\ solution \in [Regions -> Solutions] /\ window \in [Regions -> Solutions]
  /\ anchor \in [Regions -> SUBSET Energy] /\ prescribed \in [Regions -> SUBSET Energy]
  /\ shown \in [Regions -> SUBSET Energy] /\ scheduled \in [Regions -> Nat]
  /\ between \in Energy /\ between.kind = "contact"
  /\ residual \in [Regions -> Nat \X Energy \X Nat]
  /\ report \in [Regions -> Reports] /\ contact \in Reports
  /\ fatal \in BOOLEAN /\ warnings \in SUBSET Reasons

\* Which graph executes.
Stages ==
  /\ outer # "candidates" => \A r \in Regions : inner[r] = "out"
  /\ ~InContact => inner["auxiliary"] = "out" /\ outer # "evaluate"
  /\ ~InContact /\ outer = "candidates" => inner["primary"] # "out"
  /\ outer # "idle" => exchange >= 1
  /\ outer = "evaluate" => ~fatal
  /\ outer = "candidates" /\ InContact => between.exchange = exchange

\* The energies of n exchanges, once in the one region or in both.
OfEach(set, n) ==
  /\ \A x \in set : x.exchange \in 1 .. n
  /\ \A e \in 1 .. n : \E x \in set : \A y \in set : y.exchange = e <=> y = x
Exact(primary, auxiliary, n) ==
  /\ primary \ OfContact(primary) = {Interface(e) : e \in 1 .. n}
  /\ OfContact(auxiliary) = auxiliary
  /\ InContact => auxiliary = OfContact(primary) /\ OfEach(auxiliary, n)

\* Between two exchanges.
Rested ==
  outer = "idle" =>
    /\ Exact(Energies("primary"), Energies("auxiliary"), exchange)
    /\ \A r \in regions : scheduled[r] = exchange

\* The window of the only region: its anchors lack the energy of this exchange.
Alone ==
  ~InContact /\ outer = "candidates" =>
    /\ inner["primary"] = "begin" =>
         /\ Exact(Energies("primary"), Energies("auxiliary"), exchange - 1)
         /\ scheduled["primary"] = exchange - 1
    /\ inner["primary"] # "begin" =>
         /\ Exact(anchor["primary"], Energies("auxiliary"), exchange - 1)
         /\ prescribed["primary"] = {Interface(exchange)}
         /\ scheduled["primary"] = exchange
    /\ inner["primary"] = "finish" =>
         Energies("primary") = anchor["primary"] \union prescribed["primary"]

\* The window of both: its start is kept, and every candidate begins with it.
Together ==
  InContact /\ outer # "idle" =>
    /\ Exact(window["primary"].energies, window["auxiliary"].energies, exchange - 1)
    /\ \A r \in Regions : scheduled[r] = exchange
    /\ outer = "candidates" => \A r \in Regions :
         /\ inner[r] \in {"assemble", "solve", "finish"} =>
              anchor[r] = window[r].energies /\ prescribed[r] = Prescribed(r)
         /\ inner[r] \in {"finish", "out"} =>
              Energies(r) = window[r].energies \union Prescribed(r)

Balances == ~fatal => Rested /\ Alone /\ Together

\* The residual is that of the last iterate of this window.
Relaxing ==
  \A r \in Regions :
    /\ (inner[r] = "assemble" /\ report[r].iteration >= 1) \/ inner[r] = "finish" =>
         residual[r] = <<exchange, between, report[r].iteration>>
    /\ inner[r] = "solve" /\ report[r].iteration > 1 =>
         residual[r] = <<exchange, between, report[r].iteration - 1>>

\* An iteration is begun only within its budget.
Budgeted ==
  /\ \A r \in Regions :
       /\ report[r].iteration =< OneAtLeast(MaximumIterations)
       /\ inner[r] = "assemble" => report[r].iteration < OneAtLeast(MaximumIterations)
  /\ contact.iteration =< OneAtLeast(ContactIterations)
  /\ InContact /\ outer # "idle" => contact.iteration < OneAtLeast(ContactIterations)

\* What is over has converged or has been warned of.
Told(r) == Warns(r) \/ (report[r].converged /\ solution[r].balanced)
Reported ==
  /\ outer = "idle" /\ exchange > 0 =>
       /\ Outcome.valid = ~fatal
       /\ ~fatal /\ InContact => Warns("contact") \/ contact.converged
  /\ ~fatal /\ exchange > 0 /\ outer # "evaluate" =>
       \A r \in regions : inner[r] = "out" => Told(r)

SolidInv == Types /\ Stages /\ Balances /\ ContactSeesOneCandidate /\ Relaxing
              /\ Budgeted /\ Reported
-----------------------------------------------------------------------------
(* The energies.                                                             *)
LEMMA Numbers ==
  /\ MaximumIterations \in Nat /\ ContactIterations \in Nat /\ MaxExchanges \in Nat
  /\ OneAtLeast(MaximumIterations) \in Nat \ {0} /\ OneAtLeast(ContactIterations) \in Nat \ {0}
BY BudgetsAssumption DEF OneAtLeast

LEMMA Names ==
  /\ \A e \in Nat : Interface(e) \in Energy /\ Interface(e).kind = "interface"
  /\ \A e, k \in Nat : /\ Contact(e, k) \in Energy /\ Contact(e, k).kind = "contact"
                       /\ Contact(e, k).exchange = e
BY DEF Interface, Contact, Energy

LEMMA Untouching ==
  /\ Untouched \in Solutions /\ Untouched.energies = {}
  /\ Empty \in Reports /\ Empty.iteration = 0
BY DEF Untouched, Solutions, Empty, Reports

LEMMA ExactNone == Exact({}, {}, 0)
<1>1. OfContact({}) = {} BY DEF OfContact
<1>2. {Interface(e) : e \in 1 .. 0} = {} OBVIOUS
<1>3. OfEach({}, 0) BY DEF OfEach
<1> QED BY <1>1, <1>2, <1>3 DEF Exact

LEMMA ExactOne ==
  ASSUME NEW P, NEW A, NEW n \in Nat \ {0}, ~InContact, Exact(P, A, n - 1)
  PROVE  Exact(P \union {Interface(n)}, A, n)
<1>1. Interface(n).kind = "interface" BY Names
<1>2. OfContact(P \union {Interface(n)}) = OfContact(P) BY <1>1 DEF OfContact
<1>3. Interface(n) \notin OfContact(P) BY <1>1 DEF OfContact
<1>4. {Interface(e) : e \in 1 .. n} = {Interface(e) : e \in 1 .. n - 1} \union {Interface(n)}
  <2>1. \A e : e \in 1 .. n <=> e \in 1 .. n - 1 \/ e = n OBVIOUS
  <2> QED BY <2>1
<1> QED BY <1>2, <1>3, <1>4 DEF Exact

LEMMA ExactBoth ==
  ASSUME NEW P \in SUBSET Energy, NEW A \in SUBSET Energy, NEW n \in Nat \ {0}, InContact,
         Exact(P, A, n - 1),
         NEW c \in Energy, c.kind = "contact", c.exchange = n
  PROVE  Exact(P \union ({Interface(n)} \union {c}), A \union ({} \union {c}), n)
<1> DEFINE Q == P \union ({Interface(n)} \union {c})
           B == A \union ({} \union {c})
<1>1. Interface(n).kind = "interface" BY Names
<1>2. OfContact(Q) = OfContact(P) \union {c} BY <1>1 DEF OfContact
<1>3. Interface(n) \notin OfContact(P) \union {c} BY <1>1 DEF OfContact
<1>4. {Interface(e) : e \in 1 .. n} = {Interface(e) : e \in 1 .. n - 1} \union {Interface(n)}
  <2>1. \A e : e \in 1 .. n <=> e \in 1 .. n - 1 \/ e = n OBVIOUS
  <2> QED BY <2>1
<1>5. OfContact(B) = B BY DEF OfContact, Exact
<1>6. A = OfContact(P) /\ OfEach(A, n - 1) BY DEF Exact
<1>7. c \notin P \ OfContact(P)
  BY DEF OfContact
<1>8. Q \ OfContact(Q) = {Interface(e) : e \in 1 .. n}
  BY <1>2, <1>3, <1>4, <1>7 DEF Exact
<1>9. B = OfContact(Q) BY <1>2, <1>6
<1>10. OfEach(B, n)
  <2>1. \A x \in A : x.exchange \in 1 .. n - 1 BY <1>6 DEF OfEach
  <2>2. \A x \in B : x.exchange \in 1 .. n BY <2>1
  <2>3. ASSUME NEW e \in 1 .. n PROVE \E x \in B : \A y \in B : y.exchange = e <=> y = x
    <3>1. CASE e = n
      <4>1. \A y \in B : y.exchange = e <=> y = c BY <3>1, <2>1
      <4> QED BY <4>1
    <3>2. CASE e # n
      <4>1. e \in 1 .. n - 1 BY <3>2
      <4>2. PICK x \in A : \A y \in A : y.exchange = e <=> y = x BY <4>1, <1>6 DEF OfEach
      <4>3. \A y \in B : y.exchange = e <=> y = x BY <3>2, <4>2
      <4> QED BY <4>2, <4>3
    <3> QED BY <3>1, <3>2
  <2> QED BY <2>2, <2>3 DEF OfEach
<1> HIDE DEF Q, B
<1>11. Exact(Q, B, n) BY <1>5, <1>8, <1>9, <1>10 DEF Exact
<1> QED BY <1>11 DEF Q, B

LEMMA TwoRegions ==
  ASSUME Types
  PROVE  /\ "primary" \in Regions /\ "auxiliary" \in Regions /\ regions \subseteq Regions
         /\ \A r \in Regions : r = "primary" \/ r = "auxiliary"
         /\ ~InContact => regions = {"primary"}
         /\ "primary" \in regions
BY DEF Types, Regions, InContact

LEMMA Initially == Init => SolidInv
<1> SUFFICES ASSUME Init PROVE SolidInv OBVIOUS
<1> USE DEF Init
<1>1. Types
  <2>1. between \in Energy /\ between.kind = "contact" BY Names
  <2>2. \A r \in Regions : residual[r] \in Nat \X Energy \X Nat BY <2>1
  <2>3. residual \in [Regions -> Nat \X Energy \X Nat] BY <2>2
  <2>4. report \in [Regions -> Reports] /\ contact \in Reports BY Untouching
  <2>5. solution \in [Regions -> Solutions] /\ window \in [Regions -> Solutions] BY Untouching
  <2>6. anchor \in [Regions -> SUBSET Energy] /\ prescribed \in [Regions -> SUBSET Energy]
        /\ shown \in [Regions -> SUBSET Energy] /\ scheduled \in [Regions -> Nat]
    OBVIOUS
  <2>7. inner \in [Regions -> {"out", "begin", "assemble", "solve", "finish"}] OBVIOUS
  <2> QED BY <2>1, <2>3, <2>4, <2>5, <2>6, <2>7 DEF Types
<1>2. /\ outer = "idle" /\ exchange = 0 /\ \A r \in Regions : inner[r] = "out"
      /\ \A r \in Regions : scheduled[r] = 0 /\ solution[r].energies = {}
      /\ \A r \in Regions : report[r].iteration = 0
      /\ contact.iteration = 0
  BY Untouching
<1>3. Stages BY <1>1, <1>2, TwoRegions DEF Stages
<1>4. Balances
  <2>1. Energies("primary") = {} /\ Energies("auxiliary") = {}
    BY <1>1, <1>2, TwoRegions DEF Energies
  <2> QED BY <2>1, <1>1, <1>2, ExactNone, TwoRegions DEF Balances, Rested, Alone, Together
<1>5. ContactSeesOneCandidate BY <1>2 DEF ContactSeesOneCandidate
<1>6. Relaxing BY <1>2 DEF Relaxing
<1>7. Budgeted BY <1>2, Numbers DEF Budgeted
<1>8. Reported BY <1>2 DEF Reported
<1> QED BY <1>1, <1>3, <1>4, <1>5, <1>6, <1>7, <1>8 DEF SolidInv

-----------------------------------------------------------------------------
(* The window of one region.                                                 *)
LEMMA EnqueueKeeps == SolidInv /\ Enqueue => SolidInv'
<1> SUFFICES ASSUME SolidInv, Enqueue PROVE SolidInv' OBVIOUS
<1>1. /\ outer = "idle" /\ ~InContact /\ exchange' = exchange + 1
      /\ inner' = [inner EXCEPT !["primary"] = "begin"]
      /\ outer' = "candidates" /\ warnings' = {}
      /\ UNCHANGED <<regions, solution, anchor, window, prescribed, scheduled, residual, shown,
                     between, report, contact, fatal>>
  BY DEF Enqueue, data
<1>2. Types /\ Stages /\ Balances /\ Budgeted BY DEF SolidInv
<1>3. exchange \in Nat /\ exchange' - 1 = exchange /\ exchange' >= 1
  BY <1>1, <1>2 DEF Types
<1>4. inner'["primary"] = "begin" /\ inner'["auxiliary"] = "out"
  BY <1>1, <1>2, TwoRegions DEF Types, Stages
<1>5. Types'
  <2>1. inner' \in [Regions -> {"out", "begin", "assemble", "solve", "finish"}]
    BY <1>1, <1>2 DEF Types
  <2>2. exchange' \in Nat /\ warnings' \in SUBSET Reasons BY <1>1, <1>2 DEF Types
  <2> QED BY <2>1, <2>2, <1>1, <1>2 DEF Types
<1>6. ~InContact' BY <1>1 DEF InContact
<1>7. Stages' BY <1>1, <1>3, <1>4, <1>6 DEF Stages
<1>8. Balances'
  <2> SUFFICES ASSUME ~fatal' PROVE Rested' /\ Alone' /\ Together' BY DEF Balances
  <2>1. Rested BY <1>1, <1>2 DEF Balances
  <2>2. /\ Exact(Energies("primary"), Energies("auxiliary"), exchange)
        /\ scheduled["primary"] = exchange
    BY <2>1, <1>1, <1>2, TwoRegions DEF Rested
  <2>3. Exact(Energies("primary"), Energies("auxiliary"), exchange)'
          <=> Exact(Energies("primary"), Energies("auxiliary"), exchange')
    BY <1>1 DEF Exact, Energies, InContact
  <2>4. Exact(Energies("primary"), Energies("auxiliary"), exchange - 1)'
    BY <2>2, <1>1, <1>3 DEF Exact, Energies, InContact
  <2> QED BY <2>2, <2>4, <1>1, <1>3, <1>4, <1>6 DEF Rested, Alone, Together
<1>9. ContactSeesOneCandidate' BY <1>1 DEF ContactSeesOneCandidate
<1>10. Relaxing' BY <1>1, <1>2, <1>4, TwoRegions DEF Relaxing
<1>11. Budgeted' BY <1>1, <1>2, <1>4, <1>6, TwoRegions DEF Budgeted
<1>12. Reported'
  <2>1. \A r \in regions' : inner'[r] # "out" BY <1>1, <1>2, <1>4, TwoRegions
  <2> QED BY <2>1, <1>1 DEF Reported
<1> QED BY <1>5, <1>7, <1>8, <1>9, <1>10, <1>11, <1>12 DEF SolidInv

LEMMA AssembleKeeps ==
  ASSUME SolidInv, NEW r \in Regions, Assemble(r)
  PROVE  SolidInv'
<1>1. /\ inner[r] = "assemble" /\ inner' = [inner EXCEPT ![r] = "solve"]
      /\ report' = [report EXCEPT ![r].iteration = @ + 1]
      /\ fatal' \in {fatal, TRUE}
      /\ UNCHANGED <<regions, exchange, outer, solution, anchor, window, prescribed, scheduled,
                     residual, shown, between, contact, warnings>>
  BY DEF Assemble, data, MayFail
<1>2. Types /\ Stages /\ Balances /\ Relaxing /\ Budgeted /\ Reported /\ ContactSeesOneCandidate
  BY DEF SolidInv
<1>3. /\ inner'[r] = "solve" /\ \A k \in Regions : k # r => inner'[k] = inner[k]
      /\ report'[r] = [report[r] EXCEPT !.iteration = report[r].iteration + 1]
      /\ \A k \in Regions : k # r => report'[k] = report[k]
      /\ report[r] \in Reports
  BY <1>1, <1>2 DEF Types
<1>4. report'[r].iteration = report[r].iteration + 1 /\ report'[r] \in Reports
      /\ report[r].iteration \in Nat
  BY <1>3 DEF Reports
<1>5. fatal' \in BOOLEAN /\ (~fatal' => ~fatal) BY <1>1, <1>2 DEF Types
<1>6. outer = "candidates" /\ (InContact' <=> InContact) BY <1>1, <1>2 DEF Stages, InContact
<1>7. Types'
  <2>1. report' \in [Regions -> Reports] BY <1>1, <1>2, <1>3, <1>4 DEF Types
  <2> QED BY <2>1, <1>1, <1>2, <1>5 DEF Types
<1>8. Stages' BY <1>1, <1>2, <1>3, <1>6, TwoRegions DEF Stages
<1>9. Balances'
  <2> SUFFICES ASSUME ~fatal' PROVE Rested' /\ Alone' /\ Together' BY DEF Balances
  <2>1. Rested /\ Alone /\ Together BY <1>2, <1>5 DEF Balances
  <2>2. Rested' BY <1>1, <1>6 DEF Rested
  <2>3. Alone'
    BY <2>1, <1>1, <1>2, <1>3, <1>6, TwoRegions DEF Alone, Exact, Energies, InContact, Stages
  <2>4. Together'
    <3>1. \A k \in Regions : Prescribed(k)' = Prescribed(k) /\ Energies(k)' = Energies(k)
      BY <1>1 DEF Prescribed, Energies, InContact
    <3> QED BY <2>1, <3>1, <1>1, <1>3, <1>6 DEF Together, Exact, InContact
  <2> QED BY <2>2, <2>3, <2>4
<1>10. ContactSeesOneCandidate' BY <1>1, <1>6 DEF ContactSeesOneCandidate
<1>11. Relaxing'
  <2>1. \A k \in Regions : k # r =>
          /\ (inner'[k] = "assemble" /\ report'[k].iteration >= 1) \/ inner'[k] = "finish" =>
               residual'[k] = <<exchange', between', report'[k].iteration>>
          /\ inner'[k] = "solve" /\ report'[k].iteration > 1 =>
               residual'[k] = <<exchange', between', report'[k].iteration - 1>>
    BY <1>1, <1>2, <1>3 DEF Relaxing
  <2>2. report'[r].iteration > 1 =>
          residual'[r] = <<exchange', between', report'[r].iteration - 1>>
    BY <1>1, <1>2, <1>4 DEF Relaxing
  <2> QED BY <2>1, <2>2, <1>3 DEF Relaxing
<1>12. Budgeted'
  <2>1. report'[r].iteration =< OneAtLeast(MaximumIterations)
    BY <1>1, <1>2, <1>4, Numbers DEF Budgeted
  <2> QED BY <2>1, <1>1, <1>2, <1>3, <1>6 DEF Budgeted, OneAtLeast
<1>13. Reported'
  <2>1. \A k \in Regions : inner'[k] = "out" => inner[k] = "out" /\ (Told(k)' <=> Told(k))
    BY <1>1, <1>3 DEF Told, Warns
  <2> QED BY <2>1, <1>1, <1>2, <1>5, <1>6, TwoRegions DEF Reported
<1> QED BY <1>7, <1>8, <1>9, <1>10, <1>11, <1>12, <1>13 DEF SolidInv

LEMMA BeginKeeps ==
  ASSUME SolidInv, NEW r \in Regions, BeginThermalWindow(r)
  PROVE  SolidInv'
<1>1. /\ inner[r] = "begin"
      /\ solution' = [solution EXCEPT ![r] = Start(r)]
      /\ prescribed' = [prescribed EXCEPT ![r] = Prescribed(r)]
      /\ anchor' = [anchor EXCEPT ![r] = Start(r).energies]
      /\ report' = [report EXCEPT ![r] = [Empty EXCEPT !.valid = ~fatal]]
      /\ scheduled' = [scheduled EXCEPT ![r] = IF InContact THEN @ ELSE @ + 1]
      /\ inner' = [inner EXCEPT ![r] = IF fatal THEN "out" ELSE "assemble"]
      /\ outer' = IF fatal /\ ~InContact THEN "idle" ELSE outer
      /\ UNCHANGED <<regions, exchange, window, residual, shown, between, contact, fatal, warnings>>
  BY DEF BeginThermalWindow, Anchors
<1>2. Types /\ Stages /\ Balances /\ Relaxing /\ Budgeted /\ Reported /\ ContactSeesOneCandidate
  BY DEF SolidInv
<1>3. /\ outer = "candidates" /\ (InContact' <=> InContact) /\ (~InContact => r = "primary")
      /\ fatal \in BOOLEAN /\ exchange \in Nat /\ exchange >= 1
  BY <1>1, <1>2, TwoRegions DEF Types, Stages, InContact
<1>4. /\ Start(r) \in Solutions /\ Prescribed(r) \in SUBSET Energy /\ Start(r).energies \in SUBSET Energy
  <2>1. Start(r) \in Solutions BY <1>2 DEF Types, Start
  <2>2. Prescribed(r) \in SUBSET Energy BY <1>2, <1>3, Names DEF Types, Prescribed
  <2> QED BY <2>1, <2>2 DEF Solutions
<1>5. /\ solution'[r] = Start(r) /\ prescribed'[r] = Prescribed(r)
      /\ anchor'[r] = Start(r).energies
      /\ report'[r] = [Empty EXCEPT !.valid = ~fatal]
      /\ scheduled'[r] = IF InContact THEN scheduled[r] ELSE scheduled[r] + 1
      /\ inner'[r] = IF fatal THEN "out" ELSE "assemble"
      /\ scheduled[r] \in Nat
  BY <1>1, <1>2 DEF Types
<1>6. \A k \in Regions : k # r =>
        /\ solution'[k] = solution[k] /\ prescribed'[k] = prescribed[k] /\ anchor'[k] = anchor[k]
        /\ report'[k] = report[k] /\ scheduled'[k] = scheduled[k] /\ inner'[k] = inner[k]
  BY <1>1, <1>2 DEF Types
<1>7. report'[r] \in Reports /\ report'[r].iteration = 0 /\ report'[r].valid = ~fatal
  <2> DEFINE v == ~fatal
  <2>1. report'[r] = [Empty EXCEPT !.valid = v] BY <1>5
  <2>2. v \in BOOLEAN OBVIOUS
  <2> HIDE DEF v
  <2>3. report'[r] = [iteration |-> 0, valid |-> v, converged |-> FALSE] BY <2>1 DEF Empty
  <2>4. report'[r] \in Reports /\ report'[r].iteration = 0 /\ report'[r].valid = v
    BY <2>2, <2>3 DEF Reports
  <2> QED BY <2>4 DEF v
<1>8. Types'
  <2>1. solution' \in [Regions -> Solutions] BY <1>1, <1>2, <1>4 DEF Types
  <2>2. prescribed' \in [Regions -> SUBSET Energy] /\ anchor' \in [Regions -> SUBSET Energy]
    BY <1>1, <1>2, <1>4 DEF Types
  <2>3. report' \in [Regions -> Reports] BY <1>1, <1>2, <1>5, <1>7 DEF Types
  <2>4. scheduled' \in [Regions -> Nat] BY <1>1, <1>2, <1>5 DEF Types
  <2>5. inner' \in [Regions -> {"out", "begin", "assemble", "solve", "finish"}]
    BY <1>1, <1>2 DEF Types
  <2>6. outer' \in {"idle", "evaluate", "candidates"} BY <1>1, <1>3
  <2> QED BY <2>1, <2>2, <2>3, <2>4, <2>5, <2>6, <1>1, <1>2 DEF Types
<1>9. Stages'
  <2>1. CASE fatal /\ ~InContact
    <3>1. outer' = "idle" /\ inner'["primary"] = "out" /\ inner'["auxiliary"] = "out"
      BY <2>1, <1>1, <1>2, <1>3, <1>5, <1>6, TwoRegions DEF Stages
    <3> QED BY <3>1, <1>2, <1>3, TwoRegions DEF Stages
  <2>2. CASE ~(fatal /\ ~InContact)
    <3>1. outer' = "candidates" BY <2>2, <1>1, <1>3
    <3>2. ~InContact => inner'["primary"] # "out" /\ inner'["auxiliary"] = "out"
      BY <2>2, <1>2, <1>3, <1>5, <1>6, TwoRegions DEF Stages
    <3> QED BY <3>1, <3>2, <1>1, <1>2, <1>3 DEF Stages
  <2> QED BY <2>1, <2>2
<1>10. Balances'
  <2> SUFFICES ASSUME ~fatal' PROVE Rested' /\ Alone' /\ Together' BY DEF Balances
  <2>1. Alone /\ Together /\ outer' = "candidates" /\ inner'[r] = "assemble"
    BY <1>1, <1>2, <1>3, <1>5 DEF Balances
  <2>2. Rested' BY <2>1 DEF Rested
  <2>3. Alone'
    <3> SUFFICES ASSUME ~InContact PROVE Alone' BY <1>3 DEF Alone
    <3>1. /\ r = "primary"
          /\ Exact(Energies("primary"), Energies("auxiliary"), exchange - 1)
          /\ scheduled["primary"] = exchange - 1
      BY <2>1, <1>1, <1>3 DEF Alone
    <3>2. anchor'["primary"] = Energies("primary") BY <3>1, <1>5 DEF Start, Energies
    <3>3. Energies("auxiliary")' = Energies("auxiliary")
      BY <3>1, <1>2, <1>6, TwoRegions DEF Energies
    <3>4. Exact(anchor["primary"], Energies("auxiliary"), exchange - 1)'
      BY <3>1, <3>2, <3>3, <1>1, <1>3 DEF Exact
    <3>5. prescribed'["primary"] = {Interface(exchange)} BY <3>1, <1>5 DEF Prescribed
    <3>6. scheduled'["primary"] = exchange BY <3>1, <1>3, <1>5
    <3> QED BY <3>1, <3>4, <3>5, <3>6, <2>1, <1>1 DEF Alone
  <2>4. Together'
    <3> SUFFICES ASSUME InContact PROVE Together' BY <1>3 DEF Together
    <3>1. \A k \in Regions : Prescribed(k)' = Prescribed(k)
      BY <1>1 DEF Prescribed, InContact
    <3>2. \A k \in Regions : k # r => Energies(k)' = Energies(k) BY <1>6 DEF Energies
    <3>3. anchor'[r] = window[r].energies BY <1>5 DEF Start
    <3>4. \A k \in Regions : scheduled'[k] = scheduled[k] BY <1>5, <1>6
    <3>5. Exact(window["primary"].energies, window["auxiliary"].energies, exchange - 1)'
      BY <2>1, <1>1, <1>3 DEF Together, Exact
    <3>6. ASSUME NEW k \in Regions
          PROVE  /\ inner'[k] \in {"assemble", "solve", "finish"} =>
                      anchor'[k] = window'[k].energies /\ prescribed'[k] = Prescribed(k)'
                 /\ inner'[k] \in {"finish", "out"} =>
                      Energies(k)' = window'[k].energies \union Prescribed(k)'
      <4>1. CASE k = r BY <4>1, <3>1, <3>3, <2>1, <1>1, <1>5
      <4>2. CASE k # r BY <4>2, <3>1, <3>2, <2>1, <1>1, <1>3, <1>6 DEF Together
      <4> QED BY <4>1, <4>2
    <3> QED BY <3>4, <3>5, <3>6, <2>1, <1>1, <1>3 DEF Together
  <2> QED BY <2>2, <2>3, <2>4
<1>11. ContactSeesOneCandidate' BY <1>1, <1>3 DEF ContactSeesOneCandidate
<1>12. Relaxing'
  <2>1. \A k \in Regions : k # r =>
          /\ (inner'[k] = "assemble" /\ report'[k].iteration >= 1) \/ inner'[k] = "finish" =>
               residual'[k] = <<exchange', between', report'[k].iteration>>
          /\ inner'[k] = "solve" /\ report'[k].iteration > 1 =>
               residual'[k] = <<exchange', between', report'[k].iteration - 1>>
    BY <1>1, <1>2, <1>6 DEF Relaxing
  <2>2. inner'[r] \in {"out", "assemble"} /\ ~(report'[r].iteration >= 1) BY <1>5, <1>7
  <2> QED BY <2>1, <2>2 DEF Relaxing
<1>13. Budgeted'
  <2>1. 0 < OneAtLeast(MaximumIterations) /\ 0 =< OneAtLeast(MaximumIterations) BY Numbers
  <2>2. outer' # "idle" => outer # "idle" BY <1>3
  <2> QED BY <2>1, <2>2, <1>1, <1>2, <1>3, <1>6, <1>7 DEF Budgeted, OneAtLeast
<1>14. Reported'
  <2>1. CASE fatal
    <3>1. outer' = "idle" => ~InContact' /\ report'["primary"].valid = ~fatal'
      BY <2>1, <1>1, <1>3, <1>7
    <3> QED BY <3>1, <2>1, <1>1 DEF Reported, Outcome
  <2>2. CASE ~fatal
    <3>1. outer' = "candidates" /\ inner'[r] # "out" BY <2>2, <1>1, <1>3, <1>5
    <3>2. \A k \in Regions : k # r => (inner'[k] = inner[k] /\ (Told(k)' <=> Told(k)))
      BY <1>1, <1>6 DEF Told, Warns
    <3>3. \A k \in Regions : inner'[k] = "out" => inner[k] = "out" /\ (Told(k)' <=> Told(k))
      BY <3>1, <3>2
    <3> QED BY <3>1, <3>3, <2>2, <1>1, <1>2, <1>3, TwoRegions DEF Reported
  <2> QED BY <2>1, <2>2, <1>3
<1> QED BY <1>8, <1>9, <1>10, <1>11, <1>12, <1>13, <1>14 DEF SolidInv

LEMMA SolveKeeps ==
  ASSUME SolidInv, NEW r \in Regions, Solve(r)
  PROVE  SolidInv'
<1>1. PICK balanced \in BOOLEAN :
        solution' = [solution EXCEPT ![r] =
          [energies |-> anchor[r] \union prescribed[r], balanced |-> balanced]]
  BY DEF Solve
<1>2. /\ inner[r] = "solve" /\ inner' = [inner EXCEPT ![r] = "finish"]
      /\ residual' = [residual EXCEPT ![r] = <<exchange, between, report[r].iteration>>]
      /\ fatal' \in {fatal, TRUE}
      /\ UNCHANGED <<regions, exchange, outer, anchor, window, prescribed, scheduled, shown,
                     between, report, contact, warnings>>
  BY DEF Solve, MayFail
<1>3. Types /\ Stages /\ Balances /\ Relaxing /\ Budgeted /\ Reported
  BY DEF SolidInv
<1>4. /\ solution'[r] = [energies |-> anchor[r] \union prescribed[r], balanced |-> balanced]
      /\ inner'[r] = "finish"
      /\ residual'[r] = <<exchange, between, report[r].iteration>>
  BY <1>1, <1>2, <1>3 DEF Types
<1>5. \A k \in Regions : k # r =>
        solution'[k] = solution[k] /\ inner'[k] = inner[k] /\ residual'[k] = residual[k]
  BY <1>1, <1>2, <1>3 DEF Types
<1>6. outer = "candidates" /\ (InContact' <=> InContact) /\ (~InContact => r = "primary")
  BY <1>2, <1>3, TwoRegions DEF Stages, InContact
<1>7. fatal' \in BOOLEAN /\ (~fatal' => ~fatal) BY <1>2, <1>3 DEF Types
<1>8. Types'
  <2>1. solution'[r] \in Solutions BY <1>3, <1>4 DEF Types, Solutions
  <2>2. solution' \in [Regions -> Solutions] BY <2>1, <1>1, <1>3, <1>4 DEF Types
  <2>3. residual'[r] \in Nat \X Energy \X Nat
    <3>1. exchange \in Nat /\ between \in Energy /\ report[r].iteration \in Nat
      BY <1>3 DEF Types, Reports
    <3> QED BY <3>1, <1>4
  <2>4. residual' \in [Regions -> Nat \X Energy \X Nat] BY <2>3, <1>2, <1>3, <1>4 DEF Types
  <2>5. inner' \in [Regions -> {"out", "begin", "assemble", "solve", "finish"}]
    BY <1>2, <1>3 DEF Types
  <2> QED BY <2>2, <2>4, <2>5, <1>2, <1>3, <1>7 DEF Types
<1>9. Stages' BY <1>2, <1>3, <1>4, <1>5, <1>6, TwoRegions DEF Stages
<1>10. Energies(r)' = anchor[r] \union prescribed[r]
       /\ \A k \in Regions : k # r => Energies(k)' = Energies(k)
  BY <1>4, <1>5 DEF Energies
<1>11. Balances'
  <2> SUFFICES ASSUME ~fatal' PROVE Rested' /\ Alone' /\ Together' BY DEF Balances
  <2>1. Alone /\ Together BY <1>3, <1>7 DEF Balances
  <2>2. Rested' BY <1>2, <1>6 DEF Rested
  <2>3. Alone'
    <3> SUFFICES ASSUME ~InContact PROVE Alone' BY <1>6 DEF Alone
    <3>1. /\ r = "primary"
          /\ Exact(anchor["primary"], Energies("auxiliary"), exchange - 1)
          /\ prescribed["primary"] = {Interface(exchange)} /\ scheduled["primary"] = exchange
      BY <2>1, <1>2, <1>6 DEF Alone
    <3>2. Exact(anchor["primary"], Energies("auxiliary"), exchange - 1)'
      BY <3>1, <1>2, <1>3, <1>6, <1>10, TwoRegions DEF Exact
    <3> QED BY <3>1, <3>2, <1>2, <1>4, <1>10 DEF Alone
  <2>4. Together'
    <3> SUFFICES ASSUME InContact PROVE Together' BY <1>6 DEF Together
    <3>1. \A k \in Regions : Prescribed(k)' = Prescribed(k)
      BY <1>2 DEF Prescribed, InContact
    <3>2. Exact(window["primary"].energies, window["auxiliary"].energies, exchange - 1)'
      BY <2>1, <1>2, <1>6 DEF Together, Exact
    <3>3. anchor[r] = window[r].energies /\ prescribed[r] = Prescribed(r)
      BY <2>1, <1>2, <1>6 DEF Together
    <3>4. ASSUME NEW k \in Regions
          PROVE  /\ inner'[k] \in {"assemble", "solve", "finish"} =>
                      anchor'[k] = window'[k].energies /\ prescribed'[k] = Prescribed(k)'
                 /\ inner'[k] \in {"finish", "out"} =>
                      Energies(k)' = window'[k].energies \union Prescribed(k)'
      <4>1. CASE k = r BY <4>1, <3>1, <3>3, <1>2, <1>4, <1>10
      <4>2. CASE k # r BY <4>2, <3>1, <2>1, <1>2, <1>5, <1>6, <1>10 DEF Together
      <4> QED BY <4>1, <4>2
    <3> QED BY <3>2, <3>4, <2>1, <1>2, <1>6 DEF Together
  <2> QED BY <2>2, <2>3, <2>4
<1>12. ContactSeesOneCandidate' BY <1>2, <1>6 DEF ContactSeesOneCandidate
<1>13. Relaxing' BY <1>2, <1>3, <1>4, <1>5 DEF Relaxing
<1>14. Budgeted' BY <1>2, <1>3, <1>4, <1>5, <1>6 DEF Budgeted, OneAtLeast
<1>15. Reported'
  <2>1. \A k \in Regions : k # r => (inner'[k] = inner[k] /\ (Told(k)' <=> Told(k)))
    BY <1>2, <1>5 DEF Told, Warns
  <2>2. \A k \in Regions : inner'[k] = "out" => inner[k] = "out" /\ (Told(k)' <=> Told(k))
    BY <2>1, <1>4
  <2> QED BY <2>2, <1>2, <1>3, <1>6, <1>7, TwoRegions DEF Reported
<1> QED BY <1>8, <1>9, <1>11, <1>12, <1>13, <1>14, <1>15 DEF SolidInv

LEMMA FinishThermalKeeps ==
  ASSUME SolidInv, NEW r \in Regions, NEW still \in BOOLEAN, FinishThermalIteration(r, still)
  PROVE  SolidInv'
<1> DEFINE converged == ~fatal /\ still /\ solution[r].balanced
           again == Again(~fatal, converged, report[r].iteration, MaximumIterations)
           reasons == (IF solution[r].balanced THEN {} ELSE {<<"residual", r>>})
                        \union (IF still THEN {} ELSE {<<"change", r>>})
<1>1. /\ inner[r] = "finish"
      /\ report' = [report EXCEPT ![r] = [@ EXCEPT !.valid = ~fatal, !.converged = converged]]
      /\ warnings' = Warned(~fatal, converged, again, reasons)
      /\ inner' = [inner EXCEPT ![r] = IF again THEN "assemble" ELSE "out"]
      /\ outer' = IF InContact \/ again THEN outer ELSE "idle"
      /\ UNCHANGED <<regions, exchange, solution, anchor, window, prescribed, scheduled, residual,
                     shown, between, contact, fatal>>
  BY DEF FinishThermalIteration, data
<1>2. Types /\ Stages /\ Balances /\ Relaxing /\ Budgeted /\ Reported
  BY DEF SolidInv
<1>3. /\ outer = "candidates" /\ (InContact' <=> InContact) /\ (~InContact => r = "primary")
      /\ fatal \in BOOLEAN /\ exchange \in Nat /\ exchange >= 1
      /\ report[r] \in Reports /\ solution[r].balanced \in BOOLEAN
  BY <1>1, <1>2, TwoRegions DEF Types, Stages, InContact, Solutions
<1>4. /\ again => ~fatal /\ report[r].iteration < OneAtLeast(MaximumIterations)
      /\ ~fatal /\ ~again => converged \/ report[r].iteration >= OneAtLeast(MaximumIterations)
      /\ converged \in BOOLEAN /\ again \in BOOLEAN
  BY <1>3, Numbers DEF Again, Reports
<1>5. /\ report'[r].iteration = report[r].iteration /\ report'[r].valid = ~fatal
      /\ report'[r].converged = converged /\ report'[r] \in Reports
  <2> DEFINE v == ~fatal
             c == converged
  <2>1. /\ report'[r] = [report[r] EXCEPT !.valid = v, !.converged = c]
        /\ v \in BOOLEAN /\ c \in BOOLEAN
    BY <1>1, <1>2, <1>4 DEF Types
  <2> HIDE DEF v, c
  <2>2. /\ report'[r].iteration = report[r].iteration /\ report'[r].valid = v
        /\ report'[r].converged = c /\ report'[r] \in Reports
    BY <2>1, <1>3 DEF Reports
  <2> QED BY <2>2 DEF v, c
<1>6. inner'[r] = (IF again THEN "assemble" ELSE "out")
      /\ \A k \in Regions : k # r => report'[k] = report[k] /\ inner'[k] = inner[k]
  BY <1>1, <1>2 DEF Types
<1>7. /\ warnings \subseteq warnings' /\ warnings' \subseteq warnings \union reasons
      /\ reasons \subseteq Reasons
  <2>1. reasons \subseteq Reasons BY DEF Reasons
  <2> QED BY <2>1, <1>1 DEF Warned
<1>8. ~fatal /\ ~again => Told(r)'
  <2> SUFFICES ASSUME ~fatal, ~again PROVE Told(r)' OBVIOUS
  <2>1. CASE converged BY <2>1, <1>1, <1>5 DEF Told
  <2>2. CASE ~converged
    <3>1. warnings' = warnings \union reasons BY <2>2, <1>1 DEF Warned
    <3>2. <<"residual", r>> \in warnings' \/ <<"change", r>> \in warnings' BY <2>2, <3>1
    <3> QED BY <3>2 DEF Told, Warns
  <2> QED BY <2>1, <2>2
<1> HIDE DEF converged, again, reasons
<1>9. Types'
  <2>1. report' \in [Regions -> Reports]
    BY <1>1, <1>2, <1>5, <1>6 DEF Types
  <2>2. inner' \in [Regions -> {"out", "begin", "assemble", "solve", "finish"}]
    BY <1>1, <1>2 DEF Types
  <2>3. outer' \in {"idle", "evaluate", "candidates"} BY <1>1, <1>3
  <2>4. warnings' \in SUBSET Reasons BY <1>2, <1>7 DEF Types
  <2> QED BY <2>1, <2>2, <2>3, <2>4, <1>1, <1>2 DEF Types
<1>10. Stages'
  <2>1. CASE InContact \/ again
    <3>1. ~InContact => inner'["primary"] # "out" /\ inner'["auxiliary"] = "out"
      BY <2>1, <1>2, <1>3, <1>6, TwoRegions DEF Stages
    <3> QED BY <3>1, <2>1, <1>1, <1>2, <1>3 DEF Stages
  <2>2. CASE ~(InContact \/ again)
    <3>1. outer' = "idle" /\ inner'["primary"] = "out" /\ inner'["auxiliary"] = "out"
      BY <2>2, <1>1, <1>2, <1>3, <1>6, TwoRegions DEF Stages
    <3> QED BY <3>1, <1>2, <1>3, TwoRegions DEF Stages
  <2> QED BY <2>1, <2>2
<1>11. Balances'
  <2> SUFFICES ASSUME ~fatal' PROVE Rested' /\ Alone' /\ Together' BY DEF Balances
  <2>1. Alone /\ Together BY <1>1, <1>2 DEF Balances
  <2>2. \A k \in Regions : Energies(k)' = Energies(k) /\ Prescribed(k)' = Prescribed(k)
    BY <1>1 DEF Energies, Prescribed, InContact
  <2>3. CASE InContact
    <3>1. Rested' /\ Alone' BY <2>3, <1>1, <1>3 DEF Rested, Alone
    <3>2. Exact(window["primary"].energies, window["auxiliary"].energies, exchange - 1)'
      BY <2>1, <2>3, <1>1, <1>3 DEF Together, Exact
    <3>3. \A k \in Regions :
            /\ inner'[k] \in {"assemble", "solve", "finish"} =>
                 inner[k] \in {"assemble", "solve", "finish"}
            /\ inner'[k] \in {"finish", "out"} => inner[k] \in {"finish", "out"}
      BY <1>1, <1>6
    <3> QED BY <3>1, <3>2, <3>3, <2>1, <2>2, <2>3, <1>1, <1>3 DEF Together
  <2>4. CASE ~InContact
    <3>1. /\ r = "primary"
          /\ Exact(anchor["primary"], Energies("auxiliary"), exchange - 1)
          /\ prescribed["primary"] = {Interface(exchange)} /\ scheduled["primary"] = exchange
          /\ Energies("primary") = anchor["primary"] \union prescribed["primary"]
      BY <2>1, <2>4, <1>1, <1>3 DEF Alone
    <3>2. CASE again
      <4>1. outer' = "candidates" /\ inner'["primary"] = "assemble" BY <3>1, <3>2, <1>1, <1>3, <1>6
      <4>2. Exact(anchor["primary"], Energies("auxiliary"), exchange - 1)'
        BY <3>1, <2>2, <1>1, <1>3, TwoRegions, <1>2 DEF Exact
      <4> QED BY <4>1, <4>2, <3>1, <2>4, <1>1, <1>3 DEF Rested, Alone, Together
    <3>3. CASE ~again
      <4>1. outer' = "idle" BY <3>3, <2>4, <1>1
      <4>2. Exact(Energies("primary"), Energies("auxiliary"), exchange)
        <5>1. exchange \in Nat \ {0} BY <1>3
        <5> QED BY <5>1, <3>1, <2>4, ExactOne
      <4>3. Exact(Energies("primary"), Energies("auxiliary"), exchange)'
        BY <4>2, <2>2, <1>1, <1>2, <1>3, TwoRegions DEF Exact
      <4>4. \A k \in regions' : scheduled'[k] = exchange'
        BY <3>1, <2>4, <1>1, <1>2, TwoRegions
      <4> QED BY <4>1, <4>3, <4>4 DEF Rested, Alone, Together
    <3> QED BY <3>2, <3>3
  <2> QED BY <2>3, <2>4
<1>12. ContactSeesOneCandidate' BY <1>1, <1>3 DEF ContactSeesOneCandidate
<1>13. Relaxing'
  <2>1. residual[r] = <<exchange, between, report[r].iteration>> BY <1>1, <1>2 DEF Relaxing
  <2>2. inner'[r] # "finish" /\ inner'[r] # "solve" BY <1>6
  <2> QED BY <2>1, <2>2, <1>1, <1>2, <1>5, <1>6 DEF Relaxing
<1>14. Budgeted'
  <2>1. inner'[r] = "assemble" => report'[r].iteration < OneAtLeast(MaximumIterations)
    BY <1>4, <1>5, <1>6
  <2> QED BY <2>1, <1>1, <1>2, <1>3, <1>5, <1>6 DEF Budgeted, OneAtLeast
<1>15. Reported'
  <2>1. \A k \in Regions : k # r => (Told(k) => Told(k)')
    BY <1>1, <1>6, <1>7 DEF Told, Warns
  <2>2. outer' = "idle" => ~InContact /\ report'["primary"].valid = ~fatal'
    BY <1>1, <1>3, <1>5
  <2>3. ~fatal => \A k \in regions : inner'[k] = "out" => Told(k)'
    <3>1. ASSUME ~fatal, NEW k \in regions, inner'[k] = "out" PROVE Told(k)'
      <4>1. CASE k = r BY <4>1, <3>1, <1>6, <1>8
      <4>2. CASE k # r
        <5>1. k \in Regions BY <1>2, TwoRegions
        <5> QED BY <5>1, <4>2, <3>1, <2>1, <1>2, <1>3, <1>6 DEF Reported
      <4> QED BY <4>1, <4>2
    <3> QED BY <3>1
  <2> QED BY <2>2, <2>3, <1>1, <1>3 DEF Reported, Outcome, InContact
<1> QED BY <1>9, <1>10, <1>11, <1>12, <1>13, <1>14, <1>15 DEF SolidInv

-----------------------------------------------------------------------------
(* The window of two regions in contact.                                     *)
LEMMA EnqueueContactKeeps == SolidInv /\ EnqueueContact => SolidInv'
<1> SUFFICES ASSUME SolidInv, EnqueueContact PROVE SolidInv' OBVIOUS
<1>1. /\ outer = "idle" /\ InContact /\ exchange' = exchange + 1
      /\ window' = solution
      /\ scheduled' = [r \in Regions |-> scheduled[r] + 1]
      /\ shown' = [r \in Regions |-> solution[r].energies]
      /\ fatal' \in {fatal, TRUE}
      /\ contact' = [Empty EXCEPT !.valid = ~fatal']
      /\ outer' = IF fatal' THEN "idle" ELSE "evaluate"
      /\ warnings' = {}
      /\ UNCHANGED <<regions, inner, solution, anchor, prescribed, residual, between, report>>
  BY DEF EnqueueContact, MayFail
<1>2. Types /\ Stages /\ Balances /\ Relaxing /\ Budgeted /\ Reported
  BY DEF SolidInv
<1>3. /\ exchange \in Nat /\ exchange' - 1 = exchange /\ exchange' >= 1
      /\ fatal' \in BOOLEAN /\ (~fatal' => ~fatal) /\ InContact' /\ regions = Regions
  <2>1. exchange \in Nat BY <1>2 DEF Types
  <2>2. exchange' - 1 = exchange /\ exchange' >= 1 BY <2>1, <1>1
  <2>3. fatal' \in BOOLEAN /\ (~fatal' => ~fatal) BY <1>1, <1>2 DEF Types
  <2>4. InContact' /\ regions = Regions BY <1>1 DEF InContact
  <2> QED BY <2>1, <2>2, <2>3, <2>4
<1>4. contact' \in Reports /\ contact'.iteration = 0 /\ contact'.valid = ~fatal'
  <2> DEFINE v == ~fatal'
  <2>1. contact' = [Empty EXCEPT !.valid = v] BY <1>1
  <2>2. v \in BOOLEAN OBVIOUS
  <2> HIDE DEF v
  <2>3. contact' = [iteration |-> 0, valid |-> v, converged |-> FALSE] BY <2>1 DEF Empty
  <2>4. contact' \in Reports /\ contact'.iteration = 0 /\ contact'.valid = v
    BY <2>2, <2>3 DEF Reports
  <2> QED BY <2>4 DEF v
<1>5. Types'
  <2>1. scheduled' \in [Regions -> Nat] BY <1>1, <1>2 DEF Types
  <2>2. \A r \in Regions : solution[r].energies \in SUBSET Energy BY <1>2 DEF Types, Solutions
  <2>3. shown' \in [Regions -> SUBSET Energy] BY <2>2, <1>1
  <2>4. warnings' \in SUBSET Reasons /\ exchange' \in Nat BY <1>1, <1>3
  <2>5. outer' \in {"idle", "evaluate", "candidates"} BY <1>1
  <2>6. window' \in [Regions -> Solutions] BY <1>1, <1>2 DEF Types
  <2> QED BY <2>1, <2>3, <2>4, <2>5, <2>6, <1>1, <1>2, <1>3, <1>4 DEF Types
<1>6. \A r \in Regions : inner'[r] = "out" BY <1>1, <1>2 DEF Stages
<1>7. Stages' BY <1>1, <1>3, <1>6 DEF Stages
<1>8. \A r \in Regions : /\ shown'[r] = Energies(r) /\ Energies(r)' = Energies(r)
                         /\ window'[r].energies = Energies(r)
  BY <1>1 DEF Energies
<1>9. Balances' /\ ContactSeesOneCandidate'
  <2> SUFFICES ASSUME ~fatal' PROVE Balances' /\ ContactSeesOneCandidate'
    BY <1>1 DEF Balances, ContactSeesOneCandidate
  <2>1. /\ Exact(Energies("primary"), Energies("auxiliary"), exchange)
        /\ \A r \in Regions : scheduled[r] = exchange
    BY <1>1, <1>2, <1>3 DEF Balances, Rested
  <2>2. Exact(window["primary"].energies, window["auxiliary"].energies, exchange - 1)'
    BY <2>1, <1>1, <1>2, <1>3, <1>8, TwoRegions DEF Exact
  <2>3. \A r \in Regions : scheduled'[r] = exchange' BY <2>1, <1>1
  <2>4. OfContact(shown'["primary"]) = shown'["auxiliary"]
    BY <2>1, <1>1, <1>2, <1>8, TwoRegions DEF Exact
  <2> QED BY <2>2, <2>3, <2>4, <1>1, <1>3, <1>8
      DEF Balances, Rested, Alone, Together, ContactSeesOneCandidate
<1>10. Relaxing' BY <1>6 DEF Relaxing
<1>11. Budgeted'
  <2>1. 0 < OneAtLeast(ContactIterations) /\ 0 =< OneAtLeast(ContactIterations) BY Numbers
  <2> QED BY <2>1, <1>1, <1>2, <1>4, <1>6 DEF Budgeted, OneAtLeast
<1>12. Reported' BY <1>1, <1>3, <1>4 DEF Reported, Outcome
<1> QED BY <1>5, <1>7, <1>9, <1>10, <1>11, <1>12 DEF SolidInv

LEMMA EvaluateKeeps == SolidInv /\ Evaluate => SolidInv'
<1> SUFFICES ASSUME SolidInv, Evaluate PROVE SolidInv' OBVIOUS
<1>1. /\ outer = "evaluate" /\ outer' = "candidates"
      /\ between' = Contact(exchange, contact.iteration + 1)
      /\ inner' = [r \in Regions |-> "begin"]
      /\ UNCHANGED <<regions, exchange, solution, anchor, window, prescribed, scheduled, residual,
                     shown, report, contact, fatal, warnings>>
  BY DEF Evaluate, data
<1>2. Types /\ Stages /\ Balances /\ Relaxing /\ Budgeted /\ Reported
  BY DEF SolidInv
<1>3. /\ InContact /\ InContact' /\ \A r \in Regions : inner'[r] = "begin"
      /\ "primary" \in Regions
  BY <1>1, <1>2, TwoRegions DEF Stages, InContact
<1>4. between' \in Energy /\ between'.kind = "contact" /\ between'.exchange = exchange
  <2>1. exchange \in Nat /\ contact.iteration + 1 \in Nat BY <1>2 DEF Types, Reports
  <2> QED BY <2>1, <1>1, Names
<1>5. Types'
  <2>1. inner' \in [Regions -> {"out", "begin", "assemble", "solve", "finish"}] BY <1>1
  <2> QED BY <2>1, <1>1, <1>2, <1>4 DEF Types
<1>6. Stages' BY <1>1, <1>2, <1>3, <1>4 DEF Stages
<1>7. Balances'
  <2> SUFFICES ASSUME ~fatal' PROVE Rested' /\ Alone' /\ Together' BY DEF Balances
  <2>1. Together BY <1>1, <1>2 DEF Balances
  <2>2. Exact(window["primary"].energies, window["auxiliary"].energies, exchange - 1)'
    BY <2>1, <1>1, <1>3 DEF Together, Exact
  <2> QED BY <2>1, <2>2, <1>1, <1>3 DEF Rested, Alone, Together
<1>8. ContactSeesOneCandidate' BY <1>1 DEF ContactSeesOneCandidate
<1>9. Relaxing' BY <1>3 DEF Relaxing
<1>10. Budgeted' BY <1>1, <1>2, <1>3 DEF Budgeted, OneAtLeast
<1>11. Reported' BY <1>1, <1>2, <1>3, TwoRegions DEF Reported
<1> QED BY <1>5, <1>6, <1>7, <1>8, <1>9, <1>10, <1>11 DEF SolidInv

LEMMA FinishContactKeeps ==
  ASSUME SolidInv, NEW still \in BOOLEAN, NEW settled \in BOOLEAN,
         FinishContactIteration(still, settled)
  PROVE  SolidInv'
<1> DEFINE iteration == contact.iteration + 1
           converged == ~fatal' /\ still /\ settled
           again == Again(~fatal', converged, iteration, ContactIterations)
           reasons == (IF still THEN {} ELSE {<<"temperature", "contact">>})
                        \union (IF settled THEN {} ELSE {<<"energy", "contact">>})
<1>1. /\ outer = "candidates" /\ InContact /\ \A r \in Regions : inner[r] = "out"
      /\ shown' = [r \in Regions |-> solution[r].energies]
      /\ fatal' \in {fatal, TRUE}
      /\ contact' = [iteration |-> iteration, valid |-> ~fatal', converged |-> converged]
      /\ warnings' = Warned(~fatal', converged, again, reasons)
      /\ outer' = IF again THEN "evaluate" ELSE "idle"
      /\ UNCHANGED <<regions, exchange, inner, solution, anchor, window, prescribed, scheduled,
                     residual, between, report>>
  BY DEF FinishContactIteration, MayFail, BothDone, data
<1>2. Types /\ Stages /\ Balances /\ Relaxing /\ Budgeted /\ Reported
  BY DEF SolidInv
<1>3. /\ exchange \in Nat /\ exchange >= 1 /\ contact.iteration \in Nat
      /\ fatal' \in BOOLEAN /\ (~fatal' => ~fatal) /\ InContact' /\ regions = Regions
      /\ contact.iteration < OneAtLeast(ContactIterations)
  BY <1>1, <1>2 DEF Types, Stages, Budgeted, InContact, Reports
<1>4. /\ again => ~fatal' /\ iteration < OneAtLeast(ContactIterations)
      /\ converged \in BOOLEAN /\ iteration \in Nat
      /\ iteration =< OneAtLeast(ContactIterations)
  BY <1>3, Numbers DEF Again
<1>5. contact' \in Reports /\ contact'.iteration = iteration /\ contact'.valid = ~fatal'
      /\ contact'.converged = converged
  <2> DEFINE v == ~fatal'
             c == converged
             i == iteration
  <2>1. contact' = [iteration |-> i, valid |-> v, converged |-> c] BY <1>1
  <2>2. v \in BOOLEAN /\ c \in BOOLEAN /\ i \in Nat BY <1>4
  <2> HIDE DEF v, c, i
  <2>3. contact' \in Reports /\ contact'.iteration = i /\ contact'.valid = v /\ contact'.converged = c
    BY <2>1, <2>2 DEF Reports
  <2> QED BY <2>3 DEF v, c, i
<1>6. warnings \subseteq warnings' /\ warnings' \subseteq Reasons
  <2>1. reasons \subseteq Reasons BY DEF Reasons
  <2> QED BY <2>1, <1>1, <1>2 DEF Warned, Types
<1>7. ~fatal' /\ ~again => Warns("contact")' \/ converged
  <2> SUFFICES ASSUME ~fatal', ~again, ~converged PROVE Warns("contact")' OBVIOUS
  <2>1. warnings' = warnings \union reasons BY <1>1 DEF Warned
  <2>2. <<"temperature", "contact">> \in warnings' \/ <<"energy", "contact">> \in warnings'
    BY <2>1
  <2> QED BY <2>2 DEF Warns
<1> HIDE DEF iteration, converged, again, reasons
<1>8. Types'
  <2>1. \A r \in Regions : solution[r].energies \in SUBSET Energy BY <1>2 DEF Types, Solutions
  <2>2. shown' \in [Regions -> SUBSET Energy] BY <2>1, <1>1
  <2>3. outer' \in {"idle", "evaluate", "candidates"} BY <1>1
  <2> QED BY <2>2, <2>3, <1>1, <1>2, <1>3, <1>5, <1>6 DEF Types
<1>9. Stages' BY <1>1, <1>3, <1>4 DEF Stages
<1>10. \A r \in Regions : shown'[r] = Energies(r) /\ Energies(r)' = Energies(r)
  BY <1>1 DEF Energies
<1>11. Balances' /\ ContactSeesOneCandidate'
  <2> SUFFICES ASSUME ~fatal' PROVE Balances' /\ ContactSeesOneCandidate'
    BY <1>1, <1>4 DEF Balances, ContactSeesOneCandidate
  <2>1. Together BY <1>2, <1>3 DEF Balances
  <2>2. /\ Exact(window["primary"].energies, window["auxiliary"].energies, exchange - 1)
        /\ \A r \in Regions : scheduled[r] = exchange
        /\ \A r \in Regions : Energies(r) = window[r].energies \union Prescribed(r)
    BY <2>1, <1>1 DEF Together
  <2>3. Exact(Energies("primary"), Energies("auxiliary"), exchange)
    <3> DEFINE P == window["primary"].energies
               A == window["auxiliary"].energies
    <3>1. P \in SUBSET Energy /\ A \in SUBSET Energy
      BY <1>2, TwoRegions DEF Types, Solutions
    <3>2. between \in Energy /\ between.kind = "contact" /\ between.exchange = exchange
      BY <1>1, <1>2 DEF Types, Stages
    <3>3. Prescribed("primary") = {Interface(exchange)} \union {between}
          /\ Prescribed("auxiliary") = {} \union {between}
      BY <1>1 DEF Prescribed
    <3>4. exchange \in Nat \ {0} /\ Exact(P, A, exchange - 1) BY <1>3, <2>2
    <3>5. /\ Energies("primary") = P \union ({Interface(exchange)} \union {between})
          /\ Energies("auxiliary") = A \union ({} \union {between})
      BY <3>3, <2>2, <1>2, TwoRegions
    <3> HIDE DEF P, A
    <3>6. Exact(P \union ({Interface(exchange)} \union {between}), A \union ({} \union {between}),
                exchange)
      BY <3>1, <3>2, <3>4, <1>1, ExactBoth
    <3> QED BY <3>5, <3>6
  <2>4. Exact(Energies("primary"), Energies("auxiliary"), exchange)'
    BY <2>3, <1>1, <1>2, <1>3, <1>10, TwoRegions DEF Exact
  <2>5. OfContact(shown'["primary"]) = shown'["auxiliary"]
    BY <2>3, <1>1, <1>2, <1>10, TwoRegions DEF Exact
  <2>6. Exact(window["primary"].energies, window["auxiliary"].energies, exchange - 1)'
    BY <2>2, <1>1, <1>3 DEF Exact
  <2> QED BY <2>2, <2>4, <2>5, <2>6, <1>1, <1>3, <1>10
      DEF Balances, Rested, Alone, Together, ContactSeesOneCandidate
<1>12. Relaxing' BY <1>1, <1>2 DEF Relaxing
<1>13. Budgeted'
  <2>1. outer' # "idle" => again BY <1>1
  <2> QED BY <2>1, <1>1, <1>2, <1>4, <1>5 DEF Budgeted, OneAtLeast
<1>14. Reported'
  <2>1. \A k \in Regions : Told(k) => Told(k)' BY <1>1, <1>6 DEF Told, Warns
  <2>2. ~fatal' => \A k \in regions : Told(k) BY <1>1, <1>2, <1>3 DEF Reported
  <2>3. outer' = "idle" => ~again BY <1>1
  <2> QED BY <2>1, <2>2, <2>3, <1>1, <1>3, <1>5, <1>7 DEF Reported, Outcome
<1> QED BY <1>8, <1>9, <1>11, <1>12, <1>13, <1>14 DEF SolidInv

-----------------------------------------------------------------------------
(* What an exchange promises.                                                *)
LEMMA StepKeeps == SolidInv /\ [Next]_vars => SolidInv'
<1> SUFFICES ASSUME SolidInv, [Next]_vars PROVE SolidInv' OBVIOUS
<1>1. CASE Enqueue BY <1>1, EnqueueKeeps
<1>2. CASE EnqueueContact BY <1>2, EnqueueContactKeeps
<1>3. CASE Evaluate BY <1>3, EvaluateKeeps
<1>4. ASSUME NEW r \in Regions, Window(r) PROVE SolidInv'
  <2>1. CASE BeginThermalWindow(r) BY <2>1, BeginKeeps
  <2>2. CASE Assemble(r) BY <2>2, AssembleKeeps
  <2>3. CASE Solve(r) BY <2>3, SolveKeeps
  <2>4. CASE \E still \in BOOLEAN : FinishThermalIteration(r, still) BY <2>4, FinishThermalKeeps
  <2> QED BY <2>1, <2>2, <2>3, <2>4, <1>4 DEF Window
<1>5. CASE \E still, settled \in BOOLEAN : FinishContactIteration(still, settled)
  BY <1>5, FinishContactKeeps
<1>6. CASE UNCHANGED vars
  <2>1. UNCHANGED <<regions, exchange, outer, inner, solution, anchor, window, prescribed,
                    scheduled, residual, shown, between, report, contact, fatal, warnings>>
    BY <1>6 DEF vars, data
  <2>2. \A r \in Regions : /\ Energies(r)' = Energies(r) /\ Prescribed(r)' = Prescribed(r)
                           /\ (Told(r)' <=> Told(r))
    BY <2>1 DEF Energies, Prescribed, Told, Warns, InContact
  <2>3. Types' BY <2>1 DEF SolidInv, Types
  <2>4. Stages' BY <2>1 DEF SolidInv, Stages, InContact
  <2>5. Balances'
    <3>1. Types /\ Balances BY DEF SolidInv
    <3>2. Rested' <=> Rested BY <2>1, <2>2, <3>1, TwoRegions DEF Rested, Exact, InContact
    <3>3. Alone' <=> Alone BY <2>1, <2>2, <3>1, TwoRegions DEF Alone, Exact, InContact
    <3>4. Together' <=> Together BY <2>1, <2>2 DEF Together, Exact, InContact
    <3> QED BY <3>1, <3>2, <3>3, <3>4, <2>1 DEF Balances
  <2>6. ContactSeesOneCandidate' BY <2>1, <2>2 DEF SolidInv, ContactSeesOneCandidate
  <2>7. Relaxing' BY <2>1 DEF SolidInv, Relaxing
  <2>8. Budgeted' BY <2>1 DEF SolidInv, Budgeted, OneAtLeast, InContact
  <2>9. Reported'
    <3>1. Types /\ Reported BY DEF SolidInv
    <3> QED BY <3>1, <2>1, <2>2, TwoRegions DEF Reported, Outcome, Warns, InContact
  <2> QED BY <2>3, <2>4, <2>5, <2>6, <2>7, <2>8, <2>9 DEF SolidInv
<1> QED BY <1>1, <1>2, <1>3, <1>4, <1>5, <1>6 DEF Next, Done

LEMMA AlwaysSolid == Spec => []SolidInv
BY Initially, StepKeeps, PTL DEF Spec

\* However many iterates and candidates were solved on the way, each exchange
\* has given the solid the energy of its interface once, and both regions the
\* same energy of contact; contact is evaluated from one candidate, and
\* relaxation uses no residual of another window (WindowExact:
\* beginThermalWindow, finishThermalIteration and finishContactIteration).
THEOREM EnergiesExact == Spec => []WindowExact
<1>1. SolidInv => WindowExact
  <2> SUFFICES ASSUME SolidInv PROVE WindowExact OBVIOUS
  <2>1. EachEnergyOnce
    <3> SUFFICES ASSUME outer = "idle", ~fatal PROVE EachEnergyOnce BY DEF EachEnergyOnce
    <3>1. /\ Exact(Energies("primary"), Energies("auxiliary"), exchange)
          /\ \A r \in regions : scheduled[r] = exchange
      BY DEF SolidInv, Balances, Rested
    <3>2. ASSUME InContact, NEW e \in Exchanges
          PROVE  Cardinality({x \in Energies("auxiliary") : x.exchange = e}) = 1
      <4> DEFINE S == {x \in Energies("auxiliary") : x.exchange = e}
      <4>1. OfEach(Energies("auxiliary"), exchange) BY <3>1, <3>2 DEF Exact
      <4>2. PICK x \in Energies("auxiliary") :
              \A y \in Energies("auxiliary") : y.exchange = e <=> y = x
        BY <4>1 DEF OfEach, Exchanges
      <4>3. S = {x} BY <4>2
      <4>4. Cardinality({x}) = 1 BY FS_Singleton
      <4> QED BY <4>3, <4>4
    <3> QED BY <3>1, <3>2 DEF EachEnergyOnce, Exact, Exchanges
  <2>2. ContactSeesOneCandidate BY DEF SolidInv
  <2>3. RelaxationOfThisWindow BY DEF SolidInv, Relaxing, RelaxationOfThisWindow
  <2> QED BY <2>1, <2>2, <2>3 DEF WindowExact
<1> QED BY <1>1, AlwaysSolid, PTL

\* When an exchange is over, its report says whether a fatal record was raised, its
\* iterations are within the budget, and every solution that did not converge
\* has been warned of (EndsAccountable: finishThermalIteration and
\* finishContactIteration).
THEOREM ExchangesEndAccountable == Spec => []EndsAccountable
<1>1. SolidInv => EndsAccountable
  <2> SUFFICES ASSUME SolidInv, outer = "idle", exchange > 0 PROVE EndsAccountable
    BY DEF EndsAccountable
  <2>1. Types /\ Stages /\ Budgeted /\ Reported BY DEF SolidInv
  <2>2. Outcome.valid = ~fatal BY <2>1 DEF Reported
  <2>3. Outcome.iteration =< OneAtLeast(IF InContact THEN ContactIterations ELSE MaximumIterations)
    BY <2>1, TwoRegions DEF Outcome, Budgeted
  <2>4. ~fatal => /\ \A r \in regions : Told(r)
                  /\ InContact => Warns("contact") \/ contact.converged
    BY <2>1, TwoRegions DEF Reported, Stages
  <2> QED BY <2>2, <2>3, <2>4 DEF EndsAccountable, Told
<1> QED BY <1>1, AlwaysSolid, PTL

-----------------------------------------------------------------------------
(* UpwindSweep: the levels.                                                  *)
Below == OpToRel(<, Nat)

LEMMA Least ==
  ASSUME NEW T \in SUBSET Nat, T # {}
  PROVE  \E m \in T : \A n \in T : m =< n
<1>1. IsWellFoundedOn(Below, Nat) BY NatLessThanWellFounded DEF Below
<1>2. PICK m \in T : \A n \in T : ~(<<n, m>> \in Below) BY <1>1, WFMin
<1>3. \A a, b \in Nat : a < b => <<a, b>> \in Below BY DEF Below, OpToRel
<1>4. \A n \in T : ~(n < m) BY <1>2, <1>3
<1> QED BY <1>4

LEMMA Greatest ==
  ASSUME NEW T \in SUBSET Nat, T # {}, NEW top \in Nat, \A n \in T : n =< top
  PROVE  \E m \in T : \A n \in T : n =< m
<1> DEFINE U == {m \in Nat : \A n \in T : n =< m}
<1>1. PICK m \in U : \A k \in U : m =< k
  <2>1. U \in SUBSET Nat /\ U # {} OBVIOUS
  <2> HIDE DEF U
  <2> QED BY <2>1, Least
<1>2. m \in T
  <2> SUFFICES ASSUME m \notin T PROVE FALSE OBVIOUS
  <2>1. \A n \in T : n < m BY <1>1
  <2>2. PICK t \in T : TRUE OBVIOUS
  <2>3. m - 1 \in U BY <2>1, <2>2
  <2> QED BY <2>3, <1>1
<1> QED BY <1>1, <1>2

LEMMA MaxOf ==
  ASSUME NEW T \in SUBSET Nat, T # {}, NEW top \in Nat, \A n \in T : n =< top
  PROVE  Sweep!Max(T) \in T /\ \A n \in T : n =< Sweep!Max(T)
<1>1. PICK m \in T : \A n \in T : n =< m BY Greatest
<1>2. \A n \in T : m >= n BY <1>1
<1>3. Sweep!Max(T) \in T /\ \A n \in T : Sweep!Max(T) >= n BY <1>2 DEF Sweep!Max
<1> QED BY <1>3

LEMMA MinOf ==
  ASSUME NEW T \in SUBSET Nat, T # {}
  PROVE  Sweep!Min(T) \in T /\ \A n \in T : Sweep!Min(T) =< n
<1>1. PICK m \in T : \A n \in T : m =< n BY Least
<1> QED BY <1>1 DEF Sweep!Min

LEMMA LevelAfterAll ==
  ASSUME NEW k \in Nat, NEW T, T \subseteq 0 .. k - 1
  PROVE  Sweep!LevelAfter(T) \in 0 .. k /\ \A t \in T : t < Sweep!LevelAfter(T)
<1>1. CASE T = {} BY <1>1 DEF Sweep!LevelAfter
<1>2. CASE T # {}
  <2>1. T \in SUBSET Nat /\ \A n \in T : n =< k OBVIOUS
  <2>2. Sweep!Max(T) \in T /\ \A n \in T : n =< Sweep!Max(T) BY <2>1, <1>2, MaxOf
  <2>3. Sweep!LevelAfter(T) = Sweep!Max(T) + 1 BY <1>2 DEF Sweep!LevelAfter
  <2> DEFINE m == Sweep!Max(T)
  <2>4. m \in 0 .. k - 1 /\ \A n \in T : n =< m /\ n \in Nat BY <2>1, <2>2
  <2> HIDE DEF m
  <2>5. m + 1 \in 0 .. k /\ \A n \in T : n < m + 1 BY <2>4
  <2> QED BY <2>3, <2>5 DEF m
<1> QED BY <1>1, <1>2

\* The cells before a cell that it takes its inflow from.
Before(cell) == {n \in Sweep!Upstream(cell) : n < cell}

\* Levels of the first k cells that the plan could have given them.
LeveledTo(k, f) ==
  /\ f \in [1 .. k -> Nat]
  /\ \A cell \in 1 .. k :
       f[cell] \in 0 .. cell - 1 /\ f[cell] = Sweep!LevelAfter({f[n] : n \in Before(cell)})

LEMMA Upstreams ==
  ASSUME Sweep!SweepAssumption, NEW cell
  PROVE  /\ Sweep!Upstream(cell) \subseteq Sweep!Cells
         /\ cell \in Nat => Before(cell) \subseteq 1 .. cell - 1
<1>1. Faces \subseteq [owner : Sweep!Cells, adjacent : Sweep!Cells, number : Nat]
      /\ CellCount \in Nat
  BY DEF Sweep!SweepAssumption
<1>2. Sweep!Upstream(cell) \subseteq Sweep!Cells BY <1>1 DEF Sweep!Upstream
<1>3. Sweep!Cells = 1 .. CellCount BY DEF Sweep!Cells
<1> QED BY <1>1, <1>2, <1>3 DEF Before

\* The levels of one more cell.
LEMMA NextLeveled ==
  ASSUME Sweep!SweepAssumption, NEW k \in Nat, NEW f, LeveledTo(k, f)
  PROVE  \E g : LeveledTo(k + 1, g)
<1> DEFINE T == {f[n] : n \in Before(k + 1)}
           v == Sweep!LevelAfter(T)
           g == [cell \in 1 .. k + 1 |-> IF cell = k + 1 THEN v ELSE f[cell]]
<1>1. /\ f \in [1 .. k -> Nat]
      /\ \A cell \in 1 .. k :
           f[cell] \in 0 .. cell - 1 /\ f[cell] = Sweep!LevelAfter({f[n] : n \in Before(cell)})
  BY DEF LeveledTo
<1>2. Before(k + 1) \subseteq 1 .. k
  <2> DEFINE c == k + 1
  <2>1. c \in Nat /\ c - 1 = k OBVIOUS
  <2> HIDE DEF c
  <2>2. Before(c) \subseteq 1 .. c - 1 BY <2>1, Upstreams
  <2>3. Before(c) \subseteq 1 .. k BY <2>1, <2>2
  <2> QED BY <2>3 DEF c
<1>3. T \subseteq 0 .. k - 1
  <2>1. \A cell \in 1 .. k : f[cell] \in 0 .. cell - 1 BY <1>1
  <2>2. \A cell \in 1 .. k : f[cell] \in 0 .. k - 1 BY <2>1
  <2>3. \A n \in Before(k + 1) : f[n] \in 0 .. k - 1 BY <2>2, <1>2
  <2> QED BY <2>3
<1>4. v \in 0 .. k
  <2> HIDE DEF T
  <2> QED BY <1>3, LevelAfterAll
<1>5. \A cell \in 1 .. k : g[cell] = f[cell] OBVIOUS
<1>6. g[k + 1] = v OBVIOUS
<1>7. ASSUME NEW cell \in 1 .. k + 1
      PROVE  /\ g[cell] \in 0 .. cell - 1
             /\ g[cell] = Sweep!LevelAfter({g[n] : n \in Before(cell)})
  <2>1. Before(cell) \subseteq 1 .. cell - 1 BY Upstreams
  <2>2. \A n \in Before(cell) : n \in 1 .. k BY <2>1
  <2>3. {g[n] : n \in Before(cell)} = {f[n] : n \in Before(cell)} BY <2>2, <1>5
  <2>4. CASE cell = k + 1
    <3>1. {g[n] : n \in Before(cell)} = T BY <2>3, <2>4
    <3>2. g[cell] = v BY <2>4, <1>6
    <3>3. g[cell] = Sweep!LevelAfter({g[n] : n \in Before(cell)}) BY <3>1, <3>2
    <3>4. cell - 1 = k BY <2>4
    <3> HIDE DEF v, g, T
    <3>5. g[cell] \in 0 .. cell - 1 BY <3>2, <3>4, <1>4
    <3> QED BY <3>3, <3>5
  <2>5. CASE cell # k + 1
    <3>1. cell \in 1 .. k BY <2>5
    <3> HIDE DEF g
    <3> QED BY <3>1, <2>3, <1>1, <1>5
  <2> QED BY <2>4, <2>5
<1>8. g \in [1 .. k + 1 -> Nat]
  <2> DEFINE D == 1 .. k + 1
  <2>2. DOMAIN g = D /\ g = [cell \in D |-> g[cell]] OBVIOUS
  <2> HIDE DEF g
  <2>3. \A cell \in D : g[cell] \in 0 .. cell - 1 BY <1>7
  <2>1. \A cell \in D : g[cell] \in Nat BY <2>3
  <2> HIDE DEF D
  <2>4. g \in [D -> Nat] BY <2>1, <2>2
  <2> QED BY <2>4 DEF D
<1> HIDE DEF g
<1> QED BY <1>7, <1>8 DEF LeveledTo

LEMMA AllLeveled ==
  ASSUME Sweep!SweepAssumption
  PROVE  \E f : LeveledTo(CellCount, f)
<1> DEFINE T == {k \in Nat : ~\E f : LeveledTo(k, f)}
<1> SUFFICES ASSUME T # {} PROVE FALSE BY DEF Sweep!SweepAssumption
<1>1. PICK k \in T : \A n \in T : k =< n
  <2>1. T \in SUBSET Nat OBVIOUS
  <2> HIDE DEF T
  <2> QED BY <2>1, Least
<1>2. CASE k = 0
  <2>1. LeveledTo(0, [cell \in 1 .. 0 |-> 0]) BY DEF LeveledTo
  <2> QED BY <2>1, <1>2
<1>3. CASE k # 0
  <2>1. k - 1 \in Nat /\ k - 1 \notin T /\ k = (k - 1) + 1 BY <1>1, <1>3
  <2>2. PICK f : LeveledTo(k - 1, f) BY <2>1
  <2>3. \E g : LeveledTo((k - 1) + 1, g) BY <2>1, <2>2, NextLeveled
  <2> QED BY <2>1, <2>3
<1> QED BY <1>2, <1>3

\* The equation that defines the levels has a solution, which the levels are.
LEMMA LevelsSolved ==
  ASSUME NEW f,
         f = [cell \in Sweep!Cells |->
                Sweep!LevelAfter({f[n] : n \in {n \in Sweep!Upstream(cell) : n < cell}})]
  PROVE  \E l : /\ l = Sweep!Levels
                /\ l = [cell \in Sweep!Cells |->
                          Sweep!LevelAfter({l[n] : n \in {n \in Sweep!Upstream(cell) : n < cell}})]
BY DEF Sweep!Levels

\* The level of a cell is above those of the cells it has to wait for.
LEMMA LevelsRise ==
  ASSUME Sweep!SweepAssumption
  PROVE  /\ Sweep!Levels \in [Sweep!Cells -> Nat]
         /\ \A cell \in Sweep!Cells : Sweep!Levels[cell] < CellCount
         /\ \A cell \in Sweep!Cells : \A n \in Sweep!Upstream(cell) :
              n < cell => Sweep!Levels[n] < Sweep!Levels[cell]
<1> DEFINE C == Sweep!Cells
<1>1. C = 1 .. CellCount /\ CellCount \in Nat BY DEF Sweep!Cells, Sweep!SweepAssumption
<1>2. PICK f : LeveledTo(CellCount, f) BY AllLeveled
<1>3. f = [cell \in C |-> Sweep!LevelAfter({f[n] : n \in {n \in Sweep!Upstream(cell) : n < cell}})]
  <2>1. f = [cell \in C |-> f[cell]] BY <1>1, <1>2 DEF LeveledTo
  <2>2. \A cell \in C : f[cell] = Sweep!LevelAfter({f[n] : n \in Before(cell)})
    BY <1>1, <1>2 DEF LeveledTo
  <2>3. \A cell \in C : Before(cell) = {n \in Sweep!Upstream(cell) : n < cell} BY DEF Before
  <2> QED BY <2>1, <2>2, <2>3
<1>4. PICK L : /\ L = Sweep!Levels
               /\ L = [cell \in C |->
                         Sweep!LevelAfter({L[n] : n \in {n \in Sweep!Upstream(cell) : n < cell}})]
  BY <1>3, LevelsSolved
<1>5. \A cell \in C : L[cell] = Sweep!LevelAfter({L[n] : n \in Before(cell)})
  BY <1>4 DEF Before
<1> DEFINE T == {cell \in C : ~(L[cell] \in 0 .. cell - 1)}
<1>6. T = {}
  <2> SUFFICES ASSUME T # {} PROVE FALSE OBVIOUS
  <2>1. PICK k \in T : \A n \in T : k =< n
    <3>1. T \in SUBSET Nat BY <1>1
    <3> HIDE DEF T
    <3> QED BY <3>1, Least
  <2>2. k \in Nat /\ k - 1 \in Nat /\ k \in C /\ Before(k) \subseteq 1 .. k - 1 BY <1>1, Upstreams
  <2>3. \A n \in Before(k) : n \in C /\ n \notin T /\ n \in 1 .. k - 1 BY <2>1, <2>2, <1>1
  <2>4. \A n \in Before(k) : L[n] \in 0 .. (k - 1) - 1 BY <2>2, <2>3
  <2> DEFINE W == {L[n] : n \in Before(k)}
  <2>5. W \subseteq 0 .. (k - 1) - 1 BY <2>4
  <2>6. L[k] = Sweep!LevelAfter(W) BY <2>2, <1>5
  <2> HIDE DEF W
  <2>7. L[k] \in 0 .. k - 1 BY <2>2, <2>5, <2>6, LevelAfterAll
  <2> QED BY <2>1, <2>7
<1>7. \A cell \in C : L[cell] \in 0 .. cell - 1 BY <1>6
<1> HIDE DEF T
<1>8. ASSUME NEW cell \in C, NEW n \in Sweep!Upstream(cell), n < cell PROVE L[n] < L[cell]
  <2>1. n \in Before(cell) BY <1>8 DEF Before
  <2>2. cell \in Nat /\ Before(cell) \subseteq 1 .. cell - 1 BY <1>1, Upstreams
  <2>3. \A m \in Before(cell) : L[m] \in 0 .. cell - 1 BY <2>2, <1>1, <1>7
  <2> DEFINE W == {L[m] : m \in Before(cell)}
  <2>4. W \subseteq 0 .. cell - 1 /\ L[n] \in W BY <2>1, <2>3
  <2>5. L[cell] = Sweep!LevelAfter(W) BY <1>5
  <2> HIDE DEF W
  <2> QED BY <2>2, <2>4, <2>5, LevelAfterAll
<1>9. L \in [C -> Nat]
  <2>1. DOMAIN L = C /\ L = [cell \in C |-> L[cell]] BY <1>4
  <2>2. \A cell \in C : L[cell] \in Nat BY <1>1, <1>7
  <2> QED BY <2>1, <2>2
<1>10. \A cell \in C : L[cell] < CellCount BY <1>1, <1>7
<1> QED BY <1>4, <1>8, <1>9, <1>10

-----------------------------------------------------------------------------
(* UpwindSweep: the inductive invariant.                                     *)
Sweeps == linear.iterations
Ended(cell) == thread[cell] = "ended"
Failed(cell) == cell \in failures
LinearReports == [iterations : Nat, errorCell : Nat, active : BOOLEAN, above : BOOLEAN]

SweepTypes ==
  /\ flux \in [Faces -> {-1, 0, 1}]
  /\ phase \in {"begin", "snapshot", "level", "finish", "done"}
  /\ level \in Nat
  /\ current \in [Sweep!Cells -> Nat]
  /\ previous \in [Sweep!Cells -> Nat]
  /\ DOMAIN read = Sweep!Cells
  /\ thread \in [Sweep!Cells -> {"idle", "gathered", "ended"}]
  /\ failures \subseteq Sweep!Cells
  /\ linear \in LinearReports

\* Between two sweeps every cell holds the value of the last one: a failure ends the solve.
Settled ==
  /\ phase \in {"begin", "snapshot"} =>
       failures = {} /\ \A cell \in Sweep!Cells : current[cell] = Sweeps
  /\ phase = "begin" => Sweeps = 0 /\ \A cell \in Sweep!Cells : read[cell] = Sweep!Unread

\* The levels before the one that runs have ended, those after it have not begun.
Staggered ==
  /\ phase = "level" => \A cell \in Sweep!Cells :
       /\ Sweep!Levels[cell] < level => Ended(cell)
       /\ Sweep!Levels[cell] > level => thread[cell] = "idle"
  /\ phase = "finish" => \A cell \in Sweep!Cells : Ended(cell)

\* Only a thread that has ended has written its value, or failed.
Written ==
  phase \in {"level", "finish"} => \A cell \in Sweep!Cells :
    /\ previous[cell] = Sweeps
    /\ Ended(cell) => current[cell] = IF Failed(cell) THEN Sweeps ELSE Sweeps + 1
    /\ ~Ended(cell) => current[cell] = Sweeps /\ ~Failed(cell)

\* What a thread has read is what the sequential sweep reads, and remains so.
Gathered ==
  phase \in {"level", "finish"} => \A cell \in Sweep!Cells :
    /\ thread[cell] = "idle" => read[cell] = Sweep!Unread
    /\ thread[cell] # "idle" =>
         /\ DOMAIN read[cell] = Sweep!Upstream(cell)
         /\ \A n \in Sweep!Upstream(cell) :
              read[cell][n] = IF n < cell /\ ~Failed(n) THEN Sweeps + 1 ELSE Sweeps

\* The solve has ended, without a sweep or with this one.
Solved ==
  phase = "done" => \A cell \in Sweep!Cells :
    /\ Sweeps = 0 => read[cell] = Sweep!Unread
    /\ Sweeps > 0 =>
         /\ DOMAIN read[cell] = Sweep!Upstream(cell)
         /\ \A n \in Sweep!Upstream(cell) :
              read[cell][n] = IF n < cell /\ ~Failed(n) THEN Sweeps ELSE Sweeps - 1
         /\ current[cell] = IF Failed(cell) THEN Sweeps - 1 ELSE Sweeps
         /\ Failed(cell) => Failed(linear.errorCell) /\ linear.errorCell =< cell

SweepInv == SweepTypes /\ Settled /\ Staggered /\ Written /\ Gathered /\ Solved

LEMMA SweepFacts ==
  ASSUME Sweep!SweepAssumption
  PROVE  /\ Sweep!Cells = 1 .. CellCount
         /\ CellCount \in Nat \ {0}
         /\ Sweep!LastLevel \in Nat
         /\ \A cell \in Sweep!Cells : Sweep!Levels[cell] =< Sweep!LastLevel
<1>1. Sweep!Cells = 1 .. CellCount /\ CellCount \in Nat \ {0}
  BY DEF Sweep!Cells, Sweep!SweepAssumption
<1>2. \A cell \in Sweep!Cells : Sweep!Levels[cell] \in Nat /\ Sweep!Levels[cell] =< CellCount
  <2>1. Sweep!Levels \in [Sweep!Cells -> Nat] BY LevelsRise
  <2>2. \A cell \in Sweep!Cells : Sweep!Levels[cell] < CellCount BY LevelsRise
  <2> QED BY <1>1, <2>1, <2>2
<1> DEFINE T == {Sweep!Levels[cell] : cell \in Sweep!Cells}
<1>3. T \in SUBSET Nat /\ T # {} /\ \A n \in T : n =< CellCount
  <2>1. 1 \in Sweep!Cells BY <1>1
  <2> QED BY <1>2, <2>1
<1>4. Sweep!LastLevel = Sweep!Max(T) BY DEF Sweep!LastLevel
<1>5. \A cell \in Sweep!Cells : Sweep!Levels[cell] \in T OBVIOUS
<1> HIDE DEF T
<1>6. Sweep!Max(T) \in T /\ \A n \in T : n =< Sweep!Max(T) BY <1>1, <1>3, MaxOf
<1> QED BY <1>1, <1>3, <1>4, <1>5, <1>6

LEMMA SameFluxes ==
  ASSUME flux' = flux
  PROVE  Sweep!Levels' = Sweep!Levels /\ \A cell : Sweep!Upstream(cell)' = Sweep!Upstream(cell)
<1>1. Sweep!Levels' = Sweep!Levels BY DEF Sweep!Levels, Sweep!Upstream
<1>2. ASSUME NEW cell PROVE Sweep!Upstream(cell)' = Sweep!Upstream(cell) BY DEF Sweep!Upstream
<1> QED BY <1>1, <1>2

LEMMA SweepInit == Sweep!SweepAssumption /\ Sweep!Init => SweepInv
<1> SUFFICES ASSUME Sweep!SweepAssumption, Sweep!Init PROVE SweepInv OBVIOUS
<1> USE DEF Sweep!Init
<1>1. SweepTypes BY DEF SweepTypes, LinearReports, Sweep!NoCell
<1>2. Settled BY DEF Settled, Sweeps
<1>3. Staggered /\ Written /\ Gathered /\ Solved BY DEF Staggered, Written, Gathered, Solved
<1> QED BY <1>1, <1>2, <1>3 DEF SweepInv

LEMMA BeginSolveKeeps ==
  ASSUME SweepInv, Sweep!BeginSolve
  PROVE  SweepInv'
<1> USE DEF SweepInv
<1>1. PICK active, above \in BOOLEAN :
        /\ linear' = [linear EXCEPT !.active = active, !.above = above]
        /\ phase' = IF active THEN "snapshot" ELSE "done"
  <2>1. PICK above, finite, externalFailure \in BOOLEAN :
          LET active == ~externalFailure /\ Sweep!NeedsSweep(0, above, finite) IN
          /\ linear' = [linear EXCEPT !.active = active, !.above = above]
          /\ phase' = IF active THEN "snapshot" ELSE "done"
    BY DEF Sweep!BeginSolve
  <2> DEFINE active == ~externalFailure /\ Sweep!NeedsSweep(0, above, finite)
  <2>2. active \in BOOLEAN OBVIOUS
  <2> QED BY <2>1, <2>2
<1>2. phase = "begin" /\ UNCHANGED <<flux, level, current, previous, read, thread, failures>>
  BY DEF Sweep!BeginSolve
<1>3. linear' \in LinearReports /\ Sweeps' = Sweeps
  BY <1>1 DEF SweepTypes, LinearReports, Sweeps
<1>4. SweepTypes' BY <1>1, <1>2, <1>3 DEF SweepTypes
<1>5. Settled' BY <1>1, <1>2, <1>3 DEF Settled
<1>6. Staggered' /\ Written' /\ Gathered' BY <1>1 DEF Staggered, Written, Gathered
<1>7. Solved' BY <1>2, <1>3 DEF Settled, Solved
<1> QED BY <1>4, <1>5, <1>6, <1>7

LEMMA SnapshotKeeps ==
  ASSUME Sweep!SweepAssumption, SweepInv, Sweep!Snapshot
  PROVE  SweepInv'
<1> USE DEF SweepInv, Sweep!Snapshot
<1>1. SweepTypes' BY DEF SweepTypes
<1>2. Settled' /\ Solved' BY DEF Settled, Solved
<1>3. Staggered'
  <2>1. Sweep!Levels \in [Sweep!Cells -> Nat] BY LevelsRise
  <2>2. Sweep!Levels' = Sweep!Levels BY SameFluxes
  <2>3. \A cell \in Sweep!Cells : ~(Sweep!Levels[cell] < 0) /\ thread'[cell] = "idle" BY <2>1
  <2> QED BY <2>2, <2>3 DEF Staggered
<1>4. Written' /\ Gathered' BY DEF Settled, Written, Gathered, Ended, Failed, Sweeps
<1> QED BY <1>1, <1>2, <1>3, <1>4

LEMMA GatherKeeps ==
  ASSUME Sweep!SweepAssumption, SweepInv, NEW c \in Sweep!Cells, Sweep!Gather(c)
  PROVE  SweepInv'
<1> USE DEF SweepInv
<1> DEFINE Q == [n \in Sweep!Upstream(c) |-> Sweep!ValueOf(c, n)]
<1>1. /\ phase = "level" /\ Sweep!Levels[c] = level /\ thread[c] = "idle"
      /\ thread' = [thread EXCEPT ![c] = "gathered"] /\ read' = [read EXCEPT ![c] = Q]
      /\ UNCHANGED <<flux, phase, level, current, previous, failures, linear>>
  BY DEF Sweep!Gather, Sweep!LevelCells
<1>2. SweepTypes /\ Staggered /\ Written /\ Gathered OBVIOUS
<1>3. \A n \in Sweep!Upstream(c) :
        n \in Sweep!Cells /\ Q[n] = IF n < c /\ ~Failed(n) THEN Sweeps + 1 ELSE Sweeps
  <2> SUFFICES ASSUME NEW n \in Sweep!Upstream(c)
               PROVE  /\ n \in Sweep!Cells
                      /\ Q[n] = IF n < c /\ ~Failed(n) THEN Sweeps + 1 ELSE Sweeps
    OBVIOUS
  <2>1. n \in Sweep!Cells BY Upstreams
  <2>2. Q[n] = IF n < c THEN current[n] ELSE previous[n] BY DEF Sweep!ValueOf
  <2>3. previous[n] = Sweeps BY <1>1, <1>2, <2>1 DEF Written
  <2>4. CASE n < c
    <3>1. Sweep!Levels[n] < Sweep!Levels[c] BY <2>4, LevelsRise
    <3>2. Ended(n) BY <1>1, <1>2, <2>1, <3>1 DEF Staggered
    <3>3. current[n] = IF Failed(n) THEN Sweeps ELSE Sweeps + 1 BY <1>1, <1>2, <2>1, <3>2 DEF Written
    <3> QED BY <2>1, <2>2, <2>4, <3>3
  <2>5. CASE ~(n < c) BY <2>1, <2>2, <2>3, <2>5
  <2> QED BY <2>4, <2>5
<1>4. DOMAIN Q = Sweep!Upstream(c) OBVIOUS
<1> HIDE DEF Q, SweepInv
<1>5. Sweep!Levels' = Sweep!Levels /\ \A cell : Sweep!Upstream(cell)' = Sweep!Upstream(cell)
  BY <1>1, SameFluxes
<1>6. SweepTypes'
  <2>1. DOMAIN read' = Sweep!Cells /\ thread' \in [Sweep!Cells -> {"idle", "gathered", "ended"}]
    BY <1>1, <1>2 DEF SweepTypes
  <2> QED BY <1>1, <1>2, <2>1 DEF SweepTypes
<1>7. Settled' /\ Solved' BY <1>1 DEF Settled, Solved
<1>8. \A cell \in Sweep!Cells :
        /\ thread'[cell] = IF cell = c THEN "gathered" ELSE thread[cell]
        /\ read'[cell] = IF cell = c THEN Q ELSE read[cell]
  BY <1>1, <1>2 DEF SweepTypes
<1>9. Staggered'
  <2>1. ~(Sweep!Levels[c] < level) /\ ~(Sweep!Levels[c] > level)
    BY <1>1, <1>2 DEF SweepTypes
  <2> QED BY <1>1, <1>2, <1>5, <1>8, <2>1 DEF Staggered, Ended
<1>10. \A cell \in Sweep!Cells : Ended(cell)' <=> Ended(cell) BY <1>1, <1>8 DEF Ended
<1>11. Sweeps' = Sweeps /\ \A cell : Failed(cell)' <=> Failed(cell) BY <1>1 DEF Sweeps, Failed
<1>12. Written' BY <1>1, <1>2, <1>10, <1>11 DEF Written
<1>13. Gathered'
  <2> SUFFICES ASSUME NEW cell \in Sweep!Cells
               PROVE  /\ thread'[cell] = "idle" => read'[cell] = Sweep!Unread
                      /\ thread'[cell] # "idle" =>
                           /\ DOMAIN read'[cell] = Sweep!Upstream(cell)
                           /\ \A n \in Sweep!Upstream(cell) :
                                read'[cell][n] = IF n < cell /\ ~Failed(n) THEN Sweeps + 1 ELSE Sweeps
    BY <1>5, <1>11 DEF Gathered, Sweep!Unread
  <2>1. CASE cell = c BY <1>3, <1>4, <1>8, <2>1
  <2>2. CASE cell # c BY <1>1, <1>2, <1>8, <2>2 DEF Gathered
  <2> QED BY <2>1, <2>2
<1> QED BY <1>6, <1>7, <1>9, <1>12, <1>13 DEF SweepInv

LEMMA StoreKeeps ==
  ASSUME Sweep!SweepAssumption, SweepInv, NEW c \in Sweep!Cells, Sweep!Store(c)
  PROVE  SweepInv'
<1>1. /\ phase = "level" /\ thread[c] = "gathered"
      /\ thread' = [thread EXCEPT ![c] = "ended"]
      /\ \/ current' = [current EXCEPT ![c] = Sweeps + 1] /\ failures' = failures
         \/ failures' = failures \union {c} /\ current' = current
      /\ UNCHANGED <<flux, phase, level, previous, read, linear>>
  BY DEF Sweep!Store, Sweeps
<1>2. SweepTypes /\ Staggered /\ Written /\ Gathered BY DEF SweepInv
<1>3. Sweep!Levels' = Sweep!Levels /\ \A cell : Sweep!Upstream(cell)' = Sweep!Upstream(cell)
  BY <1>1, SameFluxes
<1>4. \A cell \in Sweep!Cells : thread'[cell] = IF cell = c THEN "ended" ELSE thread[cell]
  BY <1>1, <1>2 DEF SweepTypes
<1>5. Sweeps' = Sweeps BY <1>1 DEF Sweeps
<1>6. \A cell : cell # c => (Failed(cell)' <=> Failed(cell)) BY <1>1 DEF Failed
<1>7. SweepTypes'
  <2>1. thread' \in [Sweep!Cells -> {"idle", "gathered", "ended"}] BY <1>1, <1>2 DEF SweepTypes
  <2>2. Sweeps + 1 \in Nat BY <1>2 DEF SweepTypes, LinearReports, Sweeps
  <2>3. current' \in [Sweep!Cells -> Nat] BY <1>1, <1>2, <2>2 DEF SweepTypes
  <2>4. failures' \subseteq Sweep!Cells BY <1>1, <1>2 DEF SweepTypes
  <2> QED BY <1>1, <1>2, <2>1, <2>3, <2>4 DEF SweepTypes
<1>8. Settled' /\ Solved' BY <1>1 DEF Settled, Solved
<1>9. ~(Sweep!Levels[c] > level) BY <1>1, <1>2 DEF Staggered
<1>10. Staggered' BY <1>1, <1>2, <1>3, <1>4, <1>9 DEF Staggered, Ended
<1>11. Written'
  <2> SUFFICES ASSUME NEW cell \in Sweep!Cells
               PROVE  /\ previous[cell] = Sweeps
                      /\ Ended(cell)' => current'[cell] = IF Failed(cell)' THEN Sweeps ELSE Sweeps + 1
                      /\ ~Ended(cell)' => current'[cell] = Sweeps /\ ~Failed(cell)'
    BY <1>1, <1>5 DEF Written
  <2>1. CASE cell = c
    <3>1. current[c] = Sweeps /\ ~Failed(c) /\ previous[c] = Sweeps BY <1>1, <1>2 DEF Written, Ended
    <3>2. Ended(c)' BY <1>4 DEF Ended
    <3>3. current'[c] = IF Failed(c)' THEN Sweeps ELSE Sweeps + 1
      BY <1>1, <1>2, <3>1 DEF Failed, SweepTypes
    <3> QED BY <2>1, <3>1, <3>2, <3>3
  <2>2. CASE cell # c
    <3>1. current'[cell] = current[cell] BY <1>1, <1>2, <2>2 DEF SweepTypes
    <3>2. Ended(cell)' <=> Ended(cell) BY <1>4, <2>2 DEF Ended
    <3> QED BY <1>1, <1>2, <1>6, <2>2, <3>1, <3>2 DEF Written
  <2> QED BY <2>1, <2>2
<1>12. Gathered'
  <2> SUFFICES ASSUME NEW cell \in Sweep!Cells
               PROVE  /\ thread'[cell] = "idle" => read[cell] = Sweep!Unread
                      /\ thread'[cell] # "idle" =>
                           /\ DOMAIN read[cell] = Sweep!Upstream(cell)
                           /\ \A n \in Sweep!Upstream(cell) :
                                read[cell][n] = IF n < cell /\ ~Failed(n)' THEN Sweeps + 1 ELSE Sweeps
    BY <1>1, <1>3, <1>5 DEF Gathered, Sweep!Unread
  <2>1. thread'[cell] = "idle" <=> thread[cell] = "idle" BY <1>1, <1>4
  <2>2. ASSUME thread[cell] # "idle", NEW n \in Sweep!Upstream(cell), n < cell PROVE n # c
    <3>1. Sweep!Levels[n] < Sweep!Levels[cell] /\ n \in Sweep!Cells BY <2>2, LevelsRise, Upstreams
    <3>2. Sweep!Levels[cell] \in Nat /\ Sweep!Levels[n] \in Nat /\ level \in Nat
      BY <1>2, <3>1, LevelsRise DEF SweepTypes
    <3>3. ~(Sweep!Levels[cell] > level) BY <1>1, <1>2, <2>2 DEF Staggered
    <3>4. Sweep!Levels[n] < level BY <3>1, <3>2, <3>3
    <3>5. thread[n] = "ended" BY <1>1, <1>2, <3>1, <3>4 DEF Staggered, Ended
    <3> QED BY <1>1, <3>5
  <2> QED BY <1>1, <1>2, <1>6, <2>1, <2>2 DEF Gathered
<1> QED BY <1>7, <1>8, <1>10, <1>11, <1>12 DEF SweepInv

LEMMA NextLevelKeeps ==
  ASSUME Sweep!SweepAssumption, SweepInv, Sweep!NextLevel
  PROVE  SweepInv'
<1>1. /\ phase = "level"
      /\ \A cell \in Sweep!Cells : Sweep!Levels[cell] = level => Ended(cell)
      /\ \/ level = Sweep!LastLevel /\ phase' = "finish" /\ level' = level
         \/ level # Sweep!LastLevel /\ phase' = "level" /\ level' = level + 1
      /\ UNCHANGED <<flux, current, previous, read, thread, failures, linear>>
  BY DEF Sweep!NextLevel, Sweep!LevelCells, Ended
<1>2. SweepTypes /\ Staggered /\ Written /\ Gathered BY DEF SweepInv
<1>3. Sweep!Levels' = Sweep!Levels /\ \A cell : Sweep!Upstream(cell)' = Sweep!Upstream(cell)
  BY <1>1, SameFluxes
<1>4. /\ level \in Nat /\ Sweep!LastLevel \in Nat
      /\ \A cell \in Sweep!Cells :
           Sweep!Levels[cell] \in Nat /\ Sweep!Levels[cell] =< Sweep!LastLevel
  BY <1>2, SweepFacts, LevelsRise DEF SweepTypes
<1>5. SweepTypes' BY <1>1, <1>2, <1>4 DEF SweepTypes
<1>6. Settled' /\ Solved' BY <1>1 DEF Settled, Solved
<1>7. Staggered'
  <2>1. \A cell \in Sweep!Cells : Ended(cell)' <=> Ended(cell) BY <1>1 DEF Ended
  <2>2. \A cell \in Sweep!Cells : Sweep!Levels[cell] =< level => Ended(cell)
    BY <1>1, <1>2, <1>4 DEF Staggered
  <2>3. CASE phase' = "finish"
    <3>1. \A cell \in Sweep!Cells : Ended(cell) BY <1>1, <1>4, <2>2, <2>3
    <3> QED BY <2>1, <2>3, <3>1 DEF Staggered
  <2>4. CASE phase' = "level"
    <3>1. level' = level + 1 BY <1>1, <2>4
    <3>2. \A cell \in Sweep!Cells : Sweep!Levels[cell] < level' => Ended(cell)
      BY <1>4, <2>2, <3>1
    <3>3. \A cell \in Sweep!Cells : Sweep!Levels[cell] > level' => thread'[cell] = "idle"
      BY <1>1, <1>2, <1>4, <3>1 DEF Staggered
    <3> QED BY <1>3, <2>1, <2>4, <3>2, <3>3 DEF Staggered
  <2> QED BY <1>1, <2>3, <2>4
<1>8. Written' BY <1>1, <1>2 DEF Written, Ended, Failed, Sweeps
<1>9. Gathered' BY <1>1, <1>2, <1>3 DEF Gathered, Failed, Sweeps, Sweep!Unread
<1> QED BY <1>5, <1>6, <1>7, <1>8, <1>9 DEF SweepInv

LEMMA FinishSweepKeeps ==
  ASSUME Sweep!SweepAssumption, SweepInv, Sweep!FinishSweep
  PROVE  SweepInv'
<1>1. PICK above \in BOOLEAN :
        LET sweeps == linear.iterations + 1
            active == Sweep!FirstFailure = Sweep!NoCell /\ Sweep!NeedsSweep(sweeps, above, TRUE)
        IN  /\ linear' = [iterations |-> sweeps, errorCell |-> Sweep!FirstFailure,
                          active |-> active, above |-> above]
            /\ phase' = IF active THEN "snapshot" ELSE "done"
  BY DEF Sweep!FinishSweep
<1> DEFINE active == /\ Sweep!FirstFailure = 0
                     /\ Sweep!NeedsSweep(linear.iterations + 1, above, TRUE)
<1>2. /\ linear' = [iterations |-> linear.iterations + 1, errorCell |-> Sweep!FirstFailure,
                    active |-> active, above |-> above]
      /\ phase' = IF active THEN "snapshot" ELSE "done"
  BY <1>1 DEF Sweep!NoCell
<1>3. active \in BOOLEAN /\ (active => Sweep!FirstFailure = 0) OBVIOUS
<1> HIDE DEF active
<1>4. /\ phase = "finish"
      /\ UNCHANGED <<flux, level, current, previous, read, thread, failures>>
  BY DEF Sweep!FinishSweep
<1>5. SweepTypes /\ Staggered /\ Written /\ Gathered BY DEF SweepInv
<1>6. Sweep!Cells \in SUBSET Nat /\ 0 \notin Sweep!Cells BY SweepFacts
<1>7. Sweep!FirstFailure = IF failures = {} THEN 0 ELSE Sweep!Min(failures)
  BY DEF Sweep!FirstFailure, Sweep!NoCell
<1>8. /\ failures # {} => Sweep!FirstFailure \in failures
      /\ \A cell \in failures : Sweep!FirstFailure =< cell
      /\ failures = {} => Sweep!FirstFailure = 0
  <2>1. failures \in SUBSET Nat BY <1>5, <1>6 DEF SweepTypes
  <2>2. failures # {} => Sweep!Min(failures) \in failures /\ \A n \in failures : Sweep!Min(failures) =< n
    BY <2>1, MinOf
  <2> QED BY <1>7, <2>2
<1>9. Sweeps \in Nat /\ Sweeps' = Sweeps + 1 /\ linear'.errorCell = Sweep!FirstFailure
  <2>1. Sweeps \in Nat BY <1>5 DEF Sweeps, SweepTypes, LinearReports
  <2>2. linear'.iterations = linear.iterations + 1 /\ linear'.errorCell = Sweep!FirstFailure
    BY <1>2
  <2> QED BY <2>1, <2>2 DEF Sweeps
<1>10. SweepTypes'
  <2>1. Sweep!FirstFailure \in Nat
    <3>1. failures \in SUBSET Nat BY <1>5, <1>6 DEF SweepTypes
    <3>2. CASE failures = {} BY <1>8, <3>2
    <3>3. CASE failures # {} BY <1>8, <3>1, <3>3
    <3> QED BY <3>2, <3>3
  <2>2. linear' \in LinearReports BY <1>2, <1>3, <1>9, <2>1 DEF LinearReports, Sweeps
  <2>3. phase' \in {"begin", "snapshot", "level", "finish", "done"} BY <1>2
  <2> QED BY <1>4, <1>5, <2>2, <2>3 DEF SweepTypes
<1>11. Settled'
  <2>1. phase' # "begin" BY <1>2
  <2>2. ASSUME phase' = "snapshot" PROVE failures = {}
    <3>1. Sweep!FirstFailure = 0 BY <1>2, <1>3, <2>2
    <3> QED BY <3>1, <1>5, <1>6, <1>8 DEF SweepTypes
  <2>3. ASSUME failures = {}, NEW cell \in Sweep!Cells PROVE current[cell] = Sweeps + 1
    BY <1>4, <1>5, <2>3 DEF Staggered, Written, Failed
  <2> QED BY <1>4, <1>9, <2>1, <2>2, <2>3 DEF Settled
<1>12. Staggered' /\ Written' /\ Gathered'
  <2>1. phase' \notin {"level", "finish"} BY <1>2
  <2> QED BY <2>1 DEF Staggered, Written, Gathered
<1>13. Solved'
  <2>1. \A cell : Sweep!Upstream(cell)' = Sweep!Upstream(cell) BY <1>4, SameFluxes
  <2>2. \A cell : Failed(cell)' <=> Failed(cell) BY <1>4 DEF Failed
  <2> SUFFICES ASSUME NEW cell \in Sweep!Cells
               PROVE  /\ DOMAIN read[cell] = Sweep!Upstream(cell)
                      /\ \A n \in Sweep!Upstream(cell) :
                           read[cell][n] = IF n < cell /\ ~Failed(n) THEN Sweeps + 1 ELSE Sweeps
                      /\ current[cell] = IF Failed(cell) THEN Sweeps ELSE Sweeps + 1
                      /\ Failed(cell) =>
                           Failed(Sweep!FirstFailure) /\ Sweep!FirstFailure =< cell
    <3>1. ~(Sweeps' = 0) /\ Sweeps' - 1 = Sweeps BY <1>9
    <3>2. Failed(linear.errorCell)' <=> Failed(Sweep!FirstFailure) BY <1>4, <1>9 DEF Failed
    <3> QED BY <1>4, <1>9, <2>1, <2>2, <3>1, <3>2 DEF Solved
  <2>3. Ended(cell) BY <1>4, <1>5 DEF Staggered
  <2>4. current[cell] = IF Failed(cell) THEN Sweeps ELSE Sweeps + 1 BY <1>4, <1>5, <2>3 DEF Written
  <2>5. thread[cell] # "idle" BY <2>3 DEF Ended
  <2>6. Failed(cell) => Failed(Sweep!FirstFailure) /\ Sweep!FirstFailure =< cell BY <1>8 DEF Failed
  <2> QED BY <1>4, <1>5, <2>4, <2>5, <2>6 DEF Gathered
<1> QED BY <1>10, <1>11, <1>12, <1>13 DEF SweepInv

LEMMA SweepStepKeeps ==
  ASSUME Sweep!SweepAssumption, SweepInv, [Sweep!Next]_Sweep!vars
  PROVE  SweepInv'
<1>1. CASE Sweep!BeginSolve BY <1>1, BeginSolveKeeps
<1>2. CASE Sweep!Snapshot BY <1>2, SnapshotKeeps
<1>3. CASE Sweep!NextLevel BY <1>3, NextLevelKeeps
<1>4. CASE Sweep!FinishSweep BY <1>4, FinishSweepKeeps
<1>5. ASSUME NEW cell \in Sweep!Cells, Sweep!Gather(cell) PROVE SweepInv' BY <1>5, GatherKeeps
<1>6. ASSUME NEW cell \in Sweep!Cells, Sweep!Store(cell) PROVE SweepInv' BY <1>6, StoreKeeps
<1>7. CASE UNCHANGED Sweep!vars
  <2>1. UNCHANGED <<flux, phase, level, current, previous, read, thread, failures, linear>>
    BY <1>7 DEF Sweep!vars
  <2>2. Sweep!Levels' = Sweep!Levels /\ \A cell : Sweep!Upstream(cell)' = Sweep!Upstream(cell)
    BY <2>1, SameFluxes
  <2>3. SweepTypes' BY <2>1 DEF SweepInv, SweepTypes
  <2>4. Settled' BY <2>1 DEF SweepInv, Settled, Sweeps, Sweep!Unread
  <2>5. Staggered' BY <2>1, <2>2 DEF SweepInv, Staggered, Ended
  <2>6. Written' BY <2>1 DEF SweepInv, Written, Ended, Failed, Sweeps
  <2>7. Gathered' BY <2>1, <2>2 DEF SweepInv, Gathered, Failed, Sweeps, Sweep!Unread
  <2>8. Solved' BY <2>1, <2>2 DEF SweepInv, Solved, Failed, Sweeps, Sweep!Unread
  <2> QED BY <2>3, <2>4, <2>5, <2>6, <2>7, <2>8 DEF SweepInv
<1> QED BY <1>1, <1>2, <1>3, <1>4, <1>5, <1>6, <1>7 DEF Sweep!Next, Sweep!Done

LEMMA SweepImplies ==
  ASSUME Sweep!SweepAssumption, SweepInv
  PROVE  Sweep!SweepIsSequential
<1>1. SweepTypes /\ Settled /\ Gathered /\ Solved BY DEF SweepInv
<1>2. Sweeps = linear.iterations /\ Sweeps \in Nat BY <1>1 DEF Sweeps, SweepTypes, LinearReports
<1> DEFINE sweep == linear.iterations + (IF phase \in {"level", "finish"} THEN 1 ELSE 0)
<1>3. phase \in {"level", "finish"} => sweep = Sweeps + 1 /\ sweep - 1 = Sweeps BY <1>2
<1>4. phase \notin {"level", "finish"} => sweep = Sweeps BY <1>2
<1> HIDE DEF sweep
<1>5. DOMAIN Sweep!Unread = {} BY DEF Sweep!Unread
<1>6. ASSUME phase # "snapshot", NEW cell \in Sweep!Cells, NEW n \in DOMAIN read[cell]
      PROVE  read[cell][n] = IF n < cell /\ n \notin failures THEN sweep ELSE sweep - 1
  <2>1. CASE phase = "begin" BY <1>1, <1>5, <1>6, <2>1 DEF Settled
  <2>2. CASE phase \in {"level", "finish"}
    BY <1>1, <1>3, <1>5, <1>6, <2>2 DEF Gathered, Failed
  <2>3. CASE phase = "done"
    <3>1. CASE Sweeps = 0 BY <1>1, <1>5, <1>6, <2>3, <3>1 DEF Solved
    <3>2. CASE Sweeps > 0 BY <1>1, <1>4, <1>6, <2>3, <3>2 DEF Solved, Failed
    <3> QED BY <1>2, <3>1, <3>2
  <2> QED BY <1>1, <1>6, <2>1, <2>2, <2>3 DEF SweepTypes
<1>7. ASSUME phase = "done", sweep > 0, NEW cell \in Sweep!Cells
      PROVE  /\ DOMAIN read[cell] = Sweep!Upstream(cell)
             /\ current[cell] = IF cell \in failures THEN sweep - 1 ELSE sweep
             /\ cell \in failures => linear.errorCell \in failures /\ linear.errorCell =< cell
  BY <1>1, <1>4, <1>7 DEF Solved, Failed
<1> QED BY <1>6, <1>7 DEF Sweep!SweepIsSequential, sweep

\* Whatever order the threads of a level's kernel run in, on any mesh and for any signs of
\* the fluxes (OrderedUpwindPlan, orderedUpwindLevel): each cell reads and ends with what a
\* sweep over the cells one after the other would give it, and the failure that is reported
\* is the first that such a sweep would meet.
THEOREM SweepsAreSequential == Sweep!Spec => []SweepIsSequential
<1>1. Sweep!Init => SweepInv BY DirectionAssumption, SweepInit
<1>2. SweepInv /\ [Sweep!Next]_Sweep!vars => SweepInv' BY DirectionAssumption, SweepStepKeeps
<1>3. SweepInv => SweepIsSequential BY DirectionAssumption, SweepImplies DEF SweepIsSequential
<1> QED BY <1>1, <1>2, <1>3, PTL DEF Sweep!Spec

-----------------------------------------------------------------------------
(* SourceIteration: the inductive invariant.                                 *)
Iterations == source.iterations
Failure == source.failure
OfAngles == [Source!Angles -> Nat]
Kept == trouble \union {Source!None}

SourceTypes ==
  /\ stage \in {"idle", "begin", "directions", "finish", "results"}
  /\ solve \in Nat /\ batch \in Nat /\ trouble \in Troubles
  /\ controls \in [parallel : BOOLEAN, concurrent : 1 .. Directions]
  /\ ~controls.parallel => controls.concurrent = 1
  /\ direction \in [Source!Angles -> {"waiting", "prepared", "solved", "published"}]
  /\ intensities \in OfAngles /\ frozen \in OfAngles /\ unsettled \in OfAngles
  /\ workspace \in [0 .. Directions - 1 -> [angle : Nat, failure : Kept, input : OfAngles]]
  /\ solved \in [Source!Angles -> [external : Kept, error : Kept, slow : BOOLEAN]]
  /\ source \in [iterations : 0 .. Source!Budget, failure : Kept]
  /\ inputs \in [Source!Angles -> OfAngles]

\* The angles that this iteration is done with, and what has gone wrong by now.
Swept(a) == stage # "directions" \/ direction[a] = "published"
Reached(t) ==
  \/ t.iteration < Iterations
  \/ t.iteration = Iterations /\ (t.place = 0 \/ Swept(t.place))
  \/ t.iteration > Source!Budget /\ stage = "idle"
Fatal == {t \in trouble : t.solve = solve /\ t.kind # "slow" /\ Reached(t)}

\* The failure is the first of all, and there is no other iteration after it.
FirstFailure ==
  /\ Failure = Source!None => Fatal = {}
  /\ Failure # Source!None => Failure \in Fatal /\ \A t \in Fatal : ~Source!Before(t, Failure)
  /\ Failure # Source!None => Failure.iteration \in {Iterations, Source!Budget + 1}
  /\ stage = "begin" => Failure = Source!None /\ Iterations < Source!Budget
  /\ stage = "directions" => Iterations >= 1

\* An angle has the intensity of this iteration if it was published before the failure.
Failing(a) == Failure # Source!None /\ Failure.iteration =< Source!Budget /\ Failure.place =< a
Intensity ==
  \A a \in Source!Angles : intensities[a] = IF Swept(a) /\ ~Failing(a) THEN Iterations ELSE Iterations - 1

\* Batches follow one another, and so do the angles of one when they are published.
BatchOf(a) == (a - 1) \div controls.concurrent
InBatches ==
  stage = "directions" => \A a \in Source!Angles :
    /\ BatchOf(a) < batch => direction[a] = "published"
    /\ BatchOf(a) > batch => direction[a] = "waiting"
    /\ \A b \in Source!Angles : b < a /\ direction[a] = "published" => direction[b] = "published"

\* Until it is published an angle has its workspace for itself.
From(n, a, b) == n - (IF ~controls.parallel /\ b < a THEN 0 ELSE 1)
Cause(a) == Source!First(Source!Happens(a, "prepare"))
OwnWorkspace ==
  stage = "directions" /\ Failure = Source!None => \A a \in Source!Angles :
    /\ direction[a] \in {"prepared", "solved"} =>
         \A b \in Source!Angles :
           workspace[Source!WorkspaceOf(a)].input[b] = From(Iterations, a, b)
    /\ direction[a] = "prepared" => workspace[Source!WorkspaceOf(a)].failure = Cause(a)
    /\ direction[a] = "solved" =>
         /\ solved[a].external = Cause(a)
         /\ solved[a].error = IF Cause(a) = Source!None
                                THEN Source!First(Source!Happens(a, "linear")) ELSE Source!None
         /\ solved[a].slow <=> Cause(a) = Source!None /\ Source!Happens(a, "slow") # {}
FrozenBefore ==
  stage = "directions" /\ controls.parallel => \A b \in Source!Angles : frozen[b] = Iterations - 1

\* What was published was solved from the intensities that the controls ask for, and
\* the warning is the last there was reason for.
SolvedFrom ==
  \A a, b \in Source!Angles : intensities[a] > 0 => inputs[a][b] = From(intensities[a], a, b)
SlowIn(a) ==
  {0} \union {t.iteration : t \in {t \in trouble :
    /\ t.solve = solve /\ t.kind = "slow" /\ t.place = a
    /\ t.iteration <= intensities[a]}}
Warning ==
  \A a \in Source!Angles : unsettled[a] \in SlowIn(a) /\ \A n \in SlowIn(a) : n =< unsettled[a]

SourceInv ==
  /\ SourceTypes /\ FirstFailure /\ Intensity /\ InBatches /\ OwnWorkspace /\ FrozenBefore
  /\ SolvedFrom /\ Warning

-----------------------------------------------------------------------------
(* SourceIteration: batches, workspaces and troubles.                        *)
LEMMA Quotient ==
  ASSUME NEW c \in Nat \ {0}, NEW a \in Nat
  PROVE  a \div c \in Nat /\ a % c \in 0 .. c - 1 /\ a = c * (a \div c) + (a % c)
OBVIOUS

LEMMA Quotients ==
  ASSUME NEW c \in Nat \ {0}, NEW a \in Nat, NEW b \in Nat, a =< b
  PROVE  a \div c =< b \div c
<1> SUFFICES ASSUME b \div c < a \div c PROVE FALSE BY Quotient
<1>1. ASSUME NEW p \in Nat, NEW q \in Nat, q < p PROVE c * q + c =< c * p BY <1>1
<1>2. c * (b \div c) + c =< c * (a \div c) BY <1>1, Quotient
<1>3. c * (b \div c) \in Nat /\ c * (a \div c) \in Nat BY Quotient
<1> QED BY <1>2, <1>3, Quotient

\* The angles of a batch have different workspaces.
LEMMA BatchNumbers ==
  ASSUME Source!SourceAssumption, SourceTypes
  PROVE  /\ \A a \in Source!Angles :
              /\ BatchOf(a) \in Nat /\ BatchOf(a) =< Source!LastBatch
              /\ Source!WorkspaceOf(a) \in 0 .. Directions - 1
              /\ a \in Source!Batch <=> BatchOf(a) = batch
              /\ controls.concurrent = 1 => BatchOf(a) = a - 1
         /\ \A a, b \in Source!Angles :
              /\ a =< b => BatchOf(a) =< BatchOf(b)
              /\ BatchOf(a) = BatchOf(b) /\ Source!WorkspaceOf(a) = Source!WorkspaceOf(b) => a = b
<1> DEFINE c == controls.concurrent
<1>1. c \in Nat \ {0} /\ c \in 1 .. Directions /\ Directions \in Nat \ {0}
  BY DEF SourceTypes, Source!SourceAssumption
<1>2. \A a \in Source!Angles : a \in 1 .. Directions /\ a - 1 \in Nat
  BY <1>1 DEF Source!Angles
<1>3. \A a \in Source!Angles :
        BatchOf(a) = (a - 1) \div c /\ Source!WorkspaceOf(a) = (a - 1) % c
  BY DEF BatchOf, Source!WorkspaceOf
<1> HIDE DEF c
<1>4. ASSUME NEW a \in Source!Angles
      PROVE  /\ BatchOf(a) \in Nat /\ BatchOf(a) =< Source!LastBatch
             /\ Source!WorkspaceOf(a) \in 0 .. Directions - 1
             /\ a \in Source!Batch <=> BatchOf(a) = batch
             /\ c = 1 => BatchOf(a) = a - 1
  <2>1. BatchOf(a) \in Nat /\ Source!WorkspaceOf(a) \in 0 .. c - 1 BY <1>1, <1>2, <1>3, Quotient
  <2>2. Source!WorkspaceOf(a) \in 0 .. Directions - 1 BY <1>1, <2>1
  <2>3. BatchOf(a) =< Source!LastBatch
    <3>1. a - 1 =< Directions - 1 /\ Directions - 1 \in Nat BY <1>1, <1>2
    <3>2. Source!LastBatch = (Directions - 1) \div c BY DEF Source!LastBatch, c
    <3> QED BY <1>1, <1>2, <1>3, <3>1, <3>2, Quotients
  <2>4. a \in Source!Batch <=> BatchOf(a) = batch BY DEF Source!Batch, BatchOf
  <2>5. c = 1 => BatchOf(a) = a - 1 BY <1>2, <1>3
  <2> QED BY <2>1, <2>2, <2>3, <2>4, <2>5
<1>5. ASSUME NEW a \in Source!Angles, NEW b \in Source!Angles
      PROVE  /\ a =< b => BatchOf(a) =< BatchOf(b)
             /\ BatchOf(a) = BatchOf(b) /\ Source!WorkspaceOf(a) = Source!WorkspaceOf(b) => a = b
  <2>1. a =< b => a - 1 =< b - 1 BY <1>2
  <2>2. a =< b => BatchOf(a) =< BatchOf(b) BY <1>1, <1>2, <1>3, <2>1, Quotients
  <2>3. ASSUME BatchOf(a) = BatchOf(b), Source!WorkspaceOf(a) = Source!WorkspaceOf(b) PROVE a = b
    <3>1. a - 1 = c * BatchOf(a) + Source!WorkspaceOf(a) BY <1>1, <1>2, <1>3, Quotient
    <3>2. b - 1 = c * BatchOf(b) + Source!WorkspaceOf(b) BY <1>1, <1>2, <1>3, Quotient
    <3>3. a - 1 = b - 1 BY <2>3, <3>1, <3>2
    <3> QED BY <1>2, <3>3
  <2> QED BY <2>2, <2>3
<1> QED BY <1>4, <1>5 DEF c

LEMMA TroubleFacts ==
  ASSUME Source!SourceAssumption, trouble \in Troubles, NEW t \in trouble
  PROVE  /\ t.solve \in Nat /\ t.solve >= 1 /\ t.iteration \in Nat /\ t.iteration >= 1
         /\ t.place \in Nat /\ t # Source!None
         /\ t.iteration =< Source!Budget =>
              \/ t.place = 0 /\ t.kind = "incident"
              \/ t.place \in Source!Angles /\ t.kind \in {"prepare", "linear", "slow"}
         /\ t.iteration > Source!Budget => t.kind = "result" /\ t.iteration = Source!Budget + 1
         /\ t.kind = "result" => t.iteration > Source!Budget /\ t.place \in 1 .. 3
<1>1. t \in Source!InLoop \/ t \in Source!AfterLoop BY DEF Source!SourceAssumption
<1>2. /\ Solves \in Nat /\ Source!Budget \in Nat /\ Source!Budget >= 1 /\ Directions \in Nat
      /\ \A a \in Source!Angles : a \in Nat
  BY DEF Source!SourceAssumption, Source!Budget, Source!Angles
<1>3. CASE t \in Source!InLoop
  <2>1. /\ t.solve \in 1 .. Solves /\ t.iteration \in 1 .. Source!Budget
        /\ \/ t.place = 0 /\ t.kind = "incident"
           \/ t.place \in Source!Angles /\ t.kind \in {"prepare", "linear", "slow"}
    BY <1>3 DEF Source!InLoop
  <2>2. t # Source!None BY <2>1 DEF Source!None
  <2>3. t.place \in Nat BY <1>2, <2>1
  <2>4. t.kind # "result" BY <2>1
  <2>5. ~(t.iteration > Source!Budget) BY <1>2, <2>1
  <2> QED BY <1>2, <2>1, <2>2, <2>3, <2>4, <2>5
<1>4. CASE t \in Source!AfterLoop
  <2>1. /\ t.solve \in 1 .. Solves /\ t.iteration = Source!Budget + 1
        /\ t.place \in 1 .. 3 /\ t.kind = "result"
    BY <1>4 DEF Source!AfterLoop
  <2>2. t # Source!None BY <2>1 DEF Source!None
  <2> QED BY <1>2, <2>1, <2>2
<1> QED BY <1>1, <1>3, <1>4

LEMMA FirstOne ==
  ASSUME Source!SourceAssumption, trouble \in Troubles, NEW S \in SUBSET trouble
  PROVE  /\ Source!First(S) \in S \union {Source!None}
         /\ Source!First(S) = Source!None <=> S = {}
<1>1. CASE S = {} BY <1>1 DEF Source!First
<1>2. CASE S # {}
  <2>1. Source!First(S) \in S BY <1>2 DEF Source!First
  <2>2. Source!First(S) # Source!None BY <2>1, TroubleFacts
  <2> QED BY <1>2, <2>1, <2>2
<1> QED BY <1>1, <1>2

-----------------------------------------------------------------------------
(* SourceIteration: the steps.                                               *)
LEMMA SourceNumbers ==
  ASSUME Source!SourceAssumption, SourceTypes
  PROVE  /\ Source!Budget \in Nat \ {0} /\ Iterations \in 0 .. Source!Budget
         /\ Directions \in Nat \ {0} /\ Source!Angles = 1 .. Directions
         /\ Failure \in Kept /\ controls.parallel \in BOOLEAN
         /\ \A a \in Source!Angles :
              /\ a \in Nat /\ a >= 1 /\ intensities[a] \in Nat /\ unsettled[a] \in Nat
              /\ solved[a].external \in Kept /\ solved[a].error \in Kept
<1>1. Source!Budget \in Nat \ {0} /\ Directions \in Nat \ {0}
  BY DEF Source!SourceAssumption, Source!Budget
<1>2. Source!Angles = 1 .. Directions BY DEF Source!Angles
<1>3. \A a \in Source!Angles : a \in Nat /\ a >= 1 BY <1>1, <1>2
<1>4. Iterations \in 0 .. Source!Budget /\ Failure \in Kept
  BY DEF SourceTypes, Iterations, Failure
<1>5. controls.parallel \in BOOLEAN BY DEF SourceTypes
<1>6. \A a \in Source!Angles : intensities[a] \in Nat /\ unsettled[a] \in Nat
  BY DEF SourceTypes, OfAngles
<1>7. \A a \in Source!Angles : solved[a].external \in Kept /\ solved[a].error \in Kept
  BY DEF SourceTypes
<1> QED BY <1>1, <1>2, <1>3, <1>4, <1>5, <1>6, <1>7

LEMMA SourceInit == Source!SourceAssumption /\ Source!Init => SourceInv
<1> SUFFICES ASSUME Source!SourceAssumption, Source!Init PROVE SourceInv OBVIOUS
<1>1. /\ trouble \in Troubles /\ solve = 0 /\ stage = "idle" /\ batch = 0
      /\ direction = [a \in Source!Angles |-> "waiting"]
      /\ intensities = [a \in Source!Angles |-> 0] /\ frozen = intensities
      /\ workspace = [w \in 0 .. Directions - 1 |->
                        [angle |-> 0, failure |-> Source!None, input |-> frozen]]
      /\ solved = [a \in Source!Angles |->
                     [external |-> Source!None, error |-> Source!None, slow |-> FALSE]]
      /\ source = [iterations |-> 0, failure |-> Source!None]
      /\ unsettled = [a \in Source!Angles |-> 0]
      /\ inputs = [a \in Source!Angles |-> frozen]
  BY DEF Source!Init
<1>2. PICK parallel \in BOOLEAN, maximum \in 0 .. Directions :
        controls = [parallel |-> parallel,
                    concurrent |-> Source!ConcurrentAngles(parallel, maximum)]
  BY DEF Source!Init
<1>3. Source!Budget \in Nat \ {0} /\ Directions \in Nat \ {0}
  BY DEF Source!SourceAssumption, Source!Budget
<1>4. Source!ConcurrentAngles(parallel, maximum) \in 1 .. Directions
  <2> DEFINE m == IF maximum > 0 THEN maximum ELSE Directions
             n == Source!Min({Directions, m})
  <2>1. m \in 1 .. Directions BY <1>3
  <2> HIDE DEF m
  <2>2. \E x \in {Directions, m} : \A y \in {Directions, m} : x =< y
    BY <1>3, <2>1
  <2>3. n \in {Directions, m} BY <2>2 DEF Source!Min
  <2>4. n \in 1 .. Directions BY <1>3, <2>1, <2>3
  <2> HIDE DEF n
  <2>5. \E x \in {1, n} : \A y \in {1, n} : x >= y BY <2>4
  <2>6. Source!Max({1, n}) \in {1, n} BY <2>5 DEF Source!Max
  <2>7. Source!Max({1, n}) \in 1 .. Directions BY <1>3, <2>4, <2>6
  <2> QED BY <1>3, <2>7 DEF Source!ConcurrentAngles, n, m
<1>5. ~parallel => Source!ConcurrentAngles(parallel, maximum) = 1 BY DEF Source!ConcurrentAngles
<1>6. SourceTypes
  <2>1. controls \in [parallel : BOOLEAN, concurrent : 1 .. Directions] BY <1>2, <1>4
  <2>2. ~controls.parallel => controls.concurrent = 1 BY <1>2, <1>5
  <2>3. intensities \in OfAngles /\ frozen \in OfAngles /\ unsettled \in OfAngles
    BY <1>1 DEF OfAngles
  <2>4. inputs \in [Source!Angles -> OfAngles] BY <1>1, <2>3
  <2>5. Source!None \in Kept BY DEF Kept
  <2>6. workspace \in [0 .. Directions - 1 -> [angle : Nat, failure : Kept, input : OfAngles]]
    BY <1>1, <2>3, <2>5
  <2>7. solved \in [Source!Angles -> [external : Kept, error : Kept, slow : BOOLEAN]]
    BY <1>1, <2>5
  <2>8. source \in [iterations : 0 .. Source!Budget, failure : Kept] BY <1>1, <1>3, <2>5
  <2>9. direction \in [Source!Angles -> {"waiting", "prepared", "solved", "published"}] BY <1>1
  <2> QED BY <1>1, <2>1, <2>2, <2>3, <2>4, <2>6, <2>7, <2>8, <2>9 DEF SourceTypes
<1>7. Iterations = 0 /\ Failure = Source!None BY <1>1 DEF Iterations, Failure
<1>8. FirstFailure
  <2>1. Fatal = {} BY <1>1, TroubleFacts DEF Fatal
  <2> QED BY <1>1, <1>7, <2>1 DEF FirstFailure
<1>9. Intensity BY <1>1, <1>7 DEF Intensity, Swept, Failing
<1>10. SolvedFrom BY <1>1 DEF SolvedFrom
<1>11. Warning
  <2>1. \A a \in Source!Angles : SlowIn(a) = {0}
    <3>1. ~ \E t \in trouble : t.solve = 0 BY <1>1, TroubleFacts
    <3> QED BY <1>1, <3>1 DEF SlowIn
  <2> QED BY <1>1, <2>1 DEF Warning
<1>12. InBatches /\ OwnWorkspace /\ FrozenBefore BY <1>1 DEF InBatches, OwnWorkspace, FrozenBefore
<1> QED BY <1>6, <1>8, <1>9, <1>10, <1>11, <1>12 DEF SourceInv

LEMMA SourceLaunchKeeps ==
  ASSUME Source!SourceAssumption, SourceInv, Source!Launch
  PROVE  SourceInv'
<1>1. /\ solve' = solve + 1 /\ stage' = "begin"
      /\ intensities' = [a \in Source!Angles |-> 0]
      /\ source' = [iterations |-> 0, failure |-> Source!None]
      /\ unsettled' = [a \in Source!Angles |-> 0]
      /\ UNCHANGED <<controls, trouble, batch, direction, frozen, workspace, solved, inputs>>
  BY DEF Source!Launch
<1>2. SourceTypes BY DEF SourceInv
<1>3. Source!Budget \in Nat \ {0} BY <1>2, SourceNumbers
<1>4. SourceTypes'
  <2>1. intensities' \in OfAngles /\ unsettled' \in OfAngles BY <1>1 DEF OfAngles
  <2>2. Kept' = Kept BY <1>1 DEF Kept
  <2>3. source' \in [iterations : 0 .. Source!Budget, failure : Kept] BY <1>1, <1>3 DEF Kept
  <2>4. solve' \in Nat BY <1>1, <1>2 DEF SourceTypes
  <2> QED BY <1>1, <1>2, <2>1, <2>2, <2>3, <2>4 DEF SourceTypes
<1>5. Iterations' = 0 /\ Failure' = Source!None BY <1>1 DEF Iterations, Failure
<1>6. \A t \in trouble : t.iteration \in Nat /\ t.iteration >= 1 BY <1>2, TroubleFacts DEF SourceTypes
<1>7. FirstFailure'
  <2>1. Fatal' = {} BY <1>1, <1>5, <1>6 DEF Fatal, Reached
  <2> QED BY <1>1, <1>3, <1>5, <2>1 DEF FirstFailure
<1>8. Intensity' BY <1>1, <1>5 DEF Intensity, Swept, Failing
<1>9. SolvedFrom' BY <1>1 DEF SolvedFrom
<1>10. Warning'
  <2>1. \A a \in Source!Angles : SlowIn(a)' = {0} BY <1>1, <1>6 DEF SlowIn
  <2> QED BY <1>1, <2>1 DEF Warning
<1>11. (InBatches /\ OwnWorkspace /\ FrozenBefore)'
  BY <1>1 DEF InBatches, OwnWorkspace, FrozenBefore
<1> QED BY <1>4, <1>7, <1>8, <1>9, <1>10, <1>11 DEF SourceInv

LEMMA BeginIterationKeeps ==
  ASSUME Source!SourceAssumption, SourceInv, Source!BeginIteration
  PROVE  SourceInv'
<1> DEFINE S == {t \in trouble : t.solve = solve
                   /\ t.iteration = source.iterations + 1 /\ t.kind = "incident"}
<1>1. /\ stage = "begin" /\ stage' = "directions" /\ batch' = 0
      /\ source' = [iterations |-> source.iterations + 1, failure |-> Source!First(S)]
      /\ frozen' = IF controls.parallel THEN intensities ELSE frozen
      /\ direction' = [a \in Source!Angles |-> "waiting"]
      /\ UNCHANGED <<controls, trouble, solve, intensities, workspace, solved, unsettled, inputs>>
  BY DEF Source!BeginIteration
<1>2. /\ SourceTypes /\ FirstFailure /\ Intensity /\ SolvedFrom /\ Warning
      /\ trouble \in Troubles
  BY DEF SourceInv, SourceTypes
<1>3. /\ Source!Budget \in Nat \ {0} /\ Iterations \in 0 .. Source!Budget
      /\ Failure = Source!None /\ Iterations < Source!Budget /\ Fatal = {}
  BY <1>1, <1>2, SourceNumbers DEF FirstFailure
<1>4. /\ Iterations' = Iterations + 1 /\ Failure' = Source!First(S)
      /\ S = {t \in trouble : t.solve = solve
                /\ t.iteration = Iterations + 1 /\ t.kind = "incident"}
  BY <1>1 DEF Iterations, Failure
<1>5. Failure' \in S \union {Source!None} /\ (Failure' = Source!None <=> S = {})
  <2>1. S \in SUBSET trouble OBVIOUS
  <2> HIDE DEF S
  <2> QED BY <1>2, <1>4, <2>1, FirstOne
<1> HIDE DEF S
<1>6. SourceTypes'
  <2>1. Kept' = Kept /\ S \subseteq trouble BY <1>1, <1>4 DEF Kept
  <2>2. Source!First(S) \in Kept BY <1>4, <1>5, <2>1 DEF Kept
  <2>3. source.iterations + 1 \in 0 .. Source!Budget BY <1>3 DEF Iterations
  <2>4. source' \in [iterations : 0 .. Source!Budget, failure : Kept] BY <1>1, <2>2, <2>3
  <2>5. frozen' \in OfAngles BY <1>1, <1>2 DEF SourceTypes
  <2>6. direction' \in [Source!Angles -> {"waiting", "prepared", "solved", "published"}] BY <1>1
  <2>7. batch' \in Nat BY <1>1
  <2> QED BY <1>1, <1>2, <2>1, <2>4, <2>5, <2>6, <2>7 DEF SourceTypes
<1>7. \A a \in Source!Angles : direction'[a] = "waiting" /\ ~Swept(a)' BY <1>1 DEF Swept
<1>8. FirstFailure'
  <2>1. ASSUME NEW t \in Fatal' PROVE t \in S
    <3>1. t \in trouble /\ t.solve = solve /\ t.kind # "slow" /\ Reached(t)'
      BY <1>1, <2>1 DEF Fatal
    <3>2. t \notin Fatal BY <1>3
    <3>3. t.iteration \in Nat /\ t.iteration > Iterations
      <4>1. ~(t.iteration = Iterations) /\ ~(t.iteration < Iterations)
        BY <1>1, <3>1, <3>2 DEF Fatal, Reached, Swept
      <4> QED BY <1>2, <1>3, <3>1, <4>1, TroubleFacts
    <3>4. t.iteration = Iterations + 1 /\ (t.place = 0 \/ Swept(t.place)')
      BY <1>1, <1>3, <1>4, <3>1, <3>3 DEF Reached
    <3>5. t.iteration =< Source!Budget BY <1>3, <3>4
    <3>6. t.kind = "incident"
      <4>1. t.kind = "incident" \/ t.place \in Source!Angles BY <1>2, <3>1, <3>5, TroubleFacts
      <4>2. t.place \in Source!Angles => t.place # 0 /\ ~Swept(t.place)'
        BY <1>2, <1>7, SourceNumbers
      <4> QED BY <3>4, <4>1, <4>2
    <3> QED BY <1>4, <3>1, <3>4, <3>6
  <2>2. ASSUME NEW t \in S PROVE t \in Fatal'
    <3>1. t \in trouble /\ t.solve = solve /\ t.iteration = Iterations' /\ t.kind = "incident"
      BY <1>4
    <3>2. t.place = 0 BY <1>2, <1>3, <1>4, <3>1, TroubleFacts
    <3> QED BY <1>1, <3>1, <3>2 DEF Fatal, Reached
  <2>3. ASSUME NEW t \in S, NEW u \in S PROVE ~Source!Before(t, u)
    <3>1. /\ t \in trouble /\ u \in trouble /\ t.iteration = Iterations + 1
          /\ u.iteration = Iterations + 1 /\ t.kind = "incident" /\ u.kind = "incident"
      BY <1>4
    <3>2. t.place = 0 /\ u.place = 0 BY <1>2, <1>3, <3>1, TroubleFacts
    <3> QED BY <1>3, <3>1, <3>2 DEF Source!Before
  <2>4. Failure' # Source!None => Failure'.iteration = Iterations' BY <1>4, <1>5
  <2>5. Failure' = Source!None => Fatal' = {} BY <1>5, <2>1
  <2>6. Failure' # Source!None => Failure' \in Fatal' /\ \A t \in Fatal' : ~Source!Before(t, Failure')
    BY <1>5, <2>1, <2>2, <2>3
  <2>7. Iterations' >= 1 BY <1>3, <1>4
  <2> QED BY <1>1, <2>4, <2>5, <2>6, <2>7 DEF FirstFailure
<1>9. Intensity'
  <2>1. \A a \in Source!Angles : intensities[a] = Iterations
    BY <1>1, <1>2, <1>3 DEF Intensity, Swept, Failing
  <2>2. Iterations' - 1 = Iterations BY <1>3, <1>4
  <2> QED BY <1>1, <1>7, <2>1, <2>2 DEF Intensity
<1>10. InBatches'
  <2>1. \A a \in Source!Angles : BatchOf(a)' \in Nat
    BY <1>1, <1>2, BatchNumbers DEF BatchOf
  <2> SUFFICES ASSUME NEW a \in Source!Angles
               PROVE  /\ BatchOf(a)' < batch' => direction'[a] = "published"
                      /\ direction'[a] = "waiting"
    BY <1>7 DEF InBatches
  <2> QED BY <1>1, <1>7, <2>1
<1>11. OwnWorkspace' BY <1>7 DEF OwnWorkspace
<1>12. FrozenBefore'
  <2>1. \A a \in Source!Angles : intensities[a] = Iterations
    BY <1>1, <1>2, <1>3 DEF Intensity, Swept, Failing
  <2>2. Iterations' - 1 = Iterations BY <1>3, <1>4
  <2> QED BY <1>1, <2>1, <2>2 DEF FrozenBefore
<1>13. SolvedFrom' BY <1>1, <1>2 DEF SolvedFrom, From
<1>14. Warning' BY <1>1, <1>2 DEF Warning, SlowIn
<1> QED BY <1>6, <1>8, <1>9, <1>10, <1>11, <1>12, <1>13, <1>14 DEF SourceInv

\* Steps that neither publish nor report.
LEMMA QuietSource ==
  ASSUME Source!SourceAssumption, SourceInv, stage # "idle", stage' # "idle",
         UNCHANGED <<controls, trouble, solve, intensities, source, unsettled, inputs>>,
         \A a \in Source!Angles : Swept(a)' <=> Swept(a),
         stage' = "begin" => Failure = Source!None /\ Iterations < Source!Budget,
         stage' = "directions" => stage = "directions"
  PROVE  /\ FirstFailure' /\ Intensity' /\ SolvedFrom' /\ Warning'
         /\ Iterations' = Iterations /\ Failure' = Failure /\ Kept' = Kept
         /\ \A a \in Source!Angles :
              /\ BatchOf(a)' = BatchOf(a) /\ Source!WorkspaceOf(a)' = Source!WorkspaceOf(a)
              /\ \A kind : Source!Happens(a, kind)' = Source!Happens(a, kind)
<1>1. /\ SourceTypes /\ FirstFailure /\ Intensity /\ SolvedFrom /\ Warning
      /\ trouble \in Troubles
  BY DEF SourceInv, SourceTypes
<1>2. Iterations' = Iterations /\ Failure' = Failure /\ Kept' = Kept
  BY DEF Iterations, Failure, Kept
<1>3. /\ Source!Budget \in Nat \ {0} /\ Iterations \in 0 .. Source!Budget
  BY <1>1, SourceNumbers
<1>4. ASSUME NEW t \in trouble PROVE Reached(t)' <=> Reached(t)
  <2>1. t.place = 0 \/ t.place \in Source!Angles \/ t.iteration > Source!Budget
    BY <1>1, <1>3, TroubleFacts
  <2>2. t.iteration > Source!Budget => t.iteration # Iterations BY <1>1, <1>3, TroubleFacts
  <2> QED BY <1>2, <2>1, <2>2 DEF Reached
<1>5. Fatal' = Fatal BY <1>4 DEF Fatal
<1>6. FirstFailure' BY <1>1, <1>2, <1>5 DEF FirstFailure
<1>7. Intensity' BY <1>1, <1>2 DEF Intensity, Failing
<1>8. SolvedFrom' BY <1>1 DEF SolvedFrom, From
<1>9. Warning' BY <1>1 DEF Warning, SlowIn
<1>10. \A a \in Source!Angles :
         /\ BatchOf(a)' = BatchOf(a) /\ Source!WorkspaceOf(a)' = Source!WorkspaceOf(a)
         /\ \A kind : Source!Happens(a, kind)' = Source!Happens(a, kind)
  BY DEF BatchOf, Source!WorkspaceOf, Source!Happens
<1> QED BY <1>2, <1>6, <1>7, <1>8, <1>9, <1>10

LEMMA InOneBatch ==
  ASSUME Source!SourceAssumption, SourceInv, stage = "directions", NEW a \in Source!Angles,
         direction[a] \in {"prepared", "solved"}
  PROVE  BatchOf(a) = batch
<1>1. SourceTypes /\ InBatches /\ batch \in Nat BY DEF SourceInv, SourceTypes
<1>2. BatchOf(a) \in Nat BY <1>1, BatchNumbers
<1>3. ~(BatchOf(a) < batch) /\ ~(BatchOf(a) > batch) BY <1>1 DEF InBatches
<1> QED BY <1>1, <1>2, <1>3

LEMMA PrepareKeeps ==
  ASSUME Source!SourceAssumption, SourceInv, NEW a \in Source!Angles, Source!Prepare(a)
  PROVE  SourceInv'
<1> DEFINE w == Source!WorkspaceOf(a)
           new == [angle |-> a, input |-> Source!Angular,
                   failure |-> IF source.failure # Source!None THEN source.failure
                               ELSE Source!First(Source!Happens(a, "prepare"))]
<1>1. /\ stage = "directions" /\ stage' = stage /\ a \in Source!Batch /\ direction[a] = "waiting"
      /\ workspace' = [workspace EXCEPT ![w] = new]
      /\ direction' = [direction EXCEPT ![a] = "prepared"]
      /\ UNCHANGED <<controls, trouble, solve, batch, intensities, frozen, solved,
                     source, unsettled, inputs>>
  BY DEF Source!Prepare
<1>2. /\ SourceTypes /\ FirstFailure /\ Intensity /\ InBatches /\ OwnWorkspace /\ FrozenBefore
      /\ trouble \in Troubles
  BY DEF SourceInv, SourceTypes
<1>3. /\ w \in 0 .. Directions - 1 /\ BatchOf(a) = batch /\ a \in Nat
      /\ \A x \in Source!Angles : x \in Nat
  BY <1>1, <1>2, BatchNumbers, SourceNumbers
<1>4. direction'[a] = "prepared" /\ \A x \in Source!Angles : x # a => direction'[x] = direction[x]
  BY <1>1, <1>2 DEF SourceTypes
<1>5. \A x \in Source!Angles : Swept(x)' <=> Swept(x) BY <1>1, <1>4 DEF Swept
<1>6. /\ FirstFailure' /\ Intensity' /\ SolvedFrom' /\ Warning'
      /\ Iterations' = Iterations /\ Failure' = Failure /\ Kept' = Kept
      /\ \A x \in Source!Angles :
           /\ BatchOf(x)' = BatchOf(x) /\ Source!WorkspaceOf(x)' = Source!WorkspaceOf(x)
           /\ \A kind : Source!Happens(x, kind)' = Source!Happens(x, kind)
  BY <1>1, <1>5, QuietSource
<1>7. Source!Angular \in OfAngles BY <1>2 DEF Source!Angular, SourceTypes
<1>8. Source!First(Source!Happens(a, "prepare")) \in Kept
  <2>1. Source!Happens(a, "prepare") \in SUBSET trouble BY DEF Source!Happens
  <2> QED BY <1>2, <2>1, FirstOne DEF Kept
<1>9. new \in [angle : Nat, failure : Kept, input : OfAngles]
  <2>1. source.failure \in Kept BY <1>2, SourceNumbers DEF Failure
  <2> QED BY <1>3, <1>7, <1>8, <2>1
<1>10. /\ new.input = Source!Angular
       /\ Failure = Source!None => new.failure = Cause(a)
  BY DEF Failure, Cause
<1> HIDE DEF w, new
<1>11. SourceTypes'
  <2>1. direction' \in [Source!Angles -> {"waiting", "prepared", "solved", "published"}]
    BY <1>1, <1>2 DEF SourceTypes
  <2>2. workspace' \in [0 .. Directions - 1 -> [angle : Nat, failure : Kept, input : OfAngles]]
    BY <1>1, <1>2, <1>9 DEF SourceTypes
  <2> QED BY <1>1, <1>2, <1>6, <2>1, <2>2 DEF SourceTypes
<1>12. workspace'[w] = new /\ \A v \in 0 .. Directions - 1 : v # w => workspace'[v] = workspace[v]
  BY <1>1, <1>2, <1>3 DEF SourceTypes
<1>13. InBatches'
  <2> SUFFICES ASSUME NEW x \in Source!Angles
               PROVE  /\ BatchOf(x) < batch => direction'[x] = "published"
                      /\ BatchOf(x) > batch => direction'[x] = "waiting"
                      /\ \A b \in Source!Angles :
                           b < x /\ direction'[x] = "published" => direction'[b] = "published"
    BY <1>1, <1>6 DEF InBatches
  <2>1. BatchOf(x) < batch => direction[x] = "published" /\ x # a
    BY <1>1, <1>2 DEF InBatches
  <2>2. BatchOf(x) > batch => direction[x] = "waiting" /\ x # a
    <3>1. BatchOf(a) \in Nat BY <1>2, BatchNumbers
    <3> QED BY <1>1, <1>2, <1>3, <3>1 DEF InBatches
  <2>3. ASSUME NEW b \in Source!Angles, b < x, direction'[x] = "published"
        PROVE  direction'[b] = "published"
    <3>1. direction[x] = "published" BY <1>4, <2>3
    <3>2. direction[b] = "published" /\ b # a BY <1>1, <1>2, <2>3, <3>1 DEF InBatches
    <3> QED BY <1>4, <3>2
  <2> QED BY <1>4, <2>1, <2>2, <2>3
<1>14. FrozenBefore' BY <1>1, <1>2, <1>6 DEF FrozenBefore
<1>15. ASSUME Failure = Source!None, NEW b \in Source!Angles
       PROVE  new.input[b] = From(Iterations, a, b)
  <2>1. CASE controls.parallel
    <3>1. frozen[b] = Iterations - 1 BY <1>1, <1>2, <2>1 DEF FrozenBefore
    <3> QED BY <1>10, <2>1, <3>1 DEF Source!Angular, From
  <2>2. CASE ~controls.parallel
    <3>1. controls.concurrent = 1 BY <1>2, <2>2 DEF SourceTypes
    <3>2. BatchOf(a) = a - 1 /\ BatchOf(b) = b - 1 BY <1>2, <3>1, BatchNumbers
    <3>3. b < a => direction[b] = "published"
      <4>1. b < a => BatchOf(b) < batch BY <1>3, <3>2
      <4> QED BY <1>1, <1>2, <4>1 DEF InBatches
    <3>4. b > a => direction[b] = "waiting"
      <4>1. b > a => BatchOf(b) > batch BY <1>3, <3>2
      <4> QED BY <1>1, <1>2, <4>1 DEF InBatches
    <3>5. Swept(b) <=> b < a BY <1>1, <1>3, <3>3, <3>4 DEF Swept
    <3>6. intensities[b] = IF Swept(b) THEN Iterations ELSE Iterations - 1
      BY <1>2, <1>15 DEF Intensity, Failing
    <3>7. Iterations \in Nat BY <1>2, SourceNumbers
    <3> QED BY <1>10, <2>2, <3>5, <3>6, <3>7 DEF Source!Angular, From
  <2> QED BY <2>1, <2>2
<1>16. OwnWorkspace'
  <2> SUFFICES
        ASSUME Failure = Source!None, NEW x \in Source!Angles
        PROVE  /\ direction'[x] \in {"prepared", "solved"} =>
                    \A b \in Source!Angles :
                      workspace'[Source!WorkspaceOf(x)].input[b] = From(Iterations, x, b)
               /\ direction'[x] = "prepared" =>
                    workspace'[Source!WorkspaceOf(x)].failure = Cause(x)
               /\ direction'[x] = "solved" =>
                    /\ solved[x].external = Cause(x)
                    /\ solved[x].error = IF Cause(x) = Source!None
                         THEN Source!First(Source!Happens(x, "linear")) ELSE Source!None
                    /\ solved[x].slow <=> Cause(x) = Source!None /\ Source!Happens(x, "slow") # {}
    BY <1>1, <1>6 DEF OwnWorkspace, Cause, From
  <2>1. CASE x = a BY <1>4, <1>10, <1>12, <1>15, <2>1 DEF w
  <2>2. CASE x # a
    <3>1. ASSUME direction[x] \in {"prepared", "solved"}
          PROVE  workspace'[Source!WorkspaceOf(x)] = workspace[Source!WorkspaceOf(x)]
      <4>1. BatchOf(x) = BatchOf(a) BY <1>1, <1>3, <3>1, InOneBatch
      <4>2. Source!WorkspaceOf(x) # w /\ Source!WorkspaceOf(x) \in 0 .. Directions - 1
        BY <1>2, <2>2, <4>1, BatchNumbers DEF w
      <4> QED BY <1>12, <4>2
    <3>2. direction'[x] = direction[x] BY <1>4, <2>2
    <3> QED BY <1>1, <1>2, <3>1, <3>2 DEF OwnWorkspace
  <2> QED BY <2>1, <2>2
<1> QED BY <1>6, <1>11, <1>13, <1>14, <1>16 DEF SourceInv

LEMMA SolveDirectionKeeps ==
  ASSUME Source!SourceAssumption, SourceInv, NEW a \in Source!Angles, Source!SolveDirection(a)
  PROVE  SourceInv'
<1> DEFINE failed == workspace[Source!WorkspaceOf(a)].failure
           error == IF failed = Source!None
                      THEN Source!First(Source!Happens(a, "linear")) ELSE Source!None
           slow == failed = Source!None /\ Source!Happens(a, "slow") # {}
           new == [external |-> failed, error |-> error, slow |-> slow]
<1>1. /\ stage = "directions" /\ stage' = stage /\ direction[a] = "prepared"
      /\ solved' = [solved EXCEPT ![a] = new]
      /\ direction' = [direction EXCEPT ![a] = "solved"]
      /\ UNCHANGED <<controls, trouble, solve, batch, intensities, frozen, workspace,
                     source, unsettled, inputs>>
  BY DEF Source!SolveDirection
<1>2. /\ SourceTypes /\ FirstFailure /\ Intensity /\ InBatches /\ OwnWorkspace /\ FrozenBefore
      /\ trouble \in Troubles
  BY DEF SourceInv, SourceTypes
<1>3. BatchOf(a) = batch /\ batch \in Nat BY <1>1, <1>2, InOneBatch DEF SourceTypes
<1>4. direction'[a] = "solved" /\ \A x \in Source!Angles : x # a => direction'[x] = direction[x]
  BY <1>1, <1>2 DEF SourceTypes
<1>5. \A x \in Source!Angles : Swept(x)' <=> Swept(x) BY <1>1, <1>4 DEF Swept
<1>6. /\ FirstFailure' /\ Intensity' /\ SolvedFrom' /\ Warning'
      /\ Iterations' = Iterations /\ Failure' = Failure /\ Kept' = Kept
      /\ \A x \in Source!Angles :
           /\ BatchOf(x)' = BatchOf(x) /\ Source!WorkspaceOf(x)' = Source!WorkspaceOf(x)
           /\ \A kind : Source!Happens(x, kind)' = Source!Happens(x, kind)
  BY <1>1, <1>5, QuietSource
<1>7. failed \in Kept
  <2>1. Source!WorkspaceOf(a) \in 0 .. Directions - 1 BY <1>2, BatchNumbers
  <2> QED BY <1>2, <2>1 DEF SourceTypes
<1>8. error \in Kept
  <2>1. Source!Happens(a, "linear") \in SUBSET trouble BY DEF Source!Happens
  <2> QED BY <1>2, <2>1, FirstOne DEF Kept
<1>9. slow \in BOOLEAN OBVIOUS
<1>10. Failure = Source!None =>
         /\ failed = Cause(a)
         /\ error = IF Cause(a) = Source!None
                      THEN Source!First(Source!Happens(a, "linear")) ELSE Source!None
         /\ slow <=> Cause(a) = Source!None /\ Source!Happens(a, "slow") # {}
  <2>1. Failure = Source!None => failed = Cause(a) BY <1>1, <1>2 DEF OwnWorkspace
  <2> QED BY <2>1
<1> HIDE DEF failed, error, slow
<1>11. /\ new \in [external : Kept, error : Kept, slow : BOOLEAN]
       /\ new.external = failed /\ new.error = error /\ new.slow = slow
  BY <1>7, <1>8, <1>9
<1> HIDE DEF new
<1>12. SourceTypes'
  <2>1. direction' \in [Source!Angles -> {"waiting", "prepared", "solved", "published"}]
    BY <1>1, <1>2 DEF SourceTypes
  <2>2. solved' \in [Source!Angles -> [external : Kept, error : Kept, slow : BOOLEAN]]
    BY <1>1, <1>2, <1>11 DEF SourceTypes
  <2> QED BY <1>1, <1>2, <1>6, <2>1, <2>2 DEF SourceTypes
<1>13. solved'[a] = new /\ \A x \in Source!Angles : x # a => solved'[x] = solved[x]
  BY <1>1, <1>2 DEF SourceTypes
<1>14. InBatches'
  <2> SUFFICES ASSUME NEW x \in Source!Angles
               PROVE  /\ BatchOf(x) < batch => direction'[x] = "published"
                      /\ BatchOf(x) > batch => direction'[x] = "waiting"
                      /\ \A b \in Source!Angles :
                           b < x /\ direction'[x] = "published" => direction'[b] = "published"
    BY <1>1, <1>6 DEF InBatches
  <2>1. BatchOf(x) < batch => direction[x] = "published" /\ x # a
    BY <1>1, <1>2 DEF InBatches
  <2>2. BatchOf(x) > batch => direction[x] = "waiting" /\ x # a
    BY <1>1, <1>2 DEF InBatches
  <2>3. ASSUME NEW b \in Source!Angles, b < x, direction'[x] = "published"
        PROVE  direction'[b] = "published"
    <3>1. direction[x] = "published" BY <1>4, <2>3
    <3>2. direction[b] = "published" /\ b # a BY <1>1, <1>2, <2>3, <3>1 DEF InBatches
    <3> QED BY <1>4, <3>2
  <2> QED BY <1>4, <2>1, <2>2, <2>3
<1>15. FrozenBefore' BY <1>1, <1>2, <1>6 DEF FrozenBefore
<1>16. OwnWorkspace'
  <2> SUFFICES
        ASSUME Failure = Source!None, NEW x \in Source!Angles
        PROVE  /\ direction'[x] \in {"prepared", "solved"} =>
                    \A b \in Source!Angles :
                      workspace[Source!WorkspaceOf(x)].input[b] = From(Iterations, x, b)
               /\ direction'[x] = "prepared" =>
                    workspace[Source!WorkspaceOf(x)].failure = Cause(x)
               /\ direction'[x] = "solved" =>
                    /\ solved'[x].external = Cause(x)
                    /\ solved'[x].error = IF Cause(x) = Source!None
                         THEN Source!First(Source!Happens(x, "linear")) ELSE Source!None
                    /\ solved'[x].slow <=> Cause(x) = Source!None /\ Source!Happens(x, "slow") # {}
    BY <1>1, <1>6 DEF OwnWorkspace, Cause, From
  <2>1. CASE x = a
    <3>1. \A b \in Source!Angles :
            workspace[Source!WorkspaceOf(x)].input[b] = From(Iterations, x, b)
      BY <1>1, <1>2, <2>1 DEF OwnWorkspace
    <3> QED BY <1>4, <1>10, <1>11, <1>13, <2>1, <3>1
  <2>2. CASE x # a BY <1>1, <1>2, <1>4, <1>13, <2>2 DEF OwnWorkspace
  <2> QED BY <2>1, <2>2
<1> QED BY <1>6, <1>12, <1>14, <1>15, <1>16 DEF SourceInv

\* What an angle adds to the failures when it is published.
LEMMA NewFatal ==
  ASSUME Source!SourceAssumption, SourceInv, stage = "directions", stage' = stage,
         NEW a \in Source!Angles, direction[a] = "solved", Iterations' = Iterations,
         UNCHANGED <<trouble, solve>>,
         direction'[a] = "published",
         \A x \in Source!Angles : x # a => direction'[x] = direction[x]
  PROVE  Fatal' = Fatal \union Source!Happens(a, "prepare") \union Source!Happens(a, "linear")
<1>1. SourceTypes /\ trouble \in Troubles BY DEF SourceInv, SourceTypes
<1>2. /\ Source!Budget \in Nat \ {0} /\ Iterations \in 0 .. Source!Budget
      /\ a \in Nat /\ a # 0
  BY <1>1, SourceNumbers
<1>3. \A x \in Source!Angles : Swept(x)' <=> Swept(x) \/ x = a BY DEF Swept
<1>4. ~Swept(a) BY DEF Swept
<1>5. ASSUME NEW t \in trouble
      PROVE  /\ Reached(t)' <=> Reached(t) \/ (t.iteration = Iterations /\ t.place = a)
             /\ t.place = a /\ t.iteration = Iterations =>
                  t.kind \in {"prepare", "linear", "slow"}
  <2>1. /\ t.iteration \in Nat
        /\ t.iteration =< Source!Budget =>
             \/ t.place = 0 /\ t.kind = "incident"
             \/ t.place \in Source!Angles /\ t.kind \in {"prepare", "linear", "slow"}
    BY <1>1, TroubleFacts
  <2>2. t.iteration = Iterations => t.iteration =< Source!Budget BY <1>2
  <2> QED BY <1>2, <1>3, <2>1, <2>2 DEF Reached
<1>6. Source!Happens(a, "prepare") \union Source!Happens(a, "linear") =
        {t \in trouble : /\ t.solve = solve /\ t.iteration = Iterations /\ t.place = a
                         /\ t.kind \in {"prepare", "linear"}}
  BY DEF Source!Happens, Iterations
<1>7. Fatal = {t \in trouble : t.solve = solve /\ t.kind # "slow" /\ Reached(t)} BY DEF Fatal
<1>8. Fatal' = {t \in trouble : t.solve = solve /\ t.kind # "slow" /\ Reached(t)'} BY DEF Fatal
<1> QED BY <1>5, <1>6, <1>7, <1>8

LEMMA PublishKeeps ==
  ASSUME Source!SourceAssumption, SourceInv, NEW a \in Source!Angles, Source!Publish(a)
  PROVE  SourceInv'
<1> DEFINE failure == IF source.failure # Source!None THEN source.failure
                      ELSE IF solved[a].external # Source!None THEN solved[a].external
                      ELSE solved[a].error
           warning == IF failure = Source!None /\ solved[a].slow THEN source.iterations
                      ELSE unsettled[a]
           input == workspace[Source!WorkspaceOf(a)].input
           prepare == Source!Happens(a, "prepare")
           failing == Source!Happens(a, "linear")
<1>1. /\ stage = "directions" /\ stage' = stage /\ a \in Source!Batch /\ Source!InOrder(a)
      /\ source' = [source EXCEPT !.failure = failure]
      /\ unsettled' = [unsettled EXCEPT ![a] = warning]
      /\ IF failure = Source!None
           THEN /\ intensities' = [intensities EXCEPT ![a] = source.iterations]
                /\ inputs' = [inputs EXCEPT ![a] = input]
           ELSE UNCHANGED <<intensities, inputs>>
      /\ direction' = [direction EXCEPT ![a] = "published"]
      /\ UNCHANGED <<controls, trouble, solve, batch, frozen, workspace, solved>>
  BY DEF Source!Publish
<1>2. /\ SourceTypes /\ FirstFailure /\ Intensity /\ InBatches /\ OwnWorkspace /\ FrozenBefore
      /\ SolvedFrom /\ Warning /\ trouble \in Troubles
  BY DEF SourceInv, SourceTypes
<1>3. /\ BatchOf(a) = batch /\ batch \in Nat /\ direction[a] = "solved"
      /\ \A b \in Source!Batch : b < a => direction[b] = "published"
  BY <1>1, <1>2, BatchNumbers DEF Source!InOrder, SourceTypes
<1>4. direction'[a] = "published" /\ \A x \in Source!Angles : x # a => direction'[x] = direction[x]
  BY <1>1, <1>2 DEF SourceTypes
<1>5. /\ Source!Budget \in Nat \ {0} /\ Iterations \in 0 .. Source!Budget /\ Failure \in Kept
      /\ \A x \in Source!Angles :
           /\ x \in Nat /\ x >= 1 /\ intensities[x] \in Nat /\ unsettled[x] \in Nat
           /\ solved[x].external \in Kept /\ solved[x].error \in Kept
  BY <1>2, SourceNumbers
<1>6. source' \in [iterations : 0 .. Source!Budget, failure : Kept]
      /\ Iterations' = Iterations /\ Failure' = failure
  <2>1. failure \in Kept BY <1>5 DEF Failure
  <2>2. source \in [iterations : 0 .. Source!Budget, failure : Kept] BY <1>2 DEF SourceTypes
  <2> HIDE DEF failure
  <2> QED BY <1>1, <2>1, <2>2 DEF Iterations, Failure
<1>7. /\ Failure # Source!None => failure = Failure
      /\ Failure = Source!None =>
           failure = IF Cause(a) # Source!None THEN Cause(a) ELSE Source!First(failing)
  <2>1. Failure # Source!None => failure = Failure BY DEF Failure
  <2>2. ASSUME Failure = Source!None
        PROVE  failure = IF Cause(a) # Source!None THEN Cause(a) ELSE Source!First(failing)
    <3>1. /\ solved[a].external = Cause(a)
          /\ solved[a].error = IF Cause(a) = Source!None
                                 THEN Source!First(failing) ELSE Source!None
      BY <1>1, <1>2, <1>3, <2>2 DEF OwnWorkspace
    <3> QED BY <2>2, <3>1 DEF Failure
  <2> QED BY <2>1, <2>2
<1>8. /\ prepare \in SUBSET trouble /\ failing \in SUBSET trouble
      /\ \A t \in prepare : t.place = a /\ t.iteration = Iterations /\ t.kind = "prepare"
      /\ \A t \in failing : t.place = a /\ t.iteration = Iterations /\ t.kind = "linear"
  BY DEF Source!Happens, Iterations
<1>9. /\ Cause(a) \in prepare \union {Source!None} /\ (Cause(a) = Source!None <=> prepare = {})
      /\ Source!First(failing) \in failing \union {Source!None}
      /\ Source!First(failing) = Source!None <=> failing = {}
  <2>1. Cause(a) = Source!First(prepare) BY DEF Cause
  <2> HIDE DEF prepare, failing
  <2> QED BY <1>2, <1>8, <2>1, FirstOne
<1>10. Fatal' = Fatal \union prepare \union failing
  BY <1>1, <1>3, <1>4, <1>6, NewFatal
<1>11. Failure = Source!None /\ failure = Source!None =>
         /\ prepare = {} /\ failing = {}
         /\ solved[a].slow <=> Source!Happens(a, "slow") # {}
         /\ \A b \in Source!Angles : input[b] = From(Iterations, a, b)
  <2> SUFFICES ASSUME Failure = Source!None, failure = Source!None
               PROVE  /\ prepare = {} /\ failing = {}
                      /\ solved[a].slow <=> Source!Happens(a, "slow") # {}
                      /\ \A b \in Source!Angles : input[b] = From(Iterations, a, b)
    OBVIOUS
  <2>1. Cause(a) = Source!None /\ Source!First(failing) = Source!None BY <1>7
  <2>2. prepare = {} /\ failing = {} BY <1>9, <2>1
  <2>3. /\ solved[a].slow <=> Cause(a) = Source!None /\ Source!Happens(a, "slow") # {}
        /\ \A b \in Source!Angles : input[b] = From(Iterations, a, b)
    BY <1>1, <1>2, <1>3 DEF OwnWorkspace
  <2> QED BY <2>1, <2>2, <2>3
<1>12. input \in OfAngles
  <2>1. Source!WorkspaceOf(a) \in 0 .. Directions - 1 BY <1>2, BatchNumbers
  <2> QED BY <1>2, <2>1 DEF SourceTypes
<1>13. warning \in Nat BY <1>5 DEF Iterations
<1>14. warning = IF failure = Source!None /\ solved[a].slow THEN Iterations ELSE unsettled[a]
  BY DEF Iterations
<1> HIDE DEF failure, warning, input, prepare, failing
<1>15. Failure = Source!None => Fatal = {} BY <1>2 DEF FirstFailure
\* A failure before this angle is one of an angle before it.
<1>16. Failure # Source!None => Failure.iteration = Iterations /\ Failure.place \in Nat /\ Failure.place < a
  <2> SUFFICES ASSUME Failure # Source!None
               PROVE  Failure.iteration = Iterations /\ Failure.place \in Nat /\ Failure.place < a
    OBVIOUS
  <2>1. Failure \in trouble /\ Reached(Failure) /\ Failure.iteration \in {Iterations, Source!Budget + 1}
    BY <1>2 DEF FirstFailure, Fatal
  <2>2. Failure.iteration = Iterations /\ (Failure.place = 0 \/ Swept(Failure.place))
    BY <1>1, <1>5, <2>1 DEF Reached
  <2>3. Failure.place = 0 \/ Failure.place \in Source!Angles
    BY <1>2, <1>5, <2>1, <2>2, TroubleFacts
  <2>4. CASE Failure.place = 0 BY <1>5, <2>2, <2>4
  <2>5. CASE Failure.place \in Source!Angles /\ Failure.place # 0
    <3>1. direction[Failure.place] = "published" BY <1>1, <2>2, <2>5 DEF Swept
    <3>2. ~(a < Failure.place) /\ a # Failure.place BY <1>1, <1>2, <1>3, <2>5, <3>1 DEF InBatches
    <3> QED BY <1>5, <2>2, <2>5, <3>2
  <2> QED BY <2>3, <2>4, <2>5
<1>17. Failure = Source!None /\ failure # Source!None =>
         failure \in prepare \union failing /\ failure.place = a /\ failure.iteration = Iterations
  BY <1>7, <1>8, <1>9
<1>18. FirstFailure'
  <2>1. CASE Failure # Source!None
    <3>1. failure = Failure BY <1>7, <2>1
    <3>2. ASSUME NEW t \in prepare \union failing PROVE ~Source!Before(t, Failure)
      <4>1. t.place = a /\ t.iteration = Iterations BY <1>8
      <4> QED BY <1>5, <1>16, <2>1, <4>1 DEF Source!Before
    <3>3. Failure \in Fatal /\ \A t \in Fatal : ~Source!Before(t, Failure)
      BY <1>2, <2>1 DEF FirstFailure
    <3>4. Iterations >= 1 BY <1>1, <1>2 DEF FirstFailure
    <3> QED BY <1>1, <1>6, <1>10, <1>16, <2>1, <3>1, <3>2, <3>3, <3>4 DEF FirstFailure
  <2>2. CASE Failure = Source!None
    <3>1. Fatal' = prepare \union failing BY <1>10, <1>15, <2>2
    <3>2. CASE Cause(a) # Source!None
      <4>1. failure \in prepare BY <1>7, <1>9, <2>2, <3>2
      <4>2. \A t \in Fatal' : ~Source!Before(t, failure)
        BY <1>5, <1>8, <3>1, <4>1 DEF Source!Before
      <4> QED BY <1>1, <1>2, <1>6, <1>17, <2>2, <3>1, <4>1, <4>2, <1>7, <3>2 DEF FirstFailure
    <3>3. CASE Cause(a) = Source!None
      <4>1. prepare = {} /\ failure = Source!First(failing) BY <1>7, <1>9, <2>2, <3>3
      <4>2. failure # Source!None => failure \in failing BY <1>9, <4>1
      <4>3. failure # Source!None => \A t \in Fatal' : ~Source!Before(t, failure)
        BY <1>5, <1>8, <3>1, <4>1, <4>2 DEF Source!Before
      <4>4. failure = Source!None => Fatal' = {} BY <1>9, <3>1, <4>1
      <4> QED BY <1>1, <1>2, <1>6, <1>17, <2>2, <3>1, <4>2, <4>3, <4>4 DEF FirstFailure
    <3> QED BY <3>2, <3>3
  <2> QED BY <2>1, <2>2
<1>19. InBatches'
  <2>1. \A x \in Source!Angles : BatchOf(x)' = BatchOf(x) BY <1>1 DEF BatchOf
  <2> SUFFICES ASSUME NEW x \in Source!Angles
               PROVE  /\ BatchOf(x) < batch => direction'[x] = "published"
                      /\ BatchOf(x) > batch => direction'[x] = "waiting"
                      /\ \A b \in Source!Angles :
                           b < x /\ direction'[x] = "published" => direction'[b] = "published"
    BY <1>1, <2>1 DEF InBatches
  <2>2. BatchOf(x) < batch => direction'[x] = "published" BY <1>1, <1>2, <1>4 DEF InBatches
  <2>3. BatchOf(x) > batch => direction'[x] = "waiting" BY <1>1, <1>2, <1>3, <1>4 DEF InBatches
  <2>4. ASSUME NEW b \in Source!Angles, b < x, direction'[x] = "published"
        PROVE  direction'[b] = "published"
    <3>1. CASE x = a
      <4>1. BatchOf(b) =< batch /\ BatchOf(b) \in Nat BY <1>2, <1>3, <1>5, <2>4, <3>1, BatchNumbers
      <4>2. BatchOf(b) < batch => direction[b] = "published" BY <1>1, <1>2 DEF InBatches
      <4>3. BatchOf(b) = batch => b \in Source!Batch BY <1>2, BatchNumbers
      <4>4. direction[b] = "published" BY <1>3, <2>4, <3>1, <4>1, <4>2, <4>3
      <4> QED BY <1>4, <4>4
    <3>2. CASE x # a
      <4>1. direction[b] = "published" BY <1>1, <1>2, <1>4, <2>4, <3>2 DEF InBatches
      <4> QED BY <1>4, <4>1
    <3> QED BY <3>1, <3>2
  <2> QED BY <2>2, <2>3, <2>4
<1>20. FrozenBefore' BY <1>1, <1>2, <1>6 DEF FrozenBefore
<1>21. OwnWorkspace'
  <2>1. Failure' = Source!None => Failure = Source!None BY <1>6, <1>7
  <2>2. \A x \in Source!Angles :
          /\ Source!WorkspaceOf(x)' = Source!WorkspaceOf(x)
          /\ \A kind : Source!Happens(x, kind)' = Source!Happens(x, kind)
    BY <1>1, <1>6 DEF Source!WorkspaceOf, Source!Happens, Iterations
  <2>3. \A x \in Source!Angles : Cause(x)' = Cause(x) BY <2>2 DEF Cause
  <2> SUFFICES
        ASSUME Failure = Source!None, NEW x \in Source!Angles
        PROVE  /\ direction'[x] \in {"prepared", "solved"} =>
                    \A b \in Source!Angles :
                      workspace[Source!WorkspaceOf(x)].input[b] = From(Iterations, x, b)
               /\ direction'[x] = "prepared" =>
                    workspace[Source!WorkspaceOf(x)].failure = Cause(x)
               /\ direction'[x] = "solved" =>
                    /\ solved[x].external = Cause(x)
                    /\ solved[x].error = IF Cause(x) = Source!None
                         THEN Source!First(Source!Happens(x, "linear")) ELSE Source!None
                    /\ solved[x].slow <=> Cause(x) = Source!None /\ Source!Happens(x, "slow") # {}
    BY <1>1, <1>6, <2>1, <2>2, <2>3 DEF OwnWorkspace, From
  <2>4. CASE x = a BY <1>4, <2>4
  <2>5. CASE x # a BY <1>1, <1>2, <1>4, <2>5 DEF OwnWorkspace
  <2> QED BY <2>4, <2>5
<1>22. SourceTypes'
  <2>1. Kept' = Kept BY <1>1 DEF Kept
  <2>2. intensities' \in OfAngles
    <3>1. source.iterations \in Nat BY <1>5 DEF Iterations
    <3> QED BY <1>1, <1>2, <3>1 DEF SourceTypes, OfAngles
  <2>3. unsettled' \in OfAngles BY <1>1, <1>2, <1>13 DEF SourceTypes, OfAngles
  <2>4. inputs' \in [Source!Angles -> OfAngles] BY <1>1, <1>2, <1>12 DEF SourceTypes
  <2>5. direction' \in [Source!Angles -> {"waiting", "prepared", "solved", "published"}]
    BY <1>1, <1>2 DEF SourceTypes
  <2> QED BY <1>1, <1>2, <1>6, <2>1, <2>2, <2>3, <2>4, <2>5 DEF SourceTypes
<1>23. /\ failure = Source!None => intensities'[a] = Iterations /\ inputs'[a] = input
       /\ failure # Source!None => intensities'[a] = intensities[a] /\ inputs'[a] = inputs[a]
       /\ unsettled'[a] = warning
       /\ \A x \in Source!Angles : x # a =>
            intensities'[x] = intensities[x] /\ inputs'[x] = inputs[x] /\ unsettled'[x] = unsettled[x]
  BY <1>1, <1>2 DEF SourceTypes, OfAngles, Iterations
<1>24. /\ Swept(a)' /\ ~Swept(a)
       /\ \A x \in Source!Angles : (x # a => (Swept(x)' <=> Swept(x))) /\ (x < a => Swept(x))
                                   /\ (x > a => ~Swept(x))
  <2>1. Swept(a)' /\ ~Swept(a) /\ \A x \in Source!Angles : x # a => (Swept(x)' <=> Swept(x))
    BY <1>1, <1>3, <1>4 DEF Swept
  <2>2. \A x \in Source!Angles : x < a => direction'[x] = "published"
    BY <1>1, <1>4, <1>19 DEF InBatches
  <2>3. \A x \in Source!Angles : x > a => direction[x] # "published"
    BY <1>1, <1>2, <1>3, <1>5 DEF InBatches
  <2> QED BY <1>1, <1>4, <1>5, <2>1, <2>2, <2>3 DEF Swept
<1>25. intensities[a] = Iterations - 1 BY <1>2, <1>24 DEF Intensity
<1>26. Intensity'
  <2> SUFFICES ASSUME NEW x \in Source!Angles
               PROVE  intensities'[x] = IF Swept(x)' /\ ~Failing(x)' THEN Iterations ELSE Iterations - 1
    BY <1>6 DEF Intensity
  <2>1. intensities[x] = IF Swept(x) /\ ~Failing(x) THEN Iterations ELSE Iterations - 1
    BY <1>2 DEF Intensity
  <2>2. CASE Failure # Source!None
    <3>1. failure = Failure BY <1>7, <2>2
    <3>2. Failing(x)' <=> Failing(x) BY <1>6, <3>1 DEF Failing
    <3>3. intensities'[x] = intensities[x] BY <1>23, <2>2, <3>1
    <3>4. CASE x = a
      <4>1. Failing(a) BY <1>5, <1>16, <2>2 DEF Failing
      <4> QED BY <1>25, <3>2, <3>3, <3>4, <4>1
    <3>5. CASE x # a BY <1>24, <2>1, <3>2, <3>3, <3>5
    <3> QED BY <3>4, <3>5
  <2>3. CASE Failure = Source!None /\ failure = Source!None
    <3>1. ~Failing(x) /\ ~Failing(x)' BY <1>6, <2>3 DEF Failing
    <3> QED BY <1>23, <1>24, <2>1, <2>3, <3>1
  <2>4. CASE Failure = Source!None /\ failure # Source!None
    <3>1. ~Failing(x) BY <2>4 DEF Failing
    <3>2. Failing(x)' <=> a =< x BY <1>5, <1>6, <1>17, <2>4 DEF Failing
    <3>3. intensities'[x] = intensities[x] BY <1>23, <2>4
    <3>4. CASE x < a BY <1>5, <1>24, <2>1, <3>1, <3>2, <3>3, <3>4
    <3>5. CASE x = a BY <1>5, <1>25, <3>2, <3>3, <3>5
    <3>6. CASE x > a BY <1>5, <1>24, <2>1, <3>2, <3>3, <3>6
    <3> QED BY <1>5, <3>4, <3>5, <3>6
  <2> QED BY <2>2, <2>3, <2>4
<1>27. SolvedFrom'
  <2> SUFFICES ASSUME NEW x \in Source!Angles, NEW b \in Source!Angles, intensities'[x] > 0
               PROVE  inputs'[x][b] = From(intensities'[x], x, b)
    BY <1>1 DEF SolvedFrom, From
  <2>1. CASE x = a /\ failure = Source!None
    <3>1. Failure = Source!None BY <1>7, <2>1
    <3> QED BY <1>11, <1>23, <2>1, <3>1
  <2>2. CASE x # a \/ failure # Source!None
    <3>1. inputs'[x] = inputs[x] /\ intensities'[x] = intensities[x] BY <1>23, <2>2
    <3> QED BY <1>2, <3>1 DEF SolvedFrom
  <2> QED BY <2>1, <2>2
<1>28. Warning'
  <2> SUFFICES ASSUME NEW x \in Source!Angles
               PROVE  unsettled'[x] \in SlowIn(x)' /\ \A n \in SlowIn(x)' : n =< unsettled'[x]
    BY DEF Warning
  <2>1. unsettled[x] \in SlowIn(x) /\ \A n \in SlowIn(x) : n =< unsettled[x] BY <1>2 DEF Warning
  <2>2. ASSUME intensities'[x] = intensities[x]
        PROVE  SlowIn(x)' = SlowIn(x)
    BY <1>1, <2>2 DEF SlowIn
  <2>3. CASE x # a BY <1>23, <2>1, <2>2, <2>3
  <2>4. CASE x = a /\ failure # Source!None BY <1>14, <1>23, <2>1, <2>2, <2>4
  <2>5. CASE x = a /\ failure = Source!None
    <3>1. Failure = Source!None BY <1>7, <2>5
    <3>2. \A t \in trouble : t.iteration \in Nat BY <1>2, TroubleFacts
    <3>3. intensities'[a] = Iterations /\ intensities[a] = Iterations - 1 BY <1>23, <1>25, <2>5
    <3>4. Source!Happens(a, "slow") =
            {t \in trouble : t.solve = solve /\ t.iteration = Iterations
                               /\ t.place = a /\ t.kind = "slow"}
      BY DEF Source!Happens, Iterations
    <3>5. SlowIn(a)' = {0} \union {t.iteration : t \in {t \in trouble :
             t.solve = solve /\ t.kind = "slow" /\ t.place = a /\ t.iteration =< Iterations}}
      BY <1>1, <3>3 DEF SlowIn
    <3>6. \A n \in SlowIn(a)' : n =< Iterations BY <1>5, <3>5
    <3>7. CASE solved[a].slow
      <4>1. unsettled'[a] = Iterations BY <1>14, <1>23, <2>5, <3>7
      <4>2. PICK t \in trouble : t.solve = solve /\ t.iteration = Iterations
                                  /\ t.place = a /\ t.kind = "slow"
        BY <1>11, <2>5, <3>1, <3>4, <3>7
      <4>3. Iterations \in SlowIn(a)' BY <1>5, <3>5, <4>2
      <4> QED BY <2>5, <3>6, <4>1, <4>3
    <3>8. CASE ~solved[a].slow
      <4>1. unsettled'[a] = unsettled[a] BY <1>14, <1>23, <3>8
      <4>2. ~ \E t \in trouble : t.solve = solve /\ t.iteration = Iterations
                                  /\ t.place = a /\ t.kind = "slow"
        BY <1>11, <2>5, <3>1, <3>4, <3>8
      <4>3. SlowIn(a) = {0} \union {t.iteration : t \in {t \in trouble :
              t.solve = solve /\ t.kind = "slow" /\ t.place = a /\ t.iteration =< Iterations - 1}}
        BY <3>3 DEF SlowIn
      <4>4. ASSUME NEW t \in trouble, t.solve = solve, t.kind = "slow", t.place = a
            PROVE  t.iteration =< Iterations <=> t.iteration =< Iterations - 1
        <5>1. t.iteration # Iterations BY <4>2, <4>4
        <5> QED BY <1>5, <3>2, <5>1
      <4>5. SlowIn(a)' = SlowIn(a) BY <3>5, <4>3, <4>4
      <4> QED BY <2>1, <2>5, <4>1, <4>5
    <3> QED BY <3>7, <3>8
  <2> QED BY <2>3, <2>4, <2>5
<1> QED BY <1>18, <1>19, <1>20, <1>21, <1>22, <1>26, <1>27, <1>28 DEF SourceInv

LEMMA NextBatchKeeps ==
  ASSUME Source!SourceAssumption, SourceInv, Source!NextBatch
  PROVE  SourceInv'
<1>1. /\ stage = "directions" /\ \A a \in Source!Batch : direction[a] = "published"
      /\ IF batch = Source!LastBatch THEN stage' = "finish" /\ batch' = batch
                                     ELSE stage' = stage /\ batch' = batch + 1
      /\ UNCHANGED <<controls, trouble, solve, direction, intensities, frozen, workspace,
                     solved, source, unsettled, inputs>>
  BY DEF Source!NextBatch
<1>2. SourceTypes /\ InBatches /\ OwnWorkspace /\ FrozenBefore /\ batch \in Nat
  BY DEF SourceInv, SourceTypes
<1>3. \A x \in Source!Angles : BatchOf(x) \in Nat /\ (BatchOf(x) =< batch => direction[x] = "published")
  <2> SUFFICES ASSUME NEW x \in Source!Angles, BatchOf(x) =< batch
               PROVE  direction[x] = "published"
    BY <1>2, BatchNumbers
  <2>1. BatchOf(x) < batch \/ BatchOf(x) = batch BY <1>2, BatchNumbers
  <2> QED BY <1>1, <1>2, <2>1, BatchNumbers DEF InBatches
<1>4. \A x \in Source!Angles : Swept(x)' <=> Swept(x)
  <2>1. CASE batch = Source!LastBatch
    <3>1. \A x \in Source!Angles : direction[x] = "published" BY <1>2, <1>3, <2>1, BatchNumbers
    <3> QED BY <1>1, <3>1 DEF Swept
  <2>2. CASE batch # Source!LastBatch BY <1>1, <2>2 DEF Swept
  <2> QED BY <2>1, <2>2
<1>5. stage' \in {"directions", "finish"} BY <1>1
<1>6. /\ FirstFailure' /\ Intensity' /\ SolvedFrom' /\ Warning'
      /\ Iterations' = Iterations /\ Failure' = Failure /\ Kept' = Kept
      /\ \A x \in Source!Angles :
           /\ BatchOf(x)' = BatchOf(x) /\ Source!WorkspaceOf(x)' = Source!WorkspaceOf(x)
           /\ \A kind : Source!Happens(x, kind)' = Source!Happens(x, kind)
  BY <1>1, <1>4, <1>5, QuietSource
<1>7. SourceTypes'
  <2>1. batch' \in Nat BY <1>1, <1>2
  <2> QED BY <1>1, <1>2, <1>5, <1>6, <2>1 DEF SourceTypes
<1>8. InBatches'
  <2> SUFFICES ASSUME stage' = "directions", NEW x \in Source!Angles
               PROVE  /\ BatchOf(x) < batch' => direction[x] = "published"
                      /\ BatchOf(x) > batch' => direction[x] = "waiting"
                      /\ \A b \in Source!Angles :
                           b < x /\ direction[x] = "published" => direction[b] = "published"
    BY <1>1, <1>6 DEF InBatches
  <2>1. batch' = batch + 1 BY <1>1
  <2>2. BatchOf(x) < batch' => direction[x] = "published" BY <1>2, <1>3, <2>1
  <2>3. BatchOf(x) > batch' => BatchOf(x) > batch BY <1>2, <1>3, <2>1
  <2> QED BY <1>1, <1>2, <2>2, <2>3 DEF InBatches
<1>9. OwnWorkspace' BY <1>1, <1>2, <1>6 DEF OwnWorkspace, Cause, From
<1>10. FrozenBefore' BY <1>1, <1>2, <1>6 DEF FrozenBefore
<1> QED BY <1>6, <1>7, <1>8, <1>9, <1>10 DEF SourceInv

LEMMA FinishIterationKeeps ==
  ASSUME Source!SourceAssumption, SourceInv, Source!FinishIteration
  PROVE  SourceInv'
<1>1. /\ stage = "finish" /\ stage' \in {"begin", "results"}
      /\ stage' = "begin" => source.failure = Source!None /\ source.iterations < Source!Budget
      /\ UNCHANGED <<controls, trouble, solve, batch, direction, intensities, frozen, workspace,
                     solved, source, unsettled, inputs>>
  BY DEF Source!FinishIteration, Source!Continues
<1>2. \A x \in Source!Angles : Swept(x)' <=> Swept(x) BY <1>1 DEF Swept
<1>3. stage' = "begin" => Failure = Source!None /\ Iterations < Source!Budget
  BY <1>1 DEF Failure, Iterations
<1>4. FirstFailure' /\ Intensity' /\ SolvedFrom' /\ Warning' /\ Kept' = Kept
  BY <1>1, <1>2, <1>3, QuietSource
<1>5. SourceTypes' BY <1>1, <1>4 DEF SourceInv, SourceTypes
<1>6. (InBatches /\ OwnWorkspace /\ FrozenBefore)'
  BY <1>1 DEF InBatches, OwnWorkspace, FrozenBefore
<1> QED BY <1>4, <1>5, <1>6 DEF SourceInv

LEMMA ResultsKeeps ==
  ASSUME Source!SourceAssumption, SourceInv, Source!Results
  PROVE  SourceInv'
<1> DEFINE R == {t \in trouble : t.solve = solve /\ t.kind = "result"}
           failure == IF source.failure # Source!None THEN source.failure ELSE Source!FirstOf(R)
<1>1. /\ stage = "results" /\ stage' = "idle" /\ source' = [source EXCEPT !.failure = failure]
      /\ UNCHANGED <<controls, trouble, solve, batch, direction, intensities, frozen, workspace,
                     solved, unsettled, inputs>>
  BY DEF Source!Results
<1>2. SourceTypes /\ FirstFailure /\ Intensity /\ SolvedFrom /\ Warning /\ trouble \in Troubles
  BY DEF SourceInv, SourceTypes
<1>3. /\ Source!Budget \in Nat \ {0} /\ Iterations \in 0 .. Source!Budget /\ Failure \in Kept
  BY <1>2, SourceNumbers
<1>4. failure = IF Failure # Source!None THEN Failure ELSE Source!FirstOf(R) BY DEF Failure
<1>5. \A t \in R : /\ t \in trouble /\ t.solve = solve /\ t.kind = "result"
                   /\ t.place \in 1 .. 3 /\ t.iteration = Source!Budget + 1 /\ t # Source!None
  BY <1>2, TroubleFacts
<1>6. /\ R = {} => Source!FirstOf(R) = Source!None
      /\ R # {} => Source!FirstOf(R) \in R /\ \A u \in R : Source!FirstOf(R).place =< u.place
  <2>1. R = {} => Source!FirstOf(R) = Source!None BY DEF Source!FirstOf
  <2>2. ASSUME R # {}
        PROVE  Source!FirstOf(R) \in R /\ \A u \in R : Source!FirstOf(R).place =< u.place
    <3> HIDE DEF R
    <3>1. \E t \in R : \A u \in R : t.place =< u.place
      <4>1. CASE \E t \in R : t.place = 1 BY <1>5, <4>1
      <4>2. CASE (~ \E t \in R : t.place = 1) /\ \E t \in R : t.place = 2 BY <1>5, <4>2
      <4>3. CASE (~ \E t \in R : t.place = 1) /\ ~ \E t \in R : t.place = 2 BY <1>5, <2>2, <4>3
      <4> QED BY <4>1, <4>2, <4>3
    <3> QED BY <2>2, <3>1 DEF Source!FirstOf
  <2> QED BY <2>1, <2>2
<1>7. \A t \in trouble : t.iteration > Source!Budget <=> t.kind = "result" BY <1>2, TroubleFacts
<1>8. R = {t \in trouble : t.solve = solve /\ t.kind = "result"} OBVIOUS
<1> HIDE DEF R, failure
<1>9. failure \in Kept
  <2>1. Source!FirstOf(R) \in R \union {Source!None} BY <1>6
  <2> QED BY <1>3, <1>4, <1>5, <2>1 DEF Kept
<1>10. source' \in [iterations : 0 .. Source!Budget, failure : Kept]
       /\ Iterations' = Iterations /\ Failure' = failure
  <2>1. source \in [iterations : 0 .. Source!Budget, failure : Kept] BY <1>2 DEF SourceTypes
  <2> QED BY <1>1, <1>9, <2>1 DEF Iterations, Failure
<1>11. Fatal' = Fatal \union R
  <2>1. ASSUME NEW t \in trouble
        PROVE  Reached(t)' <=> Reached(t) \/ t.kind = "result"
    BY <1>1, <1>7, <1>10 DEF Reached, Swept
  <2>2. Fatal = {t \in trouble : t.solve = solve /\ t.kind # "slow" /\ Reached(t)} BY DEF Fatal
  <2>3. Fatal' = {t \in trouble : t.solve = solve /\ t.kind # "slow" /\ Reached(t)'}
    BY <1>1 DEF Fatal
  <2> QED BY <1>8, <2>1, <2>2, <2>3
<1>12. FirstFailure'
  <2>1. CASE Failure # Source!None
    <3>1. Failure \in Fatal /\ \A t \in Fatal : ~Source!Before(t, Failure) BY <1>2, <2>1 DEF FirstFailure
    <3>2. Failure.iteration = Iterations
      BY <1>1, <1>2, <1>3, <2>1, <3>1 DEF FirstFailure, Fatal, Reached
    <3>3. \A t \in R : ~Source!Before(t, Failure) BY <1>3, <1>5, <3>2 DEF Source!Before
    <3> QED BY <1>1, <1>4, <1>10, <1>11, <2>1, <3>1, <3>2, <3>3 DEF FirstFailure
  <2>2. CASE Failure = Source!None
    <3>1. Fatal' = R /\ failure = Source!FirstOf(R) BY <1>2, <1>4, <1>11, <2>2 DEF FirstFailure
    <3>2. CASE R = {} BY <1>1, <1>6, <1>10, <3>1, <3>2 DEF FirstFailure
    <3>3. CASE R # {}
      <4>1. failure \in R /\ \A u \in R : failure.place =< u.place BY <1>6, <3>1, <3>3
      <4>2. \A t \in R : ~Source!Before(t, failure)
        BY <1>3, <1>5, <4>1 DEF Source!Before
      <4>3. failure # Source!None /\ failure.iteration = Source!Budget + 1 BY <1>5, <4>1
      <4> QED BY <1>1, <1>10, <3>1, <4>1, <4>2, <4>3 DEF FirstFailure
    <3> QED BY <3>2, <3>3
  <2> QED BY <2>1, <2>2
<1>13. Intensity'
  <2>1. \A x \in Source!Angles : Swept(x)' /\ Swept(x) BY <1>1 DEF Swept
  <2>2. \A x \in Source!Angles : Failing(x)' <=> Failing(x)
    <3>1. CASE Failure # Source!None BY <1>4, <1>10, <3>1 DEF Failing
    <3>2. CASE Failure = Source!None
      <4>1. failure = Source!None \/ failure.iteration = Source!Budget + 1
        BY <1>4, <1>5, <1>6, <3>2
      <4> QED BY <1>3, <1>10, <3>2, <4>1 DEF Failing
    <3> QED BY <3>1, <3>2
  <2> QED BY <1>1, <1>2, <1>10, <2>1, <2>2 DEF Intensity
<1>14. SolvedFrom' BY <1>1, <1>2 DEF SolvedFrom, From
<1>15. Warning' BY <1>1, <1>2 DEF Warning, SlowIn
<1>16. (InBatches /\ OwnWorkspace /\ FrozenBefore)'
  BY <1>1 DEF InBatches, OwnWorkspace, FrozenBefore
<1>17. SourceTypes'
  <2>1. Kept' = Kept BY <1>1 DEF Kept
  <2> QED BY <1>1, <1>2, <1>10, <2>1 DEF SourceTypes
<1> QED BY <1>12, <1>13, <1>14, <1>15, <1>16, <1>17 DEF SourceInv

LEMMA SourceStep ==
  Source!SourceAssumption /\ SourceInv /\ [Source!Next]_Source!vars => SourceInv'
<1> SUFFICES ASSUME Source!SourceAssumption, SourceInv, [Source!Next]_Source!vars
             PROVE  SourceInv'
  OBVIOUS
<1>1. CASE Source!Launch BY <1>1, SourceLaunchKeeps
<1>2. CASE Source!BeginIteration BY <1>2, BeginIterationKeeps
<1>3. CASE Source!NextBatch BY <1>3, NextBatchKeeps
<1>4. CASE Source!FinishIteration BY <1>4, FinishIterationKeeps
<1>5. CASE Source!Results BY <1>5, ResultsKeeps
<1>6. ASSUME NEW a \in Source!Angles, Source!Prepare(a) PROVE SourceInv' BY <1>6, PrepareKeeps
<1>7. ASSUME NEW a \in Source!Angles, Source!SolveDirection(a) PROVE SourceInv'
  BY <1>7, SolveDirectionKeeps
<1>8. ASSUME NEW a \in Source!Angles, Source!Publish(a) PROVE SourceInv' BY <1>8, PublishKeeps
<1>9. CASE UNCHANGED Source!vars
  <2>1. UNCHANGED <<controls, trouble, solve, stage, batch, direction, intensities, frozen,
                    workspace, solved, source, unsettled, inputs>>
    BY <1>9 DEF Source!vars
  <2>2. UNCHANGED <<Iterations, Failure, Kept>> BY <2>1 DEF Iterations, Failure, Kept
  <2>3. SourceTypes' BY <2>1, <2>2 DEF SourceInv, SourceTypes
  <2>4. FirstFailure' BY <2>1, <2>2 DEF SourceInv, FirstFailure, Fatal, Reached, Swept
  <2>5. Intensity' BY <2>1, <2>2 DEF SourceInv, Intensity, Swept, Failing
  <2>6. InBatches' BY <2>1 DEF SourceInv, InBatches, BatchOf
  <2>7. ASSUME NEW a \in Source!Angles
         PROVE  /\ \A kind : Source!Happens(a, kind)' = Source!Happens(a, kind)
                /\ Source!WorkspaceOf(a)' = Source!WorkspaceOf(a)
    BY <2>1 DEF Source!Happens, Source!WorkspaceOf
  <2>8. ASSUME NEW a \in Source!Angles PROVE Cause(a)' = Cause(a) BY <2>7 DEF Cause
  <2>9. OwnWorkspace' BY <2>1, <2>2, <2>7, <2>8 DEF SourceInv, OwnWorkspace, From
  <2>10. FrozenBefore' BY <2>1, <2>2 DEF SourceInv, FrozenBefore
  <2>11. SolvedFrom' BY <2>1 DEF SourceInv, SolvedFrom, From
  <2>12. Warning' BY <2>1 DEF SourceInv, Warning, SlowIn
  <2> QED BY <2>3, <2>4, <2>5, <2>6, <2>9, <2>10, <2>11, <2>12 DEF SourceInv
<1>10. CASE Source!Done BY <1>9, <1>10 DEF Source!Done
<1> QED BY <1>1, <1>2, <1>3, <1>4, <1>5, <1>6, <1>7, <1>8, <1>9, <1>10 DEF Source!Next

LEMMA SourceImplies == Source!SourceAssumption /\ SourceInv => Source!AsSequential
<1> SUFFICES ASSUME Source!SourceAssumption, SourceInv, stage = "idle", solve > 0
             PROVE  Source!AsSequential
  BY DEF Source!AsSequential
<1>1. SourceTypes /\ FirstFailure /\ Intensity /\ SolvedFrom /\ Warning /\ trouble \in Troubles
  BY DEF SourceInv, SourceTypes
<1>2. /\ Source!Budget \in Nat \ {0} /\ Iterations \in 0 .. Source!Budget
      /\ \A a \in Source!Angles : a \in Nat /\ intensities[a] \in Nat /\ unsettled[a] \in Nat
  BY <1>1, SourceNumbers
<1> DEFINE reached == {t \in trouble : t.solve = solve /\ t.kind # "slow"
                         /\ (t.iteration <= source.iterations \/ t.iteration > Source!Budget)}
<1>3. reached = Fatal
  <2>1. ASSUME NEW t \in trouble
        PROVE  Reached(t) <=> t.iteration <= source.iterations \/ t.iteration > Source!Budget
    <3>1. t.iteration \in Nat BY <1>1, TroubleFacts
    <3>2. Reached(t) <=> t.iteration < Iterations \/ t.iteration = Iterations
                           \/ t.iteration > Source!Budget
      BY DEF Reached, Swept
    <3> QED BY <1>2, <3>1, <3>2 DEF Iterations
  <2> QED BY <2>1 DEF Fatal
<1>4. IF reached = {} THEN source.failure = Source!None
        ELSE source.failure \in reached /\ \A t \in reached : ~Source!Before(t, source.failure)
  BY <1>1, <1>3 DEF FirstFailure, Failure
<1>5. ASSUME NEW a \in Source!Angles
      PROVE  /\ intensities[a] = source.iterations -
                  (IF source.failure # Source!None /\ source.failure.iteration <= Source!Budget
                      /\ source.failure.place <= a THEN 1 ELSE 0)
             /\ intensities[a] > 0 => \A b \in Source!Angles :
                  inputs[a][b] =
                    intensities[a] - (IF ~controls.parallel /\ b < a THEN 0 ELSE 1)
             /\ unsettled[a] = Source!Max({0} \union {t.iteration : t \in {t \in trouble :
                  /\ t.solve = solve /\ t.kind = "slow" /\ t.place = a
                  /\ t.iteration <= intensities[a]}})
  <2>1. intensities[a] = IF ~Failing(a) THEN Iterations ELSE Iterations - 1
    BY <1>1 DEF Intensity, Swept
  <2>2. intensities[a] > 0 => \A b \in Source!Angles : inputs[a][b] = From(intensities[a], a, b)
    BY <1>1 DEF SolvedFrom
  <2>3. unsettled[a] \in SlowIn(a) /\ \A n \in SlowIn(a) : n =< unsettled[a] BY <1>1 DEF Warning
  <2>4. \A n \in SlowIn(a) : n \in Nat BY <1>1, TroubleFacts DEF SlowIn
  <2>5. unsettled[a] = Source!Max(SlowIn(a))
    <3>1. \E m \in SlowIn(a) : \A n \in SlowIn(a) : m >= n BY <1>2, <2>3, <2>4
    <3>2. Source!Max(SlowIn(a)) \in SlowIn(a) /\ \A n \in SlowIn(a) : Source!Max(SlowIn(a)) >= n
      BY <3>1 DEF Source!Max
    <3> QED BY <1>2, <2>3, <2>4, <3>2
  <2>6. SlowIn(a) = {0} \union {t.iteration : t \in {t \in trouble :
          /\ t.solve = solve /\ t.kind = "slow" /\ t.place = a
          /\ t.iteration <= intensities[a]}}
    BY DEF SlowIn
  <2>7. intensities[a] = source.iterations -
          (IF source.failure # Source!None /\ source.failure.iteration <= Source!Budget
              /\ source.failure.place <= a THEN 1 ELSE 0)
    BY <1>2, <2>1 DEF Failing, Iterations, Failure
  <2> QED BY <2>2, <2>5, <2>6, <2>7 DEF From
<1> HIDE DEF reached
<1> QED BY <1>4, <1>5 DEF Source!AsSequential, reached

\* However many directions are solved at once, for any number of them, any budget and
\* whatever goes wrong, a solve of the source iteration ends as the sequential one.
THEOREM BatchesAreSequential == Source!Spec => []AsSequential
<1>1. Source!Init => SourceInv BY SourceInit, AnglesAssumption
<1>2. SourceInv /\ [Source!Next]_Source!vars => SourceInv' BY SourceStep, AnglesAssumption
<1>3. SourceInv => AsSequential BY SourceImplies, AnglesAssumption DEF AsSequential
<1> QED BY <1>1, <1>2, <1>3, PTL DEF Source!Spec
=============================================================================
