--------------------------- MODULE CoupledWindow ---------------------------
(***************************************************************************)
(* The coupled run of applications/CHMT: the frontend's loop over coupling *)
(* windows (CHMT.C) and advanceCoupledWindow (io/MultirateEvolution.C).    *)
(* In a window the gas advances by microsteps that its CFL limit chooses   *)
(* and records, per microstep, what it gave to the wall; the records wait  *)
(* on the device and are published to the host at the end of the window.   *)
(* Radiation is solved in every RadiationFrequency-th window.  The         *)
(* material then advances through the same window in steps of its own,     *)
(* cutting the records into slices.  The window is committed when both     *)
(* have arrived; a failing call ends the process, which may be started     *)
(* again from a checkpoint.                                                *)
(*                                                                         *)
(* Time is counted in ticks, from the begin of the window in its local     *)
(* clocks; Durations are the ticks that one floating-point number holds,   *)
(* while the compensated clocks hold every sum.  One amount stands for     *)
(* all that an exchange packet carries and one regime for the drive of a   *)
(* gas record, two regimes being farther apart than the drive tolerance.   *)
(***************************************************************************)
EXTENDS Integers, Sequences, FiniteSets

CONSTANTS
  Interval,            (* length of a coupling window                        *)
  EndTime,             (* where the run ends                                 *)
  Durations,           (* what a floating-point duration can be              *)
  Cap,                 (* the smaller of gasMaxDt and maxDt                  *)
  Growth,              (* maximumTimeStepGrowth                              *)
  CourantInterval,     (* microsteps between two CFL estimates               *)
  Stables,             (* what a CFL estimate may allow                      *)
  FirstDt,             (* the initial timestep                               *)
  MaxSubstep,          (* the longest material step                          *)
  Limits,              (* what material transport may allow                  *)
  Amounts,             (* what the gas may give to the wall in a microstep   *)
  Regimes,             (* drives of a gas record                             *)
  RadiationFrequency,  (* windows between two radiation solves               *)
  CheckpointInterval,  (* windows between two checkpoints                    *)
  MaxStops             (* bound: failing calls and crashes                   *)

ASSUME ClockAssumption ==
  /\ Interval \in Nat \ {0} /\ EndTime \in Nat
  /\ Durations \subseteq Nat \ {0} /\ 1 \in Durations
ASSUME StepAssumption ==
  /\ {Cap, FirstDt, MaxSubstep} \subseteq Durations
  /\ Stables \subseteq Durations /\ Limits \subseteq Durations
  /\ Stables # {} /\ Limits # {}
  /\ Growth \in Nat \ {0} /\ CourantInterval \in Nat \ {0}
ASSUME ExchangeAssumption == Amounts \subseteq Int /\ Amounts # {} /\ Regimes # {}
ASSUME CadenceAssumption ==
  {RadiationFrequency, CheckpointInterval} \subseteq Nat \ {0} /\ MaxStops \in Nat

VARIABLES
  phase,      (* what the process does next                                  *)
  stops,      (* failing calls and crashes so far                            *)
  saved,      (* states in checkpoints                                       *)
  accepted,   (* input.state: the accepted state of the frontend             *)
  window,     (* the coupling interval: begin, end and radiation heat        *)
  base,       (* Backend::accepted                                           *)
  gas,        (* the gas of Backend::trial and of its endpoint               *)
  elapsed,    (* Backend::elapsed                                            *)
  seed,       (* Backend::nextGasSeed; 0 in a new Backend                    *)
  gasSteps,   (* Backend::gasSteps, modulo CourantInterval                   *)
  records,    (* Backend::history                                            *)
  published,  (* Backend::historyPublishedFrames                             *)
  clock,      (* on the device: the wall clock                               *)
  frames,     (* on the device: the archived records                         *)
  frameCount, (* Backend::historyFrameCount                                  *)
  solid,      (* the solid the material has come to                          *)
  slab,       (* the material step: begin, end, the record that drives it    *)
  cursor,     (* the slices: time, record, what was used of it and of heat   *)
  given       (* history: what the gas gave up to and with each record       *)

frontend == <<phase, stops, saved, accepted>>
backend == <<base, gas, elapsed, seed, gasSteps, records, published>>
device == <<clock, frames, frameCount>>
material == <<solid, slab, cursor>>
vars == <<frontend, window, backend, device, material, given>>

Smaller(a, b) == IF a =< b THEN a ELSE b
Larger(a, b) == IF a >= b THEN a ELSE b

\* The cast alone, which may round up.
Rounded(span) ==
  CHOOSE d \in Durations : d >= span /\ \A e \in Durations : e >= span => d =< e

\* boundedWindowDuration: the longest floating-point duration in a span.
Bounded(span) ==
  CHOOSE d \in Durations : d =< span /\ \A e \in Durations : e =< span => e =< d

Duration == window.end - window.begin
Last == Len(records)
NoRegime == 0
Junk == [begin |-> 0, end |-> 0, amount |-> 0, regime |-> NoRegime]
Stopped == [elapsed |-> 0, sequence |-> 0]
NoSlab == [begin |-> 0, end |-> 0, drive |-> 0, packets |-> 0]
Start == [time |-> 0, record |-> 1, used |-> 0, heat |-> 0]

\* The state of the case: times, exchanges and budgets start at zero.
Case ==
  [time |-> 0, commits |-> 0, nextDt |-> FirstDt, gas |-> 0, solid |-> 0,
   budget |-> 0, radiated |-> 0]

Init ==
  /\ phase = "initial" /\ stops = 0 /\ saved = {} /\ accepted = Case
  /\ window = [begin |-> 0, end |-> 0, heat |-> 0, radiated |-> 0]
  /\ base = Case /\ gas = 0 /\ elapsed = 0 /\ seed = 0 /\ gasSteps = 0
  /\ records = <<>> /\ published = 0
  /\ clock = Stopped /\ frames = <<Junk>> /\ frameCount = 0
  /\ solid = 0 /\ slab = NoSlab /\ cursor = Start /\ given = <<>>

\* A new Backend for a state, nothing in it of what was there before.
Fresh(state) ==
  /\ window' = [begin |-> 0, end |-> 0, heat |-> 0, radiated |-> 0]
  /\ base' = state /\ gas' = 0 /\ elapsed' = 0 /\ seed' = 0 /\ gasSteps' = 0
  /\ records' = <<>> /\ published' = 0
  /\ clock' = Stopped /\ frames' = <<Junk>> /\ frameCount' = 0
  /\ solid' = 0 /\ slab' = NoSlab /\ cursor' = Start /\ given' = <<>>

-----------------------------------------------------------------------------
\* The gas.  beginGasWindow takes the trial from its own accepted state; what
\* is archived on the device stays there until it is overwritten.
Begin ==
  /\ phase = "idle"
  /\ phase' = "gas"
  /\ window' = [begin |-> accepted.time, heat |-> 0, radiated |-> base.radiated,
                end |-> Smaller(EndTime, accepted.time + Interval)]
  /\ gas' = base.gas /\ elapsed' = 0 /\ seed' = base.nextDt
  /\ records' = <<>> /\ published' = 0 /\ given' = <<>>
  /\ clock' = Stopped /\ frameCount' = 0
  /\ UNCHANGED <<stops, saved, accepted, base, gasSteps, frames, material>>

\* The next seed: it grows only with a fresh CFL estimate.
Proposed == IF seed > 0 THEN Smaller(Cap, seed) ELSE Cap
Refreshed == gasSteps = 0
\* A growth event in every microstep.
ProposalGrowing(stable) == Smaller(Cap, Smaller(stable, Bounded(Growth * Proposed)))

Proposal(stable) ==
  IF Refreshed THEN Smaller(Cap, Smaller(stable, Bounded(Growth * Proposed)))
               ELSE Smaller(Cap, Proposed)

\* The larger array starts empty.
ArchiveEmptied(frame) ==
  LET full == frameCount = Len(frames)
      kept == IF full THEN [i \in 1 .. 2 * Len(frames) |-> Junk] ELSE frames
  IN  /\ frames' = [kept EXCEPT ![frameCount + 1] = frame]
      /\ frameCount' = frameCount + 1

\* The device's array of records doubles when it is full.
Archive(frame) ==
  LET capacity == IF frameCount < Len(frames) THEN Len(frames)
                  ELSE Larger(frameCount + 1, 2 * Len(frames))
      kept == [i \in 1 .. capacity |-> IF i =< Len(frames) THEN frames[i] ELSE Junk]
  IN  /\ frames' = [kept EXCEPT ![frameCount + 1] = frame]
      /\ frameCount' = frameCount + 1

\* The device takes the step on a clock of its own.
Tick(dt) == clock' = [elapsed |-> clock.elapsed + dt, sequence |-> clock.sequence + 1]

Microstep ==
  /\ phase = "gas" /\ elapsed < Duration
  /\ \E stable \in Stables, amount \in Amounts, regime \in Regimes :
       LET dt == Smaller(Proposal(stable), Bounded(Duration - elapsed))
       IN  /\ Archive([begin |-> clock.elapsed, end |-> clock.elapsed + dt,
                       amount |-> amount, regime |-> regime])
           /\ Tick(dt)
           /\ records' = Append(records, [begin |-> elapsed, end |-> elapsed + dt,
                                          amount |-> 0, regime |-> NoRegime])
           /\ elapsed' = elapsed + dt
           /\ seed' = Proposal(stable)
           /\ gas' = gas - amount
           /\ given' = Append(given, amount + IF Last = 0 THEN 0 ELSE given[Last])
  /\ gasSteps' = (gasSteps + 1) % CourantInterval
  /\ UNCHANGED <<frontend, window, base, published, material>>

\* downloadGasWindow publishes what the device has archived, once.
Download ==
  /\ phase = "gas" /\ elapsed >= Duration
  /\ phase' = "radiation"
  /\ records' = IF published = frameCount THEN records
                ELSE [i \in 1 .. Last |-> [records[i] EXCEPT !.amount = frames[i].amount,
                                                             !.regime = frames[i].regime]]
  /\ published' = frameCount
  /\ UNCHANGED <<stops, saved, accepted, window, base, gas, elapsed, seed, gasSteps,
                 device, material, given>>

-----------------------------------------------------------------------------
\* Radiation: one unit of heat per tick since it was last solved, all of it to
\* the wall.  Then the material starts, if the history is complete.
\* The end of the history is compared with the window's rounded length.
CompleteRounded == Last > 0 /\ records[Last].end = Bounded(Duration)

Complete == Last > 0 /\ records[Last].end = Duration

\* The heat of this window only.
RadiateWindow ==
  /\ phase = "radiation" /\ Complete
  /\ phase' = "material"
  /\ window' = IF (accepted.commits + 1) % RadiationFrequency = 0
               THEN [window EXCEPT !.heat = elapsed, !.radiated = window.begin + elapsed]
               ELSE window
  /\ solid' = accepted.solid /\ cursor' = Start /\ slab' = NoSlab
  /\ UNCHANGED <<stops, saved, accepted, backend, device, given>>

Radiate ==
  /\ phase = "radiation" /\ Complete
  /\ phase' = "material"
  /\ LET now == window.begin + elapsed
     IN  IF (accepted.commits + 1) % RadiationFrequency = 0
         THEN /\ now > window.radiated
              /\ window' = [window EXCEPT !.heat = now - window.radiated, !.radiated = now]
         ELSE UNCHANGED window
  /\ solid' = accepted.solid /\ cursor' = Start /\ slab' = NoSlab
  /\ UNCHANGED <<stops, saved, accepted, backend, device, given>>

-----------------------------------------------------------------------------
\* The material.  A step holds the drive of the record it starts in and ends
\* where a record begins whose drive differs too much.
Held(time) == CHOOSE i \in 1 .. Last : records[i].begin =< time /\ time < records[i].end

Changes(time, end) ==
  {records[i].begin : i \in {j \in Held(time) .. Last :
     /\ time < records[j].begin /\ records[j].begin < end
     /\ records[j].regime # records[Held(time)].regime}}

\* Only the next record is compared.
SlabEndNext(time, end) ==
  LET next == Held(time) + 1
  IN  IF next =< Last /\ records[next].begin \in Changes(time, end)
      THEN records[next].begin ELSE end

SlabEnd(time, end) ==
  IF Changes(time, end) = {} THEN end
  ELSE CHOOSE t \in Changes(time, end) : \A u \in Changes(time, end) : t =< u

BeginStep ==
  /\ phase = "material" /\ cursor.time < Duration
  /\ phase' = "slices"
  /\ LET now == cursor.time
         end == SlabEnd(now, now + Smaller(Bounded(Duration - now), MaxSubstep))
     IN  \E limit \in Limits :
           slab' = [begin |-> now, end |-> now + Smaller(Bounded(end - now), limit),
                    drive |-> Held(now), packets |-> 0]
  /\ UNCHANGED <<stops, saved, accepted, window, backend, device, solid, cursor, given>>

\* Every slice is a fraction, the last one too.
SliceByFraction ==
  /\ phase = "slices" /\ cursor.time < slab.end
  /\ LET record == records[cursor.record]
         stop == Smaller(slab.end, record.end)
         part == (record.amount * (stop - cursor.time)) \div (record.end - record.begin)
     IN  /\ cursor' = [cursor EXCEPT !.time = stop,
                         !.record = IF stop = record.end THEN @ + 1 ELSE @]
         /\ slab' = [slab EXCEPT !.packets = @ + part]
  /\ UNCHANGED <<frontend, window, backend, device, solid, given>>

\* takeThroughLocal, one record: the last slice of it takes what is left.
Slice ==
  /\ phase = "slices" /\ cursor.time < slab.end
  /\ LET record == records[cursor.record]
         stop == Smaller(slab.end, record.end)
         last == stop = record.end
         part == IF last THEN record.amount - cursor.used
                 ELSE (record.amount * (stop - cursor.time)) \div (record.end - record.begin)
     IN  /\ cursor' = [cursor EXCEPT !.time = stop,
                         !.record = IF last THEN @ + 1 ELSE @,
                         !.used = IF last THEN 0 ELSE @ + part]
         /\ slab' = [slab EXCEPT !.packets = @ + part]
  /\ UNCHANGED <<frontend, window, backend, device, solid, given>>

\* The rest of takeThroughLocal, the external radiation, and the step itself.
FinishStep ==
  /\ phase = "slices" /\ cursor.time = slab.end
  /\ phase' = "material"
  /\ LET part == IF slab.end = Duration THEN window.heat - cursor.heat
                 ELSE (window.heat * (slab.end - slab.begin)) \div Duration
     IN  /\ solid' = solid + slab.packets + part
         /\ cursor' = [cursor EXCEPT !.heat = @ + part]
  /\ slab' = NoSlab
  /\ UNCHANGED <<stops, saved, accepted, window, backend, device, given>>

-----------------------------------------------------------------------------
\* The radiation of the window is not entered in the budget.
CandidateUnbudgeted ==
  [accepted EXCEPT !.time = window.end, !.commits = @ + 1, !.nextDt = seed,
                   !.gas = gas, !.solid = solid, !.radiated = window.radiated]

\* The candidate takes the gas endpoint and the material; conduction moves
\* nothing in or out.
Candidate ==
  [time |-> window.end, commits |-> accepted.commits + 1, nextDt |-> seed,
   gas |-> gas, solid |-> solid, budget |-> accepted.budget + window.heat,
   radiated |-> window.radiated]

\* Both owners accept it.
Commit ==
  /\ phase = "material" /\ cursor.time = Duration
  /\ phase' = "publish"
  /\ accepted' = Candidate
  /\ base' = accepted'
  /\ records' = <<>> /\ given' = <<>>
  /\ solid' = 0 /\ cursor' = Start /\ slab' = NoSlab
  /\ UNCHANGED <<stops, saved, window, gas, elapsed, seed, gasSteps, published, device>>

\* publish: forced at the begin and the end of a run.
Publish ==
  /\ phase \in {"initial", "publish"}
  /\ phase' = IF accepted.time < EndTime THEN "idle" ELSE "finished"
  /\ saved' = IF \/ phase = "initial" \/ accepted.time >= EndTime
                 \/ accepted.commits % CheckpointInterval = 0
              THEN saved \cup {accepted} ELSE saved
  /\ UNCHANGED <<stops, accepted, window, backend, device, material, given>>

\* A call fails, which ends the process, or it is killed: its memory is gone.
Stop ==
  /\ phase \notin {"dead", "finished"} /\ stops < MaxStops
  /\ phase' = "dead" /\ stops' = stops + 1
  /\ Fresh(accepted)
  /\ UNCHANGED <<saved, accepted>>

Restart ==
  /\ phase = "dead"
  /\ phase' = "initial"
  /\ \E state \in saved : accepted' = state /\ Fresh(state)
  /\ UNCHANGED <<stops, saved>>

Advance ==
  \/ Begin \/ Microstep \/ Download \/ Radiate
  \/ BeginStep \/ Slice \/ FinishStep \/ Commit \/ Publish

Next == Advance \/ Stop \/ Restart

\* The process goes on unless it is stopped; nobody has to start it again.
Spec == Init /\ [][Next]_vars /\ WF_vars(Advance)

-----------------------------------------------------------------------------
States ==
  [time : 0 .. EndTime, commits : Nat, nextDt : Durations, gas : Int, solid : Int,
   budget : Nat, radiated : 0 .. EndTime]
Records == [begin : Nat, end : Nat, amount : Int, regime : Regimes \cup {NoRegime}]

(* The variables have their types, and the device's array has room for the   *)
(* records archived in it.                                                   *)
TypeOK ==
  /\ phase \in {"initial", "idle", "gas", "radiation", "material", "slices",
                "publish", "finished", "dead"}
  /\ stops \in 0 .. MaxStops /\ saved \subseteq States /\ {accepted, base} \subseteq States
  /\ window \in [begin : 0 .. EndTime, end : 0 .. EndTime, heat : Nat,
                 radiated : 0 .. EndTime]
  /\ gas \in Int /\ solid \in Int
  /\ elapsed \in Nat /\ seed \in Durations \cup {0}
  /\ gasSteps \in 0 .. CourantInterval - 1
  /\ records \in Seq(Records) /\ frames \in Seq(Records)
  /\ published \in Nat /\ frameCount \in 0 .. Len(frames)
  /\ clock \in [elapsed : Nat, sequence : Nat]
  /\ slab \in [begin : Nat, end : Nat, drive : Nat, packets : Int]
  /\ cursor \in [time : Nat, record : Nat \ {0}, used : Int, heat : Int]
  /\ given \in Seq(Int)

(* The records cover the window without gap or overlap, whatever steps the   *)
(* CFL limit chose and although a floating-point step cannot always reach    *)
(* the end: the gas never passes it, and has arrived there exactly when the  *)
(* loop over microsteps ends.                                                *)
WindowTiled ==
  /\ \A i \in 1 .. Last :
       /\ records[i].begin = IF i = 1 THEN 0 ELSE records[i - 1].end
       /\ records[i].begin < records[i].end
  /\ phase \in {"gas", "radiation", "material", "slices"} => elapsed =< Duration
  /\ phase \in {"radiation", "material", "slices"} => Complete

(* Host and device never disagree about the window although nothing is       *)
(* compared at run time: each record the host has and the frame it will be   *)
(* filled from are the same microstep's, also when the array has grown in    *)
(* the window, and after the download each carries what its microstep gave.  *)
FramesFollowHost ==
  /\ phase = "gas" =>
       /\ clock = [elapsed |-> elapsed, sequence |-> Last]
       /\ frameCount = Last
  /\ phase \in {"gas", "radiation", "material", "slices"} =>
       \A i \in 1 .. Last :
         /\ <<frames[i].begin, frames[i].end>> = <<records[i].begin, records[i].end>>
         /\ frames[i].amount = given[i] - IF i = 1 THEN 0 ELSE given[i - 1]
  /\ phase \in {"radiation", "material", "slices"} =>
       \A i \in 1 .. Last : records[i] = frames[i]

(* The history of a window is one: whole on the host, and the device's.      *)
HistoryShared == WindowTiled /\ FramesFollowHost

(* A material step never applies what a record carries under the drive of a  *)
(* record that differs from it by more than the tolerance.                   *)
HeldDrive ==
  phase = "slices" /\ cursor.time < slab.end =>
    records[cursor.record].regime = records[slab.drive].regime

(* What the gas has given and radiation has brought is in the solid, to the  *)
(* last bit, whatever slices the records were cut into: in every accepted    *)
(* state and in every checkpoint.                                            *)
Conserved ==
  \A state \in saved \cup {accepted} : state.gas + state.solid = state.budget

(* Radiation is accounted once for every moment up to its last solution:     *)
(* neither a window that skips it nor a restart loses or repeats any.        *)
RadiatedOnce ==
  \A state \in saved \cup {accepted} : state.budget = state.radiated

(* No state the driver accepts or saves has gained or lost energy.           *)
EnergyAccounted == Conserved /\ RadiatedOnce

(* The seed of the timestep changes only with a fresh CFL estimate, so that  *)
(* it neither grows more than once per estimate nor shrinks because the last *)
(* step of a window was cut short; windows hand it on unchanged.             *)
SeedHeld ==
  [][\/ seed' = seed
     \/ phase \in {"initial", "idle"} /\ seed = 0
     \/ phase' \in {"dead", "initial"}
     \/ phase = "gas" /\ Refreshed /\ seed' =< Growth * seed]_vars

(* A window takes effect as a whole: the accepted states follow the          *)
(* specification of atomic exchanges.                                        *)
Exchanges == INSTANCE AtomicExchange
AtomicSpec == Exchanges!Spec

(* Nothing the process checks on its way ever refuses a window: it commits   *)
(* window after window to the end unless it is stopped.                      *)
Completes == []<>(phase \in {"finished", "dead"})
=============================================================================
