------------------------ MODULE CoupledWindow_proofs ------------------------
(***************************************************************************)
(* Proofs about CoupledWindow, for any length of the windows and of the    *)
(* run, any set of floating-point durations, any cadence and any bounds:   *)
(* the history of a window is one on host and device, a material step      *)
(* applies one drive, no accepted or saved state has gained or lost        *)
(* energy, the seed of the timestep moves only with a CFL estimate, and a  *)
(* window takes effect as a whole (the refinement of AtomicExchange).      *)
(***************************************************************************)
EXTENDS CoupledWindow, SequenceTheorems, WellFoundedInduction, TLAPS

Active == phase \in {"gas", "radiation", "material", "slices"}
Downloaded == phase \in {"radiation", "material", "slices"}
Working == phase \in {"material", "slices"}

\* What the gas gave in the first k microsteps of the window.
Given(k) == IF k = 0 THEN 0 ELSE given[k]

\* The two owners hold the same accepted state, and a window is open exactly
\* from Begin to Commit.
Opened ==
  /\ base = accepted
  /\ phase = "idle" \/ Active => accepted.time < EndTime
  /\ IF Active THEN /\ window.begin = accepted.time
                    /\ window.end = Smaller(EndTime, accepted.time + Interval)
               ELSE records = <<>>

\* Between windows the next seed is the accepted one, unless the process is new;
\* one that an estimate has chosen is within the cap.
Seeded ==
  /\ Active => seed \in Durations
  /\ phase \in {"initial", "idle", "publish"} => seed = 0 \/ seed = base.nextDt
  /\ gasSteps # 0 => seed \in Durations /\ seed =< Cap

\* The records are in order and reach as far as the gas.
Reached ==
  Active =>
    /\ elapsed = IF Last = 0 THEN 0 ELSE records[Last].end
    /\ \A i \in 1 .. Last : records[i].end =< elapsed
    /\ \A i, j \in 1 .. Last : i < j => records[i].end =< records[j].begin
    /\ Len(given) = Last
    /\ frameCount = Last
    /\ phase = "gas" => published = 0

\* The slices have come to a time in the record they cut, or to the end.
Cutting ==
  Working =>
    /\ cursor.record =< Last + 1
    /\ IF cursor.record =< Last
       THEN records[cursor.record].begin =< cursor.time /\ cursor.time < records[cursor.record].end
       ELSE cursor.time = Duration /\ cursor.used = 0
    /\ phase = "slices" =>
         /\ slab.begin < slab.end /\ slab.begin =< cursor.time /\ cursor.time =< slab.end
         /\ slab.end =< Duration
         /\ slab.drive \in 1 .. Last /\ slab.drive =< cursor.record
         /\ \A j \in slab.drive .. Last :
              records[j].begin < slab.end => records[j].regime = records[slab.drive].regime
    /\ phase = "material" => slab.packets = 0

\* Where the energy of the window is: what the gas has given is in the history,
\* and what of it has been cut off is in the solid or in the current step.
Accounted ==
  /\ EnergyAccounted
  /\ Active => gas = base.gas - Given(Last)
  /\ Active => accepted.budget + window.heat = window.radiated
  /\ phase \in {"gas", "radiation"} => window.heat = 0
  /\ Working => solid + slab.packets
                  = accepted.solid + Given(cursor.record - 1) + cursor.used + cursor.heat
  /\ phase = "material" /\ cursor.time = Duration => cursor.heat = window.heat

WindowInv ==
  TypeOK /\ Opened /\ Seeded /\ Reached /\ HistoryShared /\ Cutting /\ Accounted

-----------------------------------------------------------------------------
(* Choices of a least and of a greatest number.                              *)
Below == OpToRel(<, Nat)

LEMMA Least ==
  ASSUME NEW T \in SUBSET Nat, T # {}
  PROVE  \E m \in T : \A n \in T : m =< n
<1>1. IsWellFoundedOn(Below, Nat) BY NatLessThanWellFounded DEF Below
<1>2. PICK m \in T : \A n \in T : ~(<<n, m>> \in Below) BY <1>1, WFMin
<1>3. \A a, b \in Nat : a < b => <<a, b>> \in Below BY DEF Below, OpToRel
<1>4. \A n \in T : ~(n < m) BY <1>2, <1>3
<1> QED BY <1>4

LEMMA Greatest ==
  ASSUME NEW T \in SUBSET Nat, T # {}, NEW top \in Nat, \A n \in T : n =< top
  PROVE  \E m \in T : \A n \in T : n =< m
<1> DEFINE U == {m \in Nat : \A n \in T : n =< m}
<1>1. PICK m \in U : \A k \in U : m =< k
  <2>1. U \in SUBSET Nat /\ U # {} OBVIOUS
  <2> HIDE DEF U
  <2> QED BY <2>1, Least
<1>2. m \in T
  <2> SUFFICES ASSUME m \notin T PROVE FALSE OBVIOUS
  <2>1. \A n \in T : n < m BY <1>1
  <2>2. PICK t \in T : TRUE OBVIOUS
  <2>3. m - 1 \in U BY <2>1, <2>2
  <2> QED BY <2>3, <1>1
<1> QED BY <1>1, <1>2

\* boundedWindowDuration finds a duration in every span, not longer than it.
LEMMA BoundedFits ==
  ASSUME NEW span \in Nat \ {0}
  PROVE  Bounded(span) \in Durations /\ Bounded(span) =< span /\ Bounded(span) \in Nat \ {0}
<1> DEFINE T == {d \in Durations : d =< span}
<1>1. T \in SUBSET Nat /\ 1 \in T
  <2>1. \A d \in Durations : d \in Nat BY ClockAssumption
  <2>2. 1 \in Durations /\ 1 =< span BY ClockAssumption
  <2> QED BY <2>1, <2>2
<1>2. \E m \in T : \A n \in T : n =< m
  <2> HIDE DEF T
  <2>1. T # {} BY <1>1
  <2>2. \A n \in T : n =< span BY DEF T
  <2> QED BY <1>1, <2>1, <2>2, Greatest
<1>3. \E d \in Durations : d =< span /\ \A f \in Durations : f =< span => f =< d
  BY <1>2
<1> QED BY <1>3, ClockAssumption DEF Bounded

LEMMA DurationsFacts ==
  /\ \A d \in Durations : d \in Nat \ {0}
  /\ Cap \in Durations /\ FirstDt \in Durations /\ MaxSubstep \in Durations
  /\ Stables \subseteq Durations /\ Limits \subseteq Durations
BY ClockAssumption, StepAssumption

LEMMA SmallerDuration ==
  ASSUME NEW a \in Durations, NEW b \in Durations
  PROVE  Smaller(a, b) \in Durations /\ Smaller(a, b) =< a /\ Smaller(a, b) =< b
BY DurationsFacts DEF Smaller

LEMMA Grown ==
  ASSUME NEW a \in Nat \ {0}, NEW b \in Nat \ {0}, a =< b
  PROVE  Growth * a \in Nat \ {0} /\ Growth * a =< Growth * b
<1>1. Growth \in Nat \ {0} BY StepAssumption
<1>2. PICK d \in Nat : b = a + d
  <2>1. b - a \in Nat /\ b = a + (b - a) OBVIOUS
  <2> QED BY <2>1
<1>3. Growth * a \in Nat /\ Growth * d \in Nat /\ Growth * a # 0 BY <1>1
<1>4. Growth * b = Growth * a + Growth * d BY <1>1, <1>2
<1> QED BY <1>3, <1>4

\* A proposal is a duration within the cap; without a fresh estimate it is the
\* seed, and with one at most the growth of it.
LEMMA ProposalFits ==
  ASSUME seed \in Durations, NEW stable \in Stables
  PROVE  /\ Proposal(stable) \in Durations /\ Proposal(stable) =< Cap
         /\ ~Refreshed /\ seed =< Cap => Proposal(stable) = seed
         /\ Refreshed => Proposal(stable) =< Growth * seed
<1>1. seed > 0 /\ seed \in Nat BY DurationsFacts
<1>2. Proposed = Smaller(Cap, seed) BY <1>1 DEF Proposed
<1>3. Proposed \in Durations /\ Proposed =< Cap /\ Proposed =< seed
  BY <1>2, DurationsFacts, SmallerDuration
<1>4. Growth * Proposed \in Nat \ {0} /\ Growth * Proposed =< Growth * seed
  BY <1>1, <1>3, DurationsFacts, Grown
<1>5. /\ Bounded(Growth * Proposed) \in Durations
      /\ Bounded(Growth * Proposed) =< Growth * Proposed
  BY <1>4, BoundedFits
<1>6. stable \in Durations BY DurationsFacts
<1>7. CASE Refreshed
  <2> DEFINE grown == Bounded(Growth * Proposed)
             inner == Smaller(stable, grown)
  <2>1. inner \in Durations /\ inner =< grown BY <1>5, <1>6, SmallerDuration
  <2>2. Smaller(Cap, inner) \in Durations /\ Smaller(Cap, inner) =< Cap
        /\ Smaller(Cap, inner) =< inner
    BY <2>1, DurationsFacts, SmallerDuration
  <2>3. Proposal(stable) = Smaller(Cap, inner) BY <1>7 DEF Proposal
  <2>4. grown =< Growth * seed
    <3>1. Growth * seed \in Nat BY <1>1, StepAssumption
    <3> QED BY <3>1, <1>4, <1>5, DurationsFacts
  <2> HIDE DEF grown, inner
  <2>5. Growth * seed \in Int BY <1>1, StepAssumption
  <2>6. Proposal(stable) =< Growth * seed
    <3> DEFINE G == Growth * seed
    <3>1. G \in Int /\ grown =< G BY <2>4, <2>5
    <3> HIDE DEF G
    <3>2. Proposal(stable) =< G BY <3>1, <2>1, <2>2, <2>3, <1>5, DurationsFacts DEF grown
    <3> QED BY <3>2 DEF G
  <2> QED BY <1>7, <2>2, <2>3, <2>6
<1>8. CASE ~Refreshed
  <2>1. Proposal(stable) = Smaller(Cap, Proposed) BY <1>8 DEF Proposal
  <2>2. Proposal(stable) \in Durations /\ Proposal(stable) =< Cap
    BY <2>1, <1>3, DurationsFacts, SmallerDuration
  <2>3. seed =< Cap => Proposed = seed /\ Smaller(Cap, Proposed) = seed
    BY <1>2, <1>1, DurationsFacts DEF Smaller
  <2> QED BY <1>8, <2>1, <2>2, <2>3
<1> QED BY <1>7, <1>8

LEMMA FunctionIsSeq ==
  ASSUME NEW S, NEW n \in Nat, NEW f \in [1 .. n -> S]
  PROVE  f \in Seq(S) /\ Len(f) = n
<1>1. f \in Seq(S) BY SeqDef
<1>2. Len(f) \in Nat /\ 1 .. Len(f) = 1 .. n BY <1>1, LenProperties
<1> QED BY <1>1, <1>2

\* Archiving a record keeps those before it, also when the array is replaced.
LEMMA ArchiveKeeps ==
  ASSUME frames \in Seq(Records), frameCount \in 0 .. Len(frames), NEW f \in Records, Archive(f)
  PROVE  /\ frames' \in Seq(Records) /\ frameCount' = frameCount + 1
         /\ frameCount' \in 0 .. Len(frames')
         /\ frames'[frameCount + 1] = f
         /\ \A i \in 1 .. frameCount : frames'[i] = frames[i]
<1> DEFINE capacity == IF frameCount < Len(frames) THEN Len(frames)
                       ELSE Larger(frameCount + 1, 2 * Len(frames))
           kept == [i \in 1 .. capacity |-> IF i =< Len(frames) THEN frames[i] ELSE Junk]
<1>1. Len(frames) \in Nat /\ frameCount \in Nat /\ frameCount =< Len(frames) BY LenProperties
<1>2. capacity \in Nat /\ frameCount + 1 =< capacity /\ Len(frames) =< capacity
  BY <1>1 DEF Larger
<1> HIDE DEF capacity
<1>3. Junk \in Records BY DEF Junk, Records
<1>4. \A i \in 1 .. Len(frames) : frames[i] \in Records BY ElementOfSeq
<1>5. kept \in [1 .. capacity -> Records] BY <1>1, <1>2, <1>3, <1>4
<1>6. /\ kept \in Seq(Records) /\ Len(kept) = capacity
      /\ \A i \in 1 .. frameCount : kept[i] = frames[i]
  <2>1. \A i \in 1 .. frameCount : kept[i] = frames[i] BY <1>1, <1>2
  <2> HIDE DEF kept
  <2> QED BY <2>1, <1>2, <1>5, FunctionIsSeq
<1>7. frames' = [kept EXCEPT ![frameCount + 1] = f] /\ frameCount' = frameCount + 1
  BY DEF Archive, capacity
<1> HIDE DEF kept
<1>8. frameCount + 1 \in 1 .. Len(kept) BY <1>1, <1>2, <1>6
<1>9. /\ frames' \in Seq(Records) /\ Len(frames') = Len(kept)
      /\ \A i \in 1 .. Len(kept) : frames'[i] = IF i = frameCount + 1 THEN f ELSE kept[i]
  BY <1>6, <1>7, <1>8, ExceptSeq
<1>10. \A i \in 1 .. frameCount : frames'[i] = frames[i] BY <1>1, <1>6, <1>8, <1>9
<1> QED BY <1>1, <1>6, <1>7, <1>8, <1>9, <1>10

-----------------------------------------------------------------------------
(* The invariant holds initially, and after the process has ended.           *)
LEMMA EmptyHistory ==
  /\ <<>> \in Seq(Records) /\ Len(<<>>) = 0 /\ <<>> \in Seq(Int)
  /\ <<Junk>> \in Seq(Records) /\ Len(<<Junk>>) = 1
<1>1. Junk \in Records BY DEF Junk, Records
<1> HIDE DEF Junk
<1>2. <<Junk>> \in Seq(Records) /\ Len(<<Junk>>) = 1 BY <1>1
<1> QED BY <1>2, EmptySeq

LEMMA CaseFits == Case \in States /\ Case.gas + Case.solid = Case.budget /\ Case.budget = Case.radiated
BY DurationsFacts, ClockAssumption DEF Case, States

LEMMA InitWindow == Init => WindowInv
<1> SUFFICES ASSUME Init PROVE WindowInv OBVIOUS
<1>1. phase = "initial" /\ records = <<>> /\ Last = 0 BY EmptyHistory DEF Init, Last
<1>2. TypeOK
  <2>1. {accepted, base} \subseteq States /\ saved \subseteq States BY CaseFits DEF Init
  <2>2. /\ records \in Seq(Records) /\ frames \in Seq(Records) /\ given \in Seq(Int)
        /\ Len(frames) = 1
    BY EmptyHistory DEF Init
  <2>3. /\ window \in [begin : 0 .. EndTime, end : 0 .. EndTime, heat : Nat,
                       radiated : 0 .. EndTime]
        /\ clock \in [elapsed : Nat, sequence : Nat]
        /\ slab \in [begin : Nat, end : Nat, drive : Nat, packets : Int]
        /\ cursor \in [time : Nat, record : Nat \ {0}, used : Int, heat : Int]
    BY ClockAssumption DEF Init, Stopped, NoSlab, Start
  <2>4. /\ stops \in 0 .. MaxStops /\ gasSteps \in 0 .. CourantInterval - 1
        /\ published \in Nat /\ frameCount \in 0 .. Len(frames)
        /\ gas \in Int /\ solid \in Int /\ elapsed \in Nat /\ seed \in Durations \cup {0}
    BY <2>2, CadenceAssumption, StepAssumption DEF Init
  <2> QED BY <1>1, <2>1, <2>2, <2>3, <2>4 DEF TypeOK
<1>3. Opened BY <1>1 DEF Init, Opened, Active
<1>4. Seeded BY <1>1 DEF Init, Seeded, Active
<1>5. Reached BY <1>1 DEF Reached, Active
<1>6. HistoryShared BY <1>1 DEF HistoryShared, WindowTiled, FramesFollowHost
<1>7. Cutting BY <1>1 DEF Cutting, Working
<1>8. Accounted
  <2>1. EnergyAccounted BY CaseFits DEF Init, EnergyAccounted, Conserved, RadiatedOnce
  <2> QED BY <1>1, <2>1 DEF Accounted, Active, Working
<1> QED BY <1>2, <1>3, <1>4, <1>5, <1>6, <1>7, <1>8 DEF WindowInv

\* The memory of a process that is gone, or that has loaded a state.
LEMMA FreshWindow ==
  ASSUME WindowInv, NEW state \in saved \cup {accepted}, Fresh(state), accepted' = state,
         saved' = saved, phase' \in {"dead", "initial"}, stops' \in 0 .. MaxStops
  PROVE  WindowInv'
<1>1. ~Active' /\ ~Working' /\ Last' = 0 /\ records' = <<>>
  BY EmptyHistory DEF Active, Working, Fresh, Last
<1>2. state \in States /\ saved \subseteq States BY DEF WindowInv, TypeOK
<1>3. TypeOK'
  <2>1. {accepted', base'} \subseteq States /\ saved' \subseteq States BY <1>2 DEF Fresh
  <2>2. /\ records' \in Seq(Records) /\ frames' \in Seq(Records) /\ given' \in Seq(Int)
        /\ Len(frames') = 1
    BY EmptyHistory DEF Fresh
  <2>3. /\ window' \in [begin : 0 .. EndTime, end : 0 .. EndTime, heat : Nat,
                       radiated : 0 .. EndTime]
        /\ clock' \in [elapsed : Nat, sequence : Nat]
        /\ slab' \in [begin : Nat, end : Nat, drive : Nat, packets : Int]
        /\ cursor' \in [time : Nat, record : Nat \ {0}, used : Int, heat : Int]
    BY ClockAssumption DEF Fresh, Stopped, NoSlab, Start
  <2>4. /\ gasSteps' \in 0 .. CourantInterval - 1
        /\ published' \in Nat /\ frameCount' \in 0 .. Len(frames')
        /\ gas' \in Int /\ solid' \in Int /\ elapsed' \in Nat /\ seed' \in Durations \cup {0}
    BY <2>2, StepAssumption DEF Fresh
  <2> QED BY <2>1, <2>2, <2>3, <2>4 DEF TypeOK
<1>4. Opened' BY <1>1 DEF Fresh, Opened
<1>5. Seeded' BY <1>1 DEF Fresh, Seeded
<1>6. Reached' BY <1>1 DEF Reached
<1>7. HistoryShared' BY <1>1 DEF HistoryShared, WindowTiled, FramesFollowHost, Active
<1>8. Cutting' BY <1>1 DEF Cutting
<1>9. Accounted'
  <2>1. EnergyAccounted'
    BY DEF WindowInv, Accounted, EnergyAccounted, Conserved, RadiatedOnce
  <2> QED BY <1>1, <2>1 DEF Accounted, Active, Working
<1> QED BY <1>3, <1>4, <1>5, <1>6, <1>7, <1>8, <1>9 DEF WindowInv

LEMMA EndingWindow == ASSUME WindowInv, Stop \/ Restart PROVE WindowInv'
<1>1. stops \in 0 .. MaxStops BY DEF WindowInv, TypeOK
<1>2. CASE Stop
  <2>1. stops' \in 0 .. MaxStops BY <1>1, <1>2, CadenceAssumption DEF Stop
  <2> QED BY <1>2, <2>1, FreshWindow DEF Stop
<1>3. CASE Restart
  <2>1. PICK state \in saved : accepted' = state /\ Fresh(state) BY <1>3 DEF Restart
  <2> QED BY <1>1, <1>3, <2>1, FreshWindow DEF Restart
<1> QED BY <1>2, <1>3

-----------------------------------------------------------------------------
(* The gas.                                                                  *)
LEMMA BeginWindow == ASSUME WindowInv, Begin PROVE WindowInv'
<1>1. /\ phase = "idle" /\ phase' = "gas" /\ accepted \in States /\ base = accepted
      /\ accepted.time < EndTime /\ records' = <<>> /\ Last' = 0
      /\ UNCHANGED <<stops, saved, accepted, base, gasSteps, frames, solid, slab, cursor>>
  BY EmptyHistory DEF Begin, WindowInv, TypeOK, Opened, material, Last
<1>2. Active' /\ ~Downloaded' /\ ~Working' BY <1>1 DEF Active, Downloaded, Working
<1>3. accepted.time \in 0 .. EndTime /\ accepted.radiated \in 0 .. EndTime
      /\ accepted.nextDt \in Durations /\ accepted.gas \in Int
  BY <1>1 DEF States
<1>4. window' \in [begin : 0 .. EndTime, end : 0 .. EndTime, heat : Nat, radiated : 0 .. EndTime]
      /\ window'.begin = accepted.time /\ window'.heat = 0 /\ window'.radiated = accepted.radiated
      /\ window'.end = Smaller(EndTime, accepted.time + Interval)
      /\ window'.begin < window'.end
  BY <1>1, <1>3, ClockAssumption DEF Begin, Smaller
<1>5. TypeOK'
  <2>1. /\ records' \in Seq(Records) /\ given' \in Seq(Int) /\ published' = 0 /\ frameCount' = 0
        /\ clock' = Stopped /\ elapsed' = 0 /\ gas' = accepted.gas /\ seed' = accepted.nextDt
    BY <1>1, EmptyHistory DEF Begin
  <2>2. clock' \in [elapsed : Nat, sequence : Nat] BY <2>1 DEF Stopped
  <2>3. frames \in Seq(Records) /\ frameCount' \in 0 .. Len(frames)
    BY <2>1, LenProperties DEF WindowInv, TypeOK
  <2>4. TypeOK BY DEF WindowInv
  <2>5. /\ phase' \in {"initial", "idle", "gas", "radiation", "material", "slices",
                       "publish", "finished", "dead"}
        /\ gas' \in Int /\ elapsed' \in Nat /\ seed' \in Durations \cup {0} /\ published' \in Nat
    BY <1>1, <1>3, <2>1
  <2> QED BY <1>1, <1>4, <2>1, <2>2, <2>3, <2>4, <2>5 DEF TypeOK
<1>6. Opened' BY <1>1, <1>2, <1>4 DEF Opened
<1>7. Seeded'
  <2>1. seed' = base.nextDt BY DEF Begin
  <2>2. gasSteps # 0 => seed = base.nextDt /\ seed =< Cap
    BY <1>1, DurationsFacts DEF WindowInv, Seeded
  <2> QED BY <1>1, <1>2, <1>3, <2>1, <2>2 DEF Seeded
<1>8. Reached'
  <2>1. Len(given') = 0 BY EmptyHistory DEF Begin
  <2> QED BY <1>1, <1>2, <2>1 DEF Reached, Begin
<1>9. HistoryShared'
  <2>1. WindowTiled'
    <3>1. elapsed' =< Duration' /\ Duration' \in Nat BY <1>4 DEF Duration, Begin
    <3> QED BY <1>1, <3>1 DEF WindowTiled
  <2>2. FramesFollowHost' BY <1>1 DEF FramesFollowHost, Begin, Stopped
  <2> QED BY <2>1, <2>2 DEF HistoryShared
<1>10. Cutting' BY <1>2 DEF Cutting
<1>11. Accounted'
  <2>1. EnergyAccounted'
    BY <1>1 DEF WindowInv, Accounted, EnergyAccounted, Conserved, RadiatedOnce
  <2>2. accepted.budget = accepted.radiated /\ accepted.budget \in Nat
    BY <1>1 DEF WindowInv, Accounted, EnergyAccounted, RadiatedOnce, States
  <2>3. gas' = base.gas BY DEF Begin
  <2> QED BY <1>1, <1>2, <1>3, <1>4, <2>1, <2>2, <2>3 DEF Accounted, Given, Active
<1> QED BY <1>5, <1>6, <1>7, <1>8, <1>9, <1>10, <1>11 DEF WindowInv

LEMMA Spans ==
  ASSUME WindowInv, Active
  PROVE  /\ Duration \in Nat \ {0} /\ window.end =< EndTime /\ window.begin \in Nat
         /\ elapsed \in Nat /\ seed \in Durations /\ Last \in Nat /\ records \in Seq(Records)
         /\ accepted \in States /\ window.end = window.begin + Duration
<1>1. accepted \in States /\ accepted.time \in 0 .. EndTime BY DEF WindowInv, TypeOK, States
<1>2. /\ window.begin = accepted.time /\ window.end = Smaller(EndTime, accepted.time + Interval)
      /\ accepted.time < EndTime
  BY DEF WindowInv, Opened
<1>3. Last \in Nat /\ records \in Seq(Records) BY LenProperties DEF WindowInv, TypeOK, Last
<1>4. elapsed \in Nat /\ seed \in Durations BY DEF WindowInv, TypeOK, Seeded
<1>5. EndTime \in Nat /\ Interval \in Nat \ {0} BY ClockAssumption
<1>6. window.end =< EndTime /\ window.end \in Nat /\ window.begin < window.end
  BY <1>1, <1>2, <1>5 DEF Smaller
<1> QED BY <1>1, <1>2, <1>3, <1>4, <1>6 DEF Duration

LEMMA MicrostepWindow == ASSUME WindowInv, Microstep PROVE WindowInv'
<1> DEFINE frame(dt, amount, regime) ==
             [begin |-> clock.elapsed, end |-> clock.elapsed + dt, amount |-> amount, regime |-> regime]
           record(dt) ==
             [begin |-> elapsed, end |-> elapsed + dt, amount |-> 0, regime |-> NoRegime]
<1>1. /\ phase = "gas" /\ phase' = "gas" /\ elapsed < Duration
      /\ UNCHANGED <<stops, saved, accepted, window, base, published, solid, slab, cursor>>
  BY DEF Microstep, frontend, material
<1>2. Active /\ Active' /\ ~Downloaded' /\ ~Working' BY <1>1 DEF Active, Downloaded, Working
<1>3. /\ Duration \in Nat \ {0} /\ elapsed \in Nat /\ seed \in Durations /\ Last \in Nat
      /\ records \in Seq(Records)
  BY <1>2, Spans
<1>4. PICK stable \in Stables, amount \in Amounts, regime \in Regimes :
        LET dt == Smaller(Proposal(stable), Bounded(Duration - elapsed))
        IN  /\ Archive(frame(dt, amount, regime))
            /\ Tick(dt)
            /\ records' = Append(records, record(dt))
            /\ elapsed' = elapsed + dt
            /\ seed' = Proposal(stable)
            /\ gas' = gas - amount
            /\ given' = Append(given, amount + IF Last = 0 THEN 0 ELSE given[Last])
  BY DEF Microstep
<1> DEFINE dt == Smaller(Proposal(stable), Bounded(Duration - elapsed))
           f == frame(dt, amount, regime)
           r == record(dt)
<1>5. dt \in Nat \ {0} /\ elapsed + dt =< Duration
  <2>1. Duration - elapsed \in Nat \ {0} BY <1>1, <1>3
  <2>2. /\ Bounded(Duration - elapsed) \in Durations
        /\ Bounded(Duration - elapsed) =< Duration - elapsed
    BY <2>1, BoundedFits
  <2>3. Proposal(stable) \in Durations BY <1>3, ProposalFits
  <2>4. dt \in Durations /\ dt =< Bounded(Duration - elapsed) BY <2>2, <2>3, SmallerDuration
  <2> HIDE DEF dt
  <2> QED BY <1>3, <2>1, <2>2, <2>4, DurationsFacts
<1>6. /\ Archive(f) /\ Tick(dt) /\ records' = Append(records, r) /\ elapsed' = elapsed + dt
      /\ seed' = Proposal(stable) /\ gas' = gas - amount
      /\ given' = Append(given, amount + Given(Last))
  BY <1>4 DEF Given
<1> HIDE DEF dt
<1>7. /\ clock = [elapsed |-> elapsed, sequence |-> Last] /\ frameCount = Last
      /\ Len(given) = Last /\ published = 0 /\ gas = base.gas - Given(Last)
      /\ given \in Seq(Int) /\ frames \in Seq(Records) /\ frameCount \in 0 .. Len(frames)
  BY <1>1, <1>2 DEF WindowInv, HistoryShared, FramesFollowHost, Reached, Accounted, TypeOK
<1>8. amount \in Int /\ f.begin = elapsed /\ f.end = elapsed + dt /\ f.amount = amount
      /\ f \in Records /\ r \in Records /\ r.begin = elapsed /\ r.end = elapsed + dt
  BY <1>3, <1>5, <1>7, ExchangeAssumption DEF Records
<1> HIDE DEF f, r
<1>9. /\ records' \in Seq(Records) /\ Last' = Last + 1 /\ records'[Last + 1] = r
      /\ \A i \in 1 .. Last : records'[i] = records[i]
  BY <1>3, <1>6, <1>8, AppendProperties DEF Last
<1>10. /\ frames' \in Seq(Records) /\ frameCount' = Last + 1 /\ frameCount' \in 0 .. Len(frames')
       /\ frames'[Last + 1] = f /\ \A i \in 1 .. Last : frames'[i] = frames[i]
  BY <1>6, <1>7, <1>8, ArchiveKeeps
<1>11. Given(Last) \in Int BY <1>3, <1>7, ElementOfSeq DEF Given
<1>12. /\ given' \in Seq(Int) /\ Len(given') = Last + 1 /\ given'[Last + 1] = amount + Given(Last)
       /\ \A i \in 1 .. Last : given'[i] = given[i]
  BY <1>6, <1>7, <1>8, <1>11, AppendProperties
<1>13. clock' = [elapsed |-> elapsed + dt, sequence |-> Last + 1] BY <1>6, <1>7 DEF Tick
<1>14. seed' \in Durations /\ seed' =< Cap BY <1>3, <1>6, ProposalFits
<1>15. gasSteps' \in 0 .. CourantInterval - 1
  <2>1. CourantInterval \in Nat \ {0} BY StepAssumption
  <2>2. gasSteps + 1 \in Nat BY <2>1 DEF WindowInv, TypeOK
  <2>3. \A n \in Nat, m \in Nat \ {0} : n % m \in 0 .. m - 1 OBVIOUS
  <2>4. gasSteps' = (gasSteps + 1) % CourantInterval BY DEF Microstep
  <2> QED BY <2>1, <2>2, <2>3, <2>4
<1>16. TypeOK'
  <2>1. gas' \in Int /\ elapsed' \in Nat /\ clock' \in [elapsed : Nat, sequence : Nat]
    <3>1. gas \in Int BY DEF WindowInv, TypeOK
    <3> QED BY <3>1, <1>3, <1>5, <1>6, <1>8, <1>13
  <2>2. TypeOK BY DEF WindowInv
  <2> QED BY <1>1, <1>9, <1>10, <1>12, <1>14, <1>15, <2>1, <2>2 DEF TypeOK
<1>17. Opened' BY <1>1, <1>2 DEF WindowInv, Opened
<1>18. Seeded' BY <1>1, <1>14 DEF Seeded
<1>19. /\ elapsed' = IF Last' = 0 THEN 0 ELSE records'[Last'].end
       /\ \A i \in 1 .. Last' : records'[i].end =< elapsed'
       /\ \A i, j \in 1 .. Last' : i < j => records'[i].end =< records'[j].begin
  <2>1. /\ \A i \in 1 .. Last : records[i].end =< elapsed /\ records[i].end \in Nat
        /\ \A i, j \in 1 .. Last : i < j => records[i].end =< records[j].begin
    <3>1. \A i \in 1 .. Last : records[i] \in Records BY <1>3, ElementOfSeq DEF Last
    <3>2. \A i \in 1 .. Last : records[i].end \in Nat BY <3>1 DEF Records
    <3> QED BY <1>2, <3>2 DEF WindowInv, Reached
  <2>2. \A i \in 1 .. Last' : i \in 1 .. Last \/ i = Last + 1 BY <1>3, <1>9
  <2>3. elapsed' = IF Last' = 0 THEN 0 ELSE records'[Last'].end BY <1>3, <1>6, <1>8, <1>9
  <2>4. \A i \in 1 .. Last' : records'[i].end =< elapsed'
    BY <1>3, <1>5, <1>6, <1>8, <1>9, <2>1, <2>2
  <2>5. \A i, j \in 1 .. Last' : i < j => records'[i].end =< records'[j].begin
    <3> SUFFICES ASSUME NEW i \in 1 .. Last', NEW j \in 1 .. Last', i < j
                 PROVE  records'[i].end =< records'[j].begin
      OBVIOUS
    <3>1. i \in 1 .. Last BY <1>3, <1>9
    <3>2. CASE j \in 1 .. Last BY <3>1, <3>2, <1>9, <2>1
    <3>3. CASE j = Last + 1 BY <3>1, <3>3, <1>8, <1>9, <2>1
    <3> QED BY <3>2, <3>3, <2>2
  <2> QED BY <2>3, <2>4, <2>5
<1>20. Reached'
  BY <1>1, <1>7, <1>9, <1>10, <1>12, <1>19 DEF Reached
<1>21. HistoryShared'
  <2>1. \A i \in 1 .. Last' : i \in 1 .. Last \/ (i = Last + 1 /\ i \notin 1 .. Last)
    BY <1>3, <1>9
  <2>2. \A i \in 1 .. Last' :
          /\ records'[i].begin = IF i = 1 THEN 0 ELSE records'[i - 1].end
          /\ records'[i].begin < records'[i].end
    <3> SUFFICES ASSUME NEW i \in 1 .. Last'
                 PROVE  /\ records'[i].begin = IF i = 1 THEN 0 ELSE records'[i - 1].end
                        /\ records'[i].begin < records'[i].end
      OBVIOUS
    <3>1. CASE i \in 1 .. Last
      <4>1. i # 1 => i - 1 \in 1 .. Last BY <3>1, <1>3
      <4> QED BY <4>1, <3>1, <1>9 DEF WindowInv, HistoryShared, WindowTiled
    <3>2. CASE i = Last + 1
      <4>1. elapsed = IF Last = 0 THEN 0 ELSE records[Last].end
        BY <1>2 DEF WindowInv, Reached
      <4>2. Last # 0 => Last \in 1 .. Last BY <1>3
      <4> QED BY <4>1, <4>2, <3>2, <1>3, <1>5, <1>8, <1>9
    <3> QED BY <2>1, <3>1, <3>2
  <2>3. WindowTiled'
    <3>1. Duration' = Duration BY <1>1 DEF Duration
    <3> QED BY <2>2, <3>1, <1>1, <1>5, <1>6 DEF WindowTiled
  <2>4. \A i \in 1 .. Last' :
          /\ <<frames'[i].begin, frames'[i].end>> = <<records'[i].begin, records'[i].end>>
          /\ frames'[i].amount = given'[i] - IF i = 1 THEN 0 ELSE given'[i - 1]
    <3> SUFFICES ASSUME NEW i \in 1 .. Last'
                 PROVE  /\ frames'[i].begin = records'[i].begin /\ frames'[i].end = records'[i].end
                        /\ frames'[i].amount = given'[i] - IF i = 1 THEN 0 ELSE given'[i - 1]
      OBVIOUS
    <3>1. CASE i \in 1 .. Last
      <4>1. i # 1 => i - 1 \in 1 .. Last BY <3>1, <1>3
      <4>2. /\ <<frames[i].begin, frames[i].end>> = <<records[i].begin, records[i].end>>
            /\ frames[i].amount = given[i] - IF i = 1 THEN 0 ELSE given[i - 1]
        BY <1>1, <3>1 DEF WindowInv, HistoryShared, FramesFollowHost
      <4> QED BY <4>1, <4>2, <3>1, <1>9, <1>10, <1>12
    <3>2. CASE i = Last + 1
      <4>1. Last # 0 => Last \in 1 .. Last BY <1>3
      <4>2. Given(Last) = IF i = 1 THEN 0 ELSE given'[i - 1]
        BY <4>1, <3>2, <1>3, <1>12 DEF Given
      <4> QED BY <4>2, <3>2, <1>8, <1>9, <1>10, <1>11, <1>12
    <3> QED BY <2>1, <3>1, <3>2
  <2>5. FramesFollowHost'
    BY <2>4, <1>1, <1>6, <1>9, <1>10, <1>13 DEF FramesFollowHost
  <2> QED BY <2>3, <2>5 DEF HistoryShared
<1>22. Cutting' BY <1>2 DEF Cutting
<1>23. Accounted'
  <2>1. EnergyAccounted'
    BY <1>1 DEF WindowInv, Accounted, EnergyAccounted, Conserved, RadiatedOnce
  <2>2. Given(Last)' = Given(Last) + amount BY <1>3, <1>8, <1>9, <1>11, <1>12 DEF Given
  <2>3. base.gas \in Int BY DEF WindowInv, TypeOK, States
  <2>4. gas' = base'.gas - Given(Last)' BY <2>2, <2>3, <1>1, <1>6, <1>7, <1>8, <1>11
  <2>5. accepted.budget + window.heat = window.radiated /\ window.heat = 0
    BY <1>1, <1>2 DEF WindowInv, Accounted
  <2> QED BY <2>1, <2>4, <2>5, <1>1, <1>2 DEF Accounted
<1> QED BY <1>16, <1>17, <1>18, <1>20, <1>21, <1>22, <1>23 DEF WindowInv

LEMMA DownloadWindow == ASSUME WindowInv, Download PROVE WindowInv'
<1>1. /\ phase = "gas" /\ phase' = "radiation" /\ elapsed >= Duration
      /\ UNCHANGED <<stops, saved, accepted, window, base, gas, elapsed, seed, gasSteps,
                     clock, frames, frameCount, solid, slab, cursor, given>>
  BY DEF Download, device, material
<1>2. Active /\ Active' /\ ~Working' BY <1>1 DEF Active, Working
<1>3. /\ Duration \in Nat \ {0} /\ elapsed \in Nat /\ Last \in Nat /\ records \in Seq(Records)
  BY <1>2, Spans
<1>4. elapsed = Duration /\ Duration' = Duration
  BY <1>1, <1>3 DEF WindowInv, HistoryShared, WindowTiled, Duration
<1>5. Last # 0 /\ frameCount = Last /\ published = 0 /\ records[Last].end = elapsed
  BY <1>1, <1>2, <1>3, <1>4 DEF WindowInv, Reached
<1>6. records' = [i \in 1 .. Last |-> [records[i] EXCEPT !.amount = frames[i].amount,
                                                         !.regime = frames[i].regime]]
  BY <1>5 DEF Download
<1>7. \A i \in 1 .. Last : records'[i] = frames[i] /\ frames[i] \in Records
                           /\ frames[i].begin = records[i].begin /\ frames[i].end = records[i].end
  <2> SUFFICES ASSUME NEW i \in 1 .. Last
               PROVE  records'[i] = frames[i] /\ frames[i] \in Records
                      /\ frames[i].begin = records[i].begin /\ frames[i].end = records[i].end
    OBVIOUS
  <2>1. frames \in Seq(Records) /\ Last =< Len(frames)
    BY <1>5 DEF WindowInv, TypeOK
  <2>2. i \in 1 .. Len(frames) BY <2>1, <1>3, LenProperties
  <2>3. frames[i] \in Records /\ records[i] \in Records
    BY <2>1, <2>2, <1>3, ElementOfSeq DEF Last
  <2>4. frames[i].begin = records[i].begin /\ frames[i].end = records[i].end
    BY <1>1, <1>2 DEF WindowInv, HistoryShared, FramesFollowHost
  <2>5. records'[i] = [records[i] EXCEPT !.amount = frames[i].amount, !.regime = frames[i].regime]
    BY <1>6
  <2> QED BY <2>3, <2>4, <2>5 DEF Records
<1>8. records' \in Seq(Records) /\ Last' = Last
  <2>1. records' \in [1 .. Last -> Records] BY <1>6, <1>7
  <2> QED BY <2>1, <1>3, FunctionIsSeq DEF Last
<1>9. \A i \in 1 .. Last : records'[i].begin = records[i].begin /\ records'[i].end = records[i].end
  BY <1>7
<1>10. TypeOK'
  <2>1. TypeOK /\ published' \in Nat BY <1>3, <1>5 DEF WindowInv, Download
  <2> QED BY <1>1, <1>8, <2>1 DEF TypeOK
<1>11. Opened' BY <1>1, <1>2 DEF WindowInv, Opened
<1>12. Seeded' BY <1>1, <1>2 DEF WindowInv, Seeded
<1>13. Reached'
  <2>1. Last \in 1 .. Last BY <1>3, <1>5
  <2> QED BY <2>1, <1>1, <1>2, <1>5, <1>8, <1>9 DEF WindowInv, Reached
<1>14. HistoryShared'
  <2>1. \A i \in 1 .. Last : i # 1 => i - 1 \in 1 .. Last BY <1>3
  <2>2. WindowTiled'
    <3>1. \A i \in 1 .. Last' :
            /\ records'[i].begin = IF i = 1 THEN 0 ELSE records'[i - 1].end
            /\ records'[i].begin < records'[i].end
      BY <1>8, <1>9, <2>1 DEF WindowInv, HistoryShared, WindowTiled
    <3>2. Complete'
      <4>1. Last \in 1 .. Last BY <1>3, <1>5
      <4> QED BY <4>1, <1>3, <1>4, <1>5, <1>8, <1>9 DEF Complete
    <3> QED BY <3>1, <3>2, <1>1, <1>3, <1>4 DEF WindowTiled
  <2>3. FramesFollowHost'
    BY <1>1, <1>7, <1>8 DEF WindowInv, HistoryShared, FramesFollowHost
  <2> QED BY <2>2, <2>3 DEF HistoryShared
<1>15. Cutting' BY <1>2 DEF Cutting
<1>16. Accounted'
  <2>1. EnergyAccounted'
    BY <1>1 DEF WindowInv, Accounted, EnergyAccounted, Conserved, RadiatedOnce
  <2>2. Given(Last)' = Given(Last) BY <1>1, <1>8 DEF Given
  <2> QED BY <2>1, <2>2, <1>1, <1>2 DEF WindowInv, Accounted
<1> QED BY <1>10, <1>11, <1>12, <1>13, <1>14, <1>15, <1>16 DEF WindowInv

-----------------------------------------------------------------------------
(* Radiation and the material leave the gas and its history alone.           *)
LEMMA HistoryStays ==
  ASSUME WindowInv, Downloaded, Downloaded',
         UNCHANGED <<saved, accepted, backend, device, given>>,
         window'.begin = window.begin, window'.end = window.end
  PROVE  /\ Opened' /\ Seeded' /\ Reached' /\ HistoryShared' /\ EnergyAccounted'
         /\ Last' = Last /\ Duration' = Duration /\ records' = records
         /\ Given(Last)' = Given(Last)
<1>1. Active /\ Active' BY DEF Active, Downloaded
<1>2. /\ UNCHANGED <<base, gas, elapsed, seed, gasSteps, records, published, clock, frames,
                     frameCount>>
      /\ Last' = Last /\ Duration' = Duration
  BY DEF backend, device, Last, Duration
<1>3. Opened' BY <1>1, <1>2 DEF WindowInv, Opened
<1>4. Seeded' BY <1>1, <1>2 DEF WindowInv, Seeded, Downloaded
<1>5. Reached' BY <1>1, <1>2 DEF WindowInv, Reached, Downloaded
<1>6. HistoryShared'
  BY <1>2 DEF WindowInv, HistoryShared, WindowTiled, FramesFollowHost, Complete, Downloaded
<1>7. EnergyAccounted'
  BY DEF WindowInv, Accounted, EnergyAccounted, Conserved, RadiatedOnce
<1> QED BY <1>2, <1>3, <1>4, <1>5, <1>6, <1>7 DEF Given

LEMMA RadiateWindowInv == ASSUME WindowInv, Radiate PROVE WindowInv'
<1>1. /\ phase = "radiation" /\ phase' = "material" /\ Last > 0
      /\ solid' = accepted.solid /\ cursor' = Start /\ slab' = NoSlab
      /\ UNCHANGED <<stops, saved, accepted, backend, device, given>>
  BY DEF Radiate, Complete
<1>2. Active /\ Active' /\ Downloaded /\ Downloaded' /\ Working'
  BY <1>1 DEF Active, Downloaded, Working
<1>3. /\ Duration \in Nat \ {0} /\ elapsed \in Nat /\ Last \in Nat /\ window.begin \in Nat
      /\ accepted \in States /\ window.end = window.begin + Duration
  BY <1>2, Spans
<1>4. /\ window \in [begin : 0 .. EndTime, end : 0 .. EndTime, heat : Nat, radiated : 0 .. EndTime]
      /\ window.heat = 0 /\ accepted.budget + window.heat = window.radiated /\ elapsed =< Duration
      /\ gas = base.gas - Given(Last)
  BY <1>1, <1>2 DEF WindowInv, TypeOK, Accounted, HistoryShared, WindowTiled
<1>5. /\ window' \in [begin : 0 .. EndTime, end : 0 .. EndTime, heat : Nat, radiated : 0 .. EndTime]
      /\ window'.begin = window.begin /\ window'.end = window.end
      /\ accepted.budget + window'.heat = window'.radiated
  <2> DEFINE now == window.begin + elapsed
  <2>1. now \in 0 .. EndTime /\ now =< window.end /\ accepted.budget \in Nat
    BY <1>3, <1>4, ClockAssumption DEF States
  <2>2. CASE UNCHANGED window BY <2>2, <1>4
  <2>3. CASE now > window.radiated
             /\ window' = [window EXCEPT !.heat = now - window.radiated, !.radiated = now]
    <3>1. now - window.radiated \in Nat BY <2>1, <2>3, <1>4
    <3> HIDE DEF now
    <3>2. /\ window'.heat = now - window.radiated /\ window'.radiated = now
          /\ window'.begin = window.begin /\ window'.end = window.end
          /\ window' \in [begin : 0 .. EndTime, end : 0 .. EndTime, heat : Nat,
                          radiated : 0 .. EndTime]
      BY <3>1, <2>1, <2>3, <1>4
    <3>3. accepted.budget = window.radiated BY <2>1, <1>4
    <3>4. accepted.budget + (now - window.radiated) = now BY <3>3, <2>1
    <3> QED BY <3>2, <3>4
  <2> QED BY <2>2, <2>3 DEF Radiate
<1>6. /\ Opened' /\ Seeded' /\ Reached' /\ HistoryShared' /\ EnergyAccounted'
      /\ Last' = Last /\ Duration' = Duration /\ records' = records
      /\ Given(Last)' = Given(Last)
  BY <1>1, <1>2, <1>5, HistoryStays
<1>7. UNCHANGED <<base, gas, elapsed, seed, gasSteps, published, clock, frames, frameCount>>
  BY <1>1 DEF backend, device
<1>8. TypeOK'
  <2>1. TypeOK /\ accepted.solid \in Int BY <1>3 DEF WindowInv, States
  <2>2. /\ slab' \in [begin : Nat, end : Nat, drive : Nat, packets : Int]
        /\ cursor' \in [time : Nat, record : Nat \ {0}, used : Int, heat : Int]
    BY <1>1 DEF NoSlab, Start
  <2> QED BY <2>1, <2>2, <1>1, <1>5, <1>6, <1>7 DEF TypeOK
<1>9. Cutting'
  <2>1. records[1].begin = 0 /\ records[1].begin < records[1].end
    BY <1>1, <1>3 DEF WindowInv, HistoryShared, WindowTiled
  <2>2. cursor'.record = 1 /\ cursor'.time = 0 /\ slab'.packets = 0
    BY <1>1 DEF Start, NoSlab
  <2> QED BY <2>1, <2>2, <1>1, <1>3, <1>6 DEF Cutting
<1>10. Accounted'
  <2>1. /\ cursor'.record = 1 /\ cursor'.time = 0 /\ slab'.packets = 0 /\ cursor'.used = 0
        /\ cursor'.heat = 0 /\ solid' = accepted.solid /\ accepted.solid \in Int
    BY <1>1, <1>3 DEF Start, NoSlab, States
  <2>2. Given(cursor.record - 1)' = 0 BY <2>1 DEF Given
  <2>3. solid' + slab'.packets
          = accepted'.solid + Given(cursor.record - 1)' + cursor'.used + cursor'.heat
    BY <2>1, <2>2, <1>1
  <2>4. cursor'.time # Duration' BY <2>1, <1>3, <1>6
  <2> QED BY <2>3, <2>4, <1>1, <1>4, <1>5, <1>6, <1>7 DEF Accounted
<1> QED BY <1>6, <1>8, <1>9, <1>10 DEF WindowInv

\* There is one record for a time of the window that the gas has passed.
LEMMA HeldIs ==
  ASSUME WindowInv, Downloaded, NEW time \in Nat, NEW i \in 1 .. Last,
         records[i].begin =< time, time < records[i].end
  PROVE  Held(time) = i
<1>1. Active BY DEF Active, Downloaded
<1>2. Last \in Nat /\ \A j \in 1 .. Last : records[j].begin \in Nat /\ records[j].end \in Nat
  <2>1. Last \in Nat /\ records \in Seq(Records) BY <1>1, Spans
  <2>2. \A j \in 1 .. Last : records[j] \in Records BY <2>1, ElementOfSeq DEF Last
  <2> QED BY <2>1, <2>2 DEF Records
<1>3. \A j \in 1 .. Last : records[j].begin =< time /\ time < records[j].end => j = i
  <2> SUFFICES ASSUME NEW j \in 1 .. Last, records[j].begin =< time, time < records[j].end, j # i
               PROVE  FALSE
    OBVIOUS
  <2>1. CASE j < i
    <3>1. records[j].end =< records[i].begin BY <2>1, <1>1 DEF WindowInv, Reached
    <3> QED BY <3>1, <1>2
  <2>2. CASE i < j
    <3>1. records[i].end =< records[j].begin BY <2>2, <1>1 DEF WindowInv, Reached
    <3> QED BY <3>1, <1>2
  <2> QED BY <2>1, <2>2, <1>2
<1> QED BY <1>3 DEF Held

\* A step ends later than it begins, and before a record whose drive differs.
LEMMA SlabEndFits ==
  ASSUME WindowInv, Downloaded, NEW time \in Nat, NEW i \in 1 .. Last,
         records[i].begin =< time, time < records[i].end, NEW end \in Nat, time < end
  PROVE  /\ SlabEnd(time, end) \in Nat /\ time < SlabEnd(time, end) /\ SlabEnd(time, end) =< end
         /\ \A j \in i .. Last : records[j].begin < SlabEnd(time, end) =>
              records[j].regime = records[i].regime
<1>1. Active BY DEF Active, Downloaded
<1>2. Last \in Nat /\ \A j \in 1 .. Last : records[j].begin \in Nat /\ records[j].end \in Nat
  <2>1. Last \in Nat /\ records \in Seq(Records) BY <1>1, Spans
  <2>2. \A j \in 1 .. Last : records[j] \in Records BY <2>1, ElementOfSeq DEF Last
  <2> QED BY <2>1, <2>2 DEF Records
<1>3. Held(time) = i BY HeldIs
<1> DEFINE T == Changes(time, end)
<1>4. T = {records[k].begin : k \in {j \in i .. Last :
             /\ time < records[j].begin /\ records[j].begin < end
             /\ records[j].regime # records[i].regime}}
  BY <1>3 DEF Changes
<1>5. T \in SUBSET Nat /\ \A t \in T : time < t /\ t < end BY <1>2, <1>4
<1>6. \A j \in i .. Last :
        records[j].begin < end /\ records[j].regime # records[i].regime => records[j].begin \in T
  <2> SUFFICES ASSUME NEW j \in i .. Last, records[j].begin < end,
                      records[j].regime # records[i].regime
               PROVE  time < records[j].begin
    BY <1>4
  <2>1. i < j /\ j \in 1 .. Last BY <1>2
  <2>2. records[i].end =< records[j].begin BY <2>1, <1>1 DEF WindowInv, Reached
  <2> QED BY <2>1, <2>2, <1>2
<1> HIDE DEF T
<1>7. CASE T = {}
  <2>1. SlabEnd(time, end) = end BY <1>7 DEF SlabEnd, T
  <2> QED BY <2>1, <1>6, <1>7
<1>8. CASE T # {}
  <2>1. \E t \in T : \A u \in T : t =< u BY <1>5, <1>8, Least
  <2>2. SlabEnd(time, end) \in T /\ \A u \in T : SlabEnd(time, end) =< u
    BY <2>1, <1>8 DEF SlabEnd, T
  <2>3. /\ SlabEnd(time, end) \in Nat /\ time < SlabEnd(time, end) /\ SlabEnd(time, end) < end
    BY <2>2, <1>5
  <2>4. ASSUME NEW j \in i .. Last, records[j].begin < SlabEnd(time, end)
        PROVE  records[j].regime = records[i].regime
    <3>1. j \in 1 .. Last /\ records[j].begin \in Nat BY <1>2
    <3>2. records[j].begin < end BY <3>1, <2>3, <2>4
    <3>3. records[j].begin \notin T BY <3>1, <2>2, <2>3, <2>4
    <3> QED BY <3>2, <3>3, <1>6
  <2> QED BY <2>3, <2>4
<1> QED BY <1>7, <1>8

LEMMA BeginStepWindow == ASSUME WindowInv, BeginStep PROVE WindowInv'
<1>1. /\ phase = "material" /\ phase' = "slices" /\ cursor.time < Duration
      /\ UNCHANGED <<stops, saved, accepted, window, backend, device, solid, cursor, given>>
  BY DEF BeginStep
<1>2. Active /\ Active' /\ Downloaded /\ Downloaded' /\ Working /\ Working'
  BY <1>1 DEF Active, Downloaded, Working
<1>3. Duration \in Nat \ {0} /\ Last \in Nat BY <1>2, Spans
<1> DEFINE now == cursor.time
           span == now + Smaller(Bounded(Duration - now), MaxSubstep)
           end == SlabEnd(now, span)
           i == cursor.record
<1>4. now \in Nat /\ i \in Nat \ {0} /\ cursor.used \in Int /\ cursor.heat \in Int
  BY DEF WindowInv, TypeOK
<1>5. i \in 1 .. Last /\ records[i].begin =< now /\ now < records[i].end
  BY <1>1, <1>2, <1>3, <1>4 DEF WindowInv, Cutting
<1>6. span \in Nat /\ now < span /\ span =< Duration
  <2>1. Duration - now \in Nat \ {0} BY <1>1, <1>3, <1>4
  <2>2. /\ Bounded(Duration - now) \in Durations /\ Bounded(Duration - now) =< Duration - now
    BY <2>1, BoundedFits
  <2>3. /\ Smaller(Bounded(Duration - now), MaxSubstep) \in Durations
        /\ Smaller(Bounded(Duration - now), MaxSubstep) =< Bounded(Duration - now)
    BY <2>2, DurationsFacts, SmallerDuration
  <2> QED BY <2>1, <2>2, <2>3, <1>3, <1>4, DurationsFacts
<1> HIDE DEF now, span, i
<1>7. /\ end \in Nat /\ now < end /\ end =< span /\ Held(now) = i
      /\ \A j \in i .. Last : records[j].begin < end => records[j].regime = records[i].regime
  BY <1>2, <1>4, <1>5, <1>6, SlabEndFits, HeldIs
<1>8. PICK limit \in Limits :
        slab' = [begin |-> now, end |-> now + Smaller(Bounded(end - now), limit),
                 drive |-> Held(now), packets |-> 0]
  BY DEF BeginStep, now, span
<1> HIDE DEF end
<1>9. /\ slab'.begin = now /\ slab'.drive = i /\ slab'.packets = 0
      /\ slab'.end \in Nat /\ now < slab'.end /\ slab'.end =< end
      /\ slab' \in [begin : Nat, end : Nat, drive : Nat, packets : Int]
  <2>1. end - now \in Nat \ {0} BY <1>4, <1>7
  <2>2. Bounded(end - now) \in Durations /\ Bounded(end - now) =< end - now
    BY <2>1, BoundedFits
  <2>3. /\ Smaller(Bounded(end - now), limit) \in Durations
        /\ Smaller(Bounded(end - now), limit) =< Bounded(end - now)
    BY <2>2, DurationsFacts, SmallerDuration
  <2> DEFINE step == Smaller(Bounded(end - now), limit)
  <2>4. step \in Nat \ {0} /\ now + step =< end BY <2>1, <2>2, <2>3, <1>4, <1>7, DurationsFacts
  <2>5. slab' = [begin |-> now, end |-> now + step, drive |-> i, packets |-> 0] BY <1>7, <1>8
  <2> HIDE DEF step
  <2> QED BY <2>4, <2>5, <1>4
<1>10. /\ Opened' /\ Seeded' /\ Reached' /\ HistoryShared' /\ EnergyAccounted'
       /\ Last' = Last /\ Duration' = Duration /\ records' = records
  BY <1>1, <1>2, HistoryStays
<1>11. UNCHANGED <<base, gas, elapsed, seed, gasSteps, published, clock, frames, frameCount>>
  BY <1>1 DEF backend, device
<1>12. TypeOK'
  BY <1>1, <1>9, <1>10, <1>11 DEF WindowInv, TypeOK
<1>13. Cutting'
  <2>1. \A j \in i .. Last : records[j].begin \in Int
    <3>1. Last \in Nat /\ records \in Seq(Records) BY <1>2, Spans
    <3>2. \A j \in i .. Last : j \in 1 .. Last BY <1>4, <3>1
    <3>3. \A j \in i .. Last : records[j] \in Records BY <3>1, <3>2, ElementOfSeq DEF Last
    <3> QED BY <3>3 DEF Records
  <2>2. \A j \in i .. Last : records[j].begin < slab'.end => records[j].begin < end
    BY <2>1, <1>7, <1>9
  <2>3. cursor'.time = now /\ cursor'.record = i /\ now =< slab'.end /\ slab'.end =< Duration
    BY <1>1, <1>3, <1>4, <1>6, <1>7, <1>9 DEF now, i
  <2> QED BY <2>2, <2>3, <1>1, <1>2, <1>3, <1>4, <1>5, <1>7, <1>9, <1>10 DEF Cutting
<1>14. Accounted'
  <2>1. slab.packets = 0 /\ Accounted BY <1>1, <1>2 DEF WindowInv, Cutting
  <2>2. UNCHANGED <<given, Given(Last), Given(cursor.record - 1), window, solid, cursor, gas, accepted>>
    BY <1>1, <1>10, <1>11 DEF Given
  <2> QED BY <2>1, <2>2, <1>1, <1>2, <1>9, <1>10, <1>11 DEF Accounted
<1> QED BY <1>10, <1>12, <1>13, <1>14 DEF WindowInv

LEMMA Adjacent ==
  ASSUME WindowTiled, NEW i \in 1 .. Last, i + 1 \in 1 .. Last
  PROVE  records[i + 1].begin = records[i].end /\ records[i + 1].begin < records[i + 1].end
<1>1. PICK j \in 1 .. Last : j = i + 1 OBVIOUS
<1>2. j # 1 /\ j - 1 = i BY <1>1
<1>3. records[j].begin = records[j - 1].end /\ records[j].begin < records[j].end
  BY <1>2 DEF WindowTiled
<1> QED BY <1>1, <1>2, <1>3

LEMMA CursorMoves ==
  ASSUME NEW c \in [time : Nat, record : Nat \ {0}, used : Int, heat : Int],
         NEW t \in Nat, NEW k \in Nat \ {0}, NEW u \in Int,
         NEW d, d = [c EXCEPT !.time = t, !.record = k, !.used = u]
  PROVE  /\ d.time = t /\ d.record = k /\ d.used = u /\ d.heat = c.heat
         /\ d \in [time : Nat, record : Nat \ {0}, used : Int, heat : Int]
OBVIOUS

\* The last slice of a record takes what is left of it.
LEMMA SliceWindow == ASSUME WindowInv, Slice PROVE WindowInv'
<1>1. /\ phase = "slices" /\ phase' = "slices" /\ cursor.time < slab.end
      /\ UNCHANGED <<stops, saved, accepted, window, backend, device, solid, given>>
  BY DEF Slice, frontend
<1>2. Active /\ Active' /\ Downloaded /\ Downloaded' /\ Working /\ Working'
  BY <1>1 DEF Active, Downloaded, Working
<1>3. Duration \in Nat \ {0} /\ Last \in Nat /\ records \in Seq(Records) /\ accepted \in States
  BY <1>2, Spans
<1> DEFINE k == cursor.record
           record == records[k]
           stop == Smaller(slab.end, record.end)
           last == stop = record.end
           quotient == (record.amount * (stop - cursor.time)) \div (record.end - record.begin)
           part == IF last THEN record.amount - cursor.used ELSE quotient
<1>4. /\ cursor \in [time : Nat, record : Nat \ {0}, used : Int, heat : Int]
      /\ slab \in [begin : Nat, end : Nat, drive : Nat, packets : Int] /\ solid \in Int
  BY DEF WindowInv, TypeOK
<1>5. /\ slab.begin < slab.end /\ slab.begin =< cursor.time /\ slab.end =< Duration
      /\ slab.drive \in 1 .. Last /\ slab.drive =< k
      /\ \A j \in slab.drive .. Last :
           records[j].begin < slab.end => records[j].regime = records[slab.drive].regime
      /\ k =< Last + 1
  BY <1>1, <1>2 DEF WindowInv, Cutting
<1>6. k \in 1 .. Last /\ record.begin =< cursor.time /\ cursor.time < record.end
  BY <1>1, <1>2, <1>3, <1>4, <1>5 DEF WindowInv, Cutting
<1>7. record \in Records /\ \A j \in 1 .. Last : records[j] \in Records
  BY <1>3, <1>6, ElementOfSeq DEF Last
<1>8. record.begin \in Nat /\ record.end \in Nat /\ record.amount \in Int BY <1>7 DEF Records
<1>9. /\ stop \in Nat /\ cursor.time < stop /\ stop =< slab.end /\ stop =< record.end
      /\ last \/ stop = slab.end
  BY <1>1, <1>4, <1>6, <1>8 DEF Smaller
<1>10. part \in Int
  <2>1. \A a \in Int, b \in Nat \ {0} : a \div b \in Int OBVIOUS
  <2>2. record.end - record.begin \in Nat \ {0} BY <1>4, <1>6, <1>8
  <2>3. record.amount * (stop - cursor.time) \in Int BY <1>4, <1>8, <1>9
  <2>4. quotient \in Int BY <2>1, <2>2, <2>3
  <2> HIDE DEF quotient
  <2> QED BY <2>4, <1>4, <1>8
<1>11. /\ cursor' = [cursor EXCEPT !.time = stop, !.record = IF last THEN @ + 1 ELSE @,
                                   !.used = IF last THEN 0 ELSE @ + part]
       /\ slab' = [slab EXCEPT !.packets = @ + part]
  BY DEF Slice
<1>12. /\ last => part = record.amount - cursor.used
       /\ last <=> stop = record.end
  OBVIOUS
<1> HIDE DEF part, stop, record, last, quotient
<1>13. /\ cursor'.time = stop /\ cursor'.heat = cursor.heat
       /\ last => cursor'.record = k + 1 /\ cursor'.used = 0
       /\ ~last => cursor'.record = k /\ cursor'.used = cursor.used + part
       /\ cursor' \in [time : Nat, record : Nat \ {0}, used : Int, heat : Int]
  <2>1. CASE last
    <3> DEFINE next == k + 1
    <3>1. cursor' = [cursor EXCEPT !.time = stop, !.record = next, !.used = 0]
      BY <2>1, <1>4, <1>11
    <3>2. next \in Nat \ {0} /\ stop \in Nat /\ 0 \in Int BY <1>4, <1>9
    <3> HIDE DEF next
    <3>3. /\ cursor'.time = stop /\ cursor'.heat = cursor.heat
          /\ cursor'.record = next /\ cursor'.used = 0
          /\ cursor' \in [time : Nat, record : Nat \ {0}, used : Int, heat : Int]
      BY <3>1, <3>2, <1>4, CursorMoves
    <3> QED BY <3>3, <2>1 DEF next
  <2>2. CASE ~last
    <3>2. /\ cursor'.time = stop /\ cursor'.heat = cursor.heat
          /\ cursor'.record = k /\ cursor'.used = cursor.used + part
          /\ cursor' \in [time : Nat, record : Nat \ {0}, used : Int, heat : Int]
      <4>1. cursor.used + part \in Int /\ stop \in Nat /\ k \in Nat \ {0} BY <1>4, <1>9, <1>10
      <4>2. cursor' = [cursor EXCEPT !.time = stop, !.record = k, !.used = cursor.used + part]
        BY <2>2, <1>4, <1>11
      <4> QED BY <4>1, <4>2, <1>4, CursorMoves
    <3> QED BY <3>2, <2>2
  <2> QED BY <2>1, <2>2
<1>14. /\ slab'.begin = slab.begin /\ slab'.end = slab.end /\ slab'.drive = slab.drive
       /\ slab'.packets = slab.packets + part
       /\ slab' \in [begin : Nat, end : Nat, drive : Nat, packets : Int]
  BY <1>4, <1>10, <1>11
<1>15. /\ Opened' /\ Seeded' /\ Reached' /\ HistoryShared' /\ EnergyAccounted'
       /\ Last' = Last /\ Duration' = Duration /\ records' = records
       /\ Given(Last)' = Given(Last)
  BY <1>1, <1>2, HistoryStays
<1>16. UNCHANGED <<base, gas, elapsed, seed, gasSteps, published, clock, frames, frameCount>>
  BY <1>1 DEF backend, device
<1>17. TypeOK'
  BY <1>1, <1>13, <1>14, <1>15, <1>16 DEF WindowInv, TypeOK
<1>18. Cutting'
  <2>1. cursor'.record =< Last' + 1 BY <1>3, <1>6, <1>13, <1>15
  <2>2. IF cursor'.record =< Last'
        THEN /\ records'[cursor'.record].begin =< cursor'.time
             /\ cursor'.time < records'[cursor'.record].end
        ELSE cursor'.time = Duration' /\ cursor'.used = 0
    <3>1. CASE ~last
      <4>1. records[k].begin =< stop /\ stop < records[k].end
        BY <3>1, <1>4, <1>6, <1>8, <1>9, <1>12 DEF record
      <4>2. cursor'.record = k /\ cursor'.time = stop /\ k =< Last' /\ records' = records
        BY <3>1, <1>6, <1>13, <1>15
      <4> QED BY <4>1, <4>2
    <3>2. CASE last /\ k < Last
      <4>1. k \in 1 .. Last /\ k + 1 \in 1 .. Last BY <3>2, <1>3, <1>6
      <4>2. records[k + 1].begin = records[k].end /\ records[k + 1].begin < records[k + 1].end
        BY <4>1, Adjacent DEF WindowInv, HistoryShared
      <4>3. /\ cursor'.record = k + 1 /\ cursor'.time = records[k].end
            /\ records[k].end \in Nat
        BY <3>2, <1>8, <1>12, <1>13 DEF record
      <4> QED BY <4>1, <4>2, <4>3, <1>3, <1>15
    <3>3. CASE last /\ k = Last
      <4>1. records[Last].end = Duration
        BY <1>1 DEF WindowInv, HistoryShared, WindowTiled, Complete
      <4>2. cursor'.record = Last + 1 /\ cursor'.used = 0 /\ cursor'.time = Duration
        BY <3>3, <4>1, <1>12, <1>13 DEF record
      <4> QED BY <4>2, <1>3, <1>15
    <3> QED BY <3>1, <3>2, <3>3, <1>3, <1>6
  <2>3. slab.begin =< stop /\ k =< cursor'.record BY <1>4, <1>5, <1>6, <1>9, <1>13
  <2> QED BY <2>1, <2>2, <2>3, <1>1, <1>4, <1>5, <1>6, <1>9, <1>13, <1>14, <1>15 DEF Cutting
<1>19. Accounted'
  <2>1. /\ solid + slab.packets
             = accepted.solid + Given(k - 1) + cursor.used + cursor.heat
        /\ gas = base.gas - Given(Last) /\ accepted.budget + window.heat = window.radiated
    BY <1>2 DEF WindowInv, Accounted
  <2>2. record.amount = Given(k) - Given(k - 1) /\ Given(k) \in Int /\ Given(k - 1) \in Int
    <3>1. frames[k].amount = given[k] - IF k = 1 THEN 0 ELSE given[k - 1]
      BY <1>1, <1>6 DEF WindowInv, HistoryShared, FramesFollowHost
    <3>2. records[k] = frames[k] BY <1>1, <1>6 DEF WindowInv, HistoryShared, FramesFollowHost
    <3>3. given \in Seq(Int) /\ Len(given) = Last BY <1>2 DEF WindowInv, TypeOK, Reached
    <3>4. given[k] \in Int /\ (k # 1 => given[k - 1] \in Int)
      <4>1. k \in 1 .. Len(given) /\ (k # 1 => k - 1 \in 1 .. Len(given)) BY <3>3, <1>3, <1>6
      <4> QED BY <4>1, <3>3, ElementOfSeq
    <3>5. k # 0 /\ (k - 1 = 0 <=> k = 1) BY <1>6
    <3> QED BY <3>1, <3>2, <3>4, <3>5 DEF Given, record
  <2>3. \A n \in Nat : Given(n)' = Given(n) BY <1>1 DEF Given
  <2>4. accepted.solid \in Int BY <1>3 DEF States
  <2> DEFINE before == Given(k - 1)
             through == Given(k)
  <2>5. before \in Int /\ through \in Int /\ record.amount = through - before BY <2>2
  <2>6. Given(cursor.record - 1)' = IF last THEN through ELSE before
    <3>1. k - 1 \in Nat /\ k \in Nat /\ k + 1 - 1 = k BY <1>6
    <3>2. CASE last
      <4>1. cursor'.record - 1 = k BY <3>1, <3>2, <1>13
      <4> QED BY <4>1, <3>2, <1>1 DEF Given
    <3>3. CASE ~last BY <3>1, <3>3, <2>3, <1>1, <1>13 DEF Given
    <3> QED BY <3>2, <3>3
  <2> HIDE DEF before, through
  <2>7. solid' + slab'.packets
          = accepted'.solid + Given(cursor.record - 1)' + cursor'.used + cursor'.heat
    <3>1. solid + slab.packets = accepted.solid + before + cursor.used + cursor.heat
      BY <2>1 DEF before
    <3>2. solid' = solid /\ accepted' = accepted BY <1>1
    <3>3. CASE last
      BY <3>1, <3>2, <3>3, <2>4, <2>5, <2>6, <1>4, <1>8, <1>10, <1>12, <1>13, <1>14
    <3>4. CASE ~last
      BY <3>1, <3>2, <3>4, <2>4, <2>5, <2>6, <1>4, <1>8, <1>10, <1>13, <1>14
    <3> QED BY <3>3, <3>4
  <2> QED BY <2>1, <2>7, <1>1, <1>15, <1>16 DEF Accounted
<1> QED BY <1>15, <1>17, <1>18, <1>19 DEF WindowInv

LEMMA FinishStepWindow == ASSUME WindowInv, FinishStep PROVE WindowInv'
<1>1. /\ phase = "slices" /\ phase' = "material" /\ cursor.time = slab.end /\ slab' = NoSlab
      /\ UNCHANGED <<stops, saved, accepted, window, backend, device, given>>
  BY DEF FinishStep
<1>2. Active /\ Active' /\ Downloaded /\ Downloaded' /\ Working /\ Working'
  BY <1>1 DEF Active, Downloaded, Working
<1>3. Duration \in Nat \ {0} /\ Last \in Nat /\ accepted \in States
  BY <1>2, Spans
<1>4. /\ cursor \in [time : Nat, record : Nat \ {0}, used : Int, heat : Int]
      /\ slab \in [begin : Nat, end : Nat, drive : Nat, packets : Int] /\ solid \in Int
      /\ window.heat \in Nat
  BY DEF WindowInv, TypeOK
<1> DEFINE quotient == (window.heat * (slab.end - slab.begin)) \div Duration
           part == IF slab.end = Duration THEN window.heat - cursor.heat ELSE quotient
<1>5. part \in Int
  <2>1. \A a \in Int, b \in Nat \ {0} : a \div b \in Int OBVIOUS
  <2>2. window.heat * (slab.end - slab.begin) \in Int BY <1>4
  <2>3. quotient \in Int BY <2>1, <2>2, <1>3
  <2> HIDE DEF quotient
  <2> QED BY <2>3, <1>4
<1>6. solid' = solid + slab.packets + part /\ cursor' = [cursor EXCEPT !.heat = @ + part]
  BY DEF FinishStep
<1>7. slab.end = Duration => part = window.heat - cursor.heat OBVIOUS
<1> HIDE DEF part
<1>8. /\ cursor'.time = cursor.time /\ cursor'.record = cursor.record
      /\ cursor'.used = cursor.used /\ cursor'.heat = cursor.heat + part
      /\ cursor' \in [time : Nat, record : Nat \ {0}, used : Int, heat : Int]
  BY <1>4, <1>5, <1>6
<1>9. slab'.packets = 0 /\ slab' \in [begin : Nat, end : Nat, drive : Nat, packets : Int]
  BY <1>1 DEF NoSlab
<1>10. /\ Opened' /\ Seeded' /\ Reached' /\ HistoryShared' /\ EnergyAccounted'
       /\ Last' = Last /\ Duration' = Duration /\ records' = records
       /\ Given(Last)' = Given(Last)
  BY <1>1, <1>2, HistoryStays
<1>11. UNCHANGED <<base, gas, elapsed, seed, gasSteps, published, clock, frames, frameCount>>
  BY <1>1 DEF backend, device
<1>12. TypeOK'
  <2>1. solid' \in Int BY <1>4, <1>5, <1>6
  <2> QED BY <2>1, <1>1, <1>8, <1>9, <1>10, <1>11 DEF WindowInv, TypeOK
<1>13. Cutting' BY <1>1, <1>2, <1>8, <1>9, <1>10 DEF WindowInv, Cutting
<1>14. Accounted'
  <2>1. /\ solid + slab.packets
             = accepted.solid + Given(cursor.record - 1) + cursor.used + cursor.heat
        /\ gas = base.gas - Given(Last) /\ accepted.budget + window.heat = window.radiated
    BY <1>2 DEF WindowInv, Accounted
  <2>2. Given(cursor.record - 1)' = Given(cursor.record - 1) BY <1>1, <1>8 DEF Given
  <2>3. Given(cursor.record - 1) \in Int /\ accepted.solid \in Int
    <3>1. given \in Seq(Int) /\ Len(given) = Last /\ cursor.record =< Last + 1
      BY <1>2 DEF WindowInv, TypeOK, Reached, Cutting
    <3>2. cursor.record - 1 = 0 \/ cursor.record - 1 \in 1 .. Len(given) BY <3>1, <1>3, <1>4
    <3> QED BY <3>1, <3>2, <1>3, ElementOfSeq DEF Given, States
  <2>4. solid' + slab'.packets
          = accepted'.solid + Given(cursor.record - 1)' + cursor'.used + cursor'.heat
    <3> DEFINE before == Given(cursor.record - 1)
    <3>1. /\ solid + slab.packets = accepted.solid + before + cursor.used + cursor.heat
          /\ before \in Int /\ Given(cursor.record - 1)' = before
      BY <2>1, <2>2, <2>3
    <3> HIDE DEF before
    <3>2. solid' + slab'.packets = solid + slab.packets + part BY <1>4, <1>5, <1>6, <1>9
    <3>3. accepted'.solid + before + cursor'.used + cursor'.heat
            = accepted.solid + before + cursor.used + cursor.heat + part
      BY <3>1, <2>3, <1>1, <1>4, <1>5, <1>8
    <3> QED BY <3>1, <3>2, <3>3
  <2>5. cursor'.time = Duration' => cursor'.heat = window'.heat
    BY <1>1, <1>4, <1>5, <1>7, <1>8, <1>10
  <2> QED BY <2>1, <2>4, <2>5, <1>1, <1>10, <1>11 DEF Accounted
<1> QED BY <1>10, <1>12, <1>13, <1>14 DEF WindowInv

-----------------------------------------------------------------------------
(* A window ends.                                                            *)
\* At the end of the material all that the gas gave has been cut off, and all
\* that radiation brought has arrived.
LEMMA CandidateKeeps ==
  ASSUME WindowInv, phase = "material", cursor.time = Duration
  PROVE  /\ Candidate \in States /\ Candidate.nextDt = seed
         /\ Candidate.gas + Candidate.solid = Candidate.budget
         /\ Candidate.budget = Candidate.radiated
<1>1. Active /\ Downloaded /\ Working BY DEF Active, Downloaded, Working
<1>2. /\ Duration \in Nat \ {0} /\ Last \in Nat /\ accepted \in States /\ seed \in Durations
      /\ records \in Seq(Records)
  BY <1>1, Spans
<1>3. /\ cursor \in [time : Nat, record : Nat \ {0}, used : Int, heat : Int]
      /\ window \in [begin : 0 .. EndTime, end : 0 .. EndTime, heat : Nat, radiated : 0 .. EndTime]
      /\ gas \in Int /\ solid \in Int
  BY DEF WindowInv, TypeOK
<1>4. /\ accepted.gas \in Int /\ accepted.solid \in Int /\ accepted.budget \in Nat
      /\ accepted.commits \in Nat
  BY <1>2 DEF States
<1>5. cursor.record = Last + 1 /\ cursor.used = 0
  <2>1. cursor.record =< Last + 1 /\ (cursor.record > Last => cursor.used = 0)
    BY <1>1, <1>2, <1>3 DEF WindowInv, Cutting
  <2>2. ASSUME cursor.record =< Last PROVE FALSE
    <3> DEFINE k == cursor.record
    <3>1. k \in 1 .. Last BY <2>2, <1>2, <1>3
    <3>2. records[k].end =< elapsed /\ elapsed =< Duration /\ elapsed \in Nat
      BY <3>1, <1>1, Spans DEF WindowInv, Reached, HistoryShared, WindowTiled, Active
    <3>3. records[k].end \in Nat
      <4>1. records[k] \in Records BY <3>1, <1>2, ElementOfSeq DEF Last
      <4> QED BY <4>1 DEF Records
    <3>4. cursor.time < records[k].end BY <2>2, <1>1 DEF WindowInv, Cutting
    <3> QED BY <3>2, <3>3, <3>4, <1>2, <1>3
  <2> QED BY <2>1, <2>2, <1>2, <1>3
<1>6. Given(Last) \in Int
  <2>1. given \in Seq(Int) /\ Len(given) = Last BY <1>1 DEF WindowInv, TypeOK, Reached
  <2> QED BY <2>1, <1>2, ElementOfSeq DEF Given
<1>7. /\ solid = accepted.solid + Given(Last) + window.heat
      /\ gas = accepted.gas - Given(Last)
      /\ accepted.budget + window.heat = window.radiated
  <2>1. /\ solid + slab.packets = accepted.solid + Given(cursor.record - 1) + cursor.used + cursor.heat
        /\ gas = base.gas - Given(Last) /\ base = accepted
        /\ accepted.budget + window.heat = window.radiated /\ cursor.heat = window.heat
    BY <1>1 DEF WindowInv, Accounted, Opened
  <2>2. slab.packets = 0 BY <1>1 DEF WindowInv, Cutting
  <2>3. cursor.record - 1 = Last BY <1>2, <1>5
  <2> QED BY <2>1, <2>2, <2>3, <1>3, <1>4, <1>5, <1>6
<1>8. accepted.gas + accepted.solid = accepted.budget
  BY DEF WindowInv, Accounted, EnergyAccounted, Conserved
<1>9. Candidate \in States
  <2>1. accepted.budget + window.heat \in Nat /\ accepted.commits + 1 \in Nat BY <1>3, <1>4
  <2> QED BY <2>1, <1>2, <1>3 DEF Candidate, States
<1>10. gas + solid = accepted.budget + window.heat BY <1>3, <1>4, <1>6, <1>7, <1>8
<1> QED BY <1>7, <1>9, <1>10 DEF Candidate

LEMMA CommitWindow == ASSUME WindowInv, Commit PROVE WindowInv'
<1>1. /\ phase = "material" /\ cursor.time = Duration /\ phase' = "publish"
      /\ accepted' = Candidate /\ base' = accepted' /\ records' = <<>> /\ given' = <<>>
      /\ solid' = 0 /\ cursor' = Start /\ slab' = NoSlab
      /\ UNCHANGED <<stops, saved, window, gas, elapsed, seed, gasSteps, published,
                     clock, frames, frameCount>>
  BY DEF Commit, device
<1>2. /\ accepted' \in States /\ accepted'.nextDt = seed
      /\ accepted'.gas + accepted'.solid = accepted'.budget
      /\ accepted'.budget = accepted'.radiated
  BY <1>1, CandidateKeeps
<1>3. ~Active' /\ ~Working' /\ Last' = 0
  BY <1>1, EmptyHistory DEF Active, Working, Last
<1>4. TypeOK'
  <2>1. TypeOK BY DEF WindowInv
  <2>2. /\ records' \in Seq(Records) /\ given' \in Seq(Int) BY <1>1, EmptyHistory
  <2>3. /\ slab' \in [begin : Nat, end : Nat, drive : Nat, packets : Int]
        /\ cursor' \in [time : Nat, record : Nat \ {0}, used : Int, heat : Int]
    BY <1>1 DEF NoSlab, Start
  <2> QED BY <1>1, <1>2, <2>1, <2>2, <2>3 DEF TypeOK
<1>5. Opened' BY <1>1, <1>3 DEF Opened
<1>6. Seeded' BY <1>1, <1>2, <1>3 DEF WindowInv, Seeded
<1>7. Reached' BY <1>3 DEF Reached
<1>8. HistoryShared' BY <1>1, <1>3 DEF HistoryShared, WindowTiled, FramesFollowHost, Active
<1>9. Cutting' BY <1>3 DEF Cutting
<1>10. Accounted'
  <2>1. EnergyAccounted'
    BY <1>1, <1>2 DEF WindowInv, Accounted, EnergyAccounted, Conserved, RadiatedOnce
  <2> QED BY <2>1, <1>1, <1>3 DEF Accounted, Active, Working
<1> QED BY <1>4, <1>5, <1>6, <1>7, <1>8, <1>9, <1>10 DEF WindowInv

LEMMA PublishWindow == ASSUME WindowInv, Publish PROVE WindowInv'
<1>1. /\ phase \in {"initial", "publish"}
      /\ phase' = IF accepted.time < EndTime THEN "idle" ELSE "finished"
      /\ saved' \in {saved, saved \cup {accepted}}
      /\ UNCHANGED <<stops, accepted, window, base, gas, elapsed, seed, gasSteps, records,
                     published, clock, frames, frameCount, solid, slab, cursor, given>>
  BY DEF Publish, backend, device, material
<1>2. ~Active /\ ~Active' /\ ~Working' BY <1>1 DEF Active, Working
<1>3. Last' = Last /\ Last = 0
  BY <1>1, <1>2, EmptyHistory DEF WindowInv, Opened, Last
<1>4. TypeOK'
  <2>1. TypeOK BY DEF WindowInv
  <2>2. saved' \subseteq States BY <1>1, <2>1 DEF TypeOK
  <2>3. phase' \in {"initial", "idle", "gas", "radiation", "material", "slices",
                    "publish", "finished", "dead"}
    BY <1>1
  <2> QED BY <1>1, <2>1, <2>2, <2>3 DEF TypeOK
<1>5. Opened' BY <1>1, <1>2 DEF WindowInv, Opened
<1>6. Seeded' BY <1>1, <1>2 DEF WindowInv, Seeded
<1>7. Reached' BY <1>2 DEF Reached
<1>8. HistoryShared' BY <1>2, <1>3 DEF HistoryShared, WindowTiled, FramesFollowHost, Active
<1>9. Cutting' BY <1>2 DEF Cutting
<1>10. Accounted'
  <2>1. saved' \cup {accepted'} \subseteq saved \cup {accepted} BY <1>1
  <2>2. EnergyAccounted'
    BY <2>1 DEF WindowInv, Accounted, EnergyAccounted, Conserved, RadiatedOnce
  <2> QED BY <2>2, <1>1, <1>2 DEF Accounted, Active, Working
<1> QED BY <1>4, <1>5, <1>6, <1>7, <1>8, <1>9, <1>10 DEF WindowInv

LEMMA NextWindow == WindowInv /\ [Next]_vars => WindowInv'
<1> SUFFICES ASSUME WindowInv, [Next]_vars PROVE WindowInv' OBVIOUS
<1>1. CASE UNCHANGED vars
  BY <1>1 DEF vars, frontend, backend, device, material, WindowInv, TypeOK, Opened, Seeded,
       Reached, HistoryShared, WindowTiled, FramesFollowHost, Complete, Cutting, Accounted,
       EnergyAccounted, Conserved, RadiatedOnce, Active, Working, Given, Duration, Last
<1>2. CASE Next
  BY <1>2, BeginWindow, MicrostepWindow, DownloadWindow, RadiateWindowInv, BeginStepWindow,
     SliceWindow, FinishStepWindow, CommitWindow, PublishWindow, EndingWindow
     DEF Next, Advance
<1> QED BY <1>1, <1>2

LEMMA AlwaysWindow == Spec => []WindowInv
BY InitWindow, NextWindow, PTL DEF Spec

-----------------------------------------------------------------------------
(* The variables have their types, and there is always room in the device's  *)
(* array for the records in it (the growth in prepareCoupledWallInterval).   *)
THEOREM Typed == Spec => []TypeOK
<1>1. WindowInv => TypeOK BY DEF WindowInv
<1> QED BY <1>1, AlwaysWindow, PTL

(* Whatever steps the CFL limit and the rounding of durations leave, the      *)
(* records tile the window, and every one of them carries what its microstep *)
(* gave and no other's (recordGasMicrostep, downloadGasWindow).              *)
THEOREM OneHistory == Spec => []HistoryShared
<1>1. WindowInv => HistoryShared BY DEF WindowInv
<1> QED BY <1>1, AlwaysWindow, PTL

(* A material step ends before the first record, however far ahead, whose     *)
(* drive differs too much from the one it holds (nextMaterialStep).           *)
THEOREM OneDrive == Spec => []HeldDrive
<1>1. WindowInv => HeldDrive
  <2> SUFFICES ASSUME WindowInv, phase = "slices", cursor.time < slab.end
               PROVE  records[cursor.record].regime = records[slab.drive].regime
    BY DEF HeldDrive
  <2>1. Active /\ Working BY DEF Active, Working
  <2>2. Last \in Nat /\ Duration \in Nat /\ records \in Seq(Records) BY <2>1, Spans
  <2>3. cursor.time \in Nat /\ slab.end \in Nat /\ cursor.record \in Nat \ {0}
    BY DEF WindowInv, TypeOK
  <2>4. /\ slab.end =< Duration /\ slab.drive \in 1 .. Last /\ slab.drive =< cursor.record
        /\ \A j \in slab.drive .. Last :
             records[j].begin < slab.end => records[j].regime = records[slab.drive].regime
    BY <2>1 DEF WindowInv, Cutting
  <2>5. cursor.record \in 1 .. Last /\ records[cursor.record].begin =< cursor.time
    BY <2>1, <2>2, <2>3, <2>4 DEF WindowInv, Cutting
  <2>6. records[cursor.record].begin \in Nat
    <3>1. records[cursor.record] \in Records BY <2>2, <2>5, ElementOfSeq DEF Last
    <3> QED BY <3>1 DEF Records
  <2> QED BY <2>2, <2>3, <2>4, <2>5, <2>6
<1> QED BY <1>1, AlwaysWindow, PTL

(* No accepted or saved state has gained or lost energy, whatever slices the  *)
(* rounding of material steps cut the records into, and radiation is counted *)
(* once for every moment (takeThroughLocal, advanceCoupledWindow).            *)
THEOREM NothingLost == Spec => []EnergyAccounted
<1>1. WindowInv => EnergyAccounted BY DEF WindowInv, Accounted
<1> QED BY <1>1, AlwaysWindow, PTL

LEMMA SeedStep ==
  ASSUME WindowInv, [Next]_vars
  PROVE  \/ seed' = seed
         \/ phase \in {"initial", "idle"} /\ seed = 0
         \/ phase' \in {"dead", "initial"}
         \/ phase = "gas" /\ Refreshed /\ seed' =< Growth * seed
<1>1. CASE Begin
  BY <1>1 DEF Begin, WindowInv, Seeded
<1>2. CASE Microstep
  <2>1. phase = "gas" BY <1>2 DEF Microstep
  <2>2. Active BY <2>1 DEF Active
  <2>3. seed \in Durations BY <2>2, Spans
  <2>4. PICK stable \in Stables : seed' = Proposal(stable) BY <1>2 DEF Microstep
  <2>5. ~Refreshed => seed =< Cap BY DEF WindowInv, Seeded, Refreshed
  <2> QED BY <2>1, <2>3, <2>4, <2>5, ProposalFits
<1>3. CASE Stop \/ Restart BY <1>3 DEF Stop, Restart
<1>4. CASE \/ Download \/ Radiate \/ BeginStep \/ Slice \/ FinishStep \/ Commit \/ Publish
           \/ UNCHANGED vars
  BY <1>4 DEF Download, Radiate, BeginStep, Slice, FinishStep, Commit, Publish, vars, backend
<1> QED BY <1>1, <1>2, <1>3, <1>4 DEF Next, Advance

(* The seed moves only in a microstep with a fresh CFL estimate, and then by  *)
(* the growth at most; windows, short last steps and commits hand it on.      *)
THEOREM SeedMoves == Spec => SeedHeld
<1>1. WindowInv /\ [Next]_vars =>
        [\/ seed' = seed
         \/ phase \in {"initial", "idle"} /\ seed = 0
         \/ phase' \in {"dead", "initial"}
         \/ phase = "gas" /\ Refreshed /\ seed' =< Growth * seed]_vars
  BY SeedStep
<1> QED BY <1>1, AlwaysWindow, PTL DEF Spec, SeedHeld

-----------------------------------------------------------------------------
(* The refinement of AtomicExchange.                                         *)
LEMMA InitExchange == Init => Exchanges!Init
<1>1. 0 + 0 = 0 OBVIOUS
<1> QED BY <1>1 DEF Init, Exchanges!Init, Case

LEMMA StepExchange == WindowInv /\ [Next]_vars => [Exchanges!Next]_(Exchanges!vars)
<1> SUFFICES ASSUME WindowInv, [Next]_vars PROVE [Exchanges!Next]_(Exchanges!vars) OBVIOUS
<1>1. CASE Commit
  <2>1. phase = "material" /\ cursor.time = Duration /\ accepted' = Candidate /\ saved' = saved
    BY <1>1 DEF Commit
  <2>2. Active BY <2>1 DEF Active
  <2>3. /\ accepted' \in States /\ accepted'.gas + accepted'.solid = accepted'.budget
    BY <2>1, CandidateKeeps
  <2>4. accepted \in States /\ accepted.gas + accepted.solid = accepted.budget
    BY DEF WindowInv, TypeOK, Accounted, EnergyAccounted, Conserved
  <2>5. /\ accepted.time < EndTime
        /\ accepted'.time = Exchanges!Smaller(EndTime, accepted.time + Interval)
        /\ accepted'.commits = accepted.commits + 1
    BY <2>1, <2>2 DEF WindowInv, Opened, Candidate, Smaller, Exchanges!Smaller
  <2>6. (accepted'.gas - accepted.gas) + (accepted'.solid - accepted.solid)
          = accepted'.budget - accepted.budget
    BY <2>3, <2>4 DEF States
  <2> QED BY <2>1, <2>5, <2>6 DEF Exchanges!Next, Exchanges!Exchange
<1>2. CASE Publish
  <2>1. accepted' = accepted /\ (saved' = saved \/ saved' = saved \cup {accepted})
    BY <1>2 DEF Publish
  <2> QED BY <2>1 DEF Exchanges!Next, Exchanges!Save, Exchanges!vars
<1>3. CASE Restart
  BY <1>3 DEF Restart, Exchanges!Next, Exchanges!Resume
<1>4. CASE \/ Begin \/ Microstep \/ Download \/ Radiate \/ BeginStep \/ Slice \/ FinishStep
           \/ Stop \/ UNCHANGED vars
  BY <1>4 DEF Begin, Microstep, Download, Radiate, BeginStep, Slice, FinishStep, Stop, vars,
              frontend, Exchanges!vars
<1> QED BY <1>1, <1>2, <1>3, <1>4 DEF Next, Advance

(* A window takes effect as a whole: between two accepted states lies one     *)
(* exchange, and a process that was stopped anywhere in a window resumes      *)
(* from a state that had been accepted and saved.                             *)
THEOREM WindowsAreAtomic == Spec => AtomicSpec
<1>1. Init => Exchanges!Init BY InitExchange
<1>2. WindowInv /\ [Next]_vars => [Exchanges!Next]_(Exchanges!vars) BY StepExchange
<1> QED BY <1>1, <1>2, AlwaysWindow, PTL DEF Spec, AtomicSpec, Exchanges!Spec
=============================================================================
