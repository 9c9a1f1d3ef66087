----------------------- MODULE ThermalExchange_proofs -----------------------
(***************************************************************************)
(* Proofs about ThermalExchange, for runs of any length, any time steps,   *)
(* intervals and frequencies and any number of crashes and of restarts     *)
(* from any directory: no heat is lost or received twice and a saved       *)
(* directory is whole, until a process writes where another has committed, *)
(* and exchanges and radiation keep their schedule.  The second half is    *)
(* about the device's side of an exchange, ExchangeStreams, for any number *)
(* of exchanges: every kernel finds in its buffers what the host's order   *)
(* of calls says, and some kernel may always run.                          *)
(***************************************************************************)
EXTENDS ThermalExchange, ExchangeStreams, Sequences, SequenceTheorems, WellFoundedInduction,
        TLAPS

States ==
  [initialState : BOOLEAN, exchangeSequence : Nat, completedTime : Nat,
   completedRadiation : Nat, previousExchange : Nat]
Solids == [Sources -> [Ticks -> Nat]]
LedgerSets == [Ledgers -> SUBSET Ticks]
Times == 0 .. EndTime
Stepping == {"exchange", "persist", "ledger", "write", "commit"}

FieldsOf(t, heat, s) == [time |-> t, heated |-> heat, wall |-> s]

Types ==
  /\ pc \in Stepping \union {"advance", "dead"}
  /\ config \in [writeAtCoupling : BOOLEAN, resident : BOOLEAN]
  /\ clock \in [now : Times, writeTime : BOOLEAN]
  /\ committed \in States /\ ledger \in LedgerSets /\ solid \in Solids
  /\ fields = FieldsOf(clock.now, fields.heated, solid)
  /\ unwritten \subseteq Objects
  /\ advanced \in BOOLEAN /\ run \in Nat
  /\ DOMAIN disk = Times /\ \A d \in Times : DOMAIN disk[d] = Parts

\* The heat of the ticks up to a time is with the solid or in the ledgers.
Balanced(gone, t, s, open, radiation) ==
  /\ \A l \in Ledgers :
       /\ open[l] \subseteq (1 .. t) \ gone
       /\ Once(s[l], (1 .. t) \ (open[l] \union gone))
  /\ Once(s["radiation"], 1 .. radiation)

\* It is if nothing came from a directory of two processes, and then the particles
\* have lost what radiation has brought the solid.
Accounted(whole, gone, t, s, open, radiation, heat) ==
  whole => Balanced(gone, t, s, open, radiation) /\ heat = s["radiation"]

\* A state knows its last exchanges.
LastRadiated(n) == n - (n % Frequency)
Recorded(history, state, t) ==
  LET n == Len(history)
      last == LastRadiated(n)
  IN /\ state.exchangeSequence = n
     /\ state.completedTime = IF n = 0 THEN 0 ELSE history[n]
     /\ state.completedRadiation = IF last = 0 THEN 0 ELSE history[last]
     /\ state.completedTime =< t /\ state.completedRadiation =< t

\* Exchanges began when the first interval was over; what a restart has dropped
\* ended before.
Rooted(history, gone, t) ==
  /\ history \in Seq(Nat) /\ \A i \in 1 .. Len(history) : history[i] >= Interval
  /\ \E m \in Times : gone = 1 .. m /\ m =< t /\ m < Interval
Begun(state, s, heat) ==
  IF state.initialState THEN state = InitialState /\ s = FreshSolid /\ heat = Nothing
                        ELSE state.completedTime >= Interval

Live ==
  /\ Accounted(sound, dropped, clock.now, solid, ledger, committed.completedRadiation,
               fields.heated)
  /\ Recorded(completed, committed, clock.now)
  /\ Rooted(completed, dropped, clock.now) /\ Begun(committed, solid, fields.heated)
  /\ pc = "exchange" => committed.completedTime < clock.now
  /\ pc \notin {"exchange", "dead"} => clock.now - committed.completedTime < Interval

\* The host has what it is about to write.
Staged ==
  /\ ~advanced => host.solid = solid
  /\ pc = "persist" /\ ~config.writeAtCoupling /\ committed.completedTime = clock.now
       => host.fields = fields
  /\ pc \in {"ledger", "write", "commit"} => host = [fields |-> fields, solid |-> solid]

Content(part) ==
  CASE part = "fields" -> fields [] part = "solid" -> solid [] part = "state" -> committed

\* The directory being written, which may have the ledger of an earlier process.
Writing ==
  /\ pc \in {"ledger", "write", "commit"} =>
       /\ disk[clock.now]["mirrors"] = File(fields)
       /\ Has(clock.now, "ledger") => clock.now \in overwritten
  /\ pc \in {"write", "commit"} =>
       /\ disk[clock.now]["temporary"] = File(ledger)
       /\ \A part \in Objects \ unwritten : disk[clock.now][part] = File(Content(part))
  /\ pc = "commit" => unwritten = {}

\* The process has committed the directories that it has left.
Left(d) ==
  (\E part \in Parts : Has(d, part) /\ disk[d][part].run = run)
    => Has(d, "ledger") /\ disk[d]["ledger"].run = run
Finished ==
  pc # "dead" =>
    \A d \in Times \ {0} : (d = clock.now /\ pc \in {"ledger", "write", "commit"}) \/ Left(d)

\* The files of a directory, whoever wrote them.  In the first interval there is
\* nothing of an exchange in them, and a state of later says that there was one.
Remembered(state, past, d) ==
  /\ state \in States /\ Rooted(past.completed, past.dropped, d)
  /\ Recorded(past.completed, state, d) /\ d - state.completedTime < Interval
  /\ IF d < Interval THEN state = InitialState
                     ELSE ~state.initialState /\ state.completedTime >= Interval
Contents(saved, d) ==
  /\ saved["state"] # Absent => Remembered(saved["state"].value, saved["state"].past, d)
  /\ saved["solid"] # Absent =>
       saved["solid"].value \in Solids /\ (d < Interval => saved["solid"].value = FreshSolid)
  /\ saved["ledger"] # Absent => saved["ledger"].value \in LedgerSets
  /\ \A part \in {"fields", "mirrors"} : saved[part] # Absent =>
       /\ saved[part].value = FieldsOf(d, saved[part].value.heated, saved[part].value.wall)
       /\ d < Interval => saved[part].value.heated = Nothing
Signed(saved) == \A part \in Parts : saved[part] # Absent => saved[part].run \in 0 .. run

\* A directory with a ledger that no other process has written into is what one
\* process had at its time.
Whole(saved, d) ==
  LET past == saved["ledger"].past
  IN /\ \A part \in Parts \ {"temporary"} :
          /\ saved[part] # Absent /\ saved[part].run = saved["ledger"].run
          /\ saved[part].time = d /\ saved[part].past = past
     /\ saved["fields"].value = saved["mirrors"].value
     /\ saved["fields"].value.wall = saved["solid"].value
     /\ Accounted(past.sound, past.dropped, d, saved["solid"].value, saved["ledger"].value,
                  saved["state"].value.completedRadiation, saved["fields"].value.heated)
Claimed(d) == Has(d, "ledger") /\ d \notin overwritten => Whole(disk[d], d)

Saved == \A d \in Times : Contents(disk[d], d) /\ Signed(disk[d]) /\ Claimed(d)

ThermalInv == Types /\ Live /\ Staged /\ Writing /\ Finished /\ Saved

-----------------------------------------------------------------------------
(* Numbers and the history.                                                  *)
Below == OpToRel(<, Nat)

LEMMA Least ==
  ASSUME NEW T \in SUBSET Nat, T # {}
  PROVE  \E m \in T : \A n \in T : m =< n
<1>1. IsWellFoundedOn(Below, Nat) BY NatLessThanWellFounded DEF Below
<1>2. PICK m \in T : \A n \in T : ~(<<n, m>> \in Below) BY <1>1, WFMin
<1>3. \A a, b \in Nat : a < b => <<a, b>> \in Below BY DEF Below, OpToRel
<1>4. \A n \in T : ~(n < m) BY <1>2, <1>3
<1> QED BY <1>4

LEMMA Numbers ==
  /\ EndTime \in Nat /\ Interval \in Nat \ {0} /\ Frequency \in Nat \ {0}
  /\ Ticks = 1 .. EndTime /\ Ticks \subseteq Nat /\ Times \subseteq Nat /\ Ticks \subseteq Times
  /\ 0 \in Times /\ 0 \notin Ticks
BY ExchangeAssumption DEF Ticks, Times

LEMMA Division ==
  ASSUME NEW a \in Nat, NEW b \in Nat \ {0}
  PROVE  \E x \in Nat, y \in 0 .. b - 1 : y = a % b /\ a = b * x + y
<1>1. a \div b \in Nat /\ a % b \in 0 .. b - 1 OBVIOUS
<1>2. ASSUME NEW x, x = a \div b, NEW y, y = a % b
      PROVE  a = b * x + y
  BY <1>2
<1> QED BY <1>1, <1>2

\* The exchanges with radiation are those whose number is a multiple.
LEMMA Modulus ==
  ASSUME NEW n \in Nat
  PROVE  /\ LastRadiated(n) \in 0 .. n
         /\ RadiationDue(n + 1) => LastRadiated(n + 1) = n + 1
         /\ ~RadiationDue(n + 1) => LastRadiated(n + 1) = LastRadiated(n)
<1> DEFINE F == Frequency
<1>1. F \in Nat \ {0} /\ n + 1 \in Nat BY ExchangeAssumption
<1>2. PICK q \in Nat, r \in 0 .. F - 1 : r = n % F /\ n = F * q + r BY <1>1, Division
<1>3. PICK p \in Nat, s \in 0 .. F - 1 : s = (n + 1) % F /\ n + 1 = F * p + s
  BY <1>1, Division
<1>4. /\ LastRadiated(n) = n - r /\ LastRadiated(n + 1) = (n + 1) - s
      /\ RadiationDue(n + 1) <=> s = 0
  BY <1>2, <1>3 DEF LastRadiated, RadiationDue
<1> HIDE DEF F
<1>5. s = 0 \/ s = r + 1
  <2>1. PICK k \in Int : k = p - q BY <1>2, <1>3
  <2>2. F * p - F * q = F * k BY <2>1, <1>1, <1>2, <1>3
  <2>3. F * k = r + 1 - s
    <3> DEFINE x == F * p
               y == F * q
               z == F * k
    <3>1. x \in Int /\ y \in Int /\ z \in Int BY <1>1, <1>2, <1>3
    <3> HIDE DEF x, y, z
    <3>2. n = y + r /\ n + 1 = x + s /\ x - y = z BY <1>2, <1>3, <2>2 DEF x, y, z
    <3>3. r \in Int /\ s \in Int BY <1>1
    <3>4. z = r + 1 - s BY <3>1, <3>2, <3>3
    <3> QED BY <3>4 DEF z
  <2>4. CASE k = 0
    <3>1. F * k = 0 BY <2>4, <1>1
    <3>2. r + 1 - s = 0 BY <3>1, <2>3
    <3>3. r \in Int /\ s \in Int BY <1>1
    <3> QED BY <3>2, <3>3
  <2>5. CASE k >= 1
    <3>1. F * k >= F
      <4>1. k - 1 \in Nat /\ F * (k - 1) \in Nat BY <2>5, <1>1
      <4>2. F * k = F * (k - 1) + F BY <1>1
      <4> QED BY <4>1, <4>2, <1>1
    <3> QED BY <3>1, <2>3, <1>1, <1>2, <1>3
  <2>6. CASE k =< -1
    <3>1. F * k =< -F
      <4>1. -1 - k \in Nat /\ F * (-1 - k) \in Nat BY <2>6, <1>1
      <4>2. F * k = -F - F * (-1 - k) BY <1>1
      <4> QED BY <4>1, <4>2, <1>1
    <3> QED BY <3>1, <2>3, <1>1, <1>2, <1>3
  <2> QED BY <2>4, <2>5, <2>6
<1>6. r =< n
  <2>1. F * q \in Nat BY <1>1, <1>2, <1>3
  <2> QED BY <2>1, <1>2, <1>3
<1> QED BY <1>2, <1>3, <1>4, <1>5, <1>6

\* The state of an exchange and the history that ends with it.
LEMMA RecordedNow ==
  ASSUME NEW now \in Nat, clock.now = now, committed \in States, completed \in Seq(Nat),
         Recorded(completed, committed, now)
  PROVE  LET n == Len(completed) + 1
             new == CommittedExchange(n)
         IN  /\ Recorded(Append(completed, now), new, now) /\ new \in States
             /\ n = committed.exchangeSequence + 1
             /\ ~new.initialState /\ new.completedTime = now
             /\ new.completedRadiation = IF RadiationDue(n) THEN now ELSE committed.completedRadiation
<1> DEFINE m == Len(completed)
           n == m + 1
           new == CommittedExchange(n)
           g == Append(completed, now)
<1>1. m \in Nat /\ n \in Nat BY LenProperties
<1>2. /\ committed.completedTime \in Nat /\ committed.completedRadiation \in Nat
      /\ committed.completedRadiation =< now /\ committed.exchangeSequence = m
      /\ committed.completedRadiation
           = IF LastRadiated(m) = 0 THEN 0 ELSE completed[LastRadiated(m)]
  BY DEF States, Recorded
<1>3. /\ new \in States /\ new.exchangeSequence = n /\ ~new.initialState
      /\ new.completedTime = now
      /\ new.completedRadiation = IF RadiationDue(n) THEN now ELSE committed.completedRadiation
  <2> HIDE DEF n
  <2> QED BY <1>1, <1>2 DEF CommittedExchange, States
<1>4. Len(g) = n /\ g[n] = now /\ \A i \in 1 .. m : g[i] = completed[i]
  BY AppendProperties
<1>5. /\ LastRadiated(m) \in 0 .. m
      /\ RadiationDue(n) => LastRadiated(n) = n
      /\ ~RadiationDue(n) => LastRadiated(n) = LastRadiated(m)
  BY <1>1, Modulus
<1>6. n # 0 BY <1>1
<1> HIDE DEF g, new, n
<1>7. new.completedRadiation = IF LastRadiated(n) = 0 THEN 0 ELSE g[LastRadiated(n)]
  <2>1. CASE RadiationDue(n) BY <2>1, <1>3, <1>4, <1>5, <1>6
  <2>2. CASE ~RadiationDue(n)
    <3>1. LastRadiated(m) # 0 => LastRadiated(m) \in 1 .. m BY <1>1, <1>5
    <3> QED BY <2>2, <3>1, <1>2, <1>3, <1>4, <1>5
  <2> QED BY <2>1, <2>2
<1>8. Recorded(g, new, now)
  <2>1. now =< now BY SMT
  <2>2. new.completedRadiation =< now BY <1>2, <1>3
  <2> QED BY <2>1, <2>2, <1>3, <1>4, <1>6, <1>7 DEF Recorded
<1> QED BY <1>2, <1>3, <1>8 DEF g, new, n

\* Heat received once more, by ticks that had none.
LEMMA ReceivedOnce ==
  ASSUME NEW counts \in [Ticks -> Nat], NEW A, NEW B, NEW C, Once(counts, A),
         \A t \in Ticks : ~(t \in A /\ t \in B),
         \A t \in Ticks : t \in C <=> t \in A \/ t \in B
  PROVE  Received(counts, B) \in [Ticks -> Nat] /\ Once(Received(counts, B), C)
<1>1. \A t \in Ticks : Received(counts, B)[t] = counts[t] + IF t \in B THEN 1 ELSE 0
  BY DEF Received
<1>2. Received(counts, B) \in [Ticks -> Nat] BY DEF Received
<1>3. \A t \in Ticks : counts[t] \in Nat OBVIOUS
<1> QED BY <1>1, <1>2, <1>3 DEF Once

-----------------------------------------------------------------------------
(* Directories.                                                              *)
LEMMA FileFacts ==
  ASSUME NEW v
  PROVE  /\ File(v) # Absent /\ File(v).run = run /\ File(v).time = clock.now
         /\ File(v).value = v /\ File(v).past = Lineage
         /\ Prepared(v) # Absent /\ Prepared(v).value = v /\ Prepared(v).run = 0
         /\ Prepared(v).past = [completed |-> <<>>, dropped |-> {}, sound |-> TRUE]
<1>1. DOMAIN Absent = {"absent"} BY DEF Absent
<1>2. DOMAIN File(v) = {"run", "time", "past", "value"} BY DEF File
<1>3. DOMAIN Prepared(v) = {"run", "time", "past", "value"} BY DEF Prepared
<1>4. {"absent"} # {"run", "time", "past", "value"} OBVIOUS
<1>5. /\ File(v).run = run /\ File(v).time = clock.now /\ File(v).value = v
      /\ File(v).past = Lineage
  <2> HIDE DEF Lineage
  <2> QED BY DEF File
<1>6. /\ Prepared(v).value = v /\ Prepared(v).run = 0
      /\ Prepared(v).past = [completed |-> <<>>, dropped |-> {}, sound |-> TRUE]
  BY DEF Prepared
<1> QED BY <1>1, <1>2, <1>3, <1>4, <1>5, <1>6

LEMMA Prepares ==
  /\ DOMAIN PreparedCase = Parts /\ DOMAIN EmptyDirectory = Parts
  /\ \A p \in Parts : EmptyDirectory[p] = Absent
  /\ \A p \in Parts : PreparedCase[p] # Absent => PreparedCase[p].run = 0
  /\ PreparedCase["fields"].value = FreshFields /\ PreparedCase["solid"].value = FreshSolid
  /\ PreparedCase["state"].value = InitialState
  /\ PreparedCase["state"].past = [completed |-> <<>>, dropped |-> {}, sound |-> TRUE]
  /\ PreparedCase["mirrors"] = Absent /\ PreparedCase["ledger"] = Absent
<1>1. Parts = {"fields", "solid", "state", "mirrors", "temporary", "ledger"}
  BY DEF Parts, Objects
<1>2. DOMAIN EmptyDirectory = Parts /\ \A p \in Parts : EmptyDirectory[p] = Absent
  BY DEF EmptyDirectory
<1>3. /\ PreparedCase["fields"] = Prepared(FreshFields)
      /\ PreparedCase["solid"] = Prepared(FreshSolid)
      /\ PreparedCase["state"] = Prepared(InitialState)
      /\ DOMAIN PreparedCase = Parts
      /\ \A p \in Parts \ Objects : PreparedCase[p] = Absent
  <2> HIDE DEF EmptyDirectory, Prepared, FreshFields, FreshSolid, InitialState
  <2> QED BY <1>1, <1>2 DEF PreparedCase, Objects
<1>4. \A v : /\ Prepared(v) # Absent /\ Prepared(v).value = v /\ Prepared(v).run = 0
             /\ Prepared(v).past = [completed |-> <<>>, dropped |-> {}, sound |-> TRUE]
  BY FileFacts
<1> QED BY <1>1, <1>2, <1>3, <1>4 DEF Objects

LEMMA Fresh ==
  /\ FreshSolid \in Solids /\ \A s \in Sources : FreshSolid[s] = Nothing
  /\ "radiation" \in Sources
  /\ Nothing \in [Ticks -> Nat] /\ \A t \in Ticks : Nothing[t] = 0
  /\ FreshFields = FieldsOf(0, Nothing, FreshSolid) /\ FreshFields.heated = Nothing
  /\ InitialState \in States /\ InitialState.initialState = TRUE
  /\ InitialState.exchangeSequence = 0 /\ InitialState.completedTime = 0
  /\ InitialState.completedRadiation = 0
  /\ [l \in Ledgers |-> {}] \in LedgerSets
<1>1. Nothing \in [Ticks -> Nat] /\ \A t \in Ticks : Nothing[t] = 0 BY DEF Nothing
<1>2. FreshSolid \in Solids /\ \A s \in Sources : FreshSolid[s] = Nothing
  BY <1>1 DEF FreshSolid, Solids
<1>3. "radiation" \in Sources BY DEF Sources
<1>4. FreshFields = FieldsOf(0, Nothing, FreshSolid) /\ FreshFields.heated = Nothing
  BY DEF FreshFields, FieldsOf
<1>5. /\ InitialState \in States /\ InitialState.initialState = TRUE
      /\ InitialState.exchangeSequence = 0 /\ InitialState.completedTime = 0
      /\ InitialState.completedRadiation = 0
  BY DEF InitialState, States
<1>6. [l \in Ledgers |-> {}] \in LedgerSets BY DEF LedgerSets
<1> QED BY <1>1, <1>2, <1>3, <1>4, <1>5, <1>6

LEMMA RecordedFresh ==
  ASSUME NEW t \in Nat
  PROVE  Recorded(<<>>, InitialState, t)
<1>1. Len(<<>>) = 0 OBVIOUS
<1>2. LastRadiated(0) = 0
  <2>1. LastRadiated(0) \in 0 .. 0 BY Modulus
  <2> QED BY <2>1
<1> QED BY <1>1, <1>2, Fresh DEF Recorded

LEMMA BalancedFresh ==
  ASSUME NEW t \in Nat, NEW gone, gone = 1 .. t
  PROVE  Balanced(gone, t, FreshSolid, [l \in Ledgers |-> {}], 0)
<1>1. \A l \in Ledgers : l \in Sources /\ FreshSolid[l] = Nothing /\ [k \in Ledgers |-> {}][l] = {}
  BY Fresh DEF Sources
<1>2. FreshSolid["radiation"] = Nothing BY Fresh
<1> QED BY <1>1, <1>2, Fresh, Numbers DEF Balanced, Once

LEMMA Clocks ==
  ASSUME Types
  PROVE  /\ clock.now \in Times /\ clock.now \in Nat /\ clock.writeTime \in BOOLEAN
         /\ config.writeAtCoupling \in BOOLEAN /\ config.resident \in BOOLEAN
         /\ committed.completedTime \in Nat /\ committed.completedRadiation \in Nat
         /\ committed.exchangeSequence \in Nat /\ committed.initialState \in BOOLEAN
<1>1. clock.now \in Times /\ clock.writeTime \in BOOLEAN BY DEF Types
<1>2. config.writeAtCoupling \in BOOLEAN /\ config.resident \in BOOLEAN BY DEF Types
<1>3. /\ committed.completedTime \in Nat /\ committed.completedRadiation \in Nat
      /\ committed.exchangeSequence \in Nat /\ committed.initialState \in BOOLEAN
  BY DEF Types, States
<1> QED BY <1>1, <1>2, <1>3, Numbers

\* What a process has before its first exchange and after it.
LEMMA Beginning ==
  ASSUME ThermalInv, pc \notin {"exchange", "dead"}
  PROVE  /\ clock.now - committed.completedTime < Interval
         /\ IF clock.now < Interval
            THEN committed = InitialState /\ solid = FreshSolid /\ fields.heated = Nothing
            ELSE ~committed.initialState /\ committed.completedTime >= Interval
<1>1. /\ clock.now \in Nat /\ committed.completedTime \in Nat
      /\ committed.completedTime =< clock.now
      /\ clock.now - committed.completedTime < Interval
      /\ Begun(committed, solid, fields.heated) /\ Interval \in Nat
  BY Clocks, Numbers DEF ThermalInv, Live, Recorded
<1>2. CASE clock.now < Interval
  <2>1. committed.initialState BY <1>1, <1>2 DEF Begun
  <2> QED BY <2>1, <1>1, <1>2 DEF Begun
<1>3. CASE ~(clock.now < Interval)
  <2>1. CASE committed.initialState
    <3>1. committed.completedTime = 0 BY <2>1, <1>1, Fresh DEF Begun
    <3> QED BY <3>1, <1>1, <1>3
  <2>2. CASE ~committed.initialState BY <2>2, <1>1, <1>3 DEF Begun
  <2> QED BY <2>1, <2>2
<1> QED BY <1>1, <1>2, <1>3

\* A file of the directory being written, cut short or with what belongs there.
Fitting(part, v) ==
  /\ part \in {"fields", "mirrors"} => v = fields
  /\ part = "solid" => v = solid
  /\ part = "state" => v = committed

\* It is in the directory of the clock, where a ledger marks it as overwritten.
Marked ==
  /\ Has(clock.now, "ledger") => clock.now \in overwritten'
  /\ \A d \in Times : d # clock.now => (d \in overwritten' <=> d \in overwritten)

LEMMA Marking ==
  /\ Overwrites => Marked
  /\ ThermalInv /\ pc \in {"ledger", "write", "commit"} /\ overwritten' = overwritten => Marked
BY DEF Overwrites, Marked, ThermalInv, Writing

LEMMA WritingKeeps ==
  ASSUME ThermalInv, pc \in {"persist", "ledger", "write"}, Marked,
         pc' \in {"ledger", "write", "commit", "dead"},
         NEW part \in Parts \ {"ledger"}, NEW x,
         x = Absent \/ \E v : x = File(v) /\ Fitting(part, v),
         disk' = [disk EXCEPT ![clock.now][part] = x], UNCHANGED <<clock, run>>
  PROVE  /\ DOMAIN disk' = Times /\ \A d \in Times : DOMAIN disk'[d] = Parts
         /\ disk'[clock.now][part] = x
         /\ \A p \in Parts : p # part => disk'[clock.now][p] = disk[clock.now][p]
         /\ Has(clock.now, "ledger")' => clock.now \in overwritten'
         /\ Saved' /\ Finished'
<1> DEFINE now == clock.now
<1>1. /\ now \in Times /\ DOMAIN disk = Times /\ \A d \in Times : DOMAIN disk[d] = Parts
      /\ run \in Nat
  BY Clocks DEF ThermalInv, Types
<1>2. now \in Nat BY <1>1, Numbers
<1>3. disk' = [disk EXCEPT ![now] = [disk[now] EXCEPT ![part] = x]] OBVIOUS
<1> DEFINE row == [disk[now] EXCEPT ![part] = x]
<1>4. /\ DOMAIN row = Parts /\ row[part] = x
      /\ \A p \in Parts : p # part => row[p] = disk[now][p]
  BY <1>1
<1> HIDE DEF row
<1>5. /\ DOMAIN disk' = Times /\ disk'[now] = row
      /\ \A d \in Times : d # now => disk'[d] = disk[d]
  BY <1>1, <1>3 DEF row
<1>6. row["ledger"] = disk[now]["ledger"]
  BY <1>4 DEF Parts
<1>7. Has(now, "ledger")' => now \in overwritten' BY <1>5, <1>6 DEF Has, Marked
<1>8. \A v : /\ File(v) # Absent /\ File(v).run = run /\ File(v).value = v
             /\ File(v).past = Lineage
  BY FileFacts
<1>9. Contents(row, now)
  <2>1. Contents(disk[now], now) BY <1>1 DEF ThermalInv, Saved
  <2>2. {"fields", "mirrors", "solid", "state"} \subseteq Parts BY DEF Parts, Objects
  <2>3. /\ now - committed.completedTime < Interval
        /\ IF now < Interval
           THEN committed = InitialState /\ solid = FreshSolid /\ fields.heated = Nothing
           ELSE ~committed.initialState /\ committed.completedTime >= Interval
    BY Beginning
  <2>4. \A p \in {"fields", "mirrors", "solid", "state"} :
          row[p] = disk[now][p] \/ row[p] = Absent
            \/ (Fitting(p, row[p].value) /\ row[p].past = Lineage)
    BY <2>2, <1>4, <1>8
  <2>5. row["state"] # Absent => Remembered(row["state"].value, row["state"].past, now)
    <3>1. Lineage.completed = completed /\ Lineage.dropped = dropped BY DEF Lineage
    <3>2. committed \in States /\ Recorded(completed, committed, now)
          /\ Rooted(completed, dropped, now)
      BY DEF ThermalInv, Types, Live
    <3> HIDE DEF now
    <3>3. Remembered(committed, Lineage, now) BY <3>1, <3>2, <2>3 DEF Remembered
    <3>4. CASE row["state"] = disk[now]["state"] BY <3>4, <2>1 DEF Contents
    <3>5. CASE Fitting("state", row["state"].value) /\ row["state"].past = Lineage
      BY <3>3, <3>5 DEF Fitting
    <3> QED BY <3>4, <3>5, <2>4
  <2>6. row["solid"] # Absent =>
          row["solid"].value \in Solids /\ (now < Interval => row["solid"].value = FreshSolid)
    <3>1. solid \in Solids BY DEF ThermalInv, Types
    <3>2. CASE row["solid"] = disk[now]["solid"] BY <3>2, <2>1 DEF Contents
    <3>3. CASE Fitting("solid", row["solid"].value) BY <3>1, <3>3, <2>3 DEF Fitting
    <3> QED BY <3>2, <3>3, <2>4
  <2>7. row["ledger"] # Absent => row["ledger"].value \in LedgerSets
    BY <1>6, <2>1 DEF Contents
  <2>8. ASSUME NEW p \in {"fields", "mirrors"}, row[p] # Absent
        PROVE  /\ row[p].value = FieldsOf(now, row[p].value.heated, row[p].value.wall)
               /\ now < Interval => row[p].value.heated = Nothing
    <3>1. fields = FieldsOf(now, fields.heated, solid) BY DEF ThermalInv, Types
    <3>2. fields.wall = solid BY <3>1 DEF FieldsOf
    <3>3. CASE row[p] = disk[now][p] BY <3>3, <2>1, <2>8 DEF Contents
    <3>4. CASE Fitting(p, row[p].value)
      <4>1. row[p].value = fields BY <3>4 DEF Fitting
      <4>2. row[p].value.heated = fields.heated /\ row[p].value.wall = solid BY <4>1, <3>2
      <4> QED BY <4>1, <4>2, <3>1, <2>3
    <3> QED BY <3>3, <3>4, <2>4, <2>8
  <2> HIDE DEF now
  <2> QED BY <2>5, <2>6, <2>7, <2>8 DEF Contents
<1>10. Signed(row)
  <2>1. Signed(disk[now]) BY <1>1 DEF ThermalInv, Saved
  <2>2. x # Absent => x.run \in 0 .. run BY <1>1, <1>8
  <2>3. \A p \in Parts : p = part \/ row[p] = disk[now][p] BY <1>4
  <2> QED BY <2>1, <2>2, <2>3, <1>4 DEF Signed
<1>11. Saved'
  <2>1. ASSUME NEW d \in Times, d # now
        PROVE  Contents(disk'[d], d) /\ Signed(disk[d])' /\ Claimed(d)'
    <3>1. Contents(disk[d], d) /\ Signed(disk[d]) /\ Claimed(d) BY DEF ThermalInv, Saved
    <3>2. disk'[d] = disk[d] /\ run' = run BY <2>1, <1>5
    <3>3. d \in overwritten' <=> d \in overwritten BY <2>1 DEF Marked
    <3>4. Signed(disk[d])' BY <3>1, <3>2 DEF Signed
    <3>5. Claimed(d)' BY <3>1, <3>2, <3>3 DEF Claimed, Has
    <3> QED BY <3>1, <3>2, <3>4, <3>5
  <2>2. Signed(disk[now])' BY <1>5, <1>10 DEF Signed
  <2>3. Claimed(now)' BY <1>7 DEF Claimed
  <2>4. Contents(disk'[now], now) BY <1>5, <1>9
  <2> HIDE DEF now
  <2>5. ASSUME NEW d \in Times
        PROVE  Contents(disk'[d], d) /\ Signed(disk[d])' /\ Claimed(d)'
    <3>1. CASE d = now
      <4>1. now' = now BY DEF now
      <4> QED BY <3>1, <4>1, <2>2, <2>3, <2>4
    <3> QED BY <3>1, <2>1
  <2> QED BY <2>5 DEF Saved
<1>12. Finished'
  <2>1. ASSUME NEW d \in Times \ {0}, d # now PROVE Left(d)'
    <3>1. Left(d) BY <2>1 DEF ThermalInv, Finished
    <3>2. disk'[d] = disk[d] /\ run' = run BY <2>1, <1>5
    <3> QED BY <3>1, <3>2 DEF Left, Has
  <2> QED BY <2>1 DEF Finished
<1> HIDE DEF now
<1> QED BY <1>1, <1>4, <1>5, <1>7, <1>11, <1>12 DEF now

\* Nothing of the process itself changes.
LEMMA LiveStays ==
  ASSUME ThermalInv,
         UNCHANGED <<clock, committed, ledger, fields, solid, completed, dropped, sound>>,
         pc' # "exchange",
         pc' = "dead" \/ clock.now - committed.completedTime < Interval
  PROVE  Live'
BY DEF ThermalInv, Live

LEMMA Initially == Init => ThermalInv
<1> SUFFICES ASSUME Init PROVE ThermalInv OBVIOUS
<1>1. /\ pc = "advance" /\ clock.now = 0 /\ committed = InitialState /\ solid = FreshSolid
      /\ ledger = [l \in Ledgers |-> {}] /\ completed = <<>> /\ dropped = {}
      /\ fields = FieldsOf(0, Nothing, FreshSolid) /\ fields.heated = Nothing
      /\ host.solid = FreshSolid /\ run = 0
  BY Fresh DEF Init
<1>2. /\ DOMAIN disk = Times /\ disk[0] = PreparedCase
      /\ \A d \in Times : d # 0 => disk[d] = EmptyDirectory
  <2>1. disk = [d \in Times |-> IF d = 0 THEN PreparedCase ELSE EmptyDirectory]
    BY DEF Init, Times
  <2>2. 0 \in Times BY Numbers
  <2> QED BY <2>1, <2>2
<1>3. Types
  <2>1. \A d \in Times : DOMAIN disk[d] = Parts BY <1>2, Prepares
  <2>2. clock \in [now : Times, writeTime : BOOLEAN] BY Numbers DEF Init
  <2>3. fields = FieldsOf(clock.now, fields.heated, solid) BY <1>1
  <2>4. run \in Nat BY <1>1
  <2>5. unwritten \subseteq Objects BY DEF Init
  <2>6. config \in [writeAtCoupling : BOOLEAN, resident : BOOLEAN] BY DEF Init
  <2>7. advanced \in BOOLEAN BY DEF Init
  <2> QED BY <2>1, <2>2, <2>3, <2>4, <2>5, <2>6, <2>7, <1>1, <1>2, Fresh DEF Types
<1>4. Rooted(<<>>, {}, 0)
  <2>1. {} = 1 .. 0 /\ 0 =< 0 /\ 0 \in Times /\ 0 < Interval BY Numbers
  <2>2. <<>> \in Seq(Nat) /\ Len(<<>>) = 0 BY EmptySeq
  <2>3. \A i \in 1 .. Len(<<>>) : FALSE BY <2>2
  <2>4. \E m \in Times : {} = 1 .. m /\ m =< 0 /\ m < Interval BY <2>1
  <2>5. \A i \in 1 .. Len(<<>>) : <<>>[i] >= Interval BY <2>3
  <2> QED BY <2>2, <2>4, <2>5 DEF Rooted
<1>5. Recorded(<<>>, InitialState, 0) BY RecordedFresh
<1>6. Live
  <2>1. Balanced(dropped, 0, FreshSolid, [l \in Ledgers |-> {}], 0)
    <3>1. dropped = 1 .. 0 BY <1>1
    <3> QED BY <3>1, BalancedFresh
  <2>2. Accounted(sound, dropped, clock.now, solid, ledger, committed.completedRadiation,
                  fields.heated)
    BY <2>1, <1>1, Fresh DEF Accounted
  <2>3. 0 - 0 < Interval BY Numbers
  <2> QED BY <2>2, <2>3, <1>1, <1>4, <1>5, Fresh DEF Live, Begun
<1>7. Staged
  <2>1. host.solid = solid BY <1>1
  <2> QED BY <2>1, <1>1 DEF Staged
<1>8. Writing BY <1>1 DEF Writing
<1>9. Finished
  <2>1. ASSUME NEW d \in Times \ {0}, NEW part \in Parts PROVE ~Has(d, part)
    BY <1>2, Prepares DEF Has
  <2> QED BY <2>1 DEF Finished, Left
<1>10. ASSUME NEW d \in Times PROVE Contents(disk[d], d) /\ Signed(disk[d]) /\ Claimed(d)
  <2>1. {"fields", "mirrors", "solid", "state", "ledger"} \subseteq Parts BY DEF Parts, Objects
  <2>2. CASE d # 0
    <3>1. \A p \in Parts : disk[d][p] = Absent BY <2>2, <1>2, Prepares
    <3>2. \A p \in {"fields", "mirrors", "solid", "state", "ledger"} : disk[d][p] = Absent
      BY <2>1, <3>1
    <3>3. Contents(disk[d], d) BY <3>2 DEF Contents
    <3>4. Signed(disk[d]) BY <3>1 DEF Signed
    <3>5. Claimed(d) BY <3>2 DEF Claimed, Has
    <3> QED BY <3>3, <3>4, <3>5
  <2>3. CASE d = 0
    <3>1. 0 < Interval /\ disk[0] = PreparedCase /\ 0 - 0 < Interval BY <1>2, Numbers
    <3>2. Signed(disk[0]) BY <3>1, <1>1, Prepares DEF Signed
    <3>3. Claimed(0) BY <3>1, Prepares DEF Claimed, Has
    <3>4. Remembered(InitialState, [completed |-> <<>>, dropped |-> {}, sound |-> TRUE], 0)
      BY <3>1, <1>4, <1>5, Fresh DEF Remembered
    <3>5. /\ PreparedCase["fields"].value
               = FieldsOf(0, FreshFields.heated, FreshFields.wall)
          /\ FreshFields.heated = Nothing
      BY Prepares, Fresh DEF FreshFields, FieldsOf
    <3>6. Contents(PreparedCase, 0)
      BY <3>1, <3>4, <3>5, Prepares, Fresh DEF Contents
    <3> QED BY <2>3, <3>1, <3>2, <3>3, <3>6
  <2> QED BY <2>2, <2>3
<1>11. Saved BY <1>10 DEF Saved
<1> QED BY <1>3, <1>6, <1>7, <1>8, <1>9, <1>11 DEF ThermalInv

-----------------------------------------------------------------------------
(* The time loop.                                                            *)

\* The directories are as they were, and the process has begun no other.
LEMMA DiskStays ==
  ASSUME ThermalInv, UNCHANGED <<disk, overwritten, run>>,
         pc' = "dead" \/ (pc # "dead" /\ pc \notin {"ledger", "write", "commit"})
  PROVE  Saved' /\ Finished'
<1>1. Saved' BY DEF ThermalInv, Saved, Signed, Claimed, Has
<1>2. Finished'
  <2>1. ASSUME pc' # "dead", NEW d \in Times \ {0} PROVE Left(d)'
    <3>1. Left(d) BY <2>1 DEF ThermalInv, Finished
    <3> QED BY <3>1 DEF Left, Has
  <2> QED BY <2>1 DEF Finished
<1> QED BY <1>1, <1>2

LEMMA AdvanceKeeps == ThermalInv /\ AdvanceOneStep => ThermalInv'
<1> SUFFICES ASSUME ThermalInv, AdvanceOneStep PROVE ThermalInv' OBVIOUS
<1>1. PICK dt \in Durations :
        LET now == clock.now + dt IN
        /\ now =< EndTime
        /\ clock' = [now |-> now,
                     writeTime |-> ~config.writeAtCoupling
                       /\ now \div WriteInterval > clock.now \div WriteInterval]
        /\ ledger' = [l \in Ledgers |-> ledger[l] \union (clock.now + 1 .. now)]
        /\ fields' = [fields EXCEPT !.time = now]
  BY DEF AdvanceOneStep
<1>2. /\ pc = "advance" /\ pc' = "exchange"
      /\ UNCHANGED <<committed, solid, advanced, host, unwritten, disk, completed,
                     overwritten, case>>
  BY DEF AdvanceOneStep
<1>3. UNCHANGED <<config, run, dropped, sound>> BY <1>2 DEF case
<1> DEFINE old == clock.now
           now == old + dt
<1>4. /\ old \in Nat /\ now \in Nat /\ old < now /\ now =< EndTime /\ now \in Times
      /\ EndTime \in Nat
  <2>1. old \in Nat BY Clocks DEF ThermalInv
  <2>2. dt \in Nat \ {0} BY ExchangeAssumption
  <2> QED BY <2>1, <2>2, <1>1, Numbers DEF Times
<1>5. clock' \in [now : Times, writeTime : BOOLEAN] /\ clock'.now = now
  <2> DEFINE atWrite == ~config.writeAtCoupling /\ now \div WriteInterval > old \div WriteInterval
  <2>1. clock' = [now |-> now, writeTime |-> atWrite] BY <1>1
  <2>2. atWrite \in BOOLEAN OBVIOUS
  <2> HIDE DEF atWrite, now
  <2> QED BY <2>1, <2>2, <1>4
<1>6. ledger' = [l \in Ledgers |-> ledger[l] \union (old + 1 .. now)] BY <1>1
<1>7. fields' = [fields EXCEPT !.time = now] BY <1>1
<1> HIDE DEF now
<1>8. ledger' \in LedgerSets
  <2>1. old + 1 .. now \subseteq Ticks BY <1>4, Numbers
  <2> QED BY <2>1, <1>6 DEF ThermalInv, Types, LedgerSets
<1>9. fields' = FieldsOf(now, fields.heated, solid) /\ fields'.heated = fields.heated
  <2>1. fields = [time |-> old, heated |-> fields.heated, wall |-> solid]
    BY DEF ThermalInv, Types, FieldsOf
  <2>2. fields' = [time |-> now, heated |-> fields.heated, wall |-> solid]
    <3> DEFINE heat == fields.heated
    <3>1. fields = [time |-> old, heated |-> heat, wall |-> solid] BY <2>1
    <3> HIDE DEF heat
    <3>2. fields' = [time |-> now, heated |-> heat, wall |-> solid] BY <3>1, <1>7
    <3> QED BY <3>2 DEF heat
  <2> QED BY <2>2 DEF FieldsOf
<1>10. Types' BY <1>2, <1>3, <1>5, <1>8, <1>9 DEF ThermalInv, Types, Stepping
<1>11. PICK m \in Times : dropped = 1 .. m /\ m =< old /\ m < Interval
  BY DEF ThermalInv, Live, Rooted
<1>12. m \in Nat /\ m =< old /\ dropped = 1 .. m BY <1>11, Numbers
<1>13. ASSUME Balanced(dropped, old, solid, ledger, committed.completedRadiation)
       PROVE  Balanced(dropped, now, solid, ledger', committed.completedRadiation)
  <2>1. ASSUME NEW l \in Ledgers
        PROVE  /\ ledger'[l] \subseteq (1 .. now) \ dropped
               /\ Once(solid[l], (1 .. now) \ (ledger'[l] \union dropped))
    <3>1. /\ ledger[l] \subseteq (1 .. old) \ dropped
          /\ Once(solid[l], (1 .. old) \ (ledger[l] \union dropped))
      BY <1>13 DEF Balanced
    <3>2. ledger'[l] = ledger[l] \union (old + 1 .. now) BY <1>6
    <3>3. (1 .. now) \ (ledger'[l] \union dropped) = (1 .. old) \ (ledger[l] \union dropped)
      BY <3>1, <3>2, <1>4, <1>12
    <3>4. ledger'[l] \subseteq (1 .. now) \ dropped BY <3>1, <3>2, <1>4, <1>12
    <3> QED BY <3>1, <3>3, <3>4
  <2>2. Once(solid["radiation"], 1 .. committed.completedRadiation) BY <1>13 DEF Balanced
  <2> QED BY <2>1, <2>2 DEF Balanced
<1>14. Live'
  <2>1. Accounted(sound, dropped, now, solid, ledger', committed.completedRadiation,
                  fields'.heated)
    BY <1>9, <1>13 DEF ThermalInv, Live, Accounted
  <2>2. /\ Recorded(completed, committed, old) /\ committed.completedTime \in Nat
        /\ committed.completedRadiation \in Nat
    BY Clocks DEF ThermalInv, Live
  <2>3. Recorded(completed, committed, now) /\ committed.completedTime < now
    <3>1. /\ committed.completedTime =< now /\ committed.completedTime < now
          /\ committed.completedRadiation =< now
      BY <2>2, <1>4 DEF Recorded
    <3> QED BY <3>1, <2>2 DEF Recorded
  <2>4. Rooted(completed, dropped, now)
    <3>1. m =< now BY <1>4, <1>12
    <3> QED BY <3>1, <1>11 DEF ThermalInv, Live, Rooted
  <2>5. Begun(committed, solid, fields'.heated) BY <1>9 DEF ThermalInv, Live
  <2> QED BY <2>1, <2>3, <2>4, <2>5, <1>2, <1>3, <1>5 DEF Live
<1>15. Staged' BY <1>2, <1>3 DEF ThermalInv, Staged
<1>16. Writing' BY <1>2 DEF Writing
<1>17. Saved' /\ Finished' BY <1>2, <1>3, DiskStays
<1> QED BY <1>10, <1>14, <1>15, <1>16, <1>17 DEF ThermalInv

LEMMA NotDueKeeps == ThermalInv /\ NotDue => ThermalInv'
<1> SUFFICES ASSUME ThermalInv, NotDue PROVE ThermalInv' OBVIOUS
<1>1. /\ pc = "exchange" /\ pc' \in {"persist", "advance"}
      /\ UNCHANGED <<clock, committed, ledger, fields, solid, advanced, host, unwritten,
                     disk, completed, overwritten, config, run, dropped, sound>>
      /\ ~(clock.now - committed.completedTime >= Interval)
  BY DEF NotDue, case, ThermalEventIsDue
<1>2. clock.now \in Nat /\ committed.completedTime \in Nat /\ Interval \in Nat
  BY Clocks, Numbers DEF ThermalInv
<1>3. committed.completedTime < clock.now BY <1>1 DEF ThermalInv, Live
<1>4. Types' BY <1>1 DEF ThermalInv, Types, Stepping
<1>5. Live'
  <2>1. clock.now - committed.completedTime < Interval BY <1>1, <1>2
  <2> QED BY <2>1, <1>1, LiveStays
<1>6. Staged' BY <1>1, <1>2, <1>3 DEF ThermalInv, Staged
<1>7. Writing' BY <1>1 DEF Writing
<1>8. Saved' /\ Finished' BY <1>1, DiskStays
<1> QED BY <1>4, <1>5, <1>6, <1>7, <1>8 DEF ThermalInv

LEMMA ExchangeKeeps == ThermalInv /\ Exchange => ThermalInv'
<1> SUFFICES ASSUME ThermalInv, Exchange PROVE ThermalInv' OBVIOUS
<1> DEFINE now == clock.now
           n == committed.exchangeSequence + 1
           radiated == Radiated(n)
           newSolid == SolidCandidate(radiated)
           newFields == [fields EXCEPT !.heated = Received(@, radiated), !.wall = newSolid]
<1>1. /\ pc = "exchange" /\ ThermalEventIsDue(now - committed.completedTime)
      /\ solid' = newSolid /\ fields' = newFields /\ ledger' = ResetLedgers
      /\ advanced' = config.resident
      /\ host' = [fields |-> IF clock.writeTime THEN newFields ELSE host.fields,
                  solid |-> IF ~config.resident \/ clock.writeTime
                              THEN newSolid ELSE host.solid]
      /\ committed' = CommittedExchange(n)
      /\ completed' = Append(completed, now)
      /\ pc' = IF clock.writeTime \/ config.writeAtCoupling THEN "persist" ELSE "advance"
      /\ UNCHANGED <<clock, unwritten, disk, overwritten, config, run, dropped, sound>>
  BY DEF Exchange, case
<1>2. /\ now \in Times /\ now \in Nat /\ EndTime \in Nat /\ Interval \in Nat \ {0}
      /\ clock.writeTime \in BOOLEAN /\ config.writeAtCoupling \in BOOLEAN
      /\ config.resident \in BOOLEAN /\ committed.completedTime \in Nat
      /\ committed.completedRadiation \in Nat /\ committed.exchangeSequence \in Nat
  BY Clocks, Numbers DEF ThermalInv
<1>3. /\ committed \in States /\ completed \in Seq(Nat) /\ solid \in Solids
      /\ ledger \in LedgerSets /\ fields = FieldsOf(now, fields.heated, solid)
      /\ Recorded(completed, committed, now) /\ committed.exchangeSequence = Len(completed)
      /\ \A i \in 1 .. Len(completed) : completed[i] >= Interval
      /\ Len(completed) \in Nat
  BY LenProperties DEF ThermalInv, Types, Live, Rooted, Recorded
<1>4. /\ Recorded(completed', committed', now) /\ committed' \in States
      /\ ~committed'.initialState /\ committed'.completedTime = now
      /\ committed'.completedRadiation = IF RadiationDue(n) THEN now ELSE committed.completedRadiation
  <2>1. n = Len(completed) + 1 BY <1>3
  <2> QED BY <2>1, <1>1, <1>2, <1>3, RecordedNow
<1>5. now - committed.completedTime >= Interval BY <1>1 DEF ThermalEventIsDue
<1>6. /\ completed' \in Seq(Nat) /\ Len(completed') = Len(completed) + 1
      /\ completed'[Len(completed) + 1] = now
      /\ \A i \in 1 .. Len(completed) : completed'[i] = completed[i]
  BY <1>1, <1>2, <1>3, AppendProperties
\* The heat.
<1>7. radiated = IF RadiationDue(n) THEN committed.completedRadiation + 1 .. now ELSE {}
  BY DEF Radiated
<1>8. committed.completedRadiation =< now BY <1>3 DEF Recorded
<1>9. \A l \in Ledgers : l \in Sources /\ ledger[l] \subseteq Ticks /\ l # "radiation"
  BY <1>3 DEF Sources, Ledgers, LedgerSets
<1>10. Ticks \subseteq Nat /\ Ticks = 1 .. EndTime BY Numbers
<1>11. /\ \A s \in Sources : solid[s] \in [Ticks -> Nat]
       /\ \A l \in Ledgers : newSolid[l] = Received(solid[l], ledger[l])
       /\ newSolid["radiation"] = Received(solid["radiation"], radiated)
       /\ newSolid = [s \in Sources |->
                        Received(solid[s], IF s \in Ledgers THEN ledger[s] ELSE radiated)]
  BY <1>3, <1>9 DEF SolidCandidate, Solids, Sources, Ledgers
<1> HIDE DEF newSolid, radiated
<1>12. ASSUME NEW l \in Ledgers, sound
       PROVE  Once(newSolid[l], (1 .. now) \ ({} \union dropped))
  <2>1. /\ ledger[l] \subseteq (1 .. now) \ dropped
        /\ Once(solid[l], (1 .. now) \ (ledger[l] \union dropped))
    BY <1>12 DEF ThermalInv, Live, Accounted, Balanced
  <2> DEFINE A == (1 .. now) \ (ledger[l] \union dropped)
             B == ledger[l]
             C == (1 .. now) \ ({} \union dropped)
  <2>2. \A t \in Ticks : ~(t \in A /\ t \in B) OBVIOUS
  <2>3. \A t \in Ticks : t \in C <=> t \in A \/ t \in B BY <2>1
  <2>4. solid[l] \in [Ticks -> Nat] /\ Once(solid[l], A) /\ newSolid[l] = Received(solid[l], B)
    BY <2>1, <1>9, <1>11
  <2> HIDE DEF A, B, C
  <2>5. newSolid[l] \in [Ticks -> Nat] /\ Once(newSolid[l], C)
    BY <2>2, <2>3, <2>4, ReceivedOnce
  <2> QED BY <2>5 DEF C
<1>13. ASSUME sound
       PROVE  Once(newSolid["radiation"], 1 .. committed'.completedRadiation)
  <2>1. Once(solid["radiation"], 1 .. committed.completedRadiation) BY <1>13 DEF ThermalInv, Live, Accounted, Balanced
  <2>2. "radiation" \in Sources BY DEF Sources
  <2> DEFINE A == 1 .. committed.completedRadiation
             C == 1 .. committed'.completedRadiation
  <2>3. CASE RadiationDue(n)
    <3>1. \A t \in Ticks : ~(t \in 1 .. committed.completedRadiation /\ t \in radiated)
      BY <2>3, <1>2, <1>7, <1>10
    <3>2. \A t \in Ticks : t \in 1 .. now <=> t \in 1 .. committed.completedRadiation \/ t \in radiated
      BY <2>3, <1>2, <1>7, <1>8, <1>10
    <3>3. C = 1 .. now BY <2>3, <1>4
    <3>4. /\ \A t \in Ticks : ~(t \in A /\ t \in radiated)
          /\ \A t \in Ticks : t \in C <=> t \in A \/ t \in radiated
      BY <3>1, <3>2, <3>3
    <3>5. /\ solid["radiation"] \in [Ticks -> Nat] /\ Once(solid["radiation"], A)
          /\ newSolid["radiation"] = Received(solid["radiation"], radiated)
      BY <2>1, <2>2, <1>11
    <3> HIDE DEF A, C
    <3>6. newSolid["radiation"] \in [Ticks -> Nat] /\ Once(newSolid["radiation"], C)
      BY <3>4, <3>5, ReceivedOnce
    <3> QED BY <3>6 DEF C
  <2>4. CASE ~RadiationDue(n)
    <3>1. radiated = {} BY <2>4, <1>7
    <3>2. C = A BY <2>4, <1>4
    <3>3. /\ \A t \in Ticks : ~(t \in A /\ t \in radiated)
          /\ \A t \in Ticks : t \in C <=> t \in A \/ t \in radiated
      BY <3>1, <3>2
    <3>4. /\ solid["radiation"] \in [Ticks -> Nat] /\ Once(solid["radiation"], A)
          /\ newSolid["radiation"] = Received(solid["radiation"], radiated)
      BY <2>1, <2>2, <1>11
    <3> HIDE DEF A, C
    <3>5. newSolid["radiation"] \in [Ticks -> Nat] /\ Once(newSolid["radiation"], C)
      BY <3>3, <3>4, ReceivedOnce
    <3> QED BY <3>5 DEF C
  <2> QED BY <2>3, <2>4
<1>14. newSolid \in Solids
  <2>1. \A s \in Sources : newSolid[s] \in [Ticks -> Nat]
    <3>1. \A counts \in [Ticks -> Nat] : \A ticks : Received(counts, ticks) \in [Ticks -> Nat]
      BY DEF Received
    <3>2. \A s \in Sources :
            newSolid[s] = Received(solid[s], IF s \in Ledgers THEN ledger[s] ELSE radiated)
      BY <1>11
    <3> QED BY <3>1, <3>2, <1>11
  <2>2. DOMAIN newSolid = Sources /\ newSolid = [s \in Sources |-> newSolid[s]] BY <1>11
  <2> QED BY <2>1, <2>2 DEF Solids
<1>15. ledger' \in LedgerSets /\ \A l \in Ledgers : ledger'[l] = {}
  BY <1>1 DEF ResetLedgers, LedgerSets
<1>16. /\ newFields = FieldsOf(now, newFields.heated, newSolid)
       /\ newFields.heated = Received(fields.heated, radiated)
  <2> DEFINE old == fields.heated
             heat == Received(old, radiated)
  <2>1. fields = [time |-> now, heated |-> old, wall |-> solid] BY <1>3 DEF FieldsOf
  <2>2. newFields = [fields EXCEPT !.heated = heat, !.wall = newSolid] OBVIOUS
  <2> HIDE DEF heat, old, newFields
  <2>3. newFields = [time |-> now, heated |-> heat, wall |-> newSolid] BY <2>1, <2>2
  <2>4. newFields.heated = heat BY <2>3
  <2> QED BY <2>3, <2>4 DEF FieldsOf, heat, old
<1>17. pc' \in {"persist", "advance"} BY <1>1
<1>18. Types' BY <1>1, <1>2, <1>3, <1>4, <1>6, <1>14, <1>15, <1>16, <1>17 DEF ThermalInv, Types, Stepping
<1>19. Live'
  <2>1. ASSUME sound
        PROVE  /\ Balanced(dropped, now, newSolid, ledger', committed'.completedRadiation)
               /\ newFields.heated = newSolid["radiation"]
    <3>1. \A l \in Ledgers : /\ ledger'[l] = {} /\ {} \subseteq (1 .. now) \ dropped
                             /\ Once(newSolid[l], (1 .. now) \ ({} \union dropped))
      BY <2>1, <1>12, <1>15
    <3>2. fields.heated = solid["radiation"] BY <2>1 DEF ThermalInv, Live, Accounted
    <3> QED BY <2>1, <3>1, <3>2, <1>11, <1>13, <1>16 DEF Balanced
  <2>2. now >= Interval BY <1>2, <1>5
  <2>3. \A i \in 1 .. Len(completed') : completed'[i] >= Interval
    <3>1. \A i \in 1 .. Len(completed) + 1 : i \in 1 .. Len(completed) \/ i = Len(completed) + 1
      BY <1>3
    <3> QED BY <3>1, <2>2, <1>3, <1>6
  <2>4. Begun(committed', newSolid, newFields.heated) BY <2>2, <1>4 DEF Begun
  <2>5. now - committed'.completedTime < Interval BY <1>2, <1>4
  <2>6. Rooted(completed', dropped, now) BY <2>3, <1>6 DEF ThermalInv, Live, Rooted
  <2>7. Accounted(sound, dropped, now, newSolid, ledger', committed'.completedRadiation,
                  newFields.heated)
    BY <2>1 DEF Accounted
  <2> QED BY <2>4, <2>5, <2>6, <2>7, <1>1, <1>4, <1>17 DEF Live
<1>20. Staged'
  <2>1. ~advanced' => host'.solid = newSolid BY <1>1, <1>2
  <2>2. pc' = "persist" /\ ~config.writeAtCoupling => host'.fields = newFields BY <1>1, <1>2
  <2> QED BY <2>1, <2>2, <1>1, <1>17 DEF Staged
<1>21. Writing' BY <1>17 DEF Writing
<1>22. Saved' /\ Finished' BY <1>1, DiskStays
<1> QED BY <1>18, <1>19, <1>20, <1>21, <1>22 DEF ThermalInv

-----------------------------------------------------------------------------
(* A write.                                                                  *)
LEMMA StageMirrorsKeeps == ThermalInv /\ StageMirrors => ThermalInv'
<1> SUFFICES ASSUME ThermalInv, StageMirrors PROVE ThermalInv' OBVIOUS
<1>1. /\ pc = "persist" /\ pc' = "ledger" /\ Overwrites
      /\ host' = [fields |-> Downloaded, solid |-> Published]
      /\ disk' = [disk EXCEPT ![clock.now]["mirrors"] = File(fields)]
      /\ UNCHANGED <<clock, committed, ledger, fields, solid, advanced, unwritten,
                     completed, config, run, dropped, sound>>
  BY DEF StageMirrors, case
<1>2. "mirrors" \in Parts \ {"ledger"} BY DEF Parts
<1>3. Fitting("mirrors", fields) BY DEF Fitting
<1> DEFINE x == File(fields)
<1>4. x = Absent \/ \E v : x = File(v) /\ Fitting("mirrors", v) BY <1>3
<1>5. disk' = [disk EXCEPT ![clock.now]["mirrors"] = x] BY <1>1
<1> HIDE DEF x
<1>6. /\ DOMAIN disk' = Times /\ \A d \in Times : DOMAIN disk'[d] = Parts
      /\ disk'[clock.now]["mirrors"] = x /\ Saved' /\ Finished'
      /\ Has(clock.now, "ledger")' => clock.now \in overwritten'
  <2>1. Marked BY <1>1, Marking
  <2> QED BY <2>1, <1>1, <1>2, <1>4, <1>5, WritingKeeps
<1>7. File(fields)' = x BY <1>1 DEF File, Lineage, x
<1>8. Types' BY <1>1, <1>6 DEF ThermalInv, Types, Stepping
<1>9. Live'
  <2>1. clock.now - committed.completedTime < Interval BY <1>1 DEF ThermalInv, Live
  <2> QED BY <2>1, <1>1, LiveStays
<1>10. Staged'
  <2>1. Downloaded = fields BY <1>1 DEF ThermalInv, Staged, Downloaded
  <2>2. Published = solid BY DEF ThermalInv, Staged, Published
  <2> QED BY <2>1, <2>2, <1>1 DEF Staged
<1>11. Writing' BY <1>1, <1>6, <1>7 DEF Writing
<1> QED BY <1>6, <1>8, <1>9, <1>10, <1>11 DEF ThermalInv

LEMMA WriteTemporaryKeeps == ThermalInv /\ WriteTemporary => ThermalInv'
<1> SUFFICES ASSUME ThermalInv, WriteTemporary PROVE ThermalInv' OBVIOUS
<1>1. /\ pc = "ledger" /\ pc' = "write"
      /\ disk' = [disk EXCEPT ![clock.now]["temporary"] = File(ledger)]
      /\ host' = [host EXCEPT !.fields.wall = host.solid]
      /\ unwritten' = Objects
      /\ UNCHANGED <<clock, committed, ledger, fields, solid, advanced, completed,
                     overwritten, config, run, dropped, sound>>
  BY DEF WriteTemporary, case
<1>2. "temporary" \in Parts \ {"ledger"} /\ "mirrors" \in Parts /\ "mirrors" # "temporary"
  BY DEF Parts
<1>3. Fitting("temporary", ledger) BY DEF Fitting
<1> DEFINE x == File(ledger)
<1>4. x = Absent \/ \E v : x = File(v) /\ Fitting("temporary", v) BY <1>3
<1>5. disk' = [disk EXCEPT ![clock.now]["temporary"] = x] BY <1>1
<1> HIDE DEF x
<1>6. /\ DOMAIN disk' = Times /\ \A d \in Times : DOMAIN disk'[d] = Parts
      /\ disk'[clock.now]["temporary"] = x /\ Saved' /\ Finished'
      /\ disk'[clock.now]["mirrors"] = disk[clock.now]["mirrors"]
      /\ Has(clock.now, "ledger")' => clock.now \in overwritten'
  <2>1. Marked BY <1>1, Marking
  <2> QED BY <2>1, <1>1, <1>2, <1>4, <1>5, WritingKeeps
<1>7. File(ledger)' = x /\ File(fields)' = File(fields) BY <1>1 DEF File, Lineage, x
<1>8. Types' BY <1>1, <1>6 DEF ThermalInv, Types, Stepping
<1>9. Live'
  <2>1. clock.now - committed.completedTime < Interval BY <1>1 DEF ThermalInv, Live
  <2> QED BY <2>1, <1>1, LiveStays
<1>10. Staged'
  <2>1. host = [fields |-> fields, solid |-> solid] BY <1>1 DEF ThermalInv, Staged
  <2> DEFINE heat == fields.heated
  <2>2. fields = [time |-> clock.now, heated |-> heat, wall |-> solid]
    BY DEF ThermalInv, Types, FieldsOf
  <2> HIDE DEF heat
  <2>3. host' = [fields |-> fields, solid |-> solid]
    <3>1. [fields EXCEPT !.wall = solid] = fields BY <2>2
    <3>2. host' = [fields |-> [fields EXCEPT !.wall = solid], solid |-> solid]
      BY <2>1, <1>1
    <3> QED BY <3>1, <3>2
  <2> QED BY <2>3, <1>1 DEF Staged
<1>11. Writing'
  <2>1. disk[clock.now]["mirrors"] = File(fields) BY <1>1 DEF ThermalInv, Writing
  <2> QED BY <2>1, <1>1, <1>6, <1>7 DEF Writing
<1> QED BY <1>6, <1>8, <1>9, <1>10, <1>11 DEF ThermalInv

LEMMA WriteObjectKeeps == ThermalInv /\ (\E part \in Objects : WriteObject(part)) => ThermalInv'
<1> SUFFICES ASSUME ThermalInv, NEW part \in Objects, WriteObject(part) PROVE ThermalInv' OBVIOUS
<1>1. host = [fields |-> fields, solid |-> solid] BY DEF WriteObject, ThermalInv, Staged
<1>2. /\ pc = "write" /\ part \in unwritten
      /\ disk' = [disk EXCEPT ![clock.now][part] = File(Content(part))]
      /\ unwritten' = unwritten \ {part}
      /\ pc' = IF unwritten' = {} THEN "commit" ELSE "write"
      /\ UNCHANGED <<clock, committed, ledger, fields, solid, advanced, host, completed,
                     overwritten, config, run, dropped, sound>>
  BY <1>1 DEF WriteObject, case, Content
<1>3. /\ part \in Parts \ {"ledger"} /\ Objects \subseteq Parts
      /\ "mirrors" \in Parts /\ "mirrors" # part /\ "temporary" \in Parts /\ "temporary" # part
  BY DEF Parts, Objects
<1>4. Fitting(part, Content(part))
  BY DEF Fitting, Content, Objects
<1> DEFINE x == File(Content(part))
<1>5. x = Absent \/ \E v : x = File(v) /\ Fitting(part, v) BY <1>4
<1>6. disk' = [disk EXCEPT ![clock.now][part] = x] BY <1>2
<1> HIDE DEF x
<1>7. pc' \in {"write", "commit"} /\ (pc' = "commit" => unwritten' = {}) BY <1>2
<1>8. /\ DOMAIN disk' = Times /\ \A d \in Times : DOMAIN disk'[d] = Parts
      /\ disk'[clock.now][part] = x /\ Saved' /\ Finished'
      /\ \A p \in Parts : p # part => disk'[clock.now][p] = disk[clock.now][p]
      /\ Has(clock.now, "ledger")' => clock.now \in overwritten'
  <2>1. Marked BY <1>2, Marking
  <2> QED BY <2>1, <1>2, <1>3, <1>5, <1>6, <1>7, WritingKeeps
<1>9. Types' BY <1>2, <1>7, <1>8 DEF ThermalInv, Types, Stepping
<1>10. Live'
  <2>1. clock.now - committed.completedTime < Interval BY <1>2 DEF ThermalInv, Live
  <2> QED BY <2>1, <1>2, <1>7, LiveStays
<1>11. Staged' BY <1>1, <1>2, <1>7 DEF ThermalInv, Staged
<1>12. Writing'
  <2>1. /\ File(fields)' = File(fields) /\ File(ledger)' = File(ledger)
        /\ \A p \in Objects : File(Content(p))' = File(Content(p))
    BY <1>2 DEF File, Lineage, Content
  <2>2. /\ disk[clock.now]["mirrors"] = File(fields)
        /\ disk[clock.now]["temporary"] = File(ledger)
        /\ \A p \in Objects \ unwritten : disk[clock.now][p] = File(Content(p))
    BY <1>2 DEF ThermalInv, Writing
  <2>3. /\ disk'[clock.now]["mirrors"] = File(fields)
        /\ disk'[clock.now]["temporary"] = File(ledger)
    BY <2>2, <1>3, <1>8
  <2>4. ASSUME NEW p \in Objects \ unwritten' PROVE disk'[clock.now][p] = File(Content(p))
    <3>1. CASE p = part BY <3>1, <1>8 DEF x
    <3>2. CASE p # part
      <4>1. p \in Objects \ unwritten /\ p \in Parts BY <3>2, <1>2, <1>3
      <4> QED BY <4>1, <3>2, <2>2, <1>8
    <3> QED BY <3>1, <3>2
  <2>5. clock' = clock BY <1>2
  <2> QED BY <2>1, <2>3, <2>4, <2>5, <1>7, <1>8 DEF Writing
<1> QED BY <1>8, <1>9, <1>10, <1>11, <1>12 DEF ThermalInv

LEMMA CommitManifestKeeps == ThermalInv /\ CommitManifest => ThermalInv'
<1> SUFFICES ASSUME ThermalInv, CommitManifest PROVE ThermalInv' OBVIOUS
<1> DEFINE now == clock.now
<1>1. /\ pc = "commit" /\ pc' \in {"dead", "advance"}
      /\ UNCHANGED <<clock, committed, ledger, fields, solid, advanced, host, unwritten,
                     completed, overwritten, config, run, dropped, sound>>
  BY DEF CommitManifest, case
<1>2. Live'
  <2>1. clock.now - committed.completedTime < Interval BY <1>1 DEF ThermalInv, Live
  <2> QED BY <2>1, <1>1, LiveStays
<1>3. Staged' /\ Writing' BY <1>1 DEF ThermalInv, Staged, Writing
\* Where another process has committed, this one ends.
<1>4. CASE Has(now, "ledger")
  <2>1. pc' = "dead" /\ disk' = disk BY <1>4 DEF CommitManifest
  <2>2. Saved' /\ Finished' BY <2>1, <1>1, DiskStays
  <2>3. Types' BY <2>1, <1>1 DEF ThermalInv, Types
  <2> QED BY <2>2, <2>3, <1>2, <1>3 DEF ThermalInv
<1>5. CASE ~Has(now, "ledger")
  <2>1. /\ pc' = "advance"
        /\ disk' = [disk EXCEPT ![now]["ledger"] = disk[now]["temporary"],
                                ![now]["temporary"] = Absent]
    BY <1>5 DEF CommitManifest, NameLedger
  <2>2. /\ now \in Times /\ DOMAIN disk = Times /\ \A d \in Times : DOMAIN disk[d] = Parts
        /\ run \in Nat
    BY Clocks DEF ThermalInv, Types
  <2> DEFINE row == [disk[now] EXCEPT !["ledger"] = disk[now]["temporary"],
                                      !["temporary"] = Absent]
  <2>3. "ledger" \in Parts /\ "temporary" \in Parts
        /\ Parts \ {"temporary"} = Objects \union {"mirrors", "ledger"}
        /\ Objects = {"fields", "solid", "state"}
    BY DEF Parts, Objects
  <2>4. /\ DOMAIN row = Parts /\ row["ledger"] = disk[now]["temporary"]
        /\ row["temporary"] = Absent
        /\ \A p \in Objects \union {"mirrors"} : row[p] = disk[now][p]
    <3>1. \A p \in Objects \union {"mirrors"} : p \in Parts /\ p # "ledger" /\ p # "temporary"
      BY DEF Parts, Objects
    <3> QED BY <3>1, <2>2, <2>3
  <2>5. disk' = [disk EXCEPT ![now] = row] BY <2>1, <2>2
  <2> HIDE DEF row
  <2>6. /\ DOMAIN disk' = Times /\ disk'[now] = row
        /\ \A d \in Times : d # now => disk'[d] = disk[d]
    BY <2>2, <2>5
  <2>7. /\ \A p \in Objects : row[p] = File(Content(p))
        /\ row["mirrors"] = File(fields) /\ row["ledger"] = File(ledger)
    BY <1>1, <2>4 DEF ThermalInv, Writing
  <2>8. \A v : /\ File(v) # Absent /\ File(v).run = run /\ File(v).time = now
               /\ File(v).value = v /\ File(v).past = Lineage
    BY FileFacts
  <2>9. /\ row["solid"].value = solid /\ row["state"].value = committed
        /\ row["fields"].value = fields /\ row["mirrors"].value = fields
        /\ row["ledger"].value = ledger
    <3>1. /\ row["solid"] = File(solid) /\ row["state"] = File(committed)
          /\ row["fields"] = File(fields)
      BY <2>7 DEF Content, Objects
    <3> QED BY <3>1, <2>7, <2>8
  <2>10. \A part \in Parts \ {"temporary"} :
           /\ row[part] # Absent /\ row[part].run = run
           /\ row[part].time = now /\ row[part].past = Lineage
    <3>1. \A part \in Parts \ {"temporary"} : \E v : row[part] = File(v) BY <2>3, <2>7
    <3> QED BY <3>1, <2>8
  <2>11. Types' BY <1>1, <2>1, <2>2, <2>4, <2>6 DEF ThermalInv, Types
  <2>12. Whole(row, now)
    <3>1. Lineage.sound = sound /\ Lineage.dropped = dropped BY DEF Lineage
    <3>2. fields.wall = solid BY DEF ThermalInv, Types, FieldsOf
    <3>3. Accounted(sound, dropped, now, solid, ledger, committed.completedRadiation,
                    fields.heated)
      BY DEF ThermalInv, Live
    <3>4. row["ledger"].past = Lineage /\ row["ledger"].run = run BY <2>3, <2>10
    <3> HIDE DEF now
    <3> QED BY <3>1, <3>2, <3>3, <3>4, <2>9, <2>10 DEF Whole
  <2>13. Contents(row, now)
    <3>1. Contents(disk[now], now) BY <2>2 DEF ThermalInv, Saved
    <3>2. \A p \in {"fields", "mirrors", "solid", "state"} : row[p] = disk[now][p]
      BY <2>4 DEF Objects
    <3>3. ledger \in LedgerSets BY DEF ThermalInv, Types
    <3> HIDE DEF now
    <3> QED BY <3>1, <3>2, <3>3, <2>9 DEF Contents
  <2>14. Signed(row)
    <3>1. \A part \in Parts : row[part] # Absent => part \in Parts \ {"temporary"}
      BY <2>4
    <3> QED BY <3>1, <2>2, <2>10 DEF Signed
  <2>15. now' = now /\ run' = run BY <1>1
  <2> HIDE DEF now
  <2>16. ASSUME NEW d \in Times
         PROVE  Contents(disk'[d], d) /\ Signed(disk[d])' /\ Claimed(d)'
    <3>1. CASE d = now
      <4>1. Signed(disk[d])' BY <3>1, <2>6, <2>14, <2>15 DEF Signed
      <4>2. Claimed(d)' BY <3>1, <2>6, <2>12 DEF Claimed
      <4> QED BY <3>1, <4>1, <4>2, <2>6, <2>13
    <3>2. CASE d # now
      <4>1. Contents(disk[d], d) /\ Signed(disk[d]) /\ Claimed(d) BY DEF ThermalInv, Saved
      <4>2. disk'[d] = disk[d] BY <3>2, <2>6
      <4>3. Signed(disk[d])' BY <4>1, <4>2, <2>15 DEF Signed
      <4>4. Claimed(d)' BY <4>1, <4>2, <1>1 DEF Claimed, Has
      <4> QED BY <4>1, <4>2, <4>3, <4>4
    <3> QED BY <3>1, <3>2
  <2>17. ASSUME NEW d \in Times \ {0} PROVE Left(d)'
    <3>1. CASE d = now
      <4>1. row["ledger"] # Absent /\ row["ledger"].run = run BY <2>3, <2>10
      <4> QED BY <3>1, <4>1, <2>6, <2>15 DEF Left, Has
    <3>2. CASE d # now
      <4>1. Left(d) BY <3>2, <1>1 DEF ThermalInv, Finished, now
      <4>2. disk'[d] = disk[d] BY <3>2, <2>6
      <4> QED BY <4>1, <4>2, <2>15 DEF Left, Has
    <3> QED BY <3>1, <3>2
  <2>18. Saved' /\ Finished' BY <2>16, <2>17 DEF Saved, Finished
  <2> QED BY <2>11, <2>18, <1>2, <1>3 DEF ThermalInv
<1> QED BY <1>4, <1>5

-----------------------------------------------------------------------------
(* Failures.                                                                 *)
LEMMA CrashKeeps == ThermalInv /\ Crash => ThermalInv'
<1> SUFFICES ASSUME ThermalInv, Crash PROVE ThermalInv' OBVIOUS
<1>1. /\ pc' = "dead"
      /\ UNCHANGED <<clock, committed, ledger, fields, solid, advanced, host, unwritten,
                     completed, config, run, dropped, sound>>
  BY DEF Crash, case
<1>2. Live' /\ Staged' /\ Writing'
  <2>1. Live' BY <1>1, LiveStays
  <2> QED BY <2>1, <1>1 DEF ThermalInv, Staged, Writing
<1>3. CASE UNCHANGED <<disk, overwritten>>
  <2>1. Types' BY <1>1, <1>3 DEF ThermalInv, Types, Stepping
  <2>2. Saved' /\ Finished' BY <1>1, <1>3, DiskStays
  <2> QED BY <2>1, <2>2, <1>2 DEF ThermalInv
<1>4. CASE ~(UNCHANGED <<disk, overwritten>>)
  <2>1. PICK part \in Torn : disk' = [disk EXCEPT ![clock.now][part] = Absent] /\ Overwrites
    BY <1>4 DEF Crash
  <2>2. pc \in {"persist", "ledger", "write"} /\ part \in Parts \ {"ledger"}
    BY <2>1 DEF Torn, ThermalInv, Types, Parts, Objects, Stepping
  <2>3. Marked BY <2>1, Marking
  <2>4. /\ DOMAIN disk' = Times /\ \A d \in Times : DOMAIN disk'[d] = Parts
        /\ Saved' /\ Finished'
    BY <2>1, <2>2, <2>3, <1>1, WritingKeeps
  <2>5. Types' BY <2>4, <1>1 DEF ThermalInv, Types, Stepping
  <2> QED BY <2>4, <2>5, <1>2 DEF ThermalInv
<1> QED BY <1>3, <1>4

\* What a process reads in the directory that it starts from, and what it then has.
Read(d, state, past, s, particles, gone, whole) ==
  /\ state = disk[d]["state"].value /\ past = disk[d]["state"].past
  /\ s = disk[d]["solid"].value
  /\ particles = IF Has(d, "mirrors") THEN disk[d]["mirrors"].value
                                      ELSE disk[d]["fields"].value
  /\ gone = IF Has(d, "ledger") THEN past.dropped ELSE 1 .. d
  /\ whole => past.sound /\ d \notin overwritten
Resumed(d, state, past, s, particles, gone, whole, open) ==
  /\ s \in Solids /\ state \in States /\ open \in LedgerSets
  /\ particles = FieldsOf(d, particles.heated, particles.wall)
  /\ Rooted(past.completed, gone, d) /\ Recorded(past.completed, state, d)
  /\ d - state.completedTime < Interval /\ Begun(state, s, particles.heated)
  /\ Accounted(whole, gone, d, s, open, state.completedRadiation, particles.heated)

\* A directory with a ledger gives what its writer had, one without what there is
\* before the first exchange.
LEMMA Accepting ==
  ASSUME ThermalInv, NEW d \in Times, Accepted(d), NEW state, NEW past, NEW s,
         NEW particles, NEW gone, NEW whole, Read(d, state, past, s, particles, gone, whole)
  PROVE  Resumed(d, state, past, s, particles, gone, whole, RestoredLedger(d))
<1> USE DEF Read
<1>1. /\ d \in Nat /\ Interval \in Nat \ {0} /\ d =< d
      /\ \A part \in Objects : disk[d][part] # Absent
      /\ ~state.initialState => Has(d, "mirrors") /\ Has(d, "ledger")
  BY Numbers DEF Accepted, Has
<1>2. /\ disk[d]["state"] # Absent /\ disk[d]["solid"] # Absent /\ disk[d]["fields"] # Absent
  BY <1>1 DEF Objects
<1>3. Contents(disk[d], d) /\ Claimed(d) BY DEF ThermalInv, Saved
<1>4. /\ state \in States /\ Rooted(past.completed, past.dropped, d)
      /\ Recorded(past.completed, state, d) /\ d - state.completedTime < Interval
      /\ IF d < Interval THEN state = InitialState
                         ELSE ~state.initialState /\ state.completedTime >= Interval
      /\ s \in Solids /\ (d < Interval => s = FreshSolid)
  BY <1>2, <1>3 DEF Contents, Remembered
<1>5. /\ particles = FieldsOf(d, particles.heated, particles.wall)
      /\ d < Interval => particles.heated = Nothing
  BY <1>2, <1>3 DEF Contents, Has
<1>6. Begun(state, s, particles.heated)
  <2>1. CASE d < Interval BY <2>1, <1>4, <1>5, Fresh DEF Begun
  <2>2. CASE ~(d < Interval) BY <2>2, <1>4 DEF Begun
  <2> QED BY <2>1, <2>2
<1>7. CASE Has(d, "ledger")
  <2>1. RestoredLedger(d) = disk[d]["ledger"].value /\ gone = past.dropped
    BY <1>7 DEF RestoredLedger
  <2>2. RestoredLedger(d) \in LedgerSets BY <2>1, <1>3, <1>7 DEF Contents, Has
  <2>3. ASSUME whole
        PROVE  /\ Balanced(gone, d, s, RestoredLedger(d), state.completedRadiation)
               /\ particles.heated = s["radiation"]
    <3>1. Whole(disk[d], d) BY <2>3, <1>3, <1>7 DEF Claimed
    <3>2. {"state", "mirrors", "ledger"} \subseteq Parts \ {"temporary"}
      BY DEF Parts, Objects
    <3>3. disk[d]["ledger"].past = past /\ Has(d, "mirrors")
      BY <3>1, <3>2 DEF Whole, Has
    <3>4. particles = disk[d]["fields"].value BY <3>1, <3>3 DEF Whole
    <3>5. Accounted(past.sound, past.dropped, d, s, disk[d]["ledger"].value,
                    state.completedRadiation, particles.heated)
      BY <3>1, <3>3, <3>4 DEF Whole
    <3> QED BY <3>5, <2>1, <2>3 DEF Accounted
  <2>4. Accounted(whole, gone, d, s, RestoredLedger(d), state.completedRadiation,
                  particles.heated)
    BY <2>3 DEF Accounted
  <2> QED BY <2>1, <2>2, <2>4, <1>4, <1>5, <1>6 DEF Resumed
<1>8. CASE ~Has(d, "ledger")
  <2>1. RestoredLedger(d) = [l \in Ledgers |-> {}] /\ gone = 1 .. d
    BY <1>8 DEF RestoredLedger
  <2>2. d < Interval BY <1>1, <1>4, <1>8
  <2>3. /\ state = InitialState /\ s = FreshSolid /\ particles.heated = Nothing
        /\ state.completedRadiation = 0 /\ s["radiation"] = Nothing
    BY <2>2, <1>4, <1>5, Fresh
  <2>4. Balanced(gone, d, s, RestoredLedger(d), state.completedRadiation)
    BY <2>1, <2>3, <1>1, BalancedFresh
  <2>5. Rooted(past.completed, gone, d) BY <2>1, <2>2, <1>1, <1>4 DEF Rooted
  <2>6. Accounted(whole, gone, d, s, RestoredLedger(d), state.completedRadiation,
                  particles.heated)
    BY <2>3, <2>4 DEF Accounted
  <2>7. RestoredLedger(d) \in LedgerSets BY <2>1, Fresh
  <2> QED BY <2>5, <2>6, <2>7, <1>4, <1>5, <1>6 DEF Resumed
<1> QED BY <1>7, <1>8

LEMMA RestartKeeps == ThermalInv /\ Restart => ThermalInv'
<1> SUFFICES ASSUME ThermalInv, Restart PROVE ThermalInv' OBVIOUS
<1>1. PICK d \in Times : Accepted(d) /\ ResumeFrom(d) /\ (KeepLater \/ RemoveLater(d))
  BY DEF Restart, Times
<1> DEFINE state == disk[d]["state"].value
           past == disk[d]["state"].past
           s == disk[d]["solid"].value
           particles == IF Has(d, "mirrors") THEN disk[d]["mirrors"].value
                                             ELSE disk[d]["fields"].value
           gone == IF Has(d, "ledger") THEN past.dropped ELSE 1 .. d
           emptied == [e \in 0 .. EndTime |-> IF e > d THEN EmptyDirectory ELSE disk[e]]
<1>2. /\ clock' = [now |-> d, writeTime |-> FALSE]
      /\ committed' = state /\ ledger' = RestoredLedger(d)
      /\ fields' = [particles EXCEPT !.wall = s]
      /\ solid' = s /\ host'.solid = s
      /\ completed' = past.completed /\ dropped' = gone
  BY <1>1 DEF ResumeFrom
<1>3. /\ advanced' = FALSE /\ unwritten' = {} /\ pc' = "advance" /\ config' = config
      /\ run' = run + 1
  BY DEF Restart
<1>4. Read(d, state, past, s, particles, gone, sound') BY <1>1 DEF ResumeFrom, Read
<1> HIDE DEF state, past, s, particles, gone
<1>5. /\ s \in Solids /\ state \in States /\ RestoredLedger(d) \in LedgerSets
      /\ particles = FieldsOf(d, particles.heated, particles.wall)
      /\ Rooted(past.completed, gone, d) /\ Recorded(past.completed, state, d)
      /\ d - state.completedTime < Interval /\ Begun(state, s, particles.heated)
      /\ Accounted(sound', gone, d, s, RestoredLedger(d), state.completedRadiation,
                   particles.heated)
  <2>1. Resumed(d, state, past, s, particles, gone, sound', RestoredLedger(d))
    BY <1>1, <1>4, Accepting
  <2> QED BY <2>1 DEF Resumed
<1>6. fields' = FieldsOf(d, particles.heated, s) /\ fields'.heated = particles.heated
  <2> DEFINE heat == particles.heated
             wall == particles.wall
  <2>1. particles = [time |-> d, heated |-> heat, wall |-> wall] BY <1>5 DEF FieldsOf
  <2> HIDE DEF heat, wall
  <2>2. fields' = [time |-> d, heated |-> heat, wall |-> s] BY <2>1, <1>2
  <2>3. fields'.heated = heat BY <2>2
  <2> QED BY <2>2, <2>3 DEF FieldsOf, heat
<1>7. /\ d \in Nat /\ EndTime \in Nat /\ run \in Nat
      /\ DOMAIN disk = Times /\ \A e \in Times : DOMAIN disk[e] = Parts
  BY Numbers DEF ThermalInv, Types
\* The directories that the new process finds or leaves.
<1>8. /\ DOMAIN disk' = Times
      /\ \A e \in Times :
           \/ disk'[e] = disk[e] /\ (e \in overwritten' <=> e \in overwritten)
           \/ disk'[e] = EmptyDirectory
  <2>1. CASE KeepLater BY <2>1, <1>7 DEF KeepLater
  <2>2. CASE RemoveLater(d)
    <3>1. disk' = emptied /\ overwritten' = overwritten \intersect (0 .. d)
      BY <2>2 DEF RemoveLater
    <3>2. ASSUME NEW e \in Times
          PROVE  \/ disk'[e] = disk[e] /\ (e \in overwritten' <=> e \in overwritten)
                 \/ disk'[e] = EmptyDirectory
      <4>1. e \in Nat BY Numbers
      <4>2. disk'[e] = IF e > d THEN EmptyDirectory ELSE disk[e] BY <3>1 DEF Times
      <4>3. ~(e > d) => e \in 0 .. d BY <4>1, <1>7
      <4> HIDE DEF EmptyDirectory, emptied
      <4> QED BY <3>1, <4>2, <4>3
    <3>3. DOMAIN disk' = Times BY <3>1 DEF Times
    <3> QED BY <3>2, <3>3
  <2> QED BY <2>1, <2>2, <1>1
<1>9. \A e \in Times : DOMAIN disk'[e] = Parts BY <1>7, <1>8, Prepares
<1>10. Types'
  <2>1. clock' \in [now : Times, writeTime : BOOLEAN] /\ clock'.now = d BY <1>2
  <2>2. fields' = FieldsOf(clock'.now, fields'.heated, solid') BY <2>1, <1>2, <1>6
  <2>3. run' \in Nat /\ unwritten' \subseteq Objects BY <1>3, <1>7
  <2>4. advanced' \in BOOLEAN BY <1>3
  <2> QED BY <2>1, <2>2, <2>3, <2>4, <1>2, <1>3, <1>5, <1>8, <1>9 DEF ThermalInv, Types
<1>11. Live'
  <2>1. clock'.now = d BY <1>2
  <2> QED BY <2>1, <1>2, <1>3, <1>5, <1>6 DEF Live
<1>12. Staged'
  <2>1. host'.solid = solid' BY <1>2
  <2> QED BY <2>1, <1>3 DEF Staged
<1>13. Writing' BY <1>3 DEF Writing
\* The new process has written nothing yet.
<1>14. ASSUME NEW e \in Times
       PROVE  /\ Contents(disk'[e], e) /\ Signed(disk[e])' /\ Claimed(e)'
              /\ \A part \in Parts : Has(e, part)' => disk'[e][part].run # run'
  <2>1. Contents(disk[e], e) /\ Signed(disk[e]) /\ Claimed(e) BY DEF ThermalInv, Saved
  <2>2. {"fields", "mirrors", "solid", "state", "ledger"} \subseteq Parts BY DEF Parts, Objects
  <2>3. CASE disk'[e] = disk[e] /\ (e \in overwritten' <=> e \in overwritten)
    <3>1. \A part \in Parts : disk[e][part] # Absent =>
            /\ disk[e][part].run \in 0 .. run /\ disk[e][part].run \in 0 .. run + 1
            /\ disk[e][part].run # run + 1
      BY <2>1, <1>7 DEF Signed
    <3>2. Claimed(e)' BY <2>1, <2>3 DEF Claimed, Has
    <3>3. Signed(disk[e])' BY <2>3, <3>1, <1>3 DEF Signed
    <3>4. \A part \in Parts : Has(e, part)' => disk'[e][part].run # run'
      BY <2>3, <3>1, <1>3 DEF Has
    <3> QED BY <2>1, <2>3, <3>2, <3>3, <3>4
  <2>4. CASE disk'[e] = EmptyDirectory
    <3>1. \A part \in Parts : disk'[e][part] = Absent BY <2>4, Prepares
    <3>2. \A part \in {"fields", "mirrors", "solid", "state", "ledger"} :
            disk'[e][part] = Absent
      BY <3>1, <2>2
    <3>3. Contents(disk'[e], e) BY <3>2 DEF Contents
    <3>4. Signed(disk[e])' BY <3>1 DEF Signed
    <3>5. Claimed(e)' BY <3>2 DEF Claimed, Has
    <3>6. \A part \in Parts : ~Has(e, part)' BY <3>1 DEF Has
    <3> QED BY <3>3, <3>4, <3>5, <3>6
  <2> QED BY <2>3, <2>4, <1>8
<1>15. Saved' BY <1>14 DEF Saved
<1>16. Finished'
  <2>1. ASSUME NEW e \in Times \ {0} PROVE Left(e)' BY <1>14 DEF Left
  <2> QED BY <2>1 DEF Finished
<1> QED BY <1>10, <1>11, <1>12, <1>13, <1>15, <1>16 DEF ThermalInv

LEMMA StepKeeps == ThermalInv /\ [Next]_vars => ThermalInv'
<1> SUFFICES ASSUME ThermalInv, [Next]_vars PROVE ThermalInv' OBVIOUS
<1>1. CASE AdvanceOneStep BY <1>1, AdvanceKeeps
<1>2. CASE Exchange BY <1>2, ExchangeKeeps
<1>3. CASE NotDue BY <1>3, NotDueKeeps
<1>4. CASE StageMirrors BY <1>4, StageMirrorsKeeps
<1>5. CASE WriteTemporary BY <1>5, WriteTemporaryKeeps
<1>6. CASE CommitManifest BY <1>6, CommitManifestKeeps
<1>7. CASE \E part \in Objects : WriteObject(part) BY <1>7, WriteObjectKeeps
<1>8. CASE Crash BY <1>8, CrashKeeps
<1>9. CASE Restart BY <1>9, RestartKeeps
<1>10. CASE UNCHANGED vars
  <2>1. Types /\ Live /\ Staged /\ Writing /\ Finished /\ Saved BY DEF ThermalInv
  <2>2. Types' BY <2>1, <1>10 DEF vars, Types
  <2>3. Live' BY <2>1, <1>10 DEF vars, Live
  <2>4. Staged' BY <2>1, <1>10 DEF vars, Staged
  <2>5. Writing'
    <3>1. /\ File(fields)' = File(fields) /\ File(ledger)' = File(ledger)
          /\ \A part : File(Content(part))' = File(Content(part))
      BY <1>10 DEF vars, File, Lineage, Content
    <3> QED BY <3>1, <2>1, <1>10 DEF vars, Writing, Has
  <2>6. Finished' BY <2>1, <1>10 DEF vars, Finished, Left, Has
  <2>7. Saved' BY <2>1, <1>10 DEF vars, Saved, Signed, Claimed, Has
  <2> QED BY <2>2, <2>3, <2>4, <2>5, <2>6, <2>7 DEF ThermalInv
<1> QED BY <1>1, <1>2, <1>3, <1>4, <1>5, <1>6, <1>7, <1>8, <1>9, <1>10 DEF Next, Done

LEMMA AlwaysThermal == Spec => []ThermalInv
BY Initially, StepKeeps, PTL DEF Spec

-----------------------------------------------------------------------------
(* What the run promises.                                                    *)
\* However often the run was cut, and from whichever accepted directory it was
\* resumed, the heat of each tick is with the solid or in the ledger it fell into,
\* once and in one of the two, radiation has given the solid what it took from the
\* particles, and only heat of before the first exchange was ever dropped.  It is
\* so until a process starts from a directory that one before it has committed
\* and another has written into (EnergyAccounted: exchangeIfDue and
\* restorePendingWallEnergyLedgers of GpuSolidThermalCoupler).
THEOREM HeatAccounted == Spec => []EnergyAccounted
<1>1. ThermalInv => EnergyAccounted
  <2> SUFFICES ASSUME ThermalInv, sound PROVE EnergyAccounted BY DEF EnergyAccounted
  <2>1. /\ \A l \in Ledgers :
             Once(solid[l], (1 .. clock.now) \ (ledger[l] \union dropped))
               /\ ledger[l] \subseteq (1 .. clock.now) \ dropped
        /\ Once(solid["radiation"], 1 .. committed.completedRadiation)
        /\ fields.heated = solid["radiation"]
    BY DEF ThermalInv, Live, Accounted, Balanced
  <2>2. ASSUME completed # <<>>, NEW t \in dropped PROVE t < completed[1]
    <3>1. PICK m \in Times : dropped = 1 .. m /\ m < Interval
      BY DEF ThermalInv, Live, Rooted
    <3>2. m \in Nat /\ Interval \in Nat BY Numbers
    <3>3. completed[1] \in Nat /\ completed[1] >= Interval
      <4>1. completed \in Seq(Nat) BY DEF ThermalInv, Live, Rooted
      <4>2. Len(completed) \in Nat /\ Len(completed) # 0 BY <4>1, <2>2, EmptySeq, LenProperties
      <4>3. 1 \in 1 .. Len(completed) BY <4>2
      <4> QED BY <4>1, <4>3, ElementOfSeq DEF ThermalInv, Live, Rooted
    <3> QED BY <3>1, <3>2, <3>3
  <2> QED BY <2>1, <2>2 DEF EnergyAccounted
<1> QED BY <1>1, AlwaysThermal, PTL

\* Wherever a write or the process was cut, a directory whose ledger has its name
\* holds the files of one write of one process, and together they account for the
\* heat of every tick up to its time, until another process writes into it; and
\* a process that does so cannot commit there and goes no further
\* (SavedIsWhole: persistAtWriteTime and commitManifestAtomically).
THEOREM DirectoriesAreWhole == Spec => []SavedIsWhole
<1>1. ThermalInv => SavedIsWhole
  <2> SUFFICES ASSUME ThermalInv PROVE SavedIsWhole OBVIOUS
  <2>1. ASSUME NEW d \in Times \ overwritten, Has(d, "ledger")
        PROVE  LET saved == disk[d] IN
          /\ \A part \in Parts \ {"temporary"} :
               Has(d, part) /\ saved[part].run = saved["ledger"].run /\ saved[part].time = d
          /\ saved["fields"].value = saved["mirrors"].value
          /\ saved["fields"].value.time = d
          /\ saved["fields"].value.wall = saved["solid"].value
          /\ saved["ledger"].past.sound => AddsUp(saved, d)
    <3> DEFINE saved == disk[d]
               s == saved["solid"].value
               open == saved["ledger"].value
               gone == saved["ledger"].past.dropped
               f == saved["fields"].value
    <3>1. Whole(saved, d) /\ Contents(saved, d) BY <2>1 DEF ThermalInv, Saved, Claimed
    <3>2. "fields" \in Parts \ {"temporary"} BY DEF Parts, Objects
    <3>3. /\ \A part \in Parts \ {"temporary"} :
               Has(d, part) /\ saved[part].run = saved["ledger"].run /\ saved[part].time = d
          /\ f = saved["mirrors"].value /\ f.wall = s
          /\ Accounted(saved["ledger"].past.sound, gone, d, s, open,
                       saved["state"].value.completedRadiation, f.heated)
      BY <3>1 DEF Whole, Has
    <3>4. f.time = d
      <4>1. f = FieldsOf(d, f.heated, f.wall) BY <3>1, <3>2, <3>3 DEF Contents, Has
      <4> QED BY <4>1 DEF FieldsOf
    <3>5. ASSUME saved["ledger"].past.sound PROVE AddsUp(saved, d)
      <4>1. /\ Balanced(gone, d, s, open, saved["state"].value.completedRadiation)
            /\ f.heated = s["radiation"]
        BY <3>3, <3>5 DEF Accounted
      <4>2. ASSUME NEW l \in Ledgers, NEW t \in 1 .. d, t \notin gone
            PROVE  s[l][t] + (IF t \in open[l] THEN 1 ELSE 0) = 1
        <5>1. d \in Nat /\ t \in Nat /\ EndTime \in Nat /\ d =< EndTime /\ t \in Ticks
          BY Numbers DEF Times
        <5>2. Once(s[l], (1 .. d) \ (open[l] \union gone)) BY <4>1 DEF Balanced
        <5>3. s[l][t] = IF t \in (1 .. d) \ (open[l] \union gone) THEN 1 ELSE 0
          BY <5>1, <5>2 DEF Once
        <5> QED BY <5>3, <4>2
      <4> QED BY <4>1, <4>2 DEF AddsUp, Balanced
    <3> QED BY <3>3, <3>4, <3>5
  <2>2. ASSUME pc \in {"advance", "exchange"}, NEW d \in 1 .. EndTime PROVE Left(d)
    <3>1. d \in Times \ {0} BY Numbers DEF Times
    <3> QED BY <2>2, <3>1 DEF ThermalInv, Finished
  <2> QED BY <2>1, <2>2 DEF SavedIsWhole, Left, Times
<1> QED BY <1>1, AlwaysThermal, PTL

\* Across restarts from any directory no exchange is ever overdue when a step
\* begins, the gas sees the wall of the last one, and radiation was exchanged with
\* each Frequency-th of the whole run (ScheduleKept: ThermalEventIsDue,
\* RadiationDue and the committed state).
THEOREM OnSchedule == Spec => []ScheduleKept
<1>1. ThermalInv => ScheduleKept
  <2> SUFFICES ASSUME ThermalInv, pc = "advance" PROVE ScheduleKept BY DEF ScheduleKept
  <2>1. Recorded(completed, committed, clock.now) BY DEF ThermalInv, Live
  <2>2. clock.now - committed.completedTime < Interval BY DEF ThermalInv, Live
  <2>3. fields.wall = solid BY DEF ThermalInv, Types, FieldsOf
  <2> QED BY <2>1, <2>2, <2>3 DEF ScheduleKept, Recorded, LastRadiated
<1> QED BY <1>1, AlwaysThermal, PTL

-----------------------------------------------------------------------------
(* ExchangeStreams: the order of the kernels of an exchange.                 *)

\* A kernel is behind those that have to have run before it may: who waits for
\* these numbers also waits for whatever a pending one of them waits for.
Behind(n, waited, kernels) ==
  \A T \in SUBSET Nat :
    waited \subseteq T /\ (\A k \in kernels : k.number \in T => k.after \subseteq T) => n \in T

Uses(k) == k.writes \union DOMAIN k.expects

Kernels ==
  {k \in [number : Nat, after : SUBSET Nat, writes : SUBSET Buffers,
          expects : UNION {[R -> Nat] : R \in SUBSET Buffers}] :
     k.number > 0 /\ \A n \in k.after : n < k.number}
Submissions ==
  [submitted : Nat, follows : [Streams -> SUBSET Nat], program : [Buffers -> Nat],
   pending : SUBSET Kernels]

Numbered(s) ==
  /\ \A stream \in Streams : \A n \in s.follows[stream] : n =< s.submitted
  /\ \A k \in s.pending : k.number =< s.submitted
  /\ \A j, k \in s.pending : j.number = k.number => j = k

\* Kernels at work on the same buffer run in the order of the host.
Ordered(s) ==
  \A j, k \in s.pending :
    j.number < k.number /\ Uses(j) \cap Uses(k) # {} => Behind(j.number, k.after, s.pending)

\* What the program leaves in a buffer before its n-th kernel: what the last pending
\* kernel that writes to it will, or what is there.
Writers(b, n, kernels) == {k \in kernels : b \in k.writes /\ k.number < n}
Leaves(v, b, n, kernels, now) ==
  IF Writers(b, n, kernels) = {}
    THEN v = now[b]
    ELSE \E k \in Writers(b, n, kernels) :
           v = k.number /\ \A j \in Writers(b, n, kernels) : j.number =< k.number
Expected(s, now) ==
  /\ \A b \in Buffers : Leaves(s.program[b], b, s.submitted + 1, s.pending, now)
  /\ \A k \in s.pending : \A b \in DOMAIN k.expects :
       Leaves(k.expects[b], b, k.number, s.pending, now)

Sound(s, now) == s \in Submissions /\ Numbered(s) /\ Ordered(s) /\ Expected(s, now)

\* A stream keeps a buffer when it is behind every kernel at work on it, save one.
Keeps(s, stream, b, save) ==
  \A k \in s.pending :
    b \in Uses(k) /\ k.number # save => Behind(k.number, s.follows[stream], s.pending)
Kept(s, keeper, save) == \A b \in Buffers : Keeps(s, keeper[b], b, save)

\* Who keeps which buffer between two calls of the host.  The parcels are lent to the
\* solve of radiation and come back when the preview waits for its heat.
Keeper(at, radiating) ==
  [b \in Buffers |->
     CASE b = "parcels" /\ at = "material" -> "transport"
       [] b = "parcels" /\ at = "preview" /\ radiating -> "material"
       [] b \in {"input", "result"} -> "transport"
       [] b \in {"heat", "boundaryHeat"} -> "material"
       [] b \in {"contactEnergy", Temperature["auxiliary"], Evaluation["auxiliary"]} -> "contact"
       [] b = "interface" -> Properties["primary"]
       [] OTHER -> "null"]

\* From the solid to the writing, its temperatures are kept by their owners as well.
Publishing(at) == at \in {"apply", "reset", Publish["primary"], Publish["auxiliary"]}
Owned(keeper, contact) ==
  [b \in Buffers |->
     IF b = Temperature["primary"] THEN Diffusion["primary"]
     ELSE IF contact /\ b = Temperature["auxiliary"] THEN Diffusion["auxiliary"]
     ELSE keeper[b]]

Stages == {"advance", "borrow", "transport", "material", "preview", "solid", "apply", "reset",
           Publish["primary"], Publish["auxiliary"], "map", "refresh", "mirror"}

StreamsInv ==
  /\ stage \in Stages /\ due \in BOOLEAN /\ threeRegion \in BOOLEAN
  /\ stage \in {"borrow", "transport", "material"} => due
  /\ stage = Publish["auxiliary"] => threeRegion
  /\ memory \in [Buffers -> Nat] /\ awaited \in 0 .. submitted
  /\ Sound(Present, memory)
  /\ Kept(Present, Keeper(stage, due), awaited)
  /\ Publishing(stage) => Kept(Present, Owned(Keeper(stage, due), threeRegion), awaited)
  /\ misread = {}

-----------------------------------------------------------------------------
(* Kernels behind others.                                                    *)

LEMMA BehindMore ==
  ASSUME NEW n, NEW A, NEW B, A \subseteq B, NEW P, NEW Q, P \subseteq Q, Behind(n, A, P)
  PROVE  Behind(n, B, Q)
BY DEF Behind

LEMMA BehindOwn ==
  ASSUME NEW n, NEW A, n \in A, NEW P
  PROVE  Behind(n, A, P)
BY DEF Behind

LEMMA BehindKernel ==
  ASSUME NEW n, NEW P, NEW k \in P, Behind(n, k.after, P)
  PROVE  Behind(n, {k.number}, P)
BY DEF Behind

\* A kernel that may run is behind no pending one.
LEMMA NoneAhead ==
  ASSUME NEW P, NEW A \in SUBSET Nat, \A j \in P : j.number \notin A,
         NEW j \in P, Behind(j.number, A, P)
  PROVE  FALSE
<1>1. A \subseteq A /\ \A k \in P : k.number \in A => k.after \subseteq A OBVIOUS
<1>2. j.number \in A BY <1>1 DEF Behind
<1> QED BY <1>2

\* When one has run, the others are behind whom they were.
LEMMA BehindLater ==
  ASSUME NEW P, NEW k \in P, k.after \in SUBSET Nat, \A j \in P : j.number \notin k.after,
         NEW j \in P \ {k}, NEW A, Behind(j.number, A, P)
  PROVE  Behind(j.number, A, P \ {k})
<1> SUFFICES ASSUME NEW T \in SUBSET Nat, A \subseteq T,
                    \A i \in P \ {k} : i.number \in T => i.after \subseteq T
             PROVE  j.number \in T
  BY DEF Behind
<1> DEFINE U == T \union k.after
<1>1. U \in SUBSET Nat /\ A \subseteq U OBVIOUS
<1>2. ASSUME NEW i \in P, i.number \in U PROVE i.after \subseteq U
  BY <1>2
<1>3. j.number \in U
  <2> HIDE DEF U
  <2> QED BY <1>1, <1>2 DEF Behind
<1> QED BY <1>3

-----------------------------------------------------------------------------
(* What a call of the host does to who keeps what.                           *)

LEMMA WaitSound ==
  ASSUME NEW s, NEW now, Sound(s, now),
         NEW streams \in SUBSET Streams, NEW producer \in Streams,
         NEW t, t = Submitted(WaitsFor(streams, producer), s)
  PROVE  /\ Sound(t, now) /\ t.submitted = s.submitted
         /\ \A stream \in Streams, b \in Buffers, save \in Nat :
              Keeps(s, stream, b, save) => Keeps(t, stream, b, save)
         /\ \A stream \in streams, b \in Buffers, save \in Nat :
              Keeps(s, producer, b, save) => Keeps(t, stream, b, save)
<1> DEFINE F == [u \in Streams |-> IF u \in streams THEN s.follows[u] \union s.follows[producer]
                                                     ELSE s.follows[u]]
<1>1. t = [s EXCEPT !.follows = F] BY DEF Submitted, WaitsFor
<1>2. s \in Submissions BY DEF Sound
<1>3. F \in [Streams -> SUBSET Nat] BY <1>2 DEF Submissions
<1>4. /\ \A u \in Streams : s.follows[u] \subseteq F[u]
      /\ \A u \in streams : s.follows[producer] \subseteq F[u]
      /\ \A u \in Streams : F[u] \subseteq s.follows[u] \union s.follows[producer]
  OBVIOUS
<1> HIDE DEF F
<1>5. /\ t \in Submissions /\ t.submitted = s.submitted /\ t.follows = F
      /\ t.program = s.program /\ t.pending = s.pending
  BY <1>1, <1>2, <1>3 DEF Submissions
<1>6. Numbered(t)
  <2>1. \A u \in Streams : \A n \in F[u] : n =< s.submitted BY <1>4 DEF Sound, Numbered
  <2> QED BY <2>1, <1>5 DEF Sound, Numbered
<1>7. Ordered(t) BY <1>5 DEF Sound, Ordered
<1>8. Expected(t, now) BY <1>5 DEF Sound, Expected
<1>9. ASSUME NEW from \in Streams, NEW to \in Streams, s.follows[from] \subseteq F[to],
             NEW b \in Buffers, NEW save \in Nat, Keeps(s, from, b, save)
      PROVE  Keeps(t, to, b, save)
  BY <1>5, <1>9, BehindMore DEF Keeps
<1> QED BY <1>4, <1>5, <1>6, <1>7, <1>8, <1>9 DEF Sound

LEMMA KernelSound ==
  ASSUME NEW s, NEW now, Sound(s, now), NEW stream \in Streams,
         NEW reads \in SUBSET Buffers, NEW writes \in SUBSET Buffers,
         \A b \in reads \union writes : Keeps(s, stream, b, 0),
         NEW t, t = Submitted(Kernel(stream, reads, writes), s)
  PROVE  /\ Sound(t, now) /\ t.submitted = s.submitted + 1
         /\ \A other \in Streams, b \in Buffers :
              Keeps(s, other, b, 0) /\ (other = stream \/ b \notin reads \union writes)
                => Keeps(t, other, b, 0)
         /\ \A other \in Streams, b \in Buffers :
              Keeps(s, other, b, 0) => Keeps(t, other, b, s.submitted + 1)
<1> DEFINE number == s.submitted + 1
           F == [s.follows EXCEPT ![stream] = {number}]
           program1 == [b \in Buffers |-> IF b \in writes THEN number ELSE s.program[b]]
           expects == [b \in reads |-> s.program[b]]
           new == [number |-> number, after |-> s.follows[stream], writes |-> writes,
                   expects |-> expects]
           P == s.pending \union {new}
<1>1. t = [submitted |-> number, follows |-> F, program |-> program1, pending |-> P]
  BY DEF Submitted, Kernel
<1>2. s \in Submissions /\ Numbered(s) /\ Ordered(s) /\ Expected(s, now) BY DEF Sound
<1>3. /\ s.submitted \in Nat /\ number \in Nat /\ number > 0 /\ s.submitted < number
      /\ s.follows \in [Streams -> SUBSET Nat] /\ s.program \in [Buffers -> Nat]
      /\ s.pending \in SUBSET Kernels
  BY <1>2 DEF Submissions
<1>4. new \in Kernels
  <2>1. expects \in [reads -> Nat] BY <1>3
  <2>2. s.follows[stream] \in SUBSET Nat BY <1>3
  <2>3. \A n \in s.follows[stream] : n < number BY <1>2, <1>3, <2>2 DEF Numbered
  <2> HIDE DEF number, expects
  <2> QED BY <1>3, <2>1, <2>2, <2>3 DEF Kernels
<1>5. /\ new.number = number /\ new.after = s.follows[stream] /\ new.writes = writes
      /\ Uses(new) = reads \union writes /\ new.expects = expects /\ DOMAIN expects = reads
      /\ \A b \in reads : expects[b] = s.program[b]
  BY DEF Uses
<1>6. F \in [Streams -> SUBSET Nat] /\ F[stream] = {number}
      /\ \A u \in Streams : u # stream => F[u] = s.follows[u]
  BY <1>3
<1>7. program1 \in [Buffers -> Nat] /\ \A b \in Buffers :
        program1[b] = IF b \in writes THEN number ELSE s.program[b]
  BY <1>3
<1>8. P \in SUBSET Kernels /\ new \in P /\ s.pending \subseteq P
      /\ \A k \in P : k \in s.pending \/ k = new
  BY <1>3, <1>4
<1>9. \A k \in s.pending : k.number \in Nat /\ k.number =< s.submitted /\ k.number < number
                           /\ k.number > 0
  BY <1>2, <1>3 DEF Numbered, Kernels
<1> HIDE DEF number, F, program1, expects, new, P
<1>10. t \in Submissions /\ t.submitted = number /\ t.follows = F /\ t.program = program1
       /\ t.pending = P
  BY <1>1, <1>3, <1>6, <1>7, <1>8 DEF Submissions
<1>11. number = s.submitted + 1 BY DEF number
<1>12. Numbered(t)
  <2>1. \A u \in Streams : \A n \in F[u] : n =< number
    <3>1. \A u \in Streams : \A n \in s.follows[u] : n \in Nat /\ n =< s.submitted
      BY <1>2, <1>3 DEF Numbered
    <3> QED BY <3>1, <1>3, <1>6
  <2>2. \A k \in P : k.number =< number BY <1>3, <1>5, <1>8, <1>9
  <2>3. \A j, k \in P : j.number = k.number => j = k BY <1>2, <1>3, <1>5, <1>8, <1>9 DEF Numbered
  <2> QED BY <2>1, <2>2, <2>3, <1>10 DEF Numbered
<1>13. \A k \in s.pending : \A A : Behind(k.number, A, s.pending) => Behind(k.number, A, P)
  BY <1>8, BehindMore
<1>14. ASSUME NEW j \in s.pending, NEW b \in reads \union writes, b \in Uses(j)
       PROVE  Behind(j.number, s.follows[stream], s.pending)
  BY <1>9, <1>14 DEF Keeps
<1>15. Ordered(t)
  <2> SUFFICES ASSUME NEW j \in P, NEW k \in P, j.number < k.number, Uses(j) \cap Uses(k) # {}
               PROVE  Behind(j.number, k.after, P)
    BY <1>10 DEF Ordered
  <2>1. j \in s.pending BY <1>3, <1>5, <1>8, <1>9
  <2>2. CASE k \in s.pending BY <2>1, <2>2, <1>2, <1>13 DEF Ordered
  <2>3. CASE k = new BY <2>1, <2>3, <1>5, <1>13, <1>14
  <2> QED BY <2>2, <2>3, <1>8
<1>16. \A b \in Buffers, n \in Nat : n =< number => Writers(b, n, P) = Writers(b, n, s.pending)
  <2> SUFFICES ASSUME NEW b \in Buffers, NEW n \in Nat, n =< number
               PROVE  Writers(b, n, P) = Writers(b, n, s.pending)
    OBVIOUS
  <2>1. ~(new.number < n) BY <1>3, <1>5
  <2> QED BY <2>1, <1>8 DEF Writers
<1>17. Expected(t, now)
  <2>1. ASSUME NEW b \in Buffers PROVE Leaves(program1[b], b, number + 1, P, now)
    <3>1. CASE b \in writes
      <4>1. new \in Writers(b, number + 1, P) BY <3>1, <1>3, <1>5, <1>8 DEF Writers
      <4>2. \A j \in Writers(b, number + 1, P) : j.number =< new.number
        BY <1>3, <1>5, <1>8, <1>9 DEF Writers
      <4>3. program1[b] = new.number BY <3>1, <1>5, <1>7
      <4> QED BY <4>1, <4>2, <4>3 DEF Leaves
    <3>2. CASE b \notin writes
      <4>1. Writers(b, number + 1, P) = Writers(b, number, s.pending)
        BY <3>2, <1>3, <1>5, <1>8, <1>9 DEF Writers
      <4>2. Leaves(s.program[b], b, number, s.pending, now) BY <1>2, <1>11 DEF Expected
      <4> QED BY <3>2, <4>1, <4>2, <1>7 DEF Leaves
    <3> QED BY <3>1, <3>2
  <2>2. ASSUME NEW k \in P, NEW b \in DOMAIN k.expects
        PROVE  Leaves(k.expects[b], b, k.number, P, now)
    <3>1. k.number \in Nat /\ k.number =< number BY <1>3, <1>5, <1>8, <1>9
    <3>4. b \in Buffers BY <1>8 DEF Kernels
    <3>2. Writers(b, k.number, P) = Writers(b, k.number, s.pending) BY <3>1, <3>4, <1>16
    <3>3. Leaves(k.expects[b], b, k.number, s.pending, now)
      <4>1. CASE k \in s.pending BY <4>1, <1>2 DEF Expected
      <4>2. CASE k = new
        <5>1. b \in Buffers /\ k.expects[b] = s.program[b] /\ k.number = s.submitted + 1
          BY <4>2, <1>5, <1>11
        <5> QED BY <5>1, <1>2 DEF Expected
      <4> QED BY <4>1, <4>2, <1>8
    <3> QED BY <3>2, <3>3 DEF Leaves
  <2> QED BY <2>1, <2>2, <1>10 DEF Expected
<1>18. ASSUME NEW j \in s.pending, NEW other \in Streams,
              Behind(j.number, s.follows[other], s.pending),
              other = stream => Behind(j.number, s.follows[stream], s.pending)
       PROVE  Behind(j.number, F[other], P)
  <2>1. CASE other # stream BY <2>1, <1>6, <1>13, <1>18
  <2>2. CASE other = stream
    <3>1. Behind(j.number, new.after, P) BY <2>2, <1>5, <1>13, <1>18
    <3>2. Behind(j.number, {new.number}, P) BY <3>1, <1>8, BehindKernel
    <3> QED BY <3>2, <2>2, <1>5, <1>6
  <2> QED BY <2>1, <2>2
<1>19. ASSUME NEW other \in Streams, NEW b \in Buffers, Keeps(s, other, b, 0),
              other = stream \/ b \notin reads \union writes
       PROVE  Keeps(t, other, b, 0)
  <2> SUFFICES ASSUME NEW k \in P, b \in Uses(k) PROVE Behind(k.number, F[other], P)
    BY <1>10 DEF Keeps
  <2>1. CASE k \in s.pending
    <3>1. Behind(k.number, s.follows[other], s.pending) BY <2>1, <1>9, <1>19 DEF Keeps
    <3> QED BY <3>1, <2>1, <1>18
  <2>2. CASE k = new
    <3>1. other = stream BY <2>2, <1>5, <1>19
    <3> QED BY <3>1, <2>2, <1>5, <1>6, BehindOwn
  <2> QED BY <2>1, <2>2, <1>8
<1>20. ASSUME NEW other \in Streams, NEW b \in Buffers, Keeps(s, other, b, 0)
       PROVE  Keeps(t, other, b, number)
  <2> SUFFICES ASSUME NEW k \in P, b \in Uses(k), k.number # number
               PROVE  Behind(k.number, F[other], P)
    BY <1>10 DEF Keeps
  <2>1. k \in s.pending BY <1>5, <1>8
  <2>2. Behind(k.number, s.follows[other], s.pending) BY <2>1, <1>9, <1>20 DEF Keeps
  <2> QED BY <2>1, <2>2, <1>18
<1> QED BY <1>10, <1>11, <1>12, <1>15, <1>17, <1>19, <1>20 DEF Sound

-----------------------------------------------------------------------------
(* What a kernel does that runs.                                             *)

\* It finds what the program promised, and the others will.
LEMMA RunSound ==
  ASSUME NEW s, NEW now \in [Buffers -> Nat], Sound(s, now),
         NEW k \in s.pending, \A j \in s.pending : j.number \notin k.after,
         NEW t \in Submissions, t.submitted = s.submitted, t.follows = s.follows,
         t.program = s.program, t.pending = s.pending \ {k},
         NEW later, later = [b \in Buffers |-> IF b \in k.writes THEN k.number ELSE now[b]]
  PROVE  /\ Sound(t, later) /\ later \in [Buffers -> Nat]
         /\ \A b \in DOMAIN k.expects : now[b] = k.expects[b]
         /\ \A stream \in Streams, b \in Buffers, save \in Nat :
              Keeps(s, stream, b, save) => Keeps(t, stream, b, save)
<1> DEFINE P == s.pending
           Q == s.pending \ {k}
<1>1. s \in Submissions /\ Numbered(s) /\ Ordered(s) /\ Expected(s, now) BY DEF Sound
<1>2. /\ P \in SUBSET Kernels /\ Q \subseteq P /\ k \in P /\ s.submitted \in Nat
      /\ k.after \in SUBSET Nat
  BY <1>1 DEF Submissions, Kernels
<1>3. /\ \A j \in P : j.number \in Nat /\ j.number =< s.submitted /\ j.number > 0
      /\ \A j \in P : DOMAIN j.expects \in SUBSET Buffers /\ j.writes \in SUBSET Buffers
      /\ \A i, j \in P : i.number = j.number => i = j
  <2>1. \A j \in P : DOMAIN j.expects \in SUBSET Buffers BY <1>2 DEF Kernels
  <2> QED BY <1>1, <1>2, <2>1 DEF Kernels, Numbered
<1>4. ASSUME NEW j \in Q, NEW A, Behind(j.number, A, P) PROVE Behind(j.number, A, Q)
  BY <1>2, <1>4, BehindLater
<1>5. ASSUME NEW j \in P, j.number < k.number, NEW b, b \in Uses(j), b \in Uses(k) PROVE FALSE
  <2>1. Behind(j.number, k.after, P) BY <1>1, <1>5 DEF Ordered
  <2> QED BY <2>1, <1>2, NoneAhead
<1>6. later \in [Buffers -> Nat] BY <1>2, <1>3
<1>7. \A b \in Buffers : later[b] = IF b \in k.writes THEN k.number ELSE now[b] OBVIOUS
<1>8. ASSUME NEW b \in DOMAIN k.expects PROVE now[b] = k.expects[b]
  <2>1. Writers(b, k.number, P) = {} BY <1>5, <1>8 DEF Writers, Uses
  <2>2. Leaves(k.expects[b], b, k.number, P, now) BY <1>1, <1>8 DEF Expected
  <2> QED BY <2>1, <2>2 DEF Leaves
<1>9. ASSUME NEW v, NEW b \in Buffers, NEW n \in Nat, Leaves(v, b, n, P, now),
             b \in k.writes => k.number < n
      PROVE  Leaves(v, b, n, Q, later)
  <2>1. CASE b \notin k.writes
    <3>1. Writers(b, n, Q) = Writers(b, n, P) BY <2>1 DEF Writers
    <3> QED BY <3>1, <2>1, <1>7, <1>9 DEF Leaves
  <2>2. CASE b \in k.writes
    <3>1. k \in Writers(b, n, P) BY <2>2, <1>2, <1>9 DEF Writers
    <3>2. PICK w \in Writers(b, n, P) :
            v = w.number /\ \A j \in Writers(b, n, P) : j.number =< w.number
      BY <3>1, <1>9 DEF Leaves
    <3>3. \A j \in Writers(b, n, P) : j \in P /\ b \in Uses(j) BY DEF Writers, Uses
    <3>4. b \in Uses(k) BY <2>2 DEF Uses
    <3>5. \A j \in Writers(b, n, P) : ~(j.number < k.number) BY <3>3, <3>4, <1>5
    <3>6. Writers(b, n, Q) = Writers(b, n, P) \ {k} BY DEF Writers
    <3>7. CASE w = k
      <4>1. \A j \in Writers(b, n, P) : j = k BY <3>2, <3>3, <3>5, <3>7, <1>2, <1>3
      <4>2. Writers(b, n, Q) = {} BY <4>1, <3>6
      <4> QED BY <4>2, <2>2, <3>2, <3>7, <1>7 DEF Leaves
    <3>8. CASE w # k
      <4>1. w \in Writers(b, n, Q) BY <3>2, <3>6, <3>8
      <4>2. \A j \in Writers(b, n, Q) : j.number =< w.number BY <3>2, <3>6
      <4> QED BY <4>1, <4>2, <3>2 DEF Leaves
    <3> QED BY <3>7, <3>8
  <2> QED BY <2>1, <2>2
<1> HIDE DEF P, Q
<1>10. t.pending = Q /\ s.pending = P BY DEF P, Q
<1>11. Numbered(t) BY <1>1, <1>2, <1>10 DEF Numbered
<1>12. Ordered(t)
  <2> SUFFICES ASSUME NEW i \in Q, NEW j \in Q, i.number < j.number, Uses(i) \cap Uses(j) # {}
               PROVE  Behind(i.number, j.after, Q)
    BY <1>10 DEF Ordered
  <2> QED BY <1>1, <1>2, <1>4, <1>10 DEF Ordered
<1>13. Expected(t, later)
  <2>1. ASSUME NEW b \in Buffers PROVE Leaves(t.program[b], b, t.submitted + 1, Q, later)
    <3>1. Leaves(s.program[b], b, s.submitted + 1, P, now) BY <1>1, <1>10 DEF Expected
    <3>2. s.submitted + 1 \in Nat /\ k.number < s.submitted + 1 BY <1>2, <1>3
    <3> QED BY <3>1, <3>2, <1>9
  <2>2. ASSUME NEW j \in Q, NEW b \in DOMAIN j.expects
        PROVE  Leaves(j.expects[b], b, j.number, Q, later)
    <3>1. Leaves(j.expects[b], b, j.number, P, now) BY <1>1, <1>2, <1>10 DEF Expected
    <3>2. j \in P /\ j # k /\ b \in Buffers /\ j.number # k.number BY <1>2, <1>3 DEF Q
    <3>3. b \in k.writes => k.number < j.number
      <4>1. b \in k.writes => b \in Uses(j) /\ b \in Uses(k) BY DEF Uses
      <4> QED BY <4>1, <3>2, <1>2, <1>3, <1>5
    <3> QED BY <3>1, <3>2, <3>3, <1>3, <1>9
  <2> QED BY <2>1, <2>2, <1>10 DEF Expected
<1>14. ASSUME NEW stream \in Streams, NEW b \in Buffers, NEW save \in Nat, Keeps(s, stream, b, save)
       PROVE  Keeps(t, stream, b, save)
  BY <1>2, <1>4, <1>10, <1>14 DEF Keeps
<1> QED BY <1>6, <1>8, <1>11, <1>12, <1>13, <1>14 DEF Sound

-----------------------------------------------------------------------------
(* What a sequence of calls does.                                            *)

\* The state after the calls is the one that the recursive definition says.
LEMMA CourseOf ==
  ASSUME NEW calls, Len(calls) \in Nat
  PROVE  /\ Course(calls)[0] = Present
         /\ \A i \in 1 .. Len(calls) : Course(calls)[i] = Submitted(calls[i], Course(calls)[i - 1])
<1> DEFINE N == Len(calls)
           Body(f, n) == [i \in 0 .. n |-> IF i = 0 THEN Present ELSE Submitted(calls[i], f[i - 1])]
           Bad == {n \in 0 .. N : ~ \E f : f = Body(f, n)}
<1>1. Bad = {}
  <2> SUFFICES ASSUME Bad # {} PROVE FALSE OBVIOUS
  <2>1. PICK n \in Bad : \A m \in Bad : n =< m
    <3>1. Bad \in SUBSET Nat OBVIOUS
    <3> HIDE DEF Bad
    <3> QED BY <3>1, Least
  <2>2. n # 0
    <3> SUFFICES ASSUME n = 0 PROVE FALSE OBVIOUS
    <3> DEFINE f == [i \in 0 .. 0 |-> Present]
    <3>1. \A i \in 0 .. 0 : i = 0 OBVIOUS
    <3>2. f = Body(f, 0) BY <3>1
    <3> QED BY <3>2, <2>1
  <2>3. n - 1 \in 0 .. N /\ n - 1 \notin Bad
    <3>1. n \in 0 .. N BY <2>1
    <3>2. n - 1 \in 0 .. N /\ ~(n =< n - 1) BY <3>1, <2>2
    <3> HIDE DEF Bad
    <3> QED BY <3>2, <2>1
  <2>4. PICK f : f = Body(f, n - 1) BY <2>3
  <2> DEFINE g == [i \in 0 .. n |-> IF i = n THEN Submitted(calls[n], f[n - 1]) ELSE f[i]]
  <2>5. ASSUME NEW i \in 0 .. n
        PROVE  g[i] = IF i = 0 THEN Present ELSE Submitted(calls[i], g[i - 1])
    <3>1. CASE i = 0
      <4>1. g[i] = f[i] /\ i \in 0 .. n - 1 BY <3>1, <2>2, <2>1
      <4> QED BY <4>1, <3>1, <2>4
    <3>2. CASE i # 0 /\ i # n
      <4>1. /\ g[i] = f[i] /\ i \in 0 .. n - 1 /\ i - 1 \in 0 .. n /\ i - 1 # n
            /\ g[i - 1] = f[i - 1]
        BY <3>2, <2>1
      <4>2. f[i] = Submitted(calls[i], f[i - 1]) BY <4>1, <3>2, <2>4
      <4> QED BY <4>1, <4>2, <3>2
    <3>3. CASE i = n
      <4>1. n - 1 \in 0 .. n /\ n - 1 # n BY <2>1, <2>2
      <4>2. g[n - 1] = f[n - 1] BY <4>1
      <4> QED BY <3>3, <4>2, <2>2
    <3> QED BY <3>1, <3>2, <3>3
  <2>6. g = Body(g, n)
    <3>1. Body(g, n) = [i \in 0 .. n |-> g[i]] BY <2>5
    <3> QED BY <3>1
  <2> HIDE DEF g
  <2> QED BY <2>6, <2>1
<1>2. \E f : f = Body(f, N)
  <2>1. N \in 0 .. N OBVIOUS
  <2> QED BY <2>1, <1>1
<1> DEFINE s == Course(calls)
<1>3. s = CHOOSE f : f = Body(f, N) BY DEF Course
<1>4. s = Body(s, N) BY <1>2, <1>3
<1> HIDE DEF s
<1>5. s[0] = Present BY <1>4
<1>6. ASSUME NEW i \in 1 .. N PROVE s[i] = Submitted(calls[i], s[i - 1])
  <2>1. i \in 0 .. N /\ i # 0 OBVIOUS
  <2>2. s[i] = Body(s, N)[i] BY <1>4
  <2> QED BY <2>1, <2>2
<1> QED BY <1>5, <1>6 DEF s

\* How a call may pass the buffers on: a stream that waits may take over what its
\* producer keeps, and a kernel has all it uses with its stream.
Passes(call, h, g) ==
  \/ \E streams \in SUBSET Streams, producer \in Streams :
       /\ call = WaitsFor(streams, producer)
       /\ \A b \in Buffers : g[b] = h[b] \/ (g[b] \in streams /\ h[b] = producer)
  \/ \E stream \in Streams, reads \in SUBSET Buffers, writes \in SUBSET Buffers :
       /\ call = Kernel(stream, reads, writes)
       /\ \A b \in reads \union writes : h[b] = stream
       /\ g = h
Keepers == [Buffers -> Streams]

LEMMA PassesKeeps ==
  ASSUME NEW s, NEW now, Sound(s, now), NEW call, NEW h \in Keepers, NEW g \in Keepers,
         Passes(call, h, g), Kept(s, h, 0)
  PROVE  /\ Sound(Submitted(call, s), now) /\ Kept(Submitted(call, s), g, 0)
         /\ Submitted(call, s).submitted >= s.submitted
<1> DEFINE t == Submitted(call, s)
<1>1. s.submitted \in Nat BY DEF Sound, Submissions
<1>2. \A b \in Buffers : g[b] \in Streams /\ h[b] \in Streams /\ Keeps(s, h[b], b, 0)
  BY DEF Keepers, Kept
<1>3. CASE \E streams \in SUBSET Streams, producer \in Streams :
             /\ call = WaitsFor(streams, producer)
             /\ \A b \in Buffers : g[b] = h[b] \/ (g[b] \in streams /\ h[b] = producer)
  <2>1. PICK streams \in SUBSET Streams, producer \in Streams :
             /\ call = WaitsFor(streams, producer)
             /\ \A b \in Buffers : g[b] = h[b] \/ (g[b] \in streams /\ h[b] = producer)
    BY <1>3
  <2>2. t = Submitted(WaitsFor(streams, producer), s) BY <2>1
  <2> HIDE DEF t
  <2>3. /\ Sound(t, now) /\ t.submitted = s.submitted
        /\ \A stream \in Streams, b \in Buffers, save \in Nat :
             Keeps(s, stream, b, save) => Keeps(t, stream, b, save)
        /\ \A stream \in streams, b \in Buffers, save \in Nat :
             Keeps(s, producer, b, save) => Keeps(t, stream, b, save)
    BY <2>2, WaitSound
  <2>4. ASSUME NEW b \in Buffers PROVE Keeps(t, g[b], b, 0)
    <3>1. CASE g[b] = h[b] BY <3>1, <2>3, <1>2
    <3>2. CASE g[b] \in streams /\ h[b] = producer BY <3>2, <2>3, <1>2
    <3> QED BY <3>1, <3>2, <2>1
  <2> QED BY <2>3, <2>4, <1>1 DEF Kept, t
<1>4. CASE \E stream \in Streams, reads \in SUBSET Buffers, writes \in SUBSET Buffers :
             /\ call = Kernel(stream, reads, writes)
             /\ \A b \in reads \union writes : h[b] = stream
             /\ g = h
  <2>1. PICK stream \in Streams, reads \in SUBSET Buffers, writes \in SUBSET Buffers :
             /\ call = Kernel(stream, reads, writes)
             /\ \A b \in reads \union writes : h[b] = stream
             /\ g = h
    BY <1>4
  <2>2. t = Submitted(Kernel(stream, reads, writes), s) BY <2>1
  <2>3. \A b \in reads \union writes : Keeps(s, stream, b, 0) BY <2>1, <1>2
  <2> HIDE DEF t
  <2>4. /\ Sound(t, now) /\ t.submitted = s.submitted + 1
        /\ \A other \in Streams, b \in Buffers :
              Keeps(s, other, b, 0) /\ (other = stream \/ b \notin reads \union writes)
                => Keeps(t, other, b, 0)
    BY <2>2, <2>3, KernelSound
  <2>5. \A b \in Buffers : Keeps(t, g[b], b, 0) BY <2>1, <2>4, <1>2
  <2> QED BY <2>4, <2>5, <1>1 DEF Kept, t
<1> QED BY <1>3, <1>4 DEF Passes

LEMMA CourseKeeps ==
  ASSUME NEW calls, Len(calls) \in Nat, Sound(Present, memory),
         NEW H \in Seq(Keepers), Len(H) = Len(calls) + 1, Kept(Present, H[1], 0),
         \A i \in 1 .. Len(calls) : Passes(calls[i], H[i], H[i + 1])
  PROVE  LET s == Course(calls)[Len(calls)]
         IN  Sound(s, memory) /\ Kept(s, H[Len(calls) + 1], 0) /\ s.submitted >= submitted
<1> DEFINE N == Len(calls)
           s == Course(calls)
           Fine(i) == /\ Sound(s[i], memory) /\ Kept(s[i], H[i + 1], 0)
                      /\ s[i].submitted >= submitted
           Bad == {i \in 0 .. N : ~Fine(i)}
<1>1. /\ s[0] = Present
      /\ \A i \in 1 .. N : s[i] = Submitted(calls[i], s[i - 1])
  BY CourseOf
<1>2. \A i \in 1 .. N + 1 : H[i] \in Keepers BY ElementOfSeq
<1> HIDE DEF s
<1>3. submitted \in Nat /\ Fine(0)
  <2>1. Present.submitted = submitted BY DEF Present
  <2>2. submitted \in Nat BY <2>1 DEF Sound, Submissions
  <2> QED BY <2>1, <2>2, <1>1
<1>4. ASSUME NEW i \in 1 .. N, Fine(i - 1) PROVE Fine(i)
  <2>1. Passes(calls[i], H[i], H[i + 1]) /\ H[i] \in Keepers /\ H[i + 1] \in Keepers BY <1>2
  <2>2. (i - 1) + 1 = i OBVIOUS
  <2>3. Kept(s[i - 1], H[i], 0) BY <1>4, <2>2
  <2>4. s[i - 1].submitted \in Nat BY <1>4 DEF Sound, Submissions
  <2>5. /\ Sound(s[i], memory) /\ Kept(s[i], H[i + 1], 0)
        /\ s[i].submitted >= s[i - 1].submitted
    BY <2>1, <2>3, <1>1, <1>4, PassesKeeps
  <2>6. s[i].submitted \in Nat BY <2>5 DEF Sound, Submissions
  <2> QED BY <2>4, <2>5, <2>6, <1>3, <1>4
<1>5. Bad = {}
  <2> SUFFICES ASSUME Bad # {} PROVE FALSE OBVIOUS
  <2>1. PICK n \in Bad : \A m \in Bad : n =< m
    <3>1. Bad \in SUBSET Nat OBVIOUS
    <3> HIDE DEF Bad
    <3> QED BY <3>1, Least
  <2>2. n # 0 BY <2>1, <1>3
  <2>3. n \in 1 .. N /\ n - 1 \in 0 .. N /\ n - 1 \notin Bad BY <2>1, <2>2
  <2>4. Fine(n - 1) BY <2>3
  <2>5. Fine(n) BY <2>3, <2>4, <1>4
  <2> QED BY <2>1, <2>5
<1>6. N \in 0 .. N OBVIOUS
<1>7. Fine(N) BY <1>5, <1>6
<1> QED BY <1>7 DEF s

-----------------------------------------------------------------------------
(* The calls of the host.                                                    *)

\* Without a download under way nothing is saved from the order.
LEMMA SaveNone ==
  ASSUME NEW s, NEW now, Sound(s, now), NEW save, NEW h
  PROVE  /\ Kept(s, h, 0) => Kept(s, h, save)
         /\ (\A k \in s.pending : k.number # save) /\ Kept(s, h, save) => Kept(s, h, 0)
<1>1. \A k \in s.pending : k.number # 0
  <2>1. s.pending \in SUBSET Kernels BY DEF Sound, Submissions
  <2>2. \A k \in Kernels : k.number # 0 BY DEF Kernels
  <2> QED BY <2>1, <2>2
<1> QED BY <1>1 DEF Kept, Keeps

LEMMA Submitting ==
  ASSUME NEW calls, Submit(calls), Sound(Course(calls)[Len(calls)], memory)
  PROVE  /\ Present' = Course(calls)[Len(calls)] /\ submitted' = Present'.submitted
         /\ memory' = memory /\ misread' = misread
<1>1. PICK s : s = Course(calls)[Len(calls)] OBVIOUS
<1>2. s \in Submissions BY <1>1 DEF Sound
<1>3. /\ submitted' = s.submitted /\ follows' = s.follows
      /\ program' = s.program /\ pending' = s.pending
      /\ memory' = memory /\ misread' = misread
  BY <1>1 DEF Submit
<1>4. s = [submitted |-> submitted', follows |-> follows', program |-> program',
           pending |-> pending']
  BY <1>2, <1>3 DEF Submissions
<1>5. Present' = [submitted |-> submitted', follows |-> follows', program |-> program',
                  pending |-> pending']
  BY DEF Present
<1> QED BY <1>1, <1>3, <1>4, <1>5

\* Between two calls there is an order that nothing is saved from.
LEMMA Settled ==
  ASSUME StreamsInv, awaited \notin Unfinished
  PROVE  /\ Kept(Present, Keeper(stage, due), 0)
         /\ Publishing(stage) => Kept(Present, Owned(Keeper(stage, due), threeRegion), 0)
         /\ submitted \in Nat /\ Present.submitted = submitted
<1>1. Present.pending = pending /\ Present.submitted = submitted BY DEF Present
<1>2. \A k \in Present.pending : k.number # awaited BY <1>1 DEF Unfinished
<1>3. submitted \in Nat BY <1>1 DEF StreamsInv, Sound, Submissions
<1> QED BY <1>1, <1>2, <1>3, SaveNone DEF StreamsInv

\* Calls that pass the buffers on in order leave them with who has them last.
LEMMA CallsKeep ==
  ASSUME StreamsInv, NEW calls, Len(calls) \in Nat, Submit(calls),
         awaited \notin Unfinished, awaited' = awaited \/ awaited' = submitted',
         NEW H \in Seq(Keepers), Len(H) = Len(calls) + 1,
         \/ H[1] = Keeper(stage, due)
         \/ Publishing(stage) /\ H[1] = Owned(Keeper(stage, due), threeRegion),
         \A i \in 1 .. Len(calls) : Passes(calls[i], H[i], H[i + 1]),
         NEW h, h = H[Len(calls) + 1]
  PROVE  /\ memory' \in [Buffers -> Nat] /\ awaited' \in 0 .. submitted'
         /\ Sound(Present', memory') /\ Kept(Present', h, awaited') /\ misread' = {}
<1>1. Kept(Present, H[1], 0) /\ submitted \in Nat BY Settled
<1>2. PICK s : s = Course(calls)[Len(calls)] OBVIOUS
<1>3. Sound(s, memory) /\ Kept(s, h, 0) /\ s.submitted >= submitted
  BY <1>1, <1>2, CourseKeeps DEF StreamsInv
<1>4. /\ Present' = s /\ submitted' = s.submitted
      /\ memory' = memory /\ misread' = misread
  BY <1>2, <1>3, Submitting
<1>5. s.submitted \in Nat BY <1>3 DEF Sound, Submissions
<1>6. Kept(s, h, awaited') BY <1>3, SaveNone
<1> QED BY <1>1, <1>3, <1>4, <1>5, <1>6 DEF StreamsInv

\* A function of the buffers that is that of the next stage.
LEMMA Reached ==
  ASSUME NEW at \in Stages, stage' = at, NEW r \in BOOLEAN, due' = r,
         NEW c \in BOOLEAN, threeRegion' = c,
         at \in {"borrow", "transport", "material"} => r, at = Publish["auxiliary"] => c,
         memory' \in [Buffers -> Nat], awaited' \in 0 .. submitted', misread' = {},
         Sound(Present', memory'), Kept(Present', Keeper(at, r), awaited'),
         Publishing(at) => Kept(Present', Owned(Keeper(at, r), c), awaited')
  PROVE  StreamsInv'
BY DEF StreamsInv

\* What the buffers and streams are called.
LEMMA Names ==
  /\ Buffers = {"parcels", "moments", "ledger", "sums", "wall", "input", "result",
                "heat", "boundaryHeat", "interval", "preview", "contactEnergy", "interface",
                "primary temperature", "auxiliary temperature",
                "primary evaluation", "auxiliary evaluation"}
  /\ Streams = {"null", "transport", "material", "contact", "energies",
                "primary solid", "auxiliary solid", "primary properties",
                "auxiliary properties", "primary diffusion", "auxiliary diffusion"}
  /\ Solid["primary"] = "primary solid" /\ Solid["auxiliary"] = "auxiliary solid"
  /\ Properties["primary"] = "primary properties"
  /\ Properties["auxiliary"] = "auxiliary properties"
  /\ Diffusion["primary"] = "primary diffusion" /\ Diffusion["auxiliary"] = "auxiliary diffusion"
  /\ Temperature["primary"] = "primary temperature"
  /\ Temperature["auxiliary"] = "auxiliary temperature"
  /\ Evaluation["primary"] = "primary evaluation"
  /\ Evaluation["auxiliary"] = "auxiliary evaluation"
  /\ Publish["primary"] = "publish primary" /\ Publish["auxiliary"] = "publish auxiliary"
  /\ Temperatures = {"primary temperature", "auxiliary temperature"}
  /\ SolidBuffers = {"primary temperature", "auxiliary temperature",
                     "primary evaluation", "auxiliary evaluation"}
<1>1. \A f : {f[r] : r \in Regions} = {f["primary"], f["auxiliary"]} BY DEF Regions
<1>2. Temperatures = {Temperature["primary"], Temperature["auxiliary"]} BY <1>1 DEF Temperatures
<1>3. {Evaluation[r] : r \in Regions} = {Evaluation["primary"], Evaluation["auxiliary"]} BY <1>1
<1>4. UNION {{Solid[r], Properties[r], Diffusion[r]} : r \in Regions}
        = {Solid["primary"], Properties["primary"], Diffusion["primary"],
           Solid["auxiliary"], Properties["auxiliary"], Diffusion["auxiliary"]}
  BY DEF Regions
<1>5. /\ Solid["primary"] = "primary solid" /\ Solid["auxiliary"] = "auxiliary solid"
      /\ Properties["primary"] = "primary properties"
      /\ Properties["auxiliary"] = "auxiliary properties"
      /\ Diffusion["primary"] = "primary diffusion" /\ Diffusion["auxiliary"] = "auxiliary diffusion"
  BY DEF Solid, Properties, Diffusion
<1>6. /\ Temperature["primary"] = "primary temperature"
      /\ Temperature["auxiliary"] = "auxiliary temperature"
      /\ Evaluation["primary"] = "primary evaluation"
      /\ Evaluation["auxiliary"] = "auxiliary evaluation"
      /\ Publish["primary"] = "publish primary" /\ Publish["auxiliary"] = "publish auxiliary"
  BY DEF Temperature, Evaluation, Publish
<1>7. SolidBuffers = {"primary temperature", "auxiliary temperature",
                     "primary evaluation", "auxiliary evaluation"}
  BY <1>2, <1>3, <1>6 DEF SolidBuffers
<1>8. Streams = {"null", "transport", "material", "contact", "energies",
                "primary solid", "auxiliary solid", "primary properties",
                "auxiliary properties", "primary diffusion", "auxiliary diffusion"}
  BY <1>4, <1>5 DEF Streams
<1>9. Buffers = {"parcels", "moments", "ledger", "sums", "wall", "input", "result",
                "heat", "boundaryHeat", "interval", "preview", "contactEnergy", "interface",
                "primary temperature", "auxiliary temperature",
                "primary evaluation", "auxiliary evaluation"}
  BY <1>7 DEF Buffers
<1> QED BY <1>2, <1>5, <1>6, <1>7, <1>8, <1>9

\* Some buffers are now with another stream.
With(h, buffers, stream) == [b \in Buffers |-> IF b \in buffers THEN stream ELSE h[b]]

LEMMA KeepersAre ==
  /\ \A at, r : Keeper(at, r) \in Keepers
  /\ \A h \in Keepers, c \in BOOLEAN : Owned(h, c) \in Keepers
  /\ \A h \in Keepers, stream \in Streams : \A buffers : With(h, buffers, stream) \in Keepers
<1>1. ASSUME NEW at, NEW r PROVE Keeper(at, r) \in Keepers
  BY Names DEF Keeper, Keepers
<1>2. ASSUME NEW h \in Keepers, NEW c \in BOOLEAN PROVE Owned(h, c) \in Keepers
  BY Names DEF Owned, Keepers
<1>3. ASSUME NEW h \in Keepers, NEW stream \in Streams, NEW buffers
      PROVE  With(h, buffers, stream) \in Keepers
  BY DEF With, Keepers
<1> QED BY <1>1, <1>2, <1>3

\* What a stream may take over from the producer it waits for.
LEMMA WaitPasses ==
  ASSUME NEW h \in Keepers, NEW streams \in SUBSET Streams, NEW producer \in Streams,
         NEW stream \in streams, NEW buffers, \A b \in buffers : h[b] = producer
  PROVE  /\ Passes(WaitsFor(streams, producer), h, With(h, buffers, stream))
         /\ Passes(WaitsFor(streams, producer), h, h)
<1>1. \A b \in Buffers : \/ With(h, buffers, stream)[b] = h[b]
                         \/ With(h, buffers, stream)[b] \in streams /\ h[b] = producer
  BY DEF With
<1> QED BY <1>1 DEF Passes

LEMMA KernelPasses ==
  ASSUME NEW h \in Keepers, NEW stream \in Streams,
         NEW reads \in SUBSET Buffers, NEW writes \in SUBSET Buffers,
         \A b \in reads \union writes : h[b] = stream
  PROVE  Passes(Kernel(stream, reads, writes), h, h)
BY DEF Passes

\* A single call that leaves every buffer where it is.
LEMMA OneCall ==
  ASSUME StreamsInv, NEW c1, Submit(<<c1>>), awaited \notin Unfinished, awaited' = awaited,
         NEW h \in Keepers,
         \/ h = Keeper(stage, due)
         \/ Publishing(stage) /\ h = Owned(Keeper(stage, due), threeRegion),
         Passes(c1, h, h)
  PROVE  /\ memory' \in [Buffers -> Nat] /\ awaited' \in 0 .. submitted'
         /\ Sound(Present', memory') /\ Kept(Present', h, awaited') /\ misread' = {}
<1> DEFINE calls == <<c1>>
           H == <<h, h>>
<1>1. Len(calls) = 1 /\ calls[1] = c1 /\ Submit(calls) OBVIOUS
<1>2. H \in Seq(Keepers) /\ Len(H) = 2 /\ H[1] = h /\ H[2] = h OBVIOUS
<1> HIDE DEF calls, H
<1>3. \A i \in 1 .. Len(calls) : Passes(calls[i], H[i], H[i + 1]) BY <1>1, <1>2
<1>4. h = H[Len(calls) + 1] /\ Len(calls) \in Nat /\ Len(H) = Len(calls) + 1 BY <1>1, <1>2
<1> QED BY <1>1, <1>2, <1>3, <1>4, CallsKeep

-----------------------------------------------------------------------------
(* The keepers of a stage: what its calls need of them.                      *)

LEMMA AdvanceFluidKeeps == ASSUME StreamsInv, AdvanceFluid PROVE StreamsInv'
<1>1. PICK r \in BOOLEAN, q \in BOOLEAN : due = r /\ due' = q BY DEF StreamsInv, AdvanceFluid
<1> DEFINE h == Keeper("advance", r)
           reads == {"wall", "parcels", "ledger"}
           writes == {"parcels", "moments", "ledger"}
           call == Kernel("null", reads, writes)
           next == IF q THEN "borrow" ELSE "preview"
<1>2. /\ stage = "advance" /\ awaited \notin Unfinished /\ awaited' = awaited
      /\ stage' = next /\ threeRegion' = threeRegion
      /\ Submit(<<call>>)
  BY <1>1 DEF AdvanceFluid, Calls, Asynchronous
<1>3. h \in Keepers BY KeepersAre
<1>4. \A b \in reads \union writes : h[b] = "null" BY Names DEF Keeper
<1>5. h = Keeper(stage, due) BY <1>1, <1>2
<1>6. h = Keeper(next, q) BY Names DEF Keeper
<1>7. "null" \in Streams /\ reads \in SUBSET Buffers /\ writes \in SUBSET Buffers BY Names
<1> HIDE DEF h, reads, writes
<1>11. Passes(call, h, h) BY <1>3, <1>4, <1>7, KernelPasses
<1> HIDE DEF call
<1>8. /\ memory' \in [Buffers -> Nat] /\ awaited' \in 0 .. submitted'
      /\ Sound(Present', memory') /\ Kept(Present', h, awaited') /\ misread' = {}
  BY <1>2, <1>3, <1>5, <1>11, OneCall
<1>9. PICK c \in BOOLEAN : threeRegion' = c BY <1>2 DEF StreamsInv
<1>10. next \in Stages /\ ~Publishing(next) /\ next # Publish["auxiliary"]
       /\ (next \in {"borrow", "transport", "material"} => q)
  BY Names DEF Stages, Publishing
<1> HIDE DEF next
<1> QED BY <1>1, <1>2, <1>6, <1>8, <1>9, <1>10, Reached

LEMMA TwoCalls ==
  ASSUME StreamsInv, NEW c1, NEW c2, Submit(<<c1, c2>>),
         awaited \notin Unfinished, awaited' = awaited \/ awaited' = submitted',
         NEW h1 \in Keepers, NEW h2 \in Keepers, NEW h3 \in Keepers,
         \/ h1 = Keeper(stage, due)
         \/ Publishing(stage) /\ h1 = Owned(Keeper(stage, due), threeRegion),
         Passes(c1, h1, h2), Passes(c2, h2, h3)
  PROVE  /\ memory' \in [Buffers -> Nat] /\ awaited' \in 0 .. submitted'
         /\ Sound(Present', memory') /\ Kept(Present', h3, awaited') /\ misread' = {}
<1> DEFINE calls == <<c1, c2>>
           H == <<h1, h2, h3>>
<1>1. Len(calls) = 2 /\ Submit(calls) OBVIOUS
<1>2. H \in Seq(Keepers) /\ Len(H) = 3 /\ H[1] = h1 /\ H[3] = h3 OBVIOUS
<1>3. Passes(calls[1], H[1], H[2]) /\ Passes(calls[2], H[2], H[3])
  OBVIOUS
<1> HIDE DEF calls, H
<1>4. \A i \in 1 .. Len(calls) : Passes(calls[i], H[i], H[i + 1])
  <2>1. \A i \in 1 .. 2 : i = 1 \/ i = 2 OBVIOUS
  <2> QED BY <2>1, <1>1, <1>3
<1>5. h3 = H[Len(calls) + 1] /\ Len(calls) \in Nat /\ Len(H) = Len(calls) + 1 BY <1>1, <1>2
<1> QED BY <1>1, <1>2, <1>4, <1>5, CallsKeep

LEMMA ThreeCalls ==
  ASSUME StreamsInv, NEW c1, NEW c2, NEW c3, Submit(<<c1, c2, c3>>),
         awaited \notin Unfinished, awaited' = awaited \/ awaited' = submitted',
         NEW h1 \in Keepers, NEW h2 \in Keepers, NEW h3 \in Keepers,
         NEW h4 \in Keepers,
         \/ h1 = Keeper(stage, due)
         \/ Publishing(stage) /\ h1 = Owned(Keeper(stage, due), threeRegion),
         Passes(c1, h1, h2), Passes(c2, h2, h3), Passes(c3, h3, h4)
  PROVE  /\ memory' \in [Buffers -> Nat] /\ awaited' \in 0 .. submitted'
         /\ Sound(Present', memory') /\ Kept(Present', h4, awaited') /\ misread' = {}
<1> DEFINE calls == <<c1, c2, c3>>
           H == <<h1, h2, h3, h4>>
<1>1. Len(calls) = 3 /\ Submit(calls) OBVIOUS
<1>2. H \in Seq(Keepers) /\ Len(H) = 4 /\ H[1] = h1 /\ H[4] = h4 OBVIOUS
<1>3. /\ Passes(calls[1], H[1], H[2])
      /\ Passes(calls[2], H[2], H[3])
      /\ Passes(calls[3], H[3], H[4])
  OBVIOUS
<1> HIDE DEF calls, H
<1>4. \A i \in 1 .. Len(calls) : Passes(calls[i], H[i], H[i + 1])
  <2>1. \A i \in 1 .. 3 : i = 1 \/ i = 2 \/ i = 3 OBVIOUS
  <2> QED BY <2>1, <1>1, <1>3
<1>5. h4 = H[Len(calls) + 1] /\ Len(calls) \in Nat /\ Len(H) = Len(calls) + 1 BY <1>1, <1>2
<1> QED BY <1>1, <1>2, <1>4, <1>5, CallsKeep

LEMMA FourCalls ==
  ASSUME StreamsInv, NEW c1, NEW c2, NEW c3, NEW c4, Submit(<<c1, c2, c3, c4>>),
         awaited \notin Unfinished, awaited' = awaited \/ awaited' = submitted',
         NEW h1 \in Keepers, NEW h2 \in Keepers, NEW h3 \in Keepers,
         NEW h4 \in Keepers, NEW h5 \in Keepers,
         \/ h1 = Keeper(stage, due)
         \/ Publishing(stage) /\ h1 = Owned(Keeper(stage, due), threeRegion),
         Passes(c1, h1, h2), Passes(c2, h2, h3), Passes(c3, h3, h4), Passes(c4, h4, h5)
  PROVE  /\ memory' \in [Buffers -> Nat] /\ awaited' \in 0 .. submitted'
         /\ Sound(Present', memory') /\ Kept(Present', h5, awaited') /\ misread' = {}
<1> DEFINE calls == <<c1, c2, c3, c4>>
           H == <<h1, h2, h3, h4, h5>>
<1>1. Len(calls) = 4 /\ Submit(calls) OBVIOUS
<1>2. H \in Seq(Keepers) /\ Len(H) = 5 /\ H[1] = h1 /\ H[5] = h5 OBVIOUS
<1>3. /\ Passes(calls[1], H[1], H[2])
      /\ Passes(calls[2], H[2], H[3])
      /\ Passes(calls[3], H[3], H[4])
      /\ Passes(calls[4], H[4], H[5])
  OBVIOUS
<1> HIDE DEF calls, H
<1>4. \A i \in 1 .. Len(calls) : Passes(calls[i], H[i], H[i + 1])
  <2>1. \A i \in 1 .. 4 : i = 1 \/ i = 2 \/ i = 3 \/ i = 4 OBVIOUS
  <2> QED BY <2>1, <1>1, <1>3
<1>5. h5 = H[Len(calls) + 1] /\ Len(calls) \in Nat /\ Len(H) = Len(calls) + 1 BY <1>1, <1>2
<1> QED BY <1>1, <1>2, <1>4, <1>5, CallsKeep

LEMMA BorrowKeeps == ASSUME StreamsInv, BorrowRadiationParticleState PROVE StreamsInv'
<1> DEFINE h == Keeper("borrow", TRUE)
           reads == {"parcels"}
           writes == {"sums"}
           call == Kernel("null", reads, writes)
<1>1. /\ stage = "borrow" /\ due = TRUE /\ stage' = "transport" /\ threeRegion' = threeRegion
      /\ due' = TRUE
  BY DEF BorrowRadiationParticleState, Calls, StreamsInv
<1>2. /\ awaited \notin Unfinished /\ awaited' = awaited
      /\ Submit(<<call>>)
  BY DEF BorrowRadiationParticleState, Calls, Asynchronous
<1>3. h \in Keepers BY KeepersAre
<1>4. \A b \in reads \union writes : h[b] = "null" BY Names DEF Keeper
<1>5. h = Keeper(stage, due) BY <1>1
<1>10. h = Keeper("transport", TRUE) BY Names DEF Keeper
<1>6. "null" \in Streams /\ reads \in SUBSET Buffers /\ writes \in SUBSET Buffers BY Names
<1> HIDE DEF h, reads, writes
<1>11. Passes(call, h, h) BY <1>3, <1>4, <1>6, KernelPasses
<1> HIDE DEF call
<1>7. /\ memory' \in [Buffers -> Nat] /\ awaited' \in 0 .. submitted'
      /\ Sound(Present', memory') /\ Kept(Present', h, awaited') /\ misread' = {}
  BY <1>2, <1>3, <1>5, <1>11, OneCall
<1>8. PICK c \in BOOLEAN : threeRegion' = c BY <1>1 DEF StreamsInv
<1>9. "transport" \in Stages /\ ~Publishing("transport") /\ "transport" # Publish["auxiliary"]
  BY Names DEF Stages, Publishing
<1> QED BY <1>1, <1>10, <1>7, <1>8, <1>9, Reached

LEMMA TransportKeeps == ASSUME StreamsInv, TransportSolve PROVE StreamsInv'
<1> DEFINE h == Keeper("transport", TRUE)
           lent == With(h, {"parcels", "sums", "wall"}, "transport")
           free == With(lent, {"sums", "wall"}, "null")
<1>1. /\ stage = "transport" /\ due = TRUE /\ stage' = "material" /\ threeRegion' = threeRegion
      /\ due' = TRUE
  BY DEF TransportSolve, Calls, StreamsInv
<1>2. /\ awaited \notin Unfinished /\ awaited' = awaited
      /\ Submit(<<WaitsFor({"transport"}, "null"),
                  Kernel("transport", {"sums", "wall"}, {"input"}),
                  WaitsFor({"null"}, "transport"),
                  Kernel("transport", {"input"}, {"result"})>>)
  BY DEF TransportSolve, Calls, Asynchronous
<1>3. h \in Keepers /\ lent \in Keepers /\ free \in Keepers BY KeepersAre, Names
<1>4. \A b \in {"parcels", "sums", "wall"} : h[b] = "null" BY Names DEF Keeper
<1>5. \A b \in {"sums", "wall", "input"} : lent[b] = "transport" BY Names DEF Keeper, With
<1>6. free["input"] = "transport" /\ free["result"] = "transport" BY Names DEF Keeper, With
<1>7. free = Keeper("material", TRUE) BY Names DEF Keeper, With
<1>8. h = Keeper(stage, due) BY <1>1
<1> HIDE DEF h
<1>9. Passes(WaitsFor({"transport"}, "null"), h, lent) BY <1>3, <1>4, Names, WaitPasses
<1> HIDE DEF lent
<1>10. Passes(Kernel("transport", {"sums", "wall"}, {"input"}), lent, lent)
  BY <1>3, <1>5, Names, KernelPasses
<1>11. Passes(WaitsFor({"null"}, "transport"), lent, free) BY <1>3, <1>5, Names, WaitPasses
<1> HIDE DEF free
<1>12. Passes(Kernel("transport", {"input"}, {"result"}), free, free)
  BY <1>3, <1>6, Names, KernelPasses
<1>13. /\ memory' \in [Buffers -> Nat] /\ awaited' \in 0 .. submitted'
       /\ Sound(Present', memory') /\ Kept(Present', free, awaited') /\ misread' = {}
  BY <1>2, <1>3, <1>8, <1>9, <1>10, <1>11, <1>12, FourCalls
<1>14. PICK c \in BOOLEAN : threeRegion' = c BY <1>1 DEF StreamsInv
<1>15. "material" \in Stages /\ ~Publishing("material") /\ "material" # Publish["auxiliary"]
  BY Names DEF Stages, Publishing
<1> QED BY <1>1, <1>7, <1>13, <1>14, <1>15, Reached

LEMMA MaterialKeeps == ASSUME StreamsInv, MaterialSolve PROVE StreamsInv'
<1> DEFINE h == Keeper("material", TRUE)
           lent == With(h, {"parcels", "input", "result"}, "material")
           free == With(lent, {"input", "result"}, "transport")
<1>1. /\ stage = "material" /\ due = TRUE /\ stage' = "preview" /\ threeRegion' = threeRegion
      /\ due' = TRUE
  BY DEF MaterialSolve, Calls, StreamsInv
<1>2. /\ awaited \notin Unfinished /\ awaited' = awaited
      /\ Submit(<<WaitsFor({"material"}, "transport"),
                  Kernel("material", {"parcels", "input", "result"}, {"heat", "boundaryHeat"}),
                  WaitsFor({"transport"}, "material")>>)
  BY DEF MaterialSolve, Calls, Asynchronous
<1>3. h \in Keepers /\ lent \in Keepers /\ free \in Keepers BY KeepersAre, Names
<1>4. \A b \in {"parcels", "input", "result"} : h[b] = "transport" BY Names DEF Keeper
<1>5. \A b \in {"parcels", "input", "result", "heat", "boundaryHeat"} : lent[b] = "material"
  BY Names DEF Keeper, With
<1>6. free = Keeper("preview", TRUE) BY Names DEF Keeper, With
<1>7. h = Keeper(stage, due) BY <1>1
<1> HIDE DEF h
<1>8. Passes(WaitsFor({"material"}, "transport"), h, lent) BY <1>3, <1>4, Names, WaitPasses
<1> HIDE DEF lent
<1>9. Passes(Kernel("material", {"parcels", "input", "result"}, {"heat", "boundaryHeat"}), lent, lent)
  BY <1>3, <1>5, Names, KernelPasses
<1>10. Passes(WaitsFor({"transport"}, "material"), lent, free) BY <1>3, <1>5, Names, WaitPasses
<1> HIDE DEF free
<1>11. /\ memory' \in [Buffers -> Nat] /\ awaited' \in 0 .. submitted'
       /\ Sound(Present', memory') /\ Kept(Present', free, awaited') /\ misread' = {}
  BY <1>2, <1>3, <1>7, <1>8, <1>9, <1>10, ThreeCalls
<1>12. PICK c \in BOOLEAN : threeRegion' = c BY <1>1 DEF StreamsInv
<1>13. "preview" \in Stages /\ ~Publishing("preview") /\ "preview" # Publish["auxiliary"]
  BY Names DEF Stages, Publishing
<1> QED BY <1>1, <1>6, <1>11, <1>12, <1>13, Reached

LEMMA PreviewKeeps == ASSUME StreamsInv, PreviewInterfaceExchangeDevice PROVE StreamsInv'
<1>1. PICK r \in BOOLEAN : due = r BY DEF StreamsInv
<1> DEFINE h == Keeper("preview", r)
           lent == With(h, {"parcels", "boundaryHeat"}, "null")
           free == With(lent, {"boundaryHeat"}, "material")
<1>2. stage = "preview" /\ stage' = "solid" /\ threeRegion' = threeRegion /\ due' = r
  BY <1>1 DEF PreviewInterfaceExchangeDevice, Calls
<1>3. awaited \notin Unfinished /\ awaited' = awaited /\ Submit(PreviewCalls)
  BY DEF PreviewInterfaceExchangeDevice, Calls, Asynchronous
<1>4. h \in Keepers /\ lent \in Keepers /\ free \in Keepers BY KeepersAre, Names
<1>5. h["interval"] = "null" /\ h["ledger"] = "null" /\ h["preview"] = "null"
  BY Names DEF Keeper
<1>6. h = Keeper(stage, due) BY <1>1, <1>2
<1>7. Passes(Kernel("null", {}, {"interval"}), h, h)
  <2> HIDE DEF h
  <2> QED BY <1>4, <1>5, Names, KernelPasses
<1>8. /\ memory' \in [Buffers -> Nat] /\ awaited' \in 0 .. submitted'
      /\ Sound(Present', memory') /\ Kept(Present', Keeper("solid", r), awaited')
      /\ misread' = {}
  <2>1. CASE r = TRUE
    <3>1. PreviewCalls =
            <<Kernel("null", {}, {"interval"}), WaitsFor({"null"}, "material"),
              Kernel("null", {"ledger", "boundaryHeat"}, {"preview"}),
              WaitsFor({"material"}, "null")>>
      BY <2>1, <1>1 DEF PreviewCalls
    <3>2. h["parcels"] = "material" /\ h["boundaryHeat"] = "material"
      BY <2>1, Names DEF Keeper
    <3>3. \A b \in {"ledger", "boundaryHeat", "preview"} : lent[b] = "null"
      BY <2>1, Names DEF Keeper, With
    <3>4. free = Keeper("solid", r) BY <2>1, Names DEF Keeper, With
    <3> HIDE DEF h
    <3>5. Passes(WaitsFor({"null"}, "material"), h, lent) BY <3>2, <1>4, Names, WaitPasses
    <3> HIDE DEF lent
    <3>6. Passes(Kernel("null", {"ledger", "boundaryHeat"}, {"preview"}), lent, lent)
      BY <3>3, <1>4, Names, KernelPasses
    <3>7. Passes(WaitsFor({"material"}, "null"), lent, free) BY <3>3, <1>4, Names, WaitPasses
    <3> HIDE DEF free
    <3>8. /\ memory' \in [Buffers -> Nat] /\ awaited' \in 0 .. submitted'
          /\ Sound(Present', memory') /\ Kept(Present', free, awaited') /\ misread' = {}
      BY <3>1, <3>5, <3>6, <3>7, <1>3, <1>4, <1>6, <1>7, FourCalls
    <3> QED BY <3>4, <3>8
  <2>2. CASE r = FALSE
    <3>1. PreviewCalls =
            <<Kernel("null", {}, {"interval"}), Kernel("null", {"ledger"}, {"preview"})>>
      BY <2>2, <1>1 DEF PreviewCalls
    <3>2. h = Keeper("solid", r) BY <2>2, Names DEF Keeper
    <3> HIDE DEF h
    <3>3. Passes(Kernel("null", {"ledger"}, {"preview"}), h, h) BY <1>4, <1>5, Names, KernelPasses
    <3>4. /\ memory' \in [Buffers -> Nat] /\ awaited' \in 0 .. submitted'
          /\ Sound(Present', memory') /\ Kept(Present', h, awaited') /\ misread' = {}
      BY <3>1, <3>3, <1>3, <1>4, <1>6, <1>7, TwoCalls
    <3> QED BY <3>2, <3>4
  <2> QED BY <2>1, <2>2
<1>9. PICK c \in BOOLEAN : threeRegion' = c BY <1>2 DEF StreamsInv
<1>10. "solid" \in Stages /\ ~Publishing("solid") /\ "solid" # Publish["auxiliary"]
  BY Names DEF Stages, Publishing
<1> QED BY <1>1, <1>2, <1>8, <1>9, <1>10, Reached

\* A stream that waits may also take back what it has lent.
LEMMA GivesBack ==
  ASSUME NEW h, NEW g, NEW streams \in SUBSET Streams, NEW producer \in Streams,
         \A b \in Buffers : g[b] = h[b] \/ (g[b] \in streams /\ h[b] = producer)
  PROVE  Passes(WaitsFor(streams, producer), h, g)
BY DEF Passes

\* The solid takes its inputs over and gives its results to the fluid and to their owners.
LEMMA SolidKeeps == ASSUME StreamsInv, EnqueueSolid PROVE StreamsInv'
<1>1. PICK r \in BOOLEAN, c \in BOOLEAN : due = r /\ threeRegion = c BY DEF StreamsInv
<1> DEFINE next == IF r THEN "apply" ELSE "reset"
           h == Keeper("solid", r)
           fluids == {"preview", "interval", "primary temperature", "primary evaluation"}
<1>2. stage = "solid" /\ stage' = next /\ threeRegion' = c /\ due' = r
  BY <1>1 DEF EnqueueSolid, Calls
<1>3. /\ awaited \notin Unfinished /\ awaited' = awaited
      /\ Submit(IF c THEN ContactCalls ELSE SolidCalls)
  BY <1>1 DEF EnqueueSolid, Calls, Asynchronous
<1>4. h \in Keepers /\ Owned(h, c) \in Keepers BY KeepersAre
<1>5. h = Keeper(stage, due) BY <1>1, <1>2
<1>6. h = Keeper(next, r) BY Names DEF Keeper
<1>7. \A b \in fluids : h[b] = "null" BY Names DEF Keeper
<1>8. \A b \in {"contactEnergy", "auxiliary temperature", "auxiliary evaluation"} :
        h[b] = "contact"
  BY Names DEF Keeper
<1>9. \A b \in Buffers : Owned(h, c)[b] =
        IF b = "primary temperature" THEN "primary diffusion"
        ELSE IF c /\ b = "auxiliary temperature" THEN "auxiliary diffusion" ELSE h[b]
  BY Names DEF Owned
<1>10. fluids \in SUBSET Buffers BY Names
<1> HIDE DEF h
<1>11. /\ memory' \in [Buffers -> Nat] /\ awaited' \in 0 .. submitted'
       /\ Sound(Present', memory') /\ Kept(Present', h, awaited')
       /\ Kept(Present', Owned(h, c), awaited') /\ misread' = {}
  <2>1. CASE c = FALSE
    <3> DEFINE lent == With(h, fluids, "primary solid")
               first == WaitsFor({"primary solid"}, "null")
               last == WaitsFor({"null", "primary properties", "primary diffusion"},
                                "primary solid")
    <3>1. SolidKernel = Kernel("primary solid", {"preview", "interval", "primary temperature"},
                               {"primary temperature", "primary evaluation"})
      BY Names DEF SolidKernel
    <3>2. SolidCalls = <<first, SolidKernel, last>> BY Names DEF SolidCalls
    <3>3. lent \in Keepers BY <1>4, KeepersAre, Names
    <3>4. /\ \A b \in fluids : lent[b] = "primary solid"
          /\ \A b \in Buffers \ fluids : lent[b] = h[b]
      BY Names DEF With
    <3>5. Passes(first, h, lent) BY <1>4, <1>7, Names, WaitPasses
    <3> HIDE DEF lent
    <3>6. Passes(SolidKernel, lent, lent) BY <3>1, <3>3, <3>4, Names, KernelPasses
    <3>7. Passes(last, lent, h)
      <4> DEFINE streams == {"null", "primary properties", "primary diffusion"}
      <4>1. streams \in SUBSET Streams /\ "primary solid" \in Streams BY Names
      <4>2. \A b \in Buffers : h[b] = lent[b] \/ (h[b] \in streams /\ lent[b] = "primary solid")
        BY <3>4, <1>7
      <4> HIDE DEF streams
      <4>3. Passes(WaitsFor(streams, "primary solid"), lent, h) BY <4>1, <4>2, GivesBack
      <4> QED BY <4>3 DEF streams
    <3>8. Passes(last, lent, Owned(h, c))
      <4> DEFINE streams == {"null", "primary properties", "primary diffusion"}
      <4>1. streams \in SUBSET Streams /\ "primary solid" \in Streams BY Names
      <4>2. \A b \in Buffers : \/ Owned(h, c)[b] = lent[b]
                               \/ Owned(h, c)[b] \in streams /\ lent[b] = "primary solid"
        BY <3>4, <1>7, <1>9, <2>1
      <4> HIDE DEF streams
      <4>3. Passes(WaitsFor(streams, "primary solid"), lent, Owned(h, c))
        BY <4>1, <4>2, GivesBack
      <4> QED BY <4>3 DEF streams
    <3> HIDE DEF first, last
    <3>9. Submit(<<first, SolidKernel, last>>) BY <1>3, <2>1, <3>2
    <3>10. /\ memory' \in [Buffers -> Nat] /\ awaited' \in 0 .. submitted'
           /\ Sound(Present', memory') /\ Kept(Present', h, awaited') /\ misread' = {}
      BY <1>3, <1>4, <1>5, <3>3, <3>5, <3>6, <3>7, <3>9, ThreeCalls
    <3>11. Kept(Present', Owned(h, c), awaited')
      BY <1>3, <1>4, <1>5, <3>3, <3>5, <3>6, <3>8, <3>9, ThreeCalls
    <3> QED BY <3>10, <3>11
  <2>2. CASE c = TRUE
    <3> DEFINE lent == With(h, fluids, "contact")
               owned == With(With(lent, {"primary temperature"}, "primary diffusion"),
                             {"auxiliary temperature"}, "auxiliary diffusion")
               reads == {"preview", "interval", "primary temperature", "auxiliary temperature"}
               writes == {"primary temperature", "auxiliary temperature",
                          "primary evaluation", "auxiliary evaluation", "contactEnergy"}
               owners == {"primary solid", "primary properties", "primary diffusion",
                          "auxiliary solid", "auxiliary properties", "auxiliary diffusion"}
               first == WaitsFor({"contact"}, "null")
               graph == Kernel("contact", reads, writes)
               accepted == WaitsFor(owners, "contact")
               last == WaitsFor({"null", "energies"}, "contact")
    <3>1. ContactCalls = <<first, graph, accepted, last>>
      <4>1. {"preview", "interval"} \union Temperatures = reads BY Names
      <4>2. SolidBuffers \union {"contactEnergy"} = writes BY Names
      <4>3. AcceptedBy("primary") \union AcceptedBy("auxiliary") = owners
        BY Names DEF AcceptedBy
      <4> QED BY <4>1, <4>2, <4>3 DEF ContactCalls
    <3>2. lent \in Keepers /\ owned \in Keepers BY <1>4, KeepersAre, Names
    <3>3. /\ \A b \in fluids : lent[b] = "contact"
          /\ \A b \in Buffers \ fluids : lent[b] = h[b]
      BY Names DEF With
    <3>4. \A b \in Buffers : owned[b] =
            IF b = "primary temperature" THEN "primary diffusion"
            ELSE IF b = "auxiliary temperature" THEN "auxiliary diffusion" ELSE lent[b]
      BY DEF With
    <3>5. Passes(first, h, lent) BY <1>4, <1>7, Names, WaitPasses
    <3> HIDE DEF lent, owned
    <3>6. Passes(graph, lent, lent)
      <4>1. reads \in SUBSET Buffers /\ writes \in SUBSET Buffers /\ "contact" \in Streams
        BY Names
      <4>2. \A b \in reads \union writes : lent[b] = "contact" BY <3>3, <1>8, Names
      <4> HIDE DEF reads, writes
      <4> QED BY <4>1, <4>2, <3>2, KernelPasses
    <3>7. Passes(accepted, lent, lent) /\ Passes(accepted, lent, owned)
      <4>1. owners \in SUBSET Streams /\ "contact" \in Streams BY Names
      <4>2. \A b \in Buffers : owned[b] = lent[b] \/ (owned[b] \in owners /\ lent[b] = "contact")
        BY <3>3, <3>4, <1>8, Names
      <4> HIDE DEF owners
      <4> QED BY <4>1, <4>2 DEF Passes
    <3>8. Passes(last, lent, h)
      <4> DEFINE streams == {"null", "energies"}
      <4>1. streams \in SUBSET Streams /\ "contact" \in Streams BY Names
      <4>2. \A b \in Buffers : h[b] = lent[b] \/ (h[b] \in streams /\ lent[b] = "contact")
        BY <3>3, <1>7
      <4> HIDE DEF streams
      <4>3. Passes(WaitsFor(streams, "contact"), lent, h) BY <4>1, <4>2, GivesBack
      <4> QED BY <4>3 DEF streams
    <3>9. Passes(last, owned, Owned(h, c))
      <4> DEFINE streams == {"null", "energies"}
      <4>1. streams \in SUBSET Streams /\ "contact" \in Streams BY Names
      <4>2. \A b \in Buffers : \/ Owned(h, c)[b] = owned[b]
                               \/ Owned(h, c)[b] \in streams /\ owned[b] = "contact"
        BY <3>3, <3>4, <1>7, <1>9, <2>2
      <4> HIDE DEF streams
      <4>3. Passes(WaitsFor(streams, "contact"), owned, Owned(h, c)) BY <4>1, <4>2, GivesBack
      <4> QED BY <4>3 DEF streams
    <3> HIDE DEF first, graph, accepted, last
    <3>10. Submit(<<first, graph, accepted, last>>) BY <1>3, <2>2, <3>1
    <3>11. /\ memory' \in [Buffers -> Nat] /\ awaited' \in 0 .. submitted'
           /\ Sound(Present', memory') /\ Kept(Present', h, awaited') /\ misread' = {}
      BY <1>3, <1>4, <1>5, <3>2, <3>5, <3>6, <3>7, <3>8, <3>10, FourCalls
    <3>12. Kept(Present', Owned(h, c), awaited')
      BY <1>3, <1>4, <1>5, <3>2, <3>5, <3>6, <3>7, <3>9, <3>10, FourCalls
    <3> QED BY <3>11, <3>12
  <2> QED BY <2>1, <2>2
<1>12. /\ next \in Stages /\ next # Publish["auxiliary"]
       /\ next \notin {"borrow", "transport", "material"}
  BY Names DEF Stages
<1> HIDE DEF next
<1> QED BY <1>2, <1>6, <1>11, <1>12, Reached

LEMMA ApplyKeeps == ASSUME StreamsInv, ApplyParticleRadiationDeviceEnergy PROVE StreamsInv'
<1>1. PICK r \in BOOLEAN, c \in BOOLEAN : due = r /\ threeRegion = c BY DEF StreamsInv
<1> DEFINE h == Keeper("apply", r)
           o == Owned(h, c)
<1>2. stage = "apply" /\ stage' = "reset" /\ threeRegion' = c /\ due' = r
  BY <1>1 DEF ApplyParticleRadiationDeviceEnergy, Calls
<1>3. /\ awaited \notin Unfinished /\ awaited' = awaited
      /\ Submit(<<WaitsFor({"null"}, "material"),
                  Kernel("null", {"heat", "parcels"}, {"parcels", "sums"}),
                  WaitsFor({"material"}, "null")>>)
  BY DEF ApplyParticleRadiationDeviceEnergy, Calls, Asynchronous
<1>4. h \in Keepers /\ o \in Keepers BY KeepersAre
<1>5. h["heat"] = "material" /\ h["parcels"] = "null" /\ h["sums"] = "null"
  BY Names DEF Keeper
<1>6. o["heat"] = "material" /\ o["parcels"] = "null" /\ o["sums"] = "null"
  BY Names DEF Keeper, Owned
<1>7. h = Keeper("reset", r) BY Names DEF Keeper
<1>8. h = Keeper(stage, due) BY <1>1, <1>2
<1>9. Publishing(stage) /\ o = Owned(Keeper(stage, due), threeRegion)
  BY <1>1, <1>2 DEF Publishing
<1> HIDE DEF h, o
<1>10. ASSUME NEW k \in Keepers, k["heat"] = "material", k["parcels"] = "null", k["sums"] = "null",
              k = h \/ k = o
       PROVE  /\ memory' \in [Buffers -> Nat] /\ awaited' \in 0 .. submitted'
              /\ Sound(Present', memory') /\ Kept(Present', k, awaited') /\ misread' = {}
  <2> DEFINE lent == With(k, {"heat"}, "null")
  <2>1. lent \in Keepers BY KeepersAre, Names
  <2>2. /\ \A b \in {"heat", "parcels", "sums"} : lent[b] = "null"
        /\ \A b \in Buffers : b # "heat" => lent[b] = k[b]
    BY <1>10, Names DEF With
  <2>3. Passes(WaitsFor({"null"}, "material"), k, lent) BY <1>10, Names, WaitPasses
  <2> HIDE DEF lent
  <2>4. Passes(Kernel("null", {"heat", "parcels"}, {"parcels", "sums"}), lent, lent)
    BY <2>1, <2>2, Names, KernelPasses
  <2>5. Passes(WaitsFor({"material"}, "null"), lent, k)
    <3> DEFINE streams == {"material"}
    <3>1. streams \in SUBSET Streams /\ "null" \in Streams BY Names
    <3>2. \A b \in Buffers : k[b] = lent[b] \/ (k[b] \in streams /\ lent[b] = "null")
      BY <2>2, <1>10
    <3> HIDE DEF streams
    <3>3. Passes(WaitsFor(streams, "null"), lent, k) BY <3>1, <3>2, GivesBack
    <3> QED BY <3>3 DEF streams
  <2>6. \/ k = Keeper(stage, due)
        \/ Publishing(stage) /\ k = Owned(Keeper(stage, due), threeRegion)
    BY <1>8, <1>9, <1>10
  <2> QED BY <1>3, <2>1, <2>3, <2>4, <2>5, <2>6, ThreeCalls
<1>11. /\ memory' \in [Buffers -> Nat] /\ awaited' \in 0 .. submitted'
       /\ Sound(Present', memory') /\ Kept(Present', h, awaited') /\ misread' = {}
  BY <1>4, <1>5, <1>10
<1>12. Kept(Present', o, awaited') BY <1>4, <1>6, <1>10
<1>13. o = Owned(h, c) BY DEF o
<1>14. "reset" \in Stages /\ "reset" # Publish["auxiliary"] BY Names DEF Stages
<1> QED BY <1>2, <1>7, <1>11, <1>12, <1>13, <1>14, Reached

LEMMA ResetKeeps == ASSUME StreamsInv, ResetWallLedgers PROVE StreamsInv'
<1>1. PICK r \in BOOLEAN, c \in BOOLEAN : due = r /\ threeRegion = c BY DEF StreamsInv
<1>2. PICK next : next = IF writing THEN Publish["primary"] ELSE "map" OBVIOUS
<1> DEFINE h == Keeper("reset", r)
           o == Owned(h, c)
           reads == {}
           writes == {"ledger"}
           call == Kernel("null", reads, writes)
<1>3. stage = "reset" /\ stage' = next /\ threeRegion' = c /\ due' = r
  BY <1>1, <1>2 DEF ResetWallLedgers, Calls
<1>4. awaited \notin Unfinished /\ awaited' = awaited /\ Submit(<<call>>)
  BY DEF ResetWallLedgers, Calls, Asynchronous
<1>5. h \in Keepers /\ o \in Keepers BY KeepersAre
<1>6. /\ \A b \in reads \union writes : h[b] = "null"
      /\ \A b \in reads \union writes : o[b] = "null"
  BY Names DEF Keeper, Owned
<1>7. next \in {"publish primary", "map"} BY <1>2, Names
<1>8. h = Keeper(next, r) BY <1>7, Names DEF Keeper
<1>9. h = Keeper(stage, due) BY <1>1, <1>3
<1>10. Publishing(stage) /\ o = Owned(Keeper(stage, due), threeRegion)
  BY <1>1, <1>3 DEF Publishing
<1>11. "null" \in Streams /\ reads \in SUBSET Buffers /\ writes \in SUBSET Buffers BY Names
<1> HIDE DEF h, o, reads, writes
<1>16. Passes(call, h, h) /\ Passes(call, o, o) BY <1>5, <1>6, <1>11, KernelPasses
<1> HIDE DEF call
<1>12. /\ memory' \in [Buffers -> Nat] /\ awaited' \in 0 .. submitted'
       /\ Sound(Present', memory') /\ Kept(Present', h, awaited') /\ misread' = {}
  BY <1>4, <1>5, <1>9, <1>16, OneCall
<1>13. Kept(Present', o, awaited') BY <1>4, <1>5, <1>10, <1>16, OneCall
<1>14. o = Owned(h, c) BY DEF o
<1>15. /\ next \in Stages /\ next # Publish["auxiliary"]
       /\ next \notin {"borrow", "transport", "material"}
  BY <1>7, Names DEF Stages
<1> QED BY <1>3, <1>8, <1>12, <1>13, <1>14, <1>15, Reached

\* A kernel that the host waits for takes nothing from anyone but itself.
LEMMA Awaited ==
  ASSUME NEW s, NEW now, Sound(s, now), NEW stream \in Streams,
         NEW reads \in SUBSET Buffers, NEW writes \in SUBSET Buffers,
         \A b \in reads \union writes : Keeps(s, stream, b, 0),
         NEW t, t = Submitted(Kernel(stream, reads, writes), s)
  PROVE  Sound(t, now) /\ \A h \in Keepers : Kept(s, h, 0) => Kept(t, h, t.submitted)
<1>1. /\ Sound(t, now) /\ t.submitted = s.submitted + 1
      /\ \A other \in Streams, b \in Buffers :
           Keeps(s, other, b, 0) /\ (other = stream \/ b \notin reads \union writes)
             => Keeps(t, other, b, 0)
      /\ \A other \in Streams, b \in Buffers :
           Keeps(s, other, b, 0) => Keeps(t, other, b, s.submitted + 1)
  BY KernelSound
<1>2. ASSUME NEW h \in Keepers, Kept(s, h, 0) PROVE Kept(t, h, t.submitted)
  BY <1>1, <1>2 DEF Kept, Keepers
<1> QED BY <1>1, <1>2

\* The download of a region's temperature, in the stream of its owner.
LEMMA PublishKeeps ==
  ASSUME StreamsInv, NEW region \in Region, PublishResident(region) PROVE StreamsInv'
<1>1. PICK r \in BOOLEAN, c \in BOOLEAN : due = r /\ threeRegion = c BY DEF StreamsInv
<1>2. region \in {"primary", "auxiliary"} /\ (region = "auxiliary" => c)
  BY <1>1 DEF Region, Regions
<1>3. PICK at, stream : at = Publish[region] /\ stream = Diffusion[region] OBVIOUS
<1> DEFINE next == IF region = "primary" /\ c THEN "publish auxiliary" ELSE "map"
           h == Keeper(at, r)
           o == Owned(h, c)
           reads == {Temperature[region]}
           writes == {}
           kernel == Kernel(stream, reads, writes)
           calls == <<kernel>>
<1>4. stage = at /\ stage' = next /\ threeRegion' = c /\ due' = r
  BY <1>1, <1>3, Names DEF PublishResident, Calls
<1>5. awaited \notin Unfinished /\ awaited' = submitted' /\ Submit(calls)
  BY <1>3 DEF PublishResident, Calls, Download
<1>6. at \in {"publish primary", "publish auxiliary"} BY <1>2, <1>3, Names
<1>7. stream \in Streams /\ reads \in SUBSET Buffers /\ writes \in SUBSET Buffers
  BY <1>2, <1>3, Names
<1>8. \A b \in reads \union writes : o[b] = stream
  <2>1. CASE region = "primary" BY <2>1, <1>3, Names DEF Owned
  <2>2. CASE region = "auxiliary" BY <2>2, <1>2, <1>3, Names DEF Owned
  <2> QED BY <2>1, <2>2, <1>2
<1>9. h \in Keepers /\ o \in Keepers BY KeepersAre
<1>10. next \in {"publish auxiliary", "map"} OBVIOUS
<1>11. h = Keeper(next, r) BY <1>6, <1>10, Names DEF Keeper
<1>12. h = Keeper(stage, due) BY <1>1, <1>4
<1>13. o = Owned(Keeper(stage, due), threeRegion) BY <1>1, <1>4
<1>14. o = Owned(h, c) OBVIOUS
<1>15. Publishing(stage) BY <1>4, <1>6, Names DEF Publishing
<1>16. Len(calls) = 1 /\ calls[1] = kernel OBVIOUS
<1> HIDE DEF h, o, reads, writes, calls
<1>17. PICK s, t : s = Present /\ t = Course(calls)[1] OBVIOUS
<1>18. t = Submitted(Kernel(stream, reads, writes), s)
  <2>1. /\ Course(calls)[0] = Present
        /\ \A i \in 1 .. Len(calls) : Course(calls)[i] = Submitted(calls[i], Course(calls)[i - 1])
    BY <1>16, CourseOf
  <2>2. 1 \in 1 .. Len(calls) /\ 1 - 1 = 0 BY <1>16
  <2> QED BY <2>1, <2>2, <1>16, <1>17
<1>19. Kept(s, h, 0) /\ Kept(s, o, 0) /\ Sound(s, memory)
  BY <1>5, <1>12, <1>13, <1>15, <1>17, Settled DEF StreamsInv
<1>20. \A b \in reads \union writes : Keeps(s, stream, b, 0)
  BY <1>7, <1>8, <1>19 DEF Kept
<1>21. Sound(t, memory) /\ \A k \in Keepers : Kept(s, k, 0) => Kept(t, k, t.submitted)
  <2>1. Sound(s, memory) BY <1>19
  <2> QED BY <2>1, <1>7, <1>18, <1>20, Awaited
<1>22. Kept(t, h, t.submitted) /\ Kept(t, o, t.submitted) BY <1>9, <1>19, <1>21
<1>23. /\ Present' = t /\ submitted' = t.submitted
       /\ memory' = memory /\ misread' = misread
  BY <1>5, <1>16, <1>17, <1>21, Submitting
<1>24. t.submitted \in Nat BY <1>21 DEF Sound, Submissions
<1>25. /\ memory' \in [Buffers -> Nat] /\ awaited' \in 0 .. submitted'
       /\ Sound(Present', memory') /\ Kept(Present', h, awaited')
       /\ Kept(Present', Owned(h, c), awaited') /\ misread' = {}
  BY <1>5, <1>14, <1>21, <1>22, <1>23, <1>24 DEF StreamsInv
<1>26. /\ next \in Stages /\ next \notin {"borrow", "transport", "material"}
       /\ (next = Publish["auxiliary"] => c)
  BY Names DEF Stages
<1> HIDE DEF next
<1> QED BY <1>4, <1>11, <1>25, <1>26, Reached

\* The owner of the properties takes the temperature over, and the fluid its results.
LEMMA MapKeeps == ASSUME StreamsInv, MapSolidWallTemperatureToFluid PROVE StreamsInv'
<1>1. PICK r \in BOOLEAN, c \in BOOLEAN : due = r /\ threeRegion = c BY DEF StreamsInv
<1>2. PICK next : next = IF r THEN "refresh" ELSE IF writing THEN "mirror" ELSE "advance" OBVIOUS
<1> DEFINE h == Keeper("map", r)
           taken == {"primary temperature", "primary evaluation"}
           lent == With(h, taken, "primary properties")
           back == With(lent, {"primary temperature", "primary evaluation", "interface"}, "null")
           c1 == WaitsFor({"primary properties"}, "primary diffusion")
           c2 == WaitsFor({"primary properties"}, "null")
           c3 == Kernel("primary properties", {"primary temperature"},
                        {"interface", "primary evaluation"})
           c4 == Kernel("primary properties", {"primary evaluation"}, {})
           c5 == WaitsFor({"null"}, "primary properties")
           c6 == Kernel("null", {"interface"}, {"wall"})
           calls == <<c1, c2, c3, c4>> \o <<c5, c6, c2>>
           H == <<h, h, lent, lent, lent, back, back, h>>
<1>3. stage = "map" /\ stage' = next /\ threeRegion' = c /\ due' = r
  BY <1>1, <1>2 DEF MapSolidWallTemperatureToFluid, Calls
<1>4. awaited \notin Unfinished /\ awaited' = awaited /\ Submit(calls)
  <2>1. Updated = <<c5, c6, c2>> BY Names DEF Updated
  <2> QED BY <2>1, Names DEF MapSolidWallTemperatureToFluid, Calls, Asynchronous
<1>5. h \in Keepers /\ lent \in Keepers /\ back \in Keepers BY KeepersAre, Names
<1>6. h = Keeper(stage, due) BY <1>1, <1>3
<1>7. next \in {"refresh", "mirror", "advance"} BY <1>2
<1>8. h = Keeper(next, r) BY <1>7, Names DEF Keeper
<1>9. /\ \A b \in taken : h[b] = "null"
      /\ h["interface"] = "primary properties" /\ h["wall"] = "null"
  BY Names DEF Keeper
<1>10. /\ \A b \in taken : lent[b] = "primary properties"
       /\ \A b \in Buffers : b \notin taken => lent[b] = h[b]
  BY Names DEF With
<1>11. /\ \A b \in taken \union {"interface"} : back[b] = "null"
       /\ \A b \in Buffers : b \notin taken \union {"interface"} => back[b] = lent[b]
  BY Names DEF With
<1> HIDE DEF h
<1>12. Passes(c1, h, h)
  <2>1. {"primary properties"} \in SUBSET Streams /\ "primary diffusion" \in Streams BY Names
  <2> QED BY <2>1, GivesBack
<1>13. Passes(c2, h, lent) BY <1>5, <1>9, Names, WaitPasses
<1> HIDE DEF lent
<1>14. Passes(c3, lent, lent)
  <2>1. \A b \in {"primary temperature"} \union {"interface", "primary evaluation"} :
          lent[b] = "primary properties"
    BY <1>9, <1>10, Names
  <2> QED BY <2>1, <1>5, Names, KernelPasses
<1>15. Passes(c4, lent, lent) BY <1>5, <1>10, Names, KernelPasses
<1>16. Passes(c5, lent, back)
  <2>1. \A b \in {"primary temperature", "primary evaluation", "interface"} :
          lent[b] = "primary properties"
    BY <1>9, <1>10, Names
  <2> QED BY <2>1, <1>5, Names, WaitPasses
<1> HIDE DEF back
<1>17. Passes(c6, back, back)
  <2>1. "wall" \in Buffers \ taken /\ "wall" \notin taken \union {"interface"} BY Names
  <2>2. lent["wall"] = "null" BY <2>1, <1>9, <1>10
  <2>3. back["wall"] = "null" BY <2>1, <2>2, <1>11
  <2>4. \A b \in {"interface"} \union {"wall"} : back[b] = "null" BY <2>3, <1>11
  <2> QED BY <2>4, <1>5, Names, KernelPasses
<1>18. Passes(c2, back, h)
  <2> DEFINE streams == {"primary properties"}
  <2>1. streams \in SUBSET Streams /\ "null" \in Streams BY Names
  <2>2. \A b \in Buffers : h[b] = back[b] \/ (h[b] \in streams /\ back[b] = "null")
    BY <1>9, <1>10, <1>11
  <2> HIDE DEF streams
  <2>3. Passes(WaitsFor(streams, "null"), back, h) BY <2>1, <2>2, GivesBack
  <2> QED BY <2>3 DEF streams
<1> HIDE DEF c1, c2, c3, c4, c5, c6
<1>19. /\ Len(calls) = 7 /\ calls[1] = c1 /\ calls[2] = c2 /\ calls[3] = c3 /\ calls[4] = c4
       /\ calls[5] = c5 /\ calls[6] = c6 /\ calls[7] = c2
  <2> DEFINE S == {c1, c2, c3, c4, c5, c6}
             first == <<c1, c2, c3, c4>>
             last == <<c5, c6, c2>>
  <2>1. /\ first \in Seq(S) /\ Len(first) = 4 /\ first[1] = c1 /\ first[2] = c2
        /\ first[3] = c3 /\ first[4] = c4
    OBVIOUS
  <2>2. /\ last \in Seq(S) /\ Len(last) = 3 /\ last[1] = c5 /\ last[2] = c6 /\ last[3] = c2
    OBVIOUS
  <2> HIDE DEF S, first, last
  <2>3. /\ Len(first \o last) = Len(first) + Len(last)
        /\ \A i \in 1 .. Len(first) + Len(last) : (first \o last)[i] =
             IF i <= Len(first) THEN first[i] ELSE last[i - Len(first)]
    BY <2>1, <2>2, ConcatProperties
  <2>4. calls = first \o last BY DEF first, last
  <2> QED BY <2>1, <2>2, <2>3, <2>4
<1>20. H \in Seq(Keepers) /\ Len(H) = 8 /\ H[1] = h /\ H[8] = h BY <1>5
<1>21. /\ Passes(calls[1], H[1], H[2]) /\ Passes(calls[2], H[2], H[3])
       /\ Passes(calls[3], H[3], H[4]) /\ Passes(calls[4], H[4], H[5])
       /\ Passes(calls[5], H[5], H[6]) /\ Passes(calls[6], H[6], H[7])
       /\ Passes(calls[7], H[7], H[8])
  <2> HIDE DEF calls
  <2> QED BY <1>12, <1>13, <1>14, <1>15, <1>16, <1>17, <1>18, <1>19
<1> HIDE DEF calls, H
<1>23. \A i \in 1 .. Len(calls) : Passes(calls[i], H[i], H[i + 1])
  <2>1. \A i \in 1 .. 7 : i = 1 \/ i = 2 \/ i = 3 \/ i = 4 \/ i = 5 \/ i = 6 \/ i = 7 OBVIOUS
  <2> QED BY <2>1, <1>19, <1>21
<1>24. h = H[Len(calls) + 1] /\ Len(calls) \in Nat /\ Len(H) = Len(calls) + 1
  BY <1>19, <1>20
<1>25. /\ memory' \in [Buffers -> Nat] /\ awaited' \in 0 .. submitted'
       /\ Sound(Present', memory') /\ Kept(Present', h, awaited') /\ misread' = {}
  BY <1>4, <1>6, <1>20, <1>23, <1>24, CallsKeep
<1>26. /\ next \in Stages /\ next # Publish["auxiliary"] /\ ~Publishing(next)
       /\ next \notin {"borrow", "transport", "material"}
  BY <1>7, Names DEF Stages, Publishing
<1> QED BY <1>3, <1>8, <1>25, <1>26, Reached

LEMMA RefreshKeeps == ASSUME StreamsInv, RefreshParticleEnthalpy PROVE StreamsInv'
<1>1. PICK r \in BOOLEAN, c \in BOOLEAN : due = r /\ threeRegion = c BY DEF StreamsInv
<1>2. PICK next : next = IF writing THEN "mirror" ELSE "advance" OBVIOUS
<1> DEFINE h == Keeper("refresh", r)
           reads == {"parcels"}
           writes == {"moments"}
           call == Kernel("null", reads, writes)
<1>3. stage = "refresh" /\ stage' = next /\ threeRegion' = c /\ due' = r
  BY <1>1, <1>2 DEF RefreshParticleEnthalpy, Calls
<1>4. awaited \notin Unfinished /\ awaited' = awaited /\ Submit(<<call>>)
  BY DEF RefreshParticleEnthalpy, Calls, Asynchronous
<1>5. h \in Keepers BY KeepersAre
<1>6. \A b \in reads \union writes : h[b] = "null" BY Names DEF Keeper
<1>7. next \in {"mirror", "advance"} BY <1>2
<1>8. h = Keeper(next, r) BY <1>7, Names DEF Keeper
<1>9. h = Keeper(stage, due) BY <1>1, <1>3
<1>10. "null" \in Streams /\ reads \in SUBSET Buffers /\ writes \in SUBSET Buffers BY Names
<1> HIDE DEF h, reads, writes
<1>13. Passes(call, h, h) BY <1>5, <1>6, <1>10, KernelPasses
<1> HIDE DEF call
<1>11. /\ memory' \in [Buffers -> Nat] /\ awaited' \in 0 .. submitted'
       /\ Sound(Present', memory') /\ Kept(Present', h, awaited') /\ misread' = {}
  BY <1>4, <1>5, <1>9, <1>13, OneCall
<1>12. /\ next \in Stages /\ next # Publish["auxiliary"] /\ ~Publishing(next)
       /\ next \notin {"borrow", "transport", "material"}
  BY <1>7, Names DEF Stages, Publishing
<1> QED BY <1>3, <1>8, <1>11, <1>12, Reached

LEMMA MirrorKeeps == ASSUME StreamsInv, DownloadMirrors PROVE StreamsInv'
<1>1. PICK r \in BOOLEAN, c \in BOOLEAN : due = r /\ threeRegion = c BY DEF StreamsInv
<1> DEFINE h == Keeper("mirror", r)
           c1 == Kernel("null", {"parcels", "moments", "wall"}, {})
           c2 == Kernel("null", {"preview"}, {})
<1>2. stage = "mirror" /\ stage' = "advance" /\ threeRegion' = c /\ due' = r
  BY <1>1 DEF DownloadMirrors, Calls
<1>3. awaited \notin Unfinished /\ awaited' = submitted' /\ Submit(<<c1, c2>>)
  BY DEF DownloadMirrors, Calls
<1>4. h \in Keepers BY KeepersAre
<1>5. \A b \in {"parcels", "moments", "wall", "preview"} : h[b] = "null" BY Names DEF Keeper
<1>6. h = Keeper("advance", r) BY Names DEF Keeper
<1>7. h = Keeper(stage, due) BY <1>1, <1>2
<1> HIDE DEF h
<1>8. Passes(c1, h, h) /\ Passes(c2, h, h) BY <1>4, <1>5, Names, KernelPasses
<1> HIDE DEF c1, c2
<1>9. /\ memory' \in [Buffers -> Nat] /\ awaited' \in 0 .. submitted'
      /\ Sound(Present', memory') /\ Kept(Present', h, awaited') /\ misread' = {}
  BY <1>3, <1>4, <1>7, <1>8, TwoCalls
<1>10. "advance" \in Stages /\ ~Publishing("advance") /\ "advance" # Publish["auxiliary"]
  BY Names DEF Stages, Publishing
<1> QED BY <1>2, <1>6, <1>9, <1>10, Reached

\* A kernel that runs takes nothing from anyone.
LEMMA ExecuteKeeps == ASSUME StreamsInv, NEW k \in pending, Execute(k) PROVE StreamsInv'
<1>1. PICK r \in BOOLEAN, c \in BOOLEAN, at \in Stages : due = r /\ threeRegion = c /\ stage = at
  BY DEF StreamsInv
<1>2. PICK s, t : s = Present /\ t = Present' OBVIOUS
<1>3. /\ s.submitted = submitted /\ s.follows = follows /\ s.program = program
      /\ s.pending = pending
  BY <1>2 DEF Present
<1>4. /\ t = [submitted |-> submitted', follows |-> follows', program |-> program',
              pending |-> pending']
  BY <1>2 DEF Present
<1>5. /\ submitted' = submitted /\ follows' = follows /\ program' = program
      /\ pending' = pending \ {k} /\ awaited' = awaited
      /\ stage' = at /\ due' = r /\ threeRegion' = c
  BY <1>1 DEF Execute, hostVars
<1>6. s \in Submissions /\ Sound(s, memory) /\ memory \in [Buffers -> Nat]
  BY <1>2 DEF StreamsInv, Sound
<1>7. /\ t \in Submissions /\ t.submitted = s.submitted /\ t.follows = s.follows
      /\ t.program = s.program /\ t.pending = s.pending \ {k}
  BY <1>3, <1>4, <1>5, <1>6 DEF Submissions
<1>8. k \in s.pending /\ \A j \in s.pending : j.number \notin k.after
  BY <1>3 DEF Execute, Unfinished
<1>9. memory' = [b \in Buffers |-> IF b \in k.writes THEN k.number ELSE memory[b]]
  BY DEF Execute
<1>10. /\ Sound(t, memory') /\ memory' \in [Buffers -> Nat]
       /\ \A b \in DOMAIN k.expects : memory[b] = k.expects[b]
       /\ \A stream \in Streams, b \in Buffers, save \in Nat :
            Keeps(s, stream, b, save) => Keeps(t, stream, b, save)
  BY <1>6, <1>7, <1>8, <1>9, RunSound
<1>11. misread' = {} BY <1>10 DEF Execute, StreamsInv
<1>12. awaited \in 0 .. submitted /\ awaited \in Nat
  <2>1. submitted \in Nat BY <1>3, <1>6 DEF Submissions
  <2> QED BY <2>1 DEF StreamsInv
<1>13. ASSUME NEW h \in Keepers, Kept(s, h, awaited) PROVE Kept(t, h, awaited)
  BY <1>10, <1>12, <1>13 DEF Kept, Keepers
<1> DEFINE h == Keeper(at, r)
<1>14. h \in Keepers /\ Owned(h, c) \in Keepers BY KeepersAre
<1>15. Kept(t, h, awaited')
  <2>1. Kept(s, h, awaited) BY <1>1, <1>2 DEF StreamsInv
  <2> QED BY <2>1, <1>5, <1>13, <1>14
<1>16. Publishing(at) => Kept(t, Owned(h, c), awaited')
  <2>1. Publishing(at) => Kept(s, Owned(h, c), awaited) BY <1>1, <1>2 DEF StreamsInv
  <2> QED BY <2>1, <1>5, <1>13, <1>14
<1>17. /\ at \in {"borrow", "transport", "material"} => r
       /\ at = Publish["auxiliary"] => c
  BY <1>1 DEF StreamsInv
<1>18. awaited' \in 0 .. submitted' BY <1>5, <1>12
<1> QED BY <1>2, <1>5, <1>10, <1>11, <1>15, <1>16, <1>17, <1>18, Reached

-----------------------------------------------------------------------------
(* The invariant, and what follows.                                          *)

LEMMA StreamsInitInv == StreamsInit => StreamsInv
<1> SUFFICES ASSUME StreamsInit PROVE StreamsInv OBVIOUS
<1>1. /\ submitted = 0 /\ follows = [s \in Streams |-> {}] /\ program = [b \in Buffers |-> 0]
      /\ memory = program /\ pending = {} /\ awaited = 0 /\ misread = {}
      /\ stage = "advance" /\ due = FALSE /\ threeRegion \in BOOLEAN
  BY DEF StreamsInit
<1>2. PICK s : s = Present OBVIOUS
<1>3. s = [submitted |-> 0, follows |-> [t \in Streams |-> {}],
           program |-> [b \in Buffers |-> 0], pending |-> {}]
  BY <1>1, <1>2 DEF Present
<1>4. s \in Submissions BY <1>3 DEF Submissions
<1>5. /\ s.pending = {} /\ s.submitted = 0 /\ \A t \in Streams : s.follows[t] = {}
      /\ \A b \in Buffers : s.program[b] = 0 /\ memory[b] = 0
  BY <1>1, <1>3
<1>6. memory \in [Buffers -> Nat] BY <1>1
<1>7. Numbered(s) /\ Ordered(s) BY <1>5 DEF Numbered, Ordered
<1>8. \A b, n : Writers(b, n, {}) = {} BY DEF Writers
<1>9. Expected(s, memory) BY <1>5, <1>8 DEF Expected, Leaves
<1>10. \A h, save : Kept(s, h, save) BY <1>5 DEF Kept, Keeps
<1>11. stage \in Stages /\ stage # Publish["auxiliary"] /\ ~Publishing(stage)
       /\ stage \notin {"borrow", "transport", "material"}
  BY <1>1, Names DEF Stages, Publishing
<1>12. Sound(Present, memory) BY <1>2, <1>4, <1>7, <1>9 DEF Sound
<1>13. /\ Kept(Present, Keeper(stage, due), awaited)
       /\ Kept(Present, Owned(Keeper(stage, due), threeRegion), awaited)
  BY <1>2, <1>10
<1>14. due \in BOOLEAN /\ threeRegion \in BOOLEAN BY <1>1
<1>15. awaited \in 0 .. submitted /\ misread = {} BY <1>1
<1> QED BY <1>6, <1>11, <1>12, <1>13, <1>14, <1>15 DEF StreamsInv

LEMMA StreamsNextInv == StreamsInv /\ [StreamsNext]_streamsVars => StreamsInv'
<1> SUFFICES ASSUME StreamsInv, [StreamsNext]_streamsVars PROVE StreamsInv' OBVIOUS
<1>1. CASE AdvanceFluid BY <1>1, AdvanceFluidKeeps
<1>2. CASE BorrowRadiationParticleState BY <1>2, BorrowKeeps
<1>3. CASE TransportSolve BY <1>3, TransportKeeps
<1>4. CASE MaterialSolve BY <1>4, MaterialKeeps
<1>5. CASE PreviewInterfaceExchangeDevice BY <1>5, PreviewKeeps
<1>6. CASE EnqueueSolid BY <1>6, SolidKeeps
<1>7. CASE ApplyParticleRadiationDeviceEnergy BY <1>7, ApplyKeeps
<1>8. CASE ResetWallLedgers BY <1>8, ResetKeeps
<1>9. CASE \E region \in Region : PublishResident(region) BY <1>9, PublishKeeps
<1>10. CASE MapSolidWallTemperatureToFluid BY <1>10, MapKeeps
<1>11. CASE RefreshParticleEnthalpy BY <1>11, RefreshKeeps
<1>12. CASE DownloadMirrors BY <1>12, MirrorKeeps
<1>13. CASE \E k \in pending : Execute(k) BY <1>13, ExecuteKeeps
<1>14. CASE UNCHANGED streamsVars
  <2>1. /\ stage' = stage /\ due' = due /\ threeRegion' = threeRegion /\ memory' = memory
        /\ awaited' = awaited /\ submitted' = submitted /\ misread' = misread
        /\ follows' = follows /\ program' = program /\ pending' = pending
    BY <1>14 DEF streamsVars, hostVars, deviceVars
  <2>2. Present' = Present BY <2>1 DEF Present
  <2> QED BY <2>1, <2>2 DEF StreamsInv
<1>15. CASE AllDone BY <1>15, <1>14 DEF AllDone
<1> QED BY <1>1, <1>2, <1>3, <1>4, <1>5, <1>6, <1>7, <1>8, <1>9, <1>10, <1>11, <1>12, <1>13,
           <1>14, <1>15 DEF StreamsNext

LEMMA StreamsInvariant == StreamsSpec => []StreamsInv
<1>1. StreamsInit => StreamsInv BY StreamsInitInv
<1>2. StreamsInv /\ [StreamsNext]_streamsVars => StreamsInv' BY StreamsNextInv
<1> QED BY <1>1, <1>2, PTL DEF StreamsSpec

\* However far the device is behind the host, every kernel of an exchange finds in the
\* buffers it uses, its own and those lent to its stream, what it would find if the host had
\* waited for each call; and when all have run, the device holds what the calls of
\* exchangeIfDue and persistAtWriteTime say in their order.
THEOREM KernelsFindTheirInputs == StreamsSpec => []AsIfSynchronous
<1>1. StreamsInv => AsIfSynchronous
  <2> SUFFICES ASSUME StreamsInv PROVE pending = {} => memory = program
    BY DEF AsIfSynchronous, StreamsInv
  <2> SUFFICES ASSUME pending = {} PROVE memory = program OBVIOUS
  <2>1. PICK s : s = Present OBVIOUS
  <2>2. s.program = program /\ s.pending = {} BY <2>1 DEF Present
  <2>3. s.program \in [Buffers -> Nat] /\ memory \in [Buffers -> Nat] /\ Expected(s, memory)
    BY <2>1 DEF StreamsInv, Sound, Submissions
  <2>4. \A b, n : Writers(b, n, {}) = {} BY DEF Writers
  <2>5. \A b \in Buffers : s.program[b] = memory[b] BY <2>2, <2>3, <2>4 DEF Expected, Leaves
  <2> QED BY <2>2, <2>3, <2>5
<1> QED BY <1>1, StreamsInvariant, PTL

\* The streams never wait for each other in a circle: as long as a kernel has not run,
\* there is one that may, whatever events its stream waits for.
THEOREM SomeKernelMayRun ==
  StreamsSpec => [](pending # {} => \E k \in pending : k.after \cap Unfinished = {})
<1>1. StreamsInv => (pending # {} => \E k \in pending : k.after \cap Unfinished = {})
  <2> SUFFICES ASSUME StreamsInv, pending # {}
               PROVE  \E k \in pending : k.after \cap Unfinished = {}
    OBVIOUS
  <2>1. pending \in SUBSET Kernels
    <3>1. Present.pending = pending BY DEF Present
    <3> QED BY <3>1 DEF StreamsInv, Sound, Submissions
  <2>2. \A k \in pending : k.number \in Nat /\ k.after \in SUBSET Nat
                           /\ \A n \in k.after : n < k.number
    BY <2>1 DEF Kernels
  <2>3. Unfinished \in SUBSET Nat /\ Unfinished # {} BY <2>2 DEF Unfinished
  <2>4. PICK first \in Unfinished : \A n \in Unfinished : first =< n BY <2>3, Least
  <2>5. PICK k \in pending : k.number = first BY <2>4 DEF Unfinished
  <2>6. ASSUME NEW n \in k.after, n \in Unfinished PROVE FALSE
    <3>1. n < first /\ first =< n /\ n \in Nat /\ first \in Nat BY <2>2, <2>3, <2>4, <2>5, <2>6
    <3> QED BY <3>1
  <2> QED BY <2>6
<1> QED BY <1>1, StreamsInvariant, PTL

\* Two kernels that may run at the same time have no buffer in common, not even to read,
\* whatever streams they are in.  So it loses nothing that a kernel is one step here,
\* though on the device it runs for a while and beside others.
THEOREM KernelsAtOnceShareNothing ==
  StreamsSpec => [](\A j, k \in pending :
                      /\ j # k
                      /\ j.after \cap Unfinished = {} /\ k.after \cap Unfinished = {}
                      => Uses(j) \cap Uses(k) = {})
<1>1. ASSUME StreamsInv, NEW j \in pending, NEW k \in pending, j.number < k.number,
             k.after \cap Unfinished = {}
      PROVE  Uses(j) \cap Uses(k) = {}
  <2>1. PICK s : s = Present OBVIOUS
  <2>2. s.pending = pending /\ Ordered(s) /\ s \in Submissions
    BY <2>1, <1>1 DEF Present, StreamsInv, Sound
  <2>3. k.after \in SUBSET Nat BY <2>2, <1>1 DEF Submissions, Kernels
  <2>4. \A i \in s.pending : i.number \notin k.after BY <2>2, <1>1 DEF Unfinished
  <2> SUFFICES ASSUME Uses(j) \cap Uses(k) # {} PROVE FALSE OBVIOUS
  <2>5. Behind(j.number, k.after, s.pending) BY <2>2, <1>1 DEF Ordered
  <2> QED BY <2>2, <2>3, <2>4, <2>5, <1>1, NoneAhead
<1>2. ASSUME StreamsInv, NEW j \in pending, NEW k \in pending, j # k
      PROVE  j.number < k.number \/ k.number < j.number
  <2>1. PICK s : s = Present OBVIOUS
  <2>2. s.pending = pending /\ Numbered(s) /\ s \in Submissions
    BY <2>1, <1>2 DEF Present, StreamsInv, Sound
  <2>3. j.number \in Nat /\ k.number \in Nat BY <2>2, <1>2 DEF Submissions, Kernels
  <2>4. j.number # k.number BY <2>2, <1>2 DEF Numbered
  <2> QED BY <2>3, <2>4
<1>3. StreamsInv => \A j, k \in pending :
                      /\ j # k
                      /\ j.after \cap Unfinished = {} /\ k.after \cap Unfinished = {}
                      => Uses(j) \cap Uses(k) = {}
  BY <1>1, <1>2
<1> QED BY <1>3, StreamsInvariant, PTL
============================================================================
