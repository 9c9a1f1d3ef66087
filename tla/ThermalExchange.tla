--------------------------- MODULE ThermalExchange ---------------------------
(***************************************************************************)
(* The heat that crosses the walls of CHT.  Gas and particles fill ledgers *)
(* on the device in every step, an exchange moves them to the solid when   *)
(* the coupling interval has passed, radiation joins every few exchanges,  *)
(* and a write saves what has been exchanged together with what has not,   *)
(* file by file.                                                           *)
(*                                                                         *)
(* Time is in ticks.  A ledger is the set of the ticks whose heat it       *)
(* holds; the solid and the particles count how often they have received   *)
(* the heat of each tick.                                                  *)
(***************************************************************************)
EXTENDS Integers, Sequences

CONSTANTS
  EndTime,        \* ticks of the whole run
  Durations,      \* the time steps that the Courant condition may give
  Interval,       \* solidContactCouplingInterval
  Frequency,      \* radiationCouplingFrequency
  WriteInterval,  \* of the fields, unless they are written at each exchange
  MaxRestarts     \* bound of the exploration

ASSUME ExchangeAssumption ==
  /\ EndTime \in Nat /\ Durations \subseteq 1 .. EndTime
  /\ Interval \in Nat \ {0} /\ Frequency \in Nat \ {0}
  /\ WriteInterval \in Nat \ {0} /\ MaxRestarts \in Nat

VARIABLES
  pc,         \* where the host is in its time loop
  config,     \* the case: when to write, where the solid is solved
  clock,      \* runTime: value() and writeTime()
  committed,  \* committedState() of the exchange
  ledger,     \* wall energies on the device, not exchanged yet
  fields,     \* gas and particles on the device
  solid,      \* what the solid has received, wherever it is solved
  advanced,   \* residentAdvanced_: the device has a newer solid than the host
  host,       \* fields and solid as OpenFOAM would write them
  unwritten,  \* the objects that runTime.write() has ahead of it
  disk,       \* time directories
  run,        \* the number of the process
  completed,  \* history: the times of the exchanges behind the state
  dropped,    \* history: ticks that a restart has left out of the ledgers
  overwritten,\* history: directories written into again, beside a ledger in them
  sound       \* history: nothing came from such a directory

vars == <<pc, config, clock, committed, ledger, fields, solid, advanced, host,
          unwritten, disk, run, completed, dropped, overwritten, sound>>
case == <<config, run, dropped, sound>>

Ticks == 1 .. EndTime
Ledgers == {"gas", "particle"}
Sources == Ledgers \union {"radiation"}
Objects == {"fields", "solid", "state"}
Parts == Objects \union {"mirrors", "temporary", "ledger"}
Absent == [absent |-> TRUE]

Nothing == [t \in Ticks |-> 0]
Received(counts, ticks) ==
  [t \in Ticks |-> counts[t] + IF t \in ticks THEN 1 ELSE 0]

----------------------------------------------------------------------------
(* Time directories.                                                       *)

EmptyDirectory == [p \in Parts |-> Absent]
Has(d, part) == disk[d][part] # Absent

\* What validateBeforeResidentInitialise, the reading of the fields and
\* restorePendingWallEnergyLedgers ask of a directory.  The first and the last
\* spare a run that has not exchanged yet the files of the device.
Accepted(d) ==
  /\ \A part \in Objects : Has(d, part)
  /\ ~disk[d]["state"].value.initialState => Has(d, "mirrors") /\ Has(d, "ledger")

InitialState ==
  [initialState |-> TRUE, exchangeSequence |-> 0, completedTime |-> 0,
   completedRadiation |-> 0, previousExchange |-> 0]
FreshSolid == [s \in Sources |-> Nothing]
FreshFields == [time |-> 0, heated |-> Nothing, wall |-> FreshSolid]

\* A file remembers which process wrote it, at which time and after what.
Lineage == [completed |-> completed, dropped |-> dropped, sound |-> sound]
File(content) == [run |-> run, time |-> clock.now, past |-> Lineage, value |-> content]
Prepared(content) ==
  [run |-> 0, time |-> 0, past |-> [completed |-> <<>>, dropped |-> {}, sound |-> TRUE],
   value |-> content]

\* A write has reached the directory of the clock, which may be that of an
\* earlier process.
Overwrites ==
  overwritten' = overwritten \union {d \in {clock.now} : Has(d, "ledger")}

\* The case as the user prepares it: fields, the solid, and an initial state.
PreparedCase ==
  [EmptyDirectory EXCEPT !["fields"] = Prepared(FreshFields),
                         !["solid"] = Prepared(FreshSolid),
                         !["state"] = Prepared(InitialState)]

----------------------------------------------------------------------------
(* The time loop.                                                          *)

Init ==
  /\ pc = "advance"
  /\ config \in [writeAtCoupling : BOOLEAN, resident : BOOLEAN]
  /\ clock = [now |-> 0, writeTime |-> FALSE]
  /\ committed = InitialState
  /\ ledger = [l \in Ledgers |-> {}]
  /\ fields = FreshFields
  /\ solid = FreshSolid
  /\ advanced = FALSE
  /\ host = [fields |-> FreshFields, solid |-> FreshSolid]
  /\ unwritten = {}
  /\ disk = [d \in 0 .. EndTime |-> IF d = 0 THEN PreparedCase ELSE EmptyDirectory]
  /\ run = 0
  /\ completed = <<>>
  /\ dropped = {}
  /\ overwritten = {}
  /\ sound = TRUE

\* runTime++ and advanceOneStep.  With writeAtThermalCoupling the interval of
\* ordinary writes is GREAT.
AdvanceOneStep ==
  /\ pc = "advance" /\ clock.now < EndTime
  /\ \E dt \in Durations :
       LET now == clock.now + dt IN
       /\ now <= EndTime
       /\ clock' = [now |-> now,
                    writeTime |-> ~config.writeAtCoupling
                      /\ now \div WriteInterval > clock.now \div WriteInterval]
       /\ ledger' = [l \in Ledgers |-> ledger[l] \union (clock.now + 1 .. now)]
       /\ fields' = [fields EXCEPT !.time = now]
  /\ pc' = "exchange"
  /\ UNCHANGED <<committed, solid, advanced, host, unwritten, disk, completed,
                 overwritten, case>>

ThermalEventIsDue(elapsed) == elapsed >= Interval

RadiationDueBefore(sequence) == (sequence - 1) % Frequency = 0
RadiationDue(sequence) == sequence % Frequency = 0

ResetGasOnly == [l \in Ledgers |-> IF l = "gas" THEN {} ELSE ledger[l]]
ResetLedgers == [l \in Ledgers |-> {}]

\* The ticks of an exchange: what the ledgers hold and, if it is due, all the
\* radiation since it was last exchanged.
Radiated(sequence) ==
  IF RadiationDue(sequence) THEN committed.completedRadiation + 1 .. clock.now ELSE {}

\* What the solid has then: the energies of the three ledgers it is advanced with.
SolidCandidate(radiated) ==
  [s \in Sources |-> Received(solid[s], IF s \in Ledgers THEN ledger[s] ELSE radiated)]

CommittedExchange(sequence) ==
  [initialState |-> FALSE, exchangeSequence |-> sequence, completedTime |-> clock.now,
   completedRadiation |-> IF RadiationDue(sequence)
     THEN clock.now ELSE committed.completedRadiation,
   previousExchange |-> committed.completedTime]

\* exchangeIfDue, when it is.  The solid is advanced, the particles cool by
\* what they radiated, the ledgers are emptied, and the gas gets the new
\* wall.  The host looks at the result only if it is about to write it.
Exchange ==
  /\ pc = "exchange"
  /\ ThermalEventIsDue(clock.now - committed.completedTime)
  /\ LET sequence == committed.exchangeSequence + 1
         radiated == Radiated(sequence)
         newSolid == SolidCandidate(radiated)
         newFields == [fields EXCEPT !.heated = Received(@, radiated), !.wall = newSolid]
     IN /\ solid' = newSolid
        /\ fields' = newFields
        /\ ledger' = ResetLedgers
        /\ advanced' = config.resident
        /\ host' = [fields |-> IF clock.writeTime THEN newFields ELSE host.fields,
                    solid |-> IF ~config.resident \/ clock.writeTime
                                THEN newSolid ELSE host.solid]
        /\ committed' = CommittedExchange(sequence)
  /\ completed' = Append(completed, clock.now)
  /\ pc' = IF clock.writeTime \/ config.writeAtCoupling THEN "persist" ELSE "advance"
  /\ UNCHANGED <<clock, unwritten, disk, overwritten, case>>

NotDue ==
  /\ pc = "exchange"
  /\ ~ThermalEventIsDue(clock.now - committed.completedTime)
  /\ pc' = IF clock.writeTime THEN "persist" ELSE "advance"
  /\ UNCHANGED <<clock, committed, ledger, fields, solid, advanced, host, unwritten,
                 disk, completed, overwritten, case>>

----------------------------------------------------------------------------
(* persistAtWriteTime, one file after another.                             *)

\* The mirrors that are not what the device has now.
DownloadedUnlessExchanged ==
  IF committed.completedTime # clock.now THEN fields ELSE host.fields
Downloaded ==
  IF config.writeAtCoupling \/ committed.completedTime # clock.now
    THEN fields ELSE host.fields
Published == IF advanced THEN solid ELSE host.solid

\* downloadToHostMirror, publishResident and stageThermalRestartMirrors.
StageMirrors ==
  /\ pc = "persist"
  /\ host' = [fields |-> Downloaded, solid |-> Published]
  /\ disk' = [disk EXCEPT ![clock.now]["mirrors"] = File(fields)]
  /\ Overwrites
  /\ pc' = "ledger"
  /\ UNCHANGED <<clock, committed, ledger, fields, solid, advanced, unwritten,
                 completed, case>>

\* writePendingWallEnergyTemporary, and the wall of the solid into the mirror.
WriteTemporary ==
  /\ pc = "ledger"
  /\ disk' = [disk EXCEPT ![clock.now]["temporary"] = File(ledger)]
  /\ host' = [host EXCEPT !.fields.wall = host.solid]
  /\ unwritten' = Objects
  /\ pc' = "write"
  /\ UNCHANGED <<clock, committed, ledger, fields, solid, advanced, completed,
                 overwritten, case>>

\* runTime.write() or writeNow(): the registered objects in no order to rely on.
WriteObject(part) ==
  /\ pc = "write" /\ part \in unwritten
  /\ LET content == CASE part = "fields" -> host.fields
                      [] part = "solid" -> host.solid
                      [] part = "state" -> committed
     IN disk' = [disk EXCEPT ![clock.now][part] = File(content)]
  /\ unwritten' = unwritten \ {part}
  /\ pc' = IF unwritten' = {} THEN "commit" ELSE "write"
  /\ UNCHANGED <<clock, committed, ledger, fields, solid, advanced, host, completed,
                 overwritten, case>>

\* commitManifestAtomically: the new ledger gets its name, in a directory that
\* has none.
NameLedger ==
  disk' = [disk EXCEPT ![clock.now]["ledger"] = disk[clock.now]["temporary"],
                       ![clock.now]["temporary"] = Absent]

CommitOrGoOn ==
  /\ pc = "commit"
  /\ pc' = "advance"
  /\ IF Has(clock.now, "ledger") THEN UNCHANGED disk ELSE NameLedger
  /\ UNCHANGED <<clock, committed, ledger, fields, solid, advanced, host, unwritten,
                 completed, overwritten, case>>

\* renameat2 refuses to replace a ledger that is there, and the program ends.
CommitManifest ==
  /\ pc = "commit"
  /\ \/ Has(clock.now, "ledger") /\ pc' = "dead" /\ UNCHANGED disk
     \/ ~Has(clock.now, "ledger") /\ pc' = "advance" /\ NameLedger
  /\ UNCHANGED <<clock, committed, ledger, fields, solid, advanced, host, unwritten,
                 completed, overwritten, case>>

----------------------------------------------------------------------------
(* Failures.                                                               *)

\* The files being written at pc; a file cut short is one that cannot be read.
Torn ==
  CASE pc = "persist" -> {"mirrors"}
    [] pc = "ledger" -> {"temporary"}
    [] pc = "write" -> unwritten
    [] OTHER -> {}

\* The process is killed, or a call fails and ends it.
Crash ==
  /\ pc # "dead" /\ run < MaxRestarts
  /\ pc' = "dead"
  /\ \/ UNCHANGED <<disk, overwritten>>
     \/ \E part \in Torn :
          disk' = [disk EXCEPT ![clock.now][part] = Absent] /\ Overwrites
  /\ UNCHANGED <<clock, committed, ledger, fields, solid, advanced, host, unwritten,
                 completed, case>>

\* restorePendingWallEnergyLedgers: a run that has not exchanged does without the file.
RestoredLedger(d) ==
  IF Has(d, "ledger") THEN disk[d]["ledger"].value ELSE [l \in Ledgers |-> {}]

\* The state of a process that starts from a directory.  The wall of the gas is
\* that of the solid.
ResumeFrom(d) ==
  LET saved == disk[d]
      particles == IF Has(d, "mirrors") THEN saved["mirrors"].value
                                        ELSE saved["fields"].value
  IN /\ clock' = [now |-> d, writeTime |-> FALSE]
     /\ committed' = saved["state"].value
     /\ ledger' = RestoredLedger(d)
     /\ fields' = [particles EXCEPT !.wall = saved["solid"].value]
     /\ solid' = saved["solid"].value
     /\ host' = [fields |-> [saved["fields"].value EXCEPT !.wall = saved["solid"].value],
                 solid |-> saved["solid"].value]
     /\ completed' = saved["state"].past.completed
     /\ dropped' = IF Has(d, "ledger") THEN saved["state"].past.dropped ELSE 1 .. d
     /\ sound' = (saved["state"].past.sound /\ d \notin overwritten)

\* What the user does with the directories after the one he starts from.
KeepLater == UNCHANGED <<disk, overwritten>>
RemoveLater(d) ==
  /\ disk' = [e \in 0 .. EndTime |-> IF e > d THEN EmptyDirectory ELSE disk[e]]
  /\ overwritten' = overwritten \intersect (0 .. d)

\* A new process, at runTime.timePath(): startFrom and startTime of the case name
\* any directory, and nothing asks whether there is a later one.
Restart ==
  /\ pc = "dead" /\ run < MaxRestarts
  /\ \E d \in 0 .. EndTime :
       Accepted(d) /\ ResumeFrom(d) /\ (KeepLater \/ RemoveLater(d))
  /\ run' = run + 1
  /\ advanced' = FALSE
  /\ unwritten' = {}
  /\ pc' = "advance"
  /\ UNCHANGED config

Done ==
  /\ \/ pc = "advance" /\ clock.now = EndTime
     \/ pc = "dead" /\ run = MaxRestarts
  /\ UNCHANGED vars

Next ==
  \/ AdvanceOneStep \/ Exchange \/ NotDue
  \/ StageMirrors \/ WriteTemporary \/ CommitManifest
  \/ \E part \in Objects : WriteObject(part)
  \/ Crash \/ Restart \/ Done

Spec == Init /\ [][Next]_vars

----------------------------------------------------------------------------
(* Properties.                                                             *)

Once(counts, ticks) == \A t \in Ticks : counts[t] = IF t \in ticks THEN 1 ELSE 0

\* Every tick's heat is with the solid or in the ledger it fell into, once and in
\* one of the two, however often the run was cut and from wherever it was
\* resumed; only what had gathered before the first exchange can be lost.  What
\* radiation brought the solid is what the particles have lost.  It is so
\* unless the run goes back to a directory that one process has committed and a
\* later one has written into.
EnergyAccounted ==
  sound =>
    /\ \A l \in Ledgers :
         Once(solid[l], (1 .. clock.now) \ (ledger[l] \union dropped))
           /\ ledger[l] \subseteq (1 .. clock.now) \ dropped
    /\ Once(solid["radiation"], 1 .. committed.completedRadiation)
    /\ fields.heated = solid["radiation"]
    /\ completed # <<>> => \A t \in dropped : t < completed[1]

\* What a directory with its ledger says adds up: no tick is both in the ledger and
\* with the solid, the solid is the one of the saved state, and the fields are
\* not older.
AddsUp(saved, d) ==
  /\ \A l \in Ledgers, t \in 1 .. d : t \notin saved["ledger"].past.dropped =>
       saved["solid"].value[l][t] + (IF t \in saved["ledger"].value[l] THEN 1 ELSE 0) = 1
  /\ Once(saved["solid"].value["radiation"], 1 .. saved["state"].value.completedRadiation)
  /\ saved["fields"].value.heated = saved["solid"].value["radiation"]

\* Once its ledger has its name a directory holds the files of one write of one
\* process, and they add up, until a later process writes into it.  That one
\* cannot go on: a process leaves no directory behind with files of its own and
\* without its own ledger.
SavedIsWhole ==
  /\ \A d \in (0 .. EndTime) \ overwritten : Has(d, "ledger") =>
       LET saved == disk[d] IN
       /\ \A part \in Parts \ {"temporary"} :
            Has(d, part) /\ saved[part].run = saved["ledger"].run /\ saved[part].time = d
       /\ saved["fields"].value = saved["mirrors"].value
       /\ saved["fields"].value.time = d
       /\ saved["fields"].value.wall = saved["solid"].value
       /\ saved["ledger"].past.sound => AddsUp(saved, d)
  /\ pc \in {"advance", "exchange"} =>
       \A d \in 1 .. EndTime : (\E part \in Parts : Has(d, part) /\ disk[d][part].run = run)
         => Has(d, "ledger") /\ disk[d]["ledger"].run = run

\* No step begins with an exchange overdue or under a wall older than the last
\* exchange, and radiation has been exchanged with every Frequency-th exchange of
\* the whole run, from wherever it was resumed.
ScheduleKept ==
  pc = "advance" =>
    LET n == Len(completed)
        last == n - (n % Frequency)
    IN /\ clock.now - committed.completedTime < Interval
       /\ fields.wall = solid
       /\ committed.completedTime = IF n = 0 THEN 0 ELSE completed[n]
       /\ committed.completedRadiation = IF last = 0 THEN 0 ELSE completed[last]
============================================================================
