-------------------------- MODULE ParticleInjection --------------------------
(***************************************************************************)
(* Boundary injection of parcels (common/operators/                        *)
(* injectBoundaryParticlesKernel.cuh).  One GPU thread per boundary source *)
(* turns the mass that flowed in during a step into parcels of a fixed     *)
(* mass.  The threads share one counter, *particleCountDevice: a parcel is *)
(* placed in the slot an atomicAdd on it returns, and a thread that is     *)
(* handed a slot past the end of the array gives its increment back with   *)
(* an atomicSub and stops.  Between two launches the rest of the time step *)
(* removes parcels and compacts the survivors into a prefix of the array.  *)
(***************************************************************************)
EXTENDS Integers, FiniteSets

CONSTANTS
  Sources,     (* the boundary sources, one thread each                      *)
  Capacity,    (* particleCapacity, the length of every particle array       *)
  ParcelMass,  (* injectionParcelMass, in units of mass                      *)
  Inflows,     (* the values rate*dt can take in a step; 0: source inactive  *)
  MaxSteps     (* bound: number of time steps the model runs                 *)

ASSUME SourcesAssumption  == IsFiniteSet(Sources)
ASSUME CapacityAssumption == Capacity \in Nat
ASSUME MassAssumption     == ParcelMass \in Nat \ {0}
ASSUME InflowsAssumption  == Inflows \subseteq Nat
ASSUME StepsAssumption    == MaxSteps \in Nat

VARIABLES
  count,      (* *particleCountDevice                                        *)
  particles,  (* the array: slot -> identity (pOrigId) of the parcel in it   *)
  residual,   (* sourceResidualMass                                          *)
  pc,         (* where each source's thread is                               *)
  slot,       (* the slot its last atomicAdd returned                        *)
  available,  (* the kernel's local of that name                             *)
  left,       (* nNew - k, the parcels it has still to create                *)
  consumed,   (* the kernel's local of that name                             *)
  supplied,   (* history: mass that ever flowed in at each source            *)
  issued,     (* history: mass each source ever turned into parcels          *)
  step        (* time steps completed                                        *)

kernelVars == <<slot, available, left, consumed>>
historyVars == <<supplied, issued>>
vars == <<count, particles, residual, pc, kernelVars, historyVars, step>>

Slots == 0 .. Capacity - 1

\* pOrigId: (source << 40) ^ slot.  The two fields do not overlap for any
\* capacity a GPU can hold, so the identity is the pair.
Identity == Sources \X Slots
Free == <<>>

Occupied  == {s \in Slots : particles[s] # Free}
Writers   == {j \in Sources : pc[j] = "write"}
Refused   == {j \in Sources : pc[j] = "undo"}
Claimed   == {slot[j] : j \in Writers}

Goto(j, label) == pc' = [pc EXCEPT ![j] = label]

Init ==
  /\ count = 0
  /\ particles = [s \in Slots |-> Free]
  /\ residual  = [j \in Sources |-> 0]
  /\ pc        = [j \in Sources |-> "idle"]
  /\ slot      = [j \in Sources |-> 0]
  /\ available = [j \in Sources |-> 0]
  /\ left      = [j \in Sources |-> 0]
  /\ consumed  = [j \in Sources |-> 0]
  /\ supplied  = [j \in Sources |-> 0]
  /\ issued    = [j \in Sources |-> 0]
  /\ step = 0

-----------------------------------------------------------------------------
(***************************************************************************)
(* Plausible mistakes in the kernel, each of which a property below has to *)
(* notice when it takes the place of the operation it is named after.      *)
(***************************************************************************)
\* slot > capacity instead of slot >= capacity.
ClaimPastEnd(j) ==
  /\ pc[j] = "claim"
  /\ slot' = [slot EXCEPT ![j] = count]
  /\ count' = count + 1
  /\ Goto(j, IF count > Capacity THEN "undo" ELSE "write")
  /\ UNCHANGED <<particles, residual, available, left, consumed, historyVars, step>>

\* The test is made on the incremented counter instead of the returned slot.
ClaimTestingAfter(j) ==
  /\ pc[j] = "claim"
  /\ slot' = [slot EXCEPT ![j] = count]
  /\ count' = count + 1
  /\ Goto(j, IF count + 1 >= Capacity THEN "undo" ELSE "write")
  /\ UNCHANGED <<particles, residual, available, left, consumed, historyVars, step>>

\* The refused claim is not given back.
UndoForgotten(j) ==
  /\ pc[j] = "undo"
  /\ Goto(j, "store")
  /\ UNCHANGED <<count, particles, residual, kernelVars, historyVars, step>>

\* continue instead of break, without using up one of the nNew iterations.
UndoAndRetry(j) ==
  /\ pc[j] = "undo"
  /\ count' = count - 1
  /\ Goto(j, "claim")
  /\ UNCHANGED <<particles, residual, kernelVars, historyVars, step>>

\* available - nNew*injectionParcelMass: forgets that the loop may be cut short.
StoreAsIfAllCreated(j) ==
  /\ pc[j] = "store"
  /\ residual' = [residual EXCEPT ![j] = available[j] % ParcelMass]
  /\ Goto(j, "done")
  /\ UNCHANGED <<count, particles, kernelVars, historyVars, step>>

-----------------------------------------------------------------------------
(***************************************************************************)
(* The kernel, one thread's steps between two accesses to shared memory.   *)
(***************************************************************************)

\* The early returns that leave the residual as it was: no storage, or a
\* source whose rate is not positive.
Skip(j) ==
  /\ pc[j] = "idle"
  /\ Capacity = 0 \/ 0 \in Inflows
  /\ Goto(j, "done")
  /\ UNCHANGED <<count, particles, residual, kernelVars, historyVars, step>>

\* Less than one parcel's mass is available: keep it for the next step.
Accumulate(j, inflow) ==
  /\ pc[j] = "idle"
  /\ Capacity > 0
  /\ inflow > 0
  /\ residual[j] + inflow < ParcelMass
  /\ residual' = [residual EXCEPT ![j] = @ + inflow]
  /\ supplied' = [supplied EXCEPT ![j] = @ + inflow]
  /\ Goto(j, "done")
  /\ UNCHANGED <<count, particles, kernelVars, issued, step>>

\* nNew = floor(available/injectionParcelMass) parcels are to be created.
Begin(j, inflow) ==
  /\ pc[j] = "idle"
  /\ Capacity > 0
  /\ inflow > 0
  /\ residual[j] + inflow >= ParcelMass
  /\ available' = [available EXCEPT ![j] = residual[j] + inflow]
  /\ left'      = [left EXCEPT ![j] = (residual[j] + inflow) \div ParcelMass]
  /\ consumed'  = [consumed EXCEPT ![j] = 0]
  /\ supplied'  = [supplied EXCEPT ![j] = @ + inflow]
  /\ Goto(j, "claim")
  /\ UNCHANGED <<count, particles, residual, slot, issued, step>>

\* slot = atomicAdd(particleCountDevice, 1), and the test on what it returned.
Claim(j) ==
  /\ pc[j] = "claim"
  /\ slot' = [slot EXCEPT ![j] = count]
  /\ count' = count + 1
  /\ Goto(j, IF count >= Capacity THEN "undo" ELSE "write")
  /\ UNCHANGED <<particles, residual, available, left, consumed, historyVars, step>>

\* atomicSub(particleCountDevice, 1); break.
Undo(j) ==
  /\ pc[j] = "undo"
  /\ count' = count - 1
  /\ Goto(j, "store")
  /\ UNCHANGED <<particles, residual, kernelVars, historyVars, step>>

\* The parcel's fields are written to the claimed slot.
Write(j) ==
  /\ pc[j] = "write"
  /\ particles' = [particles EXCEPT ![slot[j]] = <<j, slot[j]>>]
  /\ consumed' = [consumed EXCEPT ![j] = @ + ParcelMass]
  /\ left' = [left EXCEPT ![j] = @ - 1]
  /\ issued' = [issued EXCEPT ![j] = @ + ParcelMass]
  /\ Goto(j, IF left[j] > 1 THEN "claim" ELSE "store")
  /\ UNCHANGED <<count, residual, slot, available, supplied, step>>

\* sourceResidualMass[j] = available - consumed.
Store(j) ==
  /\ pc[j] = "store"
  /\ residual' = [residual EXCEPT ![j] = available[j] - consumed[j]]
  /\ Goto(j, "done")
  /\ UNCHANGED <<count, particles, kernelVars, historyVars, step>>

-----------------------------------------------------------------------------
KernelDone == \A j \in Sources : pc[j] = "done"

\* The rest of the time step, in stream order after the kernel: tracking may
\* remove any parcel, and the compaction copies the survivors, in the order of
\* the cell directory, to the front of the other buffer and commits its count.
Compact(n, from) ==
  /\ KernelDone
  /\ step < MaxSteps
  /\ n <= count
  /\ \A s, t \in 0 .. n - 1 : from[s] = from[t] => s = t
  /\ \A s \in 0 .. n - 1 : from[s] < count
  /\ count' = n
  /\ particles' = [s \in Slots |-> IF s < n THEN particles[from[s]] ELSE Free]
  /\ pc' = [j \in Sources |-> "idle"]
  /\ step' = step + 1
  /\ UNCHANGED <<residual, kernelVars, historyVars>>

Thread(j) ==
  \/ Skip(j)
  \/ \E inflow \in Inflows : Accumulate(j, inflow) \/ Begin(j, inflow)
  \/ Claim(j)
  \/ Undo(j)
  \/ Write(j)
  \/ Store(j)

\* The run is over: the launch of the last step has returned.
Finished ==
  /\ KernelDone
  /\ step = MaxSteps
  /\ UNCHANGED vars

Next ==
  \/ \E j \in Sources : Thread(j)
  \/ \E n \in 0 .. Capacity : \E from \in [0 .. n - 1 -> Slots] : Compact(n, from)
  \/ Finished

\* The GPU schedules every resident thread of a launch until it returns.
Spec == Init /\ [][Next]_vars /\ \A j \in Sources : WF_vars(Thread(j))

-----------------------------------------------------------------------------
\* Types, and the range of the shared counter: it may exceed the capacity by
\* one for every thread that has been refused and has not undone its claim.
TypeOK ==
  /\ count \in 0 .. Capacity + Cardinality(Sources)
  /\ particles \in [Slots -> Identity \cup {Free}]
  /\ residual \in [Sources -> Nat]
  /\ pc \in [Sources -> {"idle", "claim", "write", "undo", "store", "done"}]
  /\ slot \in [Sources -> Nat]
  /\ available \in [Sources -> Nat]
  /\ left \in [Sources -> Nat]
  /\ consumed \in [Sources -> Nat]
  /\ supplied \in [Sources -> Nat]
  /\ issued \in [Sources -> Nat]
  /\ step \in 0 .. MaxSteps

\* No two threads write parcels to one slot, and no thread overwrites a parcel
\* or writes past the array, however the claims interleave with the undone ones.
SlotsExclusive ==
  \A j \in Writers :
    /\ slot[j] < Capacity
    /\ particles[slot[j]] = Free
    /\ \A i \in Writers : slot[i] = slot[j] => i = j

\* When the kernel has finished, the counter later kernels read is exactly the
\* number of parcels, within the capacity, and they fill a prefix of the array:
\* the transient increments of the refused claims have left no trace.
PrefixAtLaunchEnd ==
  KernelDone => /\ count <= Capacity
                /\ Occupied = 0 .. count - 1

\* A claim is refused only when every slot holds, or is about to hold, a
\* parcel: an increment not yet undone by another thread never costs a parcel.
RefusedOnlyWhenFull ==
  Refused # {} => Occupied \cup Claimed = Slots

\* No mass is lost or made: what a source received is what it turned into
\* parcels plus its residual, also when the capacity cut its loop short.
MassConserved ==
  \A j \in Sources :
    pc[j] \in {"idle", "done"} => residual[j] + issued[j] = supplied[j]

\* Every launch of the kernel terminates.
LaunchTerminates ==
  \A j \in Sources : pc[j] # "done" ~> pc[j] = "done"

\* tool/CHT/refine_particle_cells.py rejects a restart in which two parcels
\* have one origId.  The injection derives it from source and slot alone, and
\* compaction frees slots.
OrigIdsDistinct ==
  \A s, t \in Occupied : particles[s] = particles[t] => s = t

=============================================================================
