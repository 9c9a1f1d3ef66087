--------------------------- MODULE Particles_proofs ---------------------------
(***************************************************************************)
(* Proofs about the particles of the resident back ends.                   *)
(*                                                                         *)
(* ParticleInjection: for every set of sources, capacity, parcel mass and  *)
(* inflow, its safety properties.  The inductive invariant says what the   *)
(* shared counter is made of: *Base* slots that hold or are about to hold  *)
(* a parcel, and one transient increment per refused thread, which can     *)
(* only exist once the array is full.                                      *)
(*                                                                         *)
(* ParticlePhase: for every set of configurations and time steps and any   *)
(* number of steps, its safety properties.  Of the operations that are     *)
(* submitted and not yet executed the invariant says that they lead        *)
(* (Leads) from the device as it is to the device that the host takes it   *)
(* to be: each operation has a set of devices that it may find, on all of  *)
(* which it is safe, and whose successors the next one may find.  The      *)
(* lemmas go through the functions of the host in the order of their       *)
(* calls, and say for each what the operations that it adds lead to.       *)
(***************************************************************************)
EXTENDS MCParticles, FiniteSetTheorems, Sequences, TLAPS


Base == count - Cardinality(Refused)

\* The types of the variables, without the bound on the counter.
Types ==
  /\ count \in Int
  /\ particles \in [Slots -> Identity \cup {Free}]
  /\ residual \in [Sources -> Nat]
  /\ pc \in [Sources -> {"idle", "claim", "write", "undo", "store", "done"}]
  /\ slot \in [Sources -> Nat]
  /\ available \in [Sources -> Nat]
  /\ left \in [Sources -> Nat]
  /\ consumed \in [Sources -> Nat]
  /\ supplied \in [Sources -> Nat]
  /\ issued \in [Sources -> Nat]
  /\ step \in 0 .. MaxSteps

\* The counter, less the increments in flight, delimits the used prefix.
Prefix ==
  /\ Base \in 0 .. Capacity
  /\ Refused # {} => Base = Capacity
  /\ Occupied \cup Claimed = 0 .. Base - 1

\* The parcels a thread has still to create are covered by its mass, and what
\* it holds is what came in less what it has turned into parcels.
Mass ==
  \A j \in Sources :
    /\ pc[j] \in {"claim", "write"} => left[j] >= 1
    /\ pc[j] \in {"claim", "write", "undo", "store"} =>
         /\ consumed[j] + left[j] * ParcelMass <= available[j]
         /\ available[j] - consumed[j] + issued[j] = supplied[j]
    /\ pc[j] \in {"idle", "done"} => residual[j] + issued[j] = supplied[j]

IInv == Types /\ Prefix /\ SlotsExclusive /\ Mass

-----------------------------------------------------------------------------
\* The refused threads are finitely many, at most all of them.
LEMMA RefusedFinite ==
  /\ IsFiniteSet(Refused)
  /\ Cardinality(Refused) \in 0 .. Cardinality(Sources)
  /\ Cardinality(Refused) = 0 <=> Refused = {}
<1>1. Refused \subseteq Sources
  BY DEF Refused
<1>2. IsFiniteSet(Sources) /\ IsFiniteSet(Refused)
  BY <1>1, FS_Subset, SourcesAssumption
<1>3. Cardinality(Refused) <= Cardinality(Sources) /\ Cardinality(Refused) \in Nat
  BY <1>1, <1>2, FS_Subset, FS_CardinalityType
<1>4. Cardinality(Refused) = 0 <=> Refused = {}
  BY <1>2, FS_EmptySet
<1> QED
  BY <1>2, <1>3, <1>4, FS_CardinalityType, SourcesAssumption

\* floor(available/injectionParcelMass) parcels do not weigh more than available.
LEMMA FloorCovers ==
  ASSUME NEW mass \in Nat
  PROVE  /\ mass \div ParcelMass \in Nat
         /\ (mass \div ParcelMass) * ParcelMass <= mass
         /\ mass >= ParcelMass => mass \div ParcelMass >= 1
  BY MassAssumption, Z3

LEMMA InitIInv == Init => IInv
<1> SUFFICES ASSUME Init PROVE IInv
  OBVIOUS
<1>1. Types
  BY StepsAssumption DEF Init, Types
<1>2. Refused = {} /\ Writers = {} /\ Occupied = {}
  BY DEF Init, Refused, Writers, Occupied, Slots
<1>3. Prefix
  BY <1>2, RefusedFinite, CapacityAssumption DEF Init, Prefix, Base, Claimed
<1>4. SlotsExclusive
  BY <1>2 DEF SlotsExclusive
<1>5. Mass
  BY DEF Init, Mass
<1> QED
  BY <1>1, <1>3, <1>4, <1>5 DEF IInv

-----------------------------------------------------------------------------
(***************************************************************************)
(* Steps that neither claim, give back nor fill a slot.                    *)
(***************************************************************************)
\* The threads at the two places that matter for the counter are the same.
LEMMA SlotsUntouched ==
  ASSUME IInv,
         Refused' = Refused, Writers' = Writers,
         UNCHANGED <<count, particles, slot>>
  PROVE  Prefix' /\ SlotsExclusive'
  BY DEF IInv, Prefix, SlotsExclusive, Base, Occupied, Claimed

\* A thread that moves between other places than "write" and "undo".
LEMMA MovedElsewhere ==
  ASSUME IInv, NEW j \in Sources, NEW to \in {"idle", "claim", "store", "done"},
         pc[j] \in {"idle", "claim", "store", "done"}, Goto(j, to)
  PROVE  Refused' = Refused /\ Writers' = Writers
  BY DEF IInv, Types, Goto, Refused, Writers

LEMMA SkipIInv == ASSUME IInv, NEW j \in Sources, Skip(j) PROVE IInv'
<1>1. Types'
  BY DEF Skip, Goto, kernelVars, historyVars, IInv, Types
<1>2. Prefix' /\ SlotsExclusive'
  BY MovedElsewhere, SlotsUntouched DEF Skip, kernelVars
<1>3. Mass'
  BY DEF Skip, Goto, kernelVars, historyVars, IInv, Types, Mass
<1> QED
  BY <1>1, <1>2, <1>3 DEF IInv

LEMMA AccumulateIInv ==
  ASSUME IInv, NEW j \in Sources, NEW inflow \in Inflows, Accumulate(j, inflow)
  PROVE  IInv'
<1>1. inflow \in Nat
  BY InflowsAssumption
<1>2. Types'
  BY <1>1 DEF Accumulate, Goto, kernelVars, IInv, Types
<1>3. Prefix' /\ SlotsExclusive'
  BY MovedElsewhere, SlotsUntouched DEF Accumulate, kernelVars
<1>4. Mass'
  BY <1>1 DEF Accumulate, Goto, kernelVars, IInv, Types, Mass
<1> QED
  BY <1>2, <1>3, <1>4 DEF IInv

LEMMA BeginIInv ==
  ASSUME IInv, NEW j \in Sources, NEW inflow \in Inflows, Begin(j, inflow)
  PROVE  IInv'
<1> DEFINE mass == residual[j] + inflow
<1>1. inflow \in Nat /\ mass \in Nat /\ mass >= ParcelMass
  BY InflowsAssumption DEF Begin, IInv, Types
<1>2. /\ mass \div ParcelMass \in Nat
      /\ (mass \div ParcelMass) * ParcelMass <= mass
      /\ mass \div ParcelMass >= 1
  BY <1>1, FloorCovers
<1>3. Types'
  BY <1>1, <1>2 DEF Begin, Goto, IInv, Types
<1>4. Prefix' /\ SlotsExclusive'
  BY MovedElsewhere, SlotsUntouched DEF Begin
<1>5. Mass'
  <2> SUFFICES ASSUME NEW i \in Sources
               PROVE  /\ pc'[i] \in {"claim", "write"} => left'[i] >= 1
                      /\ pc'[i] \in {"claim", "write", "undo", "store"} =>
                           /\ consumed'[i] + left'[i] * ParcelMass <= available'[i]
                           /\ available'[i] - consumed'[i] + issued'[i] = supplied'[i]
                      /\ pc'[i] \in {"idle", "done"} => residual'[i] + issued'[i] = supplied'[i]
    BY DEF Mass
  <2>1. CASE i = j
    <3>1. /\ pc'[i] = "claim" /\ consumed'[i] = 0 /\ available'[i] = mass
          /\ left'[i] = mass \div ParcelMass
          /\ supplied'[i] = supplied[i] + inflow /\ issued'[i] = issued[i]
      BY <2>1 DEF Begin, Goto, IInv, Types
    <3>2. residual[i] + issued[i] = supplied[i]
      BY <2>1 DEF Begin, IInv, Mass
    <3>3. /\ left'[i] >= 1 /\ left'[i] \in Nat
          /\ left'[i] * ParcelMass <= mass
      BY <1>2, <3>1
    <3>4. residual[i] \in Nat /\ issued[i] \in Nat /\ supplied[i] \in Nat
      BY DEF IInv, Types
    <3>5. left'[i] * ParcelMass \in Nat
      BY <3>3, MassAssumption
    <3>6. consumed'[i] + left'[i] * ParcelMass <= available'[i]
      BY <1>1, <3>1, <3>3, <3>5
    <3> HIDE DEF mass
    <3>7. mass = residual[i] + inflow
      BY <2>1 DEF mass
    <3> QED
      BY <1>1, <3>1, <3>2, <3>3, <3>4, <3>6, <3>7
  <2>2. CASE i # j
    <3>1. /\ pc'[i] = pc[i] /\ consumed'[i] = consumed[i] /\ available'[i] = available[i]
          /\ left'[i] = left[i] /\ supplied'[i] = supplied[i] /\ issued'[i] = issued[i]
          /\ residual'[i] = residual[i]
      BY <2>2 DEF Begin, Goto, IInv, Types
    <3> QED
      BY <3>1 DEF IInv, Mass
  <2> QED
    BY <2>1, <2>2
<1> QED
  BY <1>3, <1>4, <1>5 DEF IInv

LEMMA StoreIInv == ASSUME IInv, NEW j \in Sources, Store(j) PROVE IInv'
<1>1. available[j] - consumed[j] \in Nat
  <2>1. left[j] * ParcelMass \in Nat
    BY MassAssumption DEF IInv, Types
  <2> QED
    BY <2>1 DEF Store, IInv, Types, Mass
<1>2. Types'
  BY <1>1 DEF Store, Goto, kernelVars, historyVars, IInv, Types
<1>3. Prefix' /\ SlotsExclusive'
  BY MovedElsewhere, SlotsUntouched DEF Store, kernelVars
<1>4. Mass'
  BY <1>1 DEF Store, Goto, kernelVars, historyVars, IInv, Types, Mass
<1> QED
  BY <1>2, <1>3, <1>4 DEF IInv

-----------------------------------------------------------------------------
(***************************************************************************)
(* Steps on the shared counter and the slots.                              *)
(***************************************************************************)
\* A refused claim leaves one more increment in flight, over a full array; an
\* accepted one finds nobody refused, so the slot it gets is the next free one.
LEMMA ClaimIInv == ASSUME IInv, NEW j \in Sources, Claim(j) PROVE IInv'
<1>1. /\ pc[j] = "claim" /\ count \in Int /\ Capacity \in Nat
      /\ Base \in 0 .. Capacity /\ (Refused # {} => Base = Capacity)
      /\ Occupied \cup Claimed = 0 .. Base - 1
  BY CapacityAssumption DEF Claim, IInv, Types, Prefix
<1>2. IsFiniteSet(Refused) /\ Cardinality(Refused) \in Nat
      /\ (Cardinality(Refused) = 0 <=> Refused = {})
  BY RefusedFinite
<1>3. count \in Nat
  BY <1>1, <1>2 DEF Base
<1>4. Types'
  BY <1>3 DEF Claim, Goto, historyVars, IInv, Types
<1>5. Mass'
  BY DEF Claim, Goto, historyVars, IInv, Types, Mass
<1>6. Occupied' = Occupied /\ count' = count + 1
  BY DEF Claim, Occupied
<1>7. CASE count >= Capacity
  <2>1. Base = Capacity
    BY <1>1, <1>2, <1>7 DEF Base
  <2>2. Refused' = Refused \cup {j} /\ j \notin Refused /\ Writers' = Writers /\ j \notin Writers
    BY <1>1, <1>7 DEF Claim, Goto, Refused, Writers, IInv, Types
  <2>3. Cardinality(Refused') = Cardinality(Refused) + 1
    BY <1>2, <2>2, FS_AddElement
  <2>4. Base' = Base
    BY <1>1, <1>2, <1>6, <2>3 DEF Base
  <2>5. \A i \in Writers : slot'[i] = slot[i]
    BY <2>2 DEF Claim, Writers, IInv, Types
  <2>6. Claimed' = Claimed
    BY <2>2, <2>5 DEF Claimed
  <2>7. Prefix'
    BY <1>1, <1>6, <2>1, <2>4, <2>6 DEF Prefix
  <2>8. SlotsExclusive'
    BY <2>2, <2>5 DEF Claim, IInv, SlotsExclusive
  <2> QED
    BY <1>4, <1>5, <2>7, <2>8 DEF IInv
<1>8. CASE count < Capacity
  <2>1. Refused = {} /\ Base = count
    BY <1>1, <1>2, <1>8 DEF Base
  <2>2. Refused' = {} /\ Writers' = Writers \cup {j} /\ j \notin Writers
    BY <1>1, <1>3, <1>8, <2>1 DEF Claim, Goto, Refused, Writers, IInv, Types
  <2>3. Base' = count + 1
    BY <1>6, <2>2, FS_EmptySet DEF Base
  <2>4. slot'[j] = count /\ \A i \in Writers : slot'[i] = slot[i]
    BY <2>2 DEF Claim, Writers, IInv, Types
  <2>5. Claimed' = Claimed \cup {count}
    BY <2>2, <2>4 DEF Claimed
  <2>6. Occupied' \cup Claimed' = 0 .. Base' - 1
    BY <1>1, <1>3, <1>6, <2>1, <2>3, <2>5
  <2>7. Prefix'
    BY <1>1, <1>3, <1>8, <2>2, <2>3, <2>6 DEF Prefix
  <2>8. count \notin Occupied \cup Claimed /\ count \in Slots
    BY <1>1, <1>3, <1>8, <2>1 DEF Slots
  <2>9. SlotsExclusive'
    BY <1>3, <1>8, <2>2, <2>4, <2>8 DEF Claim, IInv, SlotsExclusive, Claimed, Occupied
  <2> QED
    BY <1>4, <1>5, <2>7, <2>9 DEF IInv
<1> QED
  BY <1>1, <1>7, <1>8

LEMMA UndoIInv == ASSUME IInv, NEW j \in Sources, Undo(j) PROVE IInv'
<1>1. /\ pc[j] = "undo" /\ count \in Int /\ Base \in 0 .. Capacity
      /\ Base = Capacity /\ Occupied \cup Claimed = 0 .. Base - 1
  BY DEF Undo, IInv, Types, Prefix, Refused
<1>2. IsFiniteSet(Refused) /\ Cardinality(Refused) \in Nat
  BY RefusedFinite
<1>3. Refused' = Refused \ {j} /\ j \in Refused /\ Writers' = Writers
  BY <1>1 DEF Undo, Goto, Refused, Writers, IInv, Types
<1>4. Cardinality(Refused') = Cardinality(Refused) - 1
  BY <1>2, <1>3, FS_RemoveElement
<1>5. Base' = Base
  BY <1>1, <1>2, <1>4 DEF Undo, Base
<1>6. Types'
  BY <1>1 DEF Undo, Goto, kernelVars, historyVars, IInv, Types
<1>7. Prefix'
  BY <1>1, <1>3, <1>5 DEF Undo, Prefix, Occupied, Claimed, kernelVars
<1>8. SlotsExclusive'
  BY <1>3 DEF Undo, IInv, SlotsExclusive, kernelVars
<1>9. Mass'
  BY DEF Undo, Goto, kernelVars, historyVars, IInv, Types, Mass
<1> QED
  BY <1>6, <1>7, <1>8, <1>9 DEF IInv

\* The written slot passes from the claimed to the occupied ones.
LEMMA WriteIInv == ASSUME IInv, NEW j \in Sources, Write(j) PROVE IInv'
<1>1. /\ pc[j] = "write" /\ j \in Writers /\ slot[j] \in Slots
      /\ left[j] \in Nat /\ left[j] >= 1 /\ ParcelMass \in Nat
  BY CapacityAssumption, MassAssumption DEF Write, IInv, Types, Mass, Writers, SlotsExclusive, Slots
<1>2. Types'
  BY <1>1 DEF Write, Goto, IInv, Types, Identity
<1>3. Refused' = Refused /\ Writers' = Writers \ {j} /\ slot' = slot /\ count' = count
  BY <1>1 DEF Write, Goto, Refused, Writers, IInv, Types
<1>4. Occupied' = Occupied \cup {slot[j]}
  BY <1>1 DEF Write, Occupied, IInv, Types, Free
<1>5. Claimed' = Claimed \ {slot[j]}
  BY <1>1, <1>3 DEF Claimed, IInv, SlotsExclusive
<1>6. slot[j] \in Claimed
  BY <1>1 DEF Claimed
<1>7. Prefix'
  BY <1>3, <1>4, <1>5, <1>6 DEF IInv, Prefix, Base
<1>8. SlotsExclusive'
  <2>1. \A i \in Writers' : slot[i] # slot[j]
    BY <1>1, <1>3 DEF IInv, SlotsExclusive
  <2>2. \A i \in Writers' : particles'[slot[i]] = particles[slot[i]]
    BY <1>1, <1>3, <2>1 DEF Write, IInv, Types, SlotsExclusive, Slots
  <2> QED
    BY <1>3, <2>2 DEF IInv, SlotsExclusive
<1>9. Mass'
  <2>1. (left[j] - 1) * ParcelMass + ParcelMass = left[j] * ParcelMass
    BY <1>1
  <2>2. left[j] * ParcelMass \in Nat
    BY <1>1
  <2> SUFFICES ASSUME NEW i \in Sources
               PROVE  /\ pc'[i] \in {"claim", "write"} => left'[i] >= 1
                      /\ pc'[i] \in {"claim", "write", "undo", "store"} =>
                           /\ consumed'[i] + left'[i] * ParcelMass <= available'[i]
                           /\ available'[i] - consumed'[i] + issued'[i] = supplied'[i]
                      /\ pc'[i] \in {"idle", "done"} => residual'[i] + issued'[i] = supplied'[i]
    BY DEF Mass
  <2>3. CASE i = j
    <3>1. /\ consumed'[i] = consumed[i] + ParcelMass /\ left'[i] = left[i] - 1
          /\ available'[i] = available[i] /\ issued'[i] = issued[i] + ParcelMass
          /\ supplied'[i] = supplied[i]
          /\ pc'[i] = IF left[i] > 1 THEN "claim" ELSE "store"
      BY <2>3 DEF Write, Goto, IInv, Types
    <3>2. /\ consumed[i] + left[i] * ParcelMass <= available[i]
          /\ available[i] - consumed[i] + issued[i] = supplied[i]
      BY <1>1, <2>3 DEF IInv, Mass
    <3>3. consumed[i] \in Nat /\ available[i] \in Nat /\ issued[i] \in Nat /\ supplied[i] \in Nat
      BY DEF IInv, Types
    <3>4. left'[i] * ParcelMass = left[i] * ParcelMass - ParcelMass
      BY <1>1, <2>1, <2>3, <3>1
    <3>5. consumed'[i] + left'[i] * ParcelMass <= available'[i]
      <4> DEFINE whole == left[i] * ParcelMass
                 rest == left'[i] * ParcelMass
      <4>1. whole \in Nat /\ rest = whole - ParcelMass /\ consumed[i] + whole <= available[i]
        BY <2>2, <2>3, <3>2, <3>4
      <4> HIDE DEF whole, rest
      <4>2. consumed'[i] + rest <= available'[i]
        BY <1>1, <3>1, <3>3, <4>1
      <4> QED
        BY <4>2 DEF rest
    <3>6. available'[i] - consumed'[i] + issued'[i] = supplied'[i]
      BY <1>1, <3>1, <3>2, <3>3
    <3> QED
      BY <1>1, <2>3, <3>1, <3>5, <3>6
  <2>4. CASE i # j
    <3>1. /\ pc'[i] = pc[i] /\ consumed'[i] = consumed[i] /\ available'[i] = available[i]
          /\ left'[i] = left[i] /\ supplied'[i] = supplied[i] /\ issued'[i] = issued[i]
          /\ residual'[i] = residual[i]
      BY <2>4 DEF Write, Goto, IInv, Types
    <3> QED
      BY <3>1 DEF IInv, Mass
  <2> QED
    BY <2>3, <2>4
<1> QED
  BY <1>2, <1>7, <1>8, <1>9 DEF IInv

\* With every thread done nobody holds a claim, so the parcels are the slots
\* below the counter; the survivors are taken from them, without repetition.
LEMMA CompactIInv ==
  ASSUME IInv, NEW n \in 0 .. Capacity, NEW from \in [0 .. n - 1 -> Slots], Compact(n, from)
  PROVE  IInv'
<1>1. /\ n \in Nat /\ n <= count /\ count' = n /\ n <= Capacity
      /\ \A s \in 0 .. n - 1 : from[s] \in Slots /\ from[s] < count
  BY CapacityAssumption DEF Compact
<1>2. Refused = {} /\ Writers = {} /\ Claimed = {}
  BY DEF Compact, KernelDone, Refused, Writers, Claimed
<1>3. Base = count
  BY <1>2, FS_EmptySet DEF Base, IInv, Types
<1>4. Occupied = 0 .. count - 1
  BY <1>2, <1>3 DEF IInv, Prefix
<1>5. Refused' = {} /\ Writers' = {} /\ Claimed' = {}
  BY DEF Compact, Refused, Writers, Claimed
<1>6. Base' = n
  BY <1>1, <1>5, FS_EmptySet DEF Base
<1>7. \A s \in 0 .. n - 1 : from[s] \in Occupied
  BY <1>1, <1>4, CapacityAssumption DEF IInv, Types, Slots
<1>8. Types'
  <2>1. \A s \in Slots : s < n => s \in 0 .. n - 1
    BY <1>1, CapacityAssumption DEF Slots
  <2>2. particles' \in [Slots -> Identity \cup {Free}]
    BY <1>1, <2>1 DEF Compact, IInv, Types
  <2>3. step' \in 0 .. MaxSteps
    BY StepsAssumption DEF Compact, IInv, Types
  <2> QED
    BY <1>1, <2>2, <2>3 DEF Compact, kernelVars, historyVars, IInv, Types
<1>9. Occupied' = 0 .. n - 1
  <2>1. \A s \in Slots : particles'[s] # Free <=> s < n
    BY <1>1, <1>7 DEF Compact, Occupied, Slots
  <2> QED
    BY <1>1, <2>1, CapacityAssumption DEF Occupied, Slots
<1>10. Prefix'
  BY <1>1, <1>5, <1>6, <1>9, CapacityAssumption DEF Prefix
<1>11. SlotsExclusive'
  BY <1>5 DEF SlotsExclusive
<1>12. Mass'
  BY DEF Compact, KernelDone, kernelVars, historyVars, IInv, Mass
<1> QED
  BY <1>8, <1>10, <1>11, <1>12 DEF IInv

LEMMA UnchangedIInv == ASSUME IInv, UNCHANGED vars PROVE IInv'
<1> USE DEF vars, kernelVars, historyVars
<1>1. Types' /\ Mass'
  BY DEF IInv, Types, Mass
<1>2. Refused' = Refused /\ Writers' = Writers
  BY DEF Refused, Writers
<1>3. Prefix' /\ SlotsExclusive'
  BY <1>2, SlotsUntouched
<1> QED
  BY <1>1, <1>3 DEF IInv

LEMMA NextIInv == IInv /\ [Next]_vars => IInv'
<1> SUFFICES ASSUME IInv, [Next]_vars PROVE IInv'
  OBVIOUS
<1>1. ASSUME NEW j \in Sources, Thread(j) PROVE IInv'
  BY <1>1, SkipIInv, AccumulateIInv, BeginIInv, ClaimIInv, UndoIInv, WriteIInv, StoreIInv
     DEF Thread
<1>2. ASSUME NEW n \in 0 .. Capacity, NEW from \in [0 .. n - 1 -> Slots], Compact(n, from)
      PROVE IInv'
  BY <1>2, CompactIInv
<1>3. CASE Finished \/ UNCHANGED vars
  BY <1>3, UnchangedIInv DEF Finished
<1> QED
  BY <1>1, <1>2, <1>3 DEF Next

-----------------------------------------------------------------------------
LEMMA IInvImplies ==
  IInv => TypeOK /\ SlotsExclusive /\ PrefixAtLaunchEnd /\ RefusedOnlyWhenFull /\ MassConserved
<1> SUFFICES ASSUME IInv
             PROVE  TypeOK /\ PrefixAtLaunchEnd /\ RefusedOnlyWhenFull /\ MassConserved
  BY DEF IInv
<1>1. /\ Cardinality(Refused) \in 0 .. Cardinality(Sources)
      /\ Cardinality(Sources) \in Nat
      /\ Cardinality(Refused) = 0 <=> Refused = {}
  BY RefusedFinite, FS_CardinalityType, SourcesAssumption
<1>2. TypeOK
  BY <1>1, CapacityAssumption DEF IInv, Types, Prefix, Base, TypeOK
<1>3. PrefixAtLaunchEnd
  <2> SUFFICES ASSUME KernelDone PROVE count <= Capacity /\ Occupied = 0 .. count - 1
    BY DEF PrefixAtLaunchEnd
  <2>1. Refused = {} /\ Claimed = {}
    BY DEF KernelDone, Refused, Claimed, Writers
  <2>2. Base = count
    BY <2>1, FS_EmptySet DEF Base, IInv, Types
  <2> QED
    BY <2>1, <2>2, CapacityAssumption DEF IInv, Prefix
<1>4. RefusedOnlyWhenFull
  BY DEF IInv, Prefix, RefusedOnlyWhenFull, Slots
<1>5. MassConserved
  BY DEF IInv, Mass, MassConserved
<1> QED
  BY <1>2, <1>3, <1>4, <1>5

LEMMA Invariance == Spec => []IInv
<1> QED
  BY InitIInv, NextIInv, PTL DEF Spec

\* Types and the bound of the shared counter: at most the capacity and one
\* transient increment per thread.
THEOREM Typing == Spec => []TypeOK
  BY Invariance, IInvImplies, PTL

\* No two threads write parcels to one slot, none writes past the array.
THEOREM Exclusion == Spec => []SlotsExclusive
  BY Invariance, IInvImplies, PTL

\* After every launch the counter is the number of parcels, a prefix.
THEOREM PrefixLeft == Spec => []PrefixAtLaunchEnd
  BY Invariance, IInvImplies, PTL

\* An increment in flight never costs a parcel: refusal means a full array.
THEOREM RefusalJustified == Spec => []RefusedOnlyWhenFull
  BY Invariance, IInvImplies, PTL

\* No mass is lost or made, also when the capacity cuts a loop short.
THEOREM Conservation == Spec => []MassConserved
  BY Invariance, IInvImplies, PTL

-----------------------------------------------------------------------------
(* ParticlePhase: what the device may be like at each operation of the stream. *)

Intervals == [dt : Nat, end : Nat, active : BOOLEAN]
Parcels == {"injected", "moved", "base"} \X Nat
Devices ==
  [population : SUBSET Parcels, bins : SUBSET Parcels, base : SUBSET Parcels,
   tasks : SUBSET Parcels, gathered : SUBSET Parcels, step : Nat, buffer : {0, 1},
   baseReady : BOOLEAN, advances : Nat, inspect : BOOLEAN, active : BOOLEAN,
   interval : Intervals, clock : Intervals]
Operations ==
  [op : {"inject", "bin", "zeroBins", "binInjected", "begin", "gather", "capture", "commit",
         "select", "finish"}]
    \union [op : {"interval"}, advance : BOOLEAN, interval : Intervals]
    \union [op : {"build"}, kind : Phase!Kinds, onInspection : BOOLEAN]
    \union [op : {"policy", "couple"}, split : BOOLEAN]
    \union [op : {"decide"}, kind : Phase!Kinds]
    \union [op : {"kick"}, sorted : BOOLEAN, split : BOOLEAN]
    \union [op : {"pool"}, sorted : BOOLEAN, split : BOOLEAN, injection : BOOLEAN]
    \union [op : {"track"}, grid : {0, 1}]
    \union [op : {"moments"}, sorted : BOOLEAN]
Hosts ==
  [program : Seq(Operations), base : BOOLEAN, split : BOOLEAN, injection : BOOLEAN,
   ready : BOOLEAN, prepared : Phase!Kinds]

\* An operation on a device finds what it should, K steps having been asked for, the k-th
\* in the interval R[k].
Safe(d, o, R, K) ==
  /\ o.op \in Phase!Readers => Phase!Reads(d, o) = d.population
  /\ o.op \in {"inject", "track", "finish"} => d.interval.active /\ d.step \in 1 .. K
  /\ o.op \in {"inject", "track"} => d.interval = R[d.step]
  /\ o.op = "interval" => ~d.interval.active /\ o.interval.active

\* D has for each operation of s the devices that it may find.
Annotates(D, s, R, K) ==
  \A i \in 1 .. Len(s) : \A d \in D[i] :
    Safe(d, s[i], R, K) /\ Phase!Outcomes(d, s[i]) \subseteq D[i + 1]
\* From a device of A, the operations of s are safe and leave one of B.
Leads(s, A, B, R, K) ==
  \E D \in [1 .. Len(s) + 1 -> SUBSET Devices] :
    A \subseteq D[1] /\ D[Len(s) + 1] \subseteq B /\ Annotates(D, s, R, K)

\* The steps that a device is through with, and the steps it has not finished.
Past(d) == IF d.interval.active THEN d.step - 1 ELSE d.step
Owed(R) ==
  /\ asked \in Seq(Intervals) /\ Past(device) \in Nat
  /\ Len(asked) = clock.steps - Past(device)
  /\ \A j \in 1 .. Len(asked) : asked[j] = R[Past(device) + j]

\* What a step leaves to the next when the base of its directory is kept.
Carried(d) ==
  /\ d.baseReady /\ d.base = d.population
  /\ \A t \in d.population : t[1] # "injected"
  /\ Phase!Enabled /\ ~config.thermal /\ ~config.sources =>
       d.tasks = IF d.active THEN d.base ELSE {}
AlwaysHeavy(d) == Phase!Enabled /\ ~Phase!Automatic => d.active

\* The device between two steps.
Rest(base, b, k, known, end) ==
  {d \in Devices :
    /\ ~d.interval.active /\ d.step = k /\ d.buffer = b
    /\ known => d.clock.end = end
    /\ AlwaysHeavy(d) /\ (base => Carried(d))}
AtRest == Rest(host.base, host.buffer, clock.steps, clock.submitted, clock.previous.end)

Streamed ==
  \E R \in [Nat -> Intervals] :
    Leads(stream, {device}, AtRest, R, clock.steps) /\ Owed(R)

-----------------------------------------------------------------------------
\* What each operation may do, by its name.
LEMMA OutcomesOf ==
  ASSUME NEW d, NEW o
  PROVE  /\ o.op = "interval" => Phase!Outcomes(d, o) = {Phase!Published(d, o)}
         /\ o.op = "inject" => Phase!Outcomes(d, o) = {Phase!Injected(d)}
         /\ o.op = "bin" => Phase!Outcomes(d, o) = {Phase!Binned(d)}
         /\ o.op = "zeroBins" => Phase!Outcomes(d, o) = {Phase!ZeroedBins(d)}
         /\ o.op = "binInjected" => Phase!Outcomes(d, o) = {Phase!BinnedInjected(d)}
         /\ o.op = "build" => Phase!Outcomes(d, o) = {Phase!Built(d, o)}
         /\ o.op = "begin" => Phase!Outcomes(d, o) = {Phase!BegunInspection(d)}
         /\ o.op = "decide" => Phase!Outcomes(d, o) = Phase!Decided(d)
         /\ o.op = "track" => Phase!Outcomes(d, o) = {Phase!Tracked(d)}
         /\ o.op = "moments" =>
              Phase!Outcomes(d, o) = {IF config.thermal THEN d ELSE Phase!Gathered(d, o)}
         /\ o.op = "gather" => Phase!Outcomes(d, o) = {Phase!Gathered(d, o)}
         /\ o.op = "capture" => Phase!Outcomes(d, o) = {Phase!Captured(d)}
         /\ o.op = "commit" => Phase!Outcomes(d, o) = {Phase!Committed(d)}
         /\ o.op = "select" => Phase!Outcomes(d, o) = {Phase!Selected(d)}
         /\ o.op = "finish" => Phase!Outcomes(d, o) = {Phase!Over(d)}
         /\ o.op \in {"kick", "pool", "couple", "policy"} => Phase!Outcomes(d, o) = {d}
  BY DEF Phase!Outcomes

\* What each operation reads, by its name.
LEMMA ReadsOf ==
  ASSUME NEW d, NEW o
  PROVE  /\ o.op = "kick" => Phase!Reads(d, o) =
              (IF ~o.sorted THEN d.population
               ELSE Phase!Content(d, IF o.split THEN "split" ELSE "full"))
         /\ o.op \in {"couple", "policy"} =>
              Phase!Reads(d, o) = Phase!Content(d, IF o.split THEN "split" ELSE "full")
         /\ o.op = "pool" => Phase!Reads(d, o) =
              (IF ~o.sorted THEN d.population
               ELSE IF Phase!Heavy(d) THEN d.tasks
               ELSE IF ~o.split THEN d.bins
               ELSE d.base \union IF o.injection THEN d.bins ELSE {})
         /\ o.op = "moments" => Phase!Reads(d, o) =
              (IF ~o.sorted THEN d.population
               ELSE IF Phase!Heavy(d) THEN d.tasks ELSE d.bins)
         /\ o.op = "gather" => Phase!Reads(d, o) = d.bins
         /\ o.op = "decide" => Phase!Reads(d, o) =
              (IF d.inspect THEN Phase!Content(d, o.kind) ELSE d.population)
  BY DEF Phase!Reads

\* What each directory indexes.
LEMMA ContentOf ==
  ASSUME NEW d
  PROVE  /\ Phase!Content(d, "full") = d.bins
         /\ Phase!Content(d, "baseOnly") = d.base
         /\ Phase!Content(d, "split") = d.base \union d.bins
  BY DEF Phase!Content

\* No operation before the first.
LEMMA LeadsNowhere ==
  ASSUME NEW A \in SUBSET Devices, NEW R, NEW K
  PROVE  Leads(<<>>, A, A, R, K)
<1> DEFINE D == [i \in {1} |-> A]
<1>1. D \in [1 .. Len(<<>>) + 1 -> SUBSET Devices]
  <2>1. Len(<<>>) = 0 /\ 1 .. 0 + 1 = {1} OBVIOUS
  <2> QED BY <2>1
<1>2. Annotates(D, <<>>, R, K) BY DEF Annotates
<1> QED BY <1>1, <1>2 DEF Leads

\* One operation more.
LEMMA LeadsFurther ==
  ASSUME NEW s \in Seq(Operations), NEW o \in Operations, NEW A, NEW B, NEW C \in SUBSET Devices,
         NEW R, NEW K, Leads(s, A, B, R, K),
         \A d \in B \intersect Devices : Safe(d, o, R, K) /\ Phase!Outcomes(d, o) \subseteq C
  PROVE  Append(s, o) \in Seq(Operations) /\ Leads(Append(s, o), A, C, R, K)
<1>1. PICK D \in [1 .. Len(s) + 1 -> SUBSET Devices] :
         A \subseteq D[1] /\ D[Len(s) + 1] \subseteq B /\ Annotates(D, s, R, K)
  BY DEF Leads
<1> DEFINE n == Len(s)
           t == Append(s, o)
           E == [i \in 1 .. n + 2 |-> IF i = n + 2 THEN C ELSE D[i]]
<1>2. /\ n \in Nat /\ t \in Seq(Operations) /\ Len(t) = n + 1 /\ t[n + 1] = o
      /\ \A i \in 1 .. n : t[i] = s[i]
  OBVIOUS
<1>3. /\ E \in [1 .. n + 2 -> SUBSET Devices] /\ E[n + 2] = C
      /\ \A i \in 1 .. n + 1 : E[i] = D[i]
  BY <1>2
<1>4. Annotates(E, t, R, K)
  <2> SUFFICES ASSUME NEW i \in 1 .. n + 1, NEW d \in E[i]
               PROVE  Safe(d, t[i], R, K) /\ Phase!Outcomes(d, t[i]) \subseteq E[i + 1]
    BY <1>2 DEF Annotates
  <2>1. CASE i \in 1 .. n
    <3>1. i + 1 \in 1 .. n + 1 BY <2>1, <1>2
    <3>2. E[i] = D[i] /\ E[i + 1] = D[i + 1] /\ t[i] = s[i] BY <2>1, <3>1, <1>2, <1>3
    <3> HIDE DEF E, t
    <3> QED BY <1>1, <2>1, <3>2 DEF Annotates
  <2>2. CASE i = n + 1
    <3>1. E[i] = D[n + 1] /\ E[i + 1] = C /\ t[i] = o BY <2>2, <1>2, <1>3
    <3>2. d \in B \intersect Devices BY <1>1, <3>1, <1>2
    <3> HIDE DEF E, t
    <3> QED BY <3>1, <3>2
  <2>3. i \in 1 .. n \/ i = n + 1
    <3> HIDE DEF n
    <3> QED BY <1>2
  <2> HIDE DEF E, t
  <2> QED BY <2>1, <2>2, <2>3
<1>5. A \subseteq E[1] BY <1>1, <1>2, <1>3
<1> HIDE DEF E, n, t
<1>6. E \in [1 .. Len(t) + 1 -> SUBSET Devices] /\ E[Len(t) + 1] \subseteq C
  <2>1. Len(t) + 1 = n + 2 BY <1>2
  <2> QED BY <1>3, <2>1
<1>7. Leads(t, A, C, R, K) BY <1>4, <1>5, <1>6 DEF Leads
<1> QED BY <1>2, <1>7 DEF t

\* One program after another.
LEMMA LeadsOn ==
  ASSUME NEW s \in Seq(Operations), NEW u \in Seq(Operations), NEW A, NEW B, NEW C, NEW R, NEW K,
         Leads(s, A, B, R, K), Leads(u, B, C, R, K)
  PROVE  s \o u \in Seq(Operations) /\ Leads(s \o u, A, C, R, K)
<1>1. PICK D \in [1 .. Len(s) + 1 -> SUBSET Devices] :
         A \subseteq D[1] /\ D[Len(s) + 1] \subseteq B /\ Annotates(D, s, R, K)
  BY DEF Leads
<1>2. PICK F \in [1 .. Len(u) + 1 -> SUBSET Devices] :
         B \subseteq F[1] /\ F[Len(u) + 1] \subseteq C /\ Annotates(F, u, R, K)
  BY DEF Leads
<1> DEFINE n == Len(s)
           m == Len(u)
           t == s \o u
           E == [i \in 1 .. n + m + 1 |-> IF i =< n THEN D[i] ELSE F[i - n]]
<1>3. /\ n \in Nat /\ m \in Nat /\ t \in Seq(Operations) /\ Len(t) = n + m
      /\ \A i \in 1 .. n + m : t[i] = IF i =< n THEN s[i] ELSE u[i - n]
  OBVIOUS
<1>4. /\ \A i \in 1 .. n : E[i] = D[i]
      /\ \A i \in n + 1 .. n + m + 1 : E[i] = F[i - n]
  BY <1>3
<1>5. E \in [1 .. n + m + 1 -> SUBSET Devices]
  <2> SUFFICES ASSUME NEW i \in 1 .. n + m + 1
               PROVE  (IF i =< n THEN D[i] ELSE F[i - n]) \in SUBSET Devices
    OBVIOUS
  <2>1. i =< n => i \in 1 .. n + 1 BY <1>3
  <2>2. ~(i =< n) => i - n \in 1 .. m + 1 BY <1>3
  <2> QED BY <2>1, <2>2
<1>6. Annotates(E, t, R, K)
  <2> SUFFICES ASSUME NEW i \in 1 .. n + m, NEW d \in E[i]
               PROVE  Safe(d, t[i], R, K) /\ Phase!Outcomes(d, t[i]) \subseteq E[i + 1]
    BY <1>3 DEF Annotates
  <2>1. CASE i =< n
    <3>1. E[i] = D[i] /\ t[i] = s[i] BY <2>1, <1>3, <1>4
    <3>2. D[i + 1] \subseteq E[i + 1]
      <4>1. CASE i + 1 =< n BY <4>1, <1>3, <1>4
      <4>2. CASE i = n
        <5>1. E[i + 1] = F[1] BY <4>2, <1>3, <1>4
        <5> QED BY <5>1, <4>2, <1>1, <1>2
      <4>3. i + 1 =< n \/ i = n
        <5> HIDE DEF n, m
        <5> QED BY <2>1, <1>3
      <4> HIDE DEF E
      <4> QED BY <4>1, <4>2, <4>3
    <3>3. i \in 1 .. Len(s) BY <2>1, <1>3
    <3> HIDE DEF E, t
    <3>4. Safe(d, s[i], R, K) /\ Phase!Outcomes(d, s[i]) \subseteq D[i + 1]
      BY <1>1, <3>1, <3>3 DEF Annotates
    <3> QED BY <3>1, <3>2, <3>4
  <2>2. CASE ~(i =< n)
    <3>1. i - n \in 1 .. m /\ (i + 1) - n = (i - n) + 1 BY <2>2, <1>3
    <3>2. E[i] = F[i - n] /\ E[i + 1] = F[(i - n) + 1] /\ t[i] = u[i - n]
      BY <2>2, <3>1, <1>3, <1>4
    <3> HIDE DEF E, t
    <3> QED BY <1>2, <3>1, <3>2 DEF Annotates
  <2> QED BY <2>1, <2>2
<1>7. A \subseteq E[1]
  <2>1. CASE n = 0 BY <2>1, <1>1, <1>2, <1>3, <1>4
  <2>2. CASE n # 0 BY <2>2, <1>1, <1>3, <1>4
  <2> QED BY <2>1, <2>2
<1>8. E[n + m + 1] \subseteq C
  <2>1. E[n + m + 1] = F[m + 1] BY <1>3, <1>4
  <2> QED BY <2>1, <1>2
<1> HIDE DEF E, t
<1>9. Leads(t, A, C, R, K) BY <1>3, <1>5, <1>6, <1>7, <1>8 DEF Leads
<1> QED BY <1>3, <1>9 DEF t

\* What is asked of the start or granted at the end may be less.
LEMMA LeadsLess ==
  ASSUME NEW s, NEW A, NEW B, NEW A2, NEW B2, NEW R, NEW K,
         Leads(s, A, B, R, K), A2 \subseteq A, B \subseteq B2
  PROVE  Leads(s, A2, B2, R, K)
  BY DEF Leads

\* A step more that is asked for changes nothing for what is submitted.
LEMMA LeadsLater ==
  ASSUME NEW s, NEW A, NEW B, NEW R, NEW S, NEW K \in Nat,
         Leads(s, A, B, R, K), \A k \in 1 .. K : S[k] = R[k]
  PROVE  Leads(s, A, B, S, K + 1)
<1>1. PICK D \in [1 .. Len(s) + 1 -> SUBSET Devices] :
         A \subseteq D[1] /\ D[Len(s) + 1] \subseteq B /\ Annotates(D, s, R, K)
  BY DEF Leads
<1>2. ASSUME NEW d, NEW o, Safe(d, o, R, K) PROVE Safe(d, o, S, K + 1)
  <2>1. d.step \in 1 .. K => d.step \in 1 .. K + 1 OBVIOUS
  <2> QED BY <1>2, <2>1 DEF Safe
<1>3. Annotates(D, s, S, K + 1) BY <1>1, <1>2 DEF Annotates
<1> QED BY <1>1, <1>3 DEF Leads

\* The first operation is executed.
LEMMA LeadsShorter ==
  ASSUME NEW s \in Seq(Operations), s # <<>>, NEW d, NEW B, NEW R, NEW K, Leads(s, {d}, B, R, K)
  PROVE  /\ d \in Devices /\ Safe(d, Head(s), R, K)
         /\ \A e \in Phase!Outcomes(d, Head(s)) : e \in Devices /\ Leads(Tail(s), {e}, B, R, K)
<1>1. PICK D \in [1 .. Len(s) + 1 -> SUBSET Devices] :
         {d} \subseteq D[1] /\ D[Len(s) + 1] \subseteq B /\ Annotates(D, s, R, K)
  BY DEF Leads
<1> DEFINE n == Len(s)
           t == Tail(s)
           E == [i \in 1 .. n |-> D[i + 1]]
<1>2. /\ n \in Nat \ {0} /\ Head(s) = s[1] /\ Len(t) = n - 1 /\ t \in Seq(Operations)
      /\ \A i \in 1 .. n - 1 : t[i] = s[i + 1]
  OBVIOUS
<1>3. d \in D[1] /\ D[1] \in SUBSET Devices /\ Safe(d, s[1], R, K)
      /\ Phase!Outcomes(d, s[1]) \subseteq D[2] /\ D[2] \in SUBSET Devices
  <2>1. 1 \in 1 .. n /\ 1 \in 1 .. n + 1 /\ 2 \in 1 .. n + 1 /\ 1 + 1 = 2 BY <1>2
  <2>2. d \in D[1] BY <1>1
  <2>3. Safe(d, s[1], R, K) /\ Phase!Outcomes(d, s[1]) \subseteq D[1 + 1]
    BY <1>1, <2>1, <2>2 DEF Annotates
  <2> QED BY <1>1, <2>1, <2>2, <2>3
<1>4. E \in [1 .. n -> SUBSET Devices]
  <2>1. \A i \in 1 .. n : i + 1 \in 1 .. n + 1 BY <1>2
  <2> QED BY <1>1, <2>1
<1>5. Annotates(E, t, R, K)
  <2> SUFFICES ASSUME NEW i \in 1 .. n - 1, NEW e \in E[i]
               PROVE  Safe(e, t[i], R, K) /\ Phase!Outcomes(e, t[i]) \subseteq E[i + 1]
    BY <1>2 DEF Annotates
  <2>1. i \in 1 .. n /\ i + 1 \in 1 .. n BY <1>2
  <2>2. E[i] = D[i + 1] /\ E[i + 1] = D[(i + 1) + 1] /\ t[i] = s[i + 1] BY <2>1, <1>2
  <2> HIDE DEF E, t
  <2> QED BY <1>1, <2>1, <2>2 DEF Annotates
<1>6. E[1] = D[2] /\ E[n] = D[n + 1] BY <1>2
<1>7. ASSUME NEW e \in Phase!Outcomes(d, Head(s)) PROVE e \in Devices /\ Leads(t, {e}, B, R, K)
  <2>1. e \in D[2] BY <1>2, <1>3, <1>7
  <2> HIDE DEF E, t
  <2>2. Len(t) + 1 = n BY <1>2
  <2>3. {e} \subseteq E[1] /\ E[Len(t) + 1] \subseteq B BY <2>1, <2>2, <1>1, <1>6
  <2>4. E \in [1 .. Len(t) + 1 -> SUBSET Devices] BY <1>4, <2>2
  <2>5. Leads(t, {e}, B, R, K) BY <2>3, <2>4, <1>5 DEF Leads
  <2> QED BY <2>1, <2>5, <1>3
<1> QED BY <1>2, <1>3, <1>7

-----------------------------------------------------------------------------
(* ParticlePhase: what each function of the host adds to the program, and what *)
(* the device is like when that has been executed.                             *)

\* The device in a step, and what the step's own operations do not change.
Frame(r, k, b) ==
  {d \in Devices : d.interval = r /\ d.clock = r /\ d.step = k /\ d.buffer = b /\ AlwaysHeavy(d)}
Lists(d) == d.bins = d.population /\ (Phase!Heavy(d) => d.tasks = d.population)
\* Nothing of F is about bins and tasks.
Listing(F) ==
  /\ F \subseteq Devices
  /\ \A d \in F : \A X \in SUBSET Parcels :
       [d EXCEPT !.bins = X] \in F /\ [d EXCEPT !.tasks = X] \in F

\* One operation more in the program of the host.
LEMMA Emitted ==
  ASSUME NEW h \in Hosts, NEW o \in Operations, NEW A, NEW B, NEW C \in SUBSET Devices, NEW R,
         NEW K, Leads(h.program, A, B, R, K),
         \A d \in B \intersect Devices : Safe(d, o, R, K) /\ Phase!Outcomes(d, o) \subseteq C
  PROVE  /\ Phase!Emit(h, o) \in Hosts /\ Leads(Phase!Emit(h, o).program, A, C, R, K)
         /\ Phase!Emit(h, o) = [h EXCEPT !.program = Append(h.program, o)]
<1>1. h.program \in Seq(Operations) BY DEF Hosts
<1>2. Append(h.program, o) \in Seq(Operations) /\ Leads(Append(h.program, o), A, C, R, K)
  BY <1>1, LeadsFurther
<1>3. Phase!Emit(h, o) = [h EXCEPT !.program = Append(h.program, o)] BY DEF Phase!Emit
<1> DEFINE p == Append(h.program, o)
<1> HIDE DEF p
<1>4. [h EXCEPT !.program = p] \in Hosts /\ [h EXCEPT !.program = p].program = p
  BY <1>2 DEF Hosts, p
<1> QED BY <1>2, <1>3, <1>4 DEF p

\* What a configuration may be, and what follows from its level.
LEMMA Constants ==
  ASSUME Phase!Assumption, config \in Configurations
  PROVE  /\ config.level \in {"L0", "L1", "L2", "auto"} /\ config.sources \in BOOLEAN
         /\ config.mixture \in BOOLEAN /\ config.thermal \in BOOLEAN
         /\ Phase!CellLocal \in BOOLEAN /\ Phase!Automatic \in BOOLEAN /\ Phase!Enabled \in BOOLEAN
         /\ Phase!Automatic => Phase!Enabled
         /\ Phase!Enabled => Phase!CellLocal
  BY DEF Phase!Assumption, Phase!CellLocal, Phase!Automatic, Phase!Enabled

\* p is h and a preparation of tasks, which leads to C instead.
Prepared(p, h, kind, A, C, R, K) ==
  /\ p \in Hosts /\ Leads(p.program, A, C, R, K)
  /\ p.base = h.base /\ p.split = h.split /\ p.injection = h.injection
  /\ p.ready = Phase!Enabled
  /\ p.prepared = IF Phase!Enabled THEN kind ELSE h.prepared

\* A task list for the directory of a kind, if task lists are used at all.
LEMMA TasksPrepared ==
  ASSUME NEW h \in Hosts, NEW kind \in Phase!Kinds, NEW only \in BOOLEAN, NEW A, NEW B,
         NEW C \in SUBSET Devices, NEW R, NEW K, Leads(h.program, A, B, R, K),
         Phase!Enabled \in BOOLEAN,
         Phase!Enabled => \A d \in B \intersect Devices :
           Phase!Built(d, [op |-> "build", kind |-> kind, onInspection |-> only]) \in C,
         ~Phase!Enabled => B \subseteq C
  PROVE  Prepared(Phase!PrepareTasks(h, kind, only), h, kind, A, C, R, K)
<1> DEFINE o == [op |-> "build", kind |-> kind, onInspection |-> only]
           e == Phase!Emit(h, o)
           p == Phase!PrepareTasks(h, kind, only)
<1>1. CASE ~Phase!Enabled
  <2>1. p = [h EXCEPT !.ready = FALSE] BY <1>1 DEF Phase!PrepareTasks
  <2>2. Leads(h.program, A, C, R, K) BY <1>1, LeadsLess
  <2> QED BY <1>1, <2>1, <2>2 DEF Hosts, Prepared
<1>2. CASE Phase!Enabled
  <2>1. o \in Operations BY DEF Operations
  <2>2. o.op = "build" OBVIOUS
  <2>3. ASSUME NEW d \in B \intersect Devices
        PROVE  Safe(d, o, R, K) /\ Phase!Outcomes(d, o) \subseteq C
    <3>1. Safe(d, o, R, K) BY <2>2 DEF Safe, Phase!Readers
    <3>2. Phase!Outcomes(d, o) = {Phase!Built(d, o)} BY <2>2, OutcomesOf
    <3> QED BY <1>2, <3>1, <3>2
  <2>4. p = [e EXCEPT !.ready = TRUE, !.prepared = kind] BY <1>2 DEF Phase!PrepareTasks
  <2> HIDE DEF o
  <2>5. /\ e \in Hosts /\ Leads(e.program, A, C, R, K)
        /\ e = [h EXCEPT !.program = Append(h.program, o)]
    BY <2>1, <2>3, Emitted
  <2>6. e.base = h.base /\ e.split = h.split /\ e.injection = h.injection BY <2>5 DEF Hosts
  <2> HIDE DEF e
  <2> QED BY <1>2, <2>4, <2>5, <2>6 DEF Hosts, Prepared
<1> QED BY <1>1, <1>2

\* The thermal back end looks at the directory first.
LEMMA DirectoryTasksPrepared ==
  ASSUME NEW h \in Hosts, NEW kind \in Phase!Kinds, NEW A, NEW B \in SUBSET Devices,
         NEW C \in SUBSET Devices, NEW R, NEW K, Leads(h.program, A, B, R, K),
         Phase!Enabled \in BOOLEAN,
         \A d \in B : Phase!Content(d, IF h.split THEN "split" ELSE "full") = d.population,
         Phase!Enabled => \A d \in B :
           Phase!Built(d, [op |-> "build", kind |-> kind, onInspection |-> FALSE]) \in C,
         ~Phase!Enabled => B \subseteq C
  PROVE  Prepared(Phase!PrepareDirectoryTasks(h, kind), h, kind, A, C, R, K)
<1> DEFINE o == [op |-> "policy", split |-> h.split]
           g == IF config.thermal /\ Phase!Enabled THEN Phase!Emit(h, o) ELSE h
<1>1. /\ g \in Hosts /\ Leads(g.program, A, B, R, K)
      /\ g.base = h.base /\ g.split = h.split /\ g.injection = h.injection
      /\ g.prepared = h.prepared
  <2>1. o \in Operations BY DEF Operations, Hosts
  <2>2. o.op = "policy" /\ o.split = h.split OBVIOUS
  <2> HIDE DEF o
  <2>3. ASSUME NEW d \in B PROVE Safe(d, o, R, K) /\ Phase!Outcomes(d, o) \subseteq B
    BY <2>2, OutcomesOf, ReadsOf DEF Safe, Phase!Readers
  <2>4. /\ Phase!Emit(h, o) \in Hosts /\ Leads(Phase!Emit(h, o).program, A, B, R, K)
        /\ Phase!Emit(h, o) = [h EXCEPT !.program = Append(h.program, o)]
    BY <2>1, <2>3, Emitted
  <2>5. CASE config.thermal /\ Phase!Enabled BY <2>4, <2>5 DEF Hosts
  <2>6. CASE ~(config.thermal /\ Phase!Enabled) BY <2>6
  <2> QED BY <2>5, <2>6
<1>2. Phase!PrepareDirectoryTasks(h, kind) = Phase!PrepareTasks(g, kind, FALSE)
  BY DEF Phase!PrepareDirectoryTasks
<1> HIDE DEF g
<1>3. FALSE \in BOOLEAN /\ \A d \in B \intersect Devices : d \in B OBVIOUS
<1>4. Prepared(Phase!PrepareTasks(g, kind, FALSE), g, kind, A, C, R, K)
  BY <1>1, <1>3, TasksPrepared
<1> QED BY <1>1, <1>2, <1>4 DEF Prepared

\* What binParticlesByCell leaves, whatever else is known of the device.
LEMMA ParticlesBinned ==
  ASSUME NEW h \in Hosts, NEW A, NEW F, Listing(F), NEW R, NEW K, Leads(h.program, A, F, R, K),
         Phase!Enabled \in BOOLEAN
  PROVE  Prepared(Phase!BinParticles(h), [h EXCEPT !.split = FALSE, !.injection = FALSE],
                  "full", A, {d \in F : Lists(d)}, R, K)
<1> DEFINE g == Phase!SelectDirectory(h, FALSE)
           o == [op |-> "bin"]
           e == Phase!Emit(g, o)
           B == {d \in F : d.bins = d.population}
           C == {d \in F : Lists(d)}
<1>1. /\ g \in Hosts /\ g.program = h.program /\ g.base = h.base /\ g.prepared = h.prepared
      /\ g.split = FALSE /\ g.injection = FALSE
  BY DEF Phase!SelectDirectory, Hosts
<1>2. F \subseteq Devices /\ B \in SUBSET Devices /\ C \in SUBSET Devices BY DEF Listing
<1>3. o \in Operations /\ o.op = "bin" BY DEF Operations
<1>4. ASSUME NEW d \in F PROVE Safe(d, o, R, K) /\ Phase!Outcomes(d, o) \subseteq B
  <2>1. Safe(d, o, R, K) BY <1>3 DEF Safe, Phase!Readers
  <2>2. Phase!Outcomes(d, o) = {Phase!Binned(d)} BY <1>3, OutcomesOf
  <2>3. d \in Devices /\ d.population \in SUBSET Parcels BY <1>2 DEF Devices
  <2>4. [d EXCEPT !.bins = d.population] \in F BY <2>3 DEF Listing
  <2>5. [d EXCEPT !.bins = d.population] \in B BY <2>3, <2>4 DEF Devices
  <2> QED BY <2>1, <2>2, <2>5 DEF Phase!Binned
<1> HIDE DEF g, o, B, C
<1>5. /\ e \in Hosts /\ Leads(e.program, A, B, R, K)
      /\ e = [g EXCEPT !.program = Append(g.program, o)]
  BY <1>1, <1>2, <1>3, <1>4, Emitted
<1>6. /\ e.base = h.base /\ e.split = FALSE /\ e.injection = FALSE /\ e.prepared = h.prepared
  BY <1>1, <1>5 DEF Hosts
<1>7. Phase!BinParticles(h) = Phase!PrepareDirectoryTasks(e, "full")
  BY DEF Phase!BinParticles, g, o
<1>8. \A d \in B : Phase!Content(d, IF e.split THEN "split" ELSE "full") = d.population
  BY <1>6, ContentOf DEF B
<1>9. ASSUME NEW d \in B
      PROVE  Phase!Built(d, [op |-> "build", kind |-> "full", onInspection |-> FALSE]) \in C
  <2> DEFINE X == IF Phase!Heavy(d) THEN d.population ELSE {}
             f == [d EXCEPT !.tasks = X]
  <2>1. Phase!Built(d, [op |-> "build", kind |-> "full", onInspection |-> FALSE]) = f
    BY ContentOf DEF Phase!Built, B
  <2>2. d \in F /\ d \in Devices /\ d.bins = d.population BY <1>2 DEF B
  <2>3. X \in SUBSET Parcels BY <2>2 DEF Devices
  <2>4. f \in F BY <2>2, <2>3 DEF Listing
  <2>5. f.bins = d.bins /\ f.population = d.population /\ f.active = d.active /\ f.tasks = X
    BY <2>2 DEF Devices
  <2>6. Lists(f) BY <2>2, <2>5 DEF Lists, Phase!Heavy
  <2> QED BY <2>1, <2>4, <2>6 DEF C
<1>10. ~Phase!Enabled => B \subseteq C BY DEF B, C, Lists, Phase!Heavy
<1>11. "full" \in Phase!Kinds BY DEF Phase!Kinds
<1> HIDE DEF e
<1>12. Prepared(Phase!PrepareDirectoryTasks(e, "full"), e, "full", A, C, R, K)
  BY <1>2, <1>5, <1>8, <1>9, <1>10, <1>11, DirectoryTasksPrepared
<1>13. [h EXCEPT !.split = FALSE, !.injection = FALSE] \in Hosts BY DEF Hosts
<1> QED BY <1>6, <1>7, <1>12, <1>13 DEF C, Prepared, Hosts

\* p is h with more operations and the same flags.
Same(p, h, A, C, R, K) ==
  /\ p \in Hosts /\ Leads(p.program, A, C, R, K)
  /\ p.base = h.base /\ p.split = h.split /\ p.injection = h.injection
  /\ p.ready = h.ready /\ p.prepared = h.prepared

\* One operation more, and no flag changed.
LEMMA EmittedSame ==
  ASSUME NEW h \in Hosts, NEW o \in Operations, NEW A, NEW B, NEW C \in SUBSET Devices, NEW R,
         NEW K, Leads(h.program, A, B, R, K),
         \A d \in B \intersect Devices : Safe(d, o, R, K) /\ Phase!Outcomes(d, o) \subseteq C
  PROVE  Same(Phase!Emit(h, o), h, A, C, R, K)
<1>1. /\ Phase!Emit(h, o) \in Hosts /\ Leads(Phase!Emit(h, o).program, A, C, R, K)
      /\ Phase!Emit(h, o) = [h EXCEPT !.program = Append(h.program, o)]
  BY Emitted
<1> QED BY <1>1 DEF Same, Hosts

\* A device in a step that F is about, and what F does not depend on.
InStep(F, R, K) ==
  \A d \in F : d.interval.active /\ d.step \in 1 .. K /\ d.interval = R[d.step]
Directing(F) ==
  /\ Listing(F)
  /\ \A d \in F : \A X \in SUBSET Parcels :
       /\ [d EXCEPT !.population = X] \in F /\ [d EXCEPT !.base = X] \in F
       /\ [d EXCEPT !.gathered = X] \in F
  /\ \A d \in F : \A n \in Nat : \A a \in BOOLEAN :
       /\ [d EXCEPT !.advances = n, !.inspect = a] \in F
       /\ Phase!Automatic => [d EXCEPT !.active = a] \in F

\* The device in a step may have anything in its directories and task list.
LEMMA FrameFacts ==
  ASSUME NEW r, NEW k, NEW b, Phase!Assumption, config \in Configurations
  PROVE  Directing(Frame(r, k, b))
<1> DEFINE F == Frame(r, k, b)
<1>1. F \subseteq Devices BY DEF Frame
<1>2. ASSUME NEW d \in F, NEW X \in SUBSET Parcels
      PROVE  /\ [d EXCEPT !.bins = X] \in F /\ [d EXCEPT !.tasks = X] \in F
             /\ [d EXCEPT !.population = X] \in F /\ [d EXCEPT !.base = X] \in F
             /\ [d EXCEPT !.gathered = X] \in F
  BY DEF Frame, Devices, AlwaysHeavy
<1>3. ASSUME NEW d \in F, NEW n \in Nat, NEW a \in BOOLEAN
      PROVE  /\ [d EXCEPT !.advances = n, !.inspect = a] \in F
             /\ Phase!Automatic => [d EXCEPT !.active = a] \in F
  BY DEF Frame, Devices, AlwaysHeavy
<1> HIDE DEF F
<1>4. Listing(F) BY <1>1, <1>2 DEF Listing
<1> QED BY <1>2, <1>3, <1>4 DEF Directing, F

\* The device when a step begins, and after the injection.
Begun(base, F) == {d \in F : base => Carried(d)}
Injecteds(d) == {t \in d.population : t[1] = "injected"}
Stocked(base, F) ==
  {d \in F : base => IF config.sources THEN d.population = d.base \union Injecteds(d)
                                       ELSE Carried(d)}

\* What the injection adds is not of the base.
LEMMA InjectedNext ==
  ASSUME NEW h \in Hosts, NEW A, NEW F, Directing(F), NEW R, NEW K, InStep(F, R, K),
         Leads(h.program, A, Begun(h.base, F), R, K)
  PROVE  Same(Phase!Inject(h), h, A, Stocked(h.base, F), R, K)
<1> DEFINE o == [op |-> "inject"]
<1>1. F \subseteq Devices BY DEF Directing, Listing
<1>2. CASE ~config.sources
  <2>1. Begun(h.base, F) = Stocked(h.base, F) BY <1>2 DEF Begun, Stocked
  <2> QED BY <1>2, <2>1 DEF Same, Phase!Inject
<1>3. CASE config.sources
  <2>1. o \in Operations /\ o.op = "inject" BY DEF Operations
  <2> HIDE DEF o
  <2>2. ASSUME NEW d \in Begun(h.base, F)
        PROVE  Safe(d, o, R, K) /\ Phase!Outcomes(d, o) \subseteq Stocked(h.base, F)
    <3> DEFINE t == <<"injected", d.step>>
               X == d.population \union {t}
               e == [d EXCEPT !.population = X]
    <3>1. d \in F /\ d \in Devices BY <1>1 DEF Begun
    <3>2. Safe(d, o, R, K) BY <2>1, <3>1 DEF Safe, Phase!Readers, InStep
    <3>3. Phase!Outcomes(d, o) = {e} BY <2>1, OutcomesOf DEF Phase!Injected
    <3>4. t \in Parcels /\ t[1] = "injected" BY <3>1 DEF Parcels, Devices
    <3>5. X \in SUBSET Parcels BY <3>1, <3>4 DEF Devices
    <3>6. e \in F BY <3>1, <3>5 DEF Directing
    <3>7. e.population = X /\ e.base = d.base BY <3>1 DEF Devices
    <3>8. h.base => d.base = d.population BY DEF Begun, Carried
    <3> HIDE DEF t, e
    <3>9. t \in Injecteds(e) BY <3>4, <3>7 DEF Injecteds
    <3>10. Injecteds(e) \subseteq X BY <3>7 DEF Injecteds
    <3>11. h.base => e.population = e.base \union Injecteds(e) BY <3>7, <3>8, <3>9, <3>10
    <3>12. e \in Stocked(h.base, F) BY <1>3, <3>6, <3>11 DEF Stocked
    <3> QED BY <3>2, <3>3, <3>12
  <2>3. Stocked(h.base, F) \in SUBSET Devices BY <1>1 DEF Stocked
  <2>4. Same(Phase!Emit(h, o), h, A, Stocked(h.base, F), R, K) BY <2>1, <2>2, <2>3, EmittedSame
  <2> QED BY <1>3, <2>4 DEF Phase!Inject, o
<1> QED BY <1>2, <1>3

-----------------------------------------------------------------------------
(* ParticlePhase: the directory of a step, and what is decided with it.        *)

\* The injected part is read, or it is nothing.
ReadsInjected(injection) == IF config.thermal THEN config.sources ELSE injection
Directed(split, injection, F) ==
  {d \in F : /\ Phase!Content(d, IF split THEN "split" ELSE "full") = d.population
             /\ split /\ ~ReadsInjected(injection) => d.base = d.population}
Settled(split, injection, F) ==
  {d \in Directed(split, injection, F) : Phase!Heavy(d) => d.tasks = d.population}
Unlisted(h) == ~Phase!Enabled => ~h.ready /\ h.prepared = "full"
Directs(p, h, A, F, R, K) ==
  /\ p \in Hosts /\ Unlisted(p) /\ p.base = h.base
  /\ Leads(p.program, A, Settled(p.split, p.injection, F), R, K)

\* Settled devices are directed, and directed ones of F.
LEMMA DirectedFacts ==
  ASSUME NEW F, Directing(F), NEW split, NEW injection
  PROVE  /\ Directed(split, injection, F) \in SUBSET Devices
         /\ Settled(split, injection, F) \in SUBSET Devices
         /\ Settled(split, injection, F) \subseteq Directed(split, injection, F)
         /\ Settled(split, injection, F) \subseteq F
  BY DEF Directing, Listing, Directed, Settled

\* A task list of a directory that is right is right.
LEMMA BuiltSettled ==
  ASSUME NEW F, Directing(F), NEW split \in BOOLEAN, NEW injection,
         NEW d \in Directed(split, injection, F), NEW kind \in Phase!Kinds, NEW only \in BOOLEAN,
         Phase!Content(d, kind) = d.population,
         only /\ ~d.inspect /\ Phase!Heavy(d) => d.tasks = d.population
  PROVE  Phase!Built(d, [op |-> "build", kind |-> kind, onInspection |-> only])
           \in Settled(split, injection, F)
<1> DEFINE o == [op |-> "build", kind |-> kind, onInspection |-> only]
           X == IF Phase!Heavy(d) THEN d.population ELSE {}
           e == [d EXCEPT !.tasks = X]
<1>1. d \in F /\ d \in Devices BY DEF Directed, Directing, Listing
<1>2. CASE only /\ ~d.inspect
  <2>1. Phase!Built(d, o) = d BY <1>2 DEF Phase!Built
  <2> QED BY <1>2, <2>1 DEF Settled
<1>3. CASE ~(only /\ ~d.inspect)
  <2>1. Phase!Built(d, o) = e BY <1>3 DEF Phase!Built
  <2>2. X \in SUBSET Parcels BY <1>1 DEF Devices
  <2>3. e \in F BY <1>1, <2>2 DEF Directing, Listing
  <2>4. /\ e.population = d.population /\ e.base = d.base /\ e.bins = d.bins
        /\ e.active = d.active /\ e.tasks = X
    BY <1>1 DEF Devices
  <2>5. Phase!Heavy(e) = Phase!Heavy(d) BY <2>4 DEF Phase!Heavy
  <2>6. Phase!Content(e, IF split THEN "split" ELSE "full") =
          Phase!Content(d, IF split THEN "split" ELSE "full")
    BY <2>4, ContentOf
  <2> HIDE DEF e
  <2>7. e \in Directed(split, injection, F) BY <2>3, <2>4, <2>6 DEF Directed
  <2>8. e \in Settled(split, injection, F) BY <2>4, <2>5, <2>7 DEF Settled
  <2> QED BY <2>1, <2>8
<1> QED BY <1>2, <1>3

\* Whichever directory is built or kept before the transport, it has all particles.
LEMMA PreTransportDirects ==
  ASSUME Phase!Assumption, config \in Configurations, Phase!CellLocal,
         NEW h \in Hosts, Unlisted(h), NEW A, NEW F, Directing(F), NEW R, NEW K,
         Leads(h.program, A, Stocked(h.base, F), R, K)
  PROVE  Directs(Phase!PreTransport(h), h, A, F, R, K)
<1>1. F \subseteq Devices /\ Listing(F) BY DEF Directing, Listing
<1>2. /\ Phase!Enabled \in BOOLEAN /\ config.thermal \in BOOLEAN /\ config.sources \in BOOLEAN
      /\ {"full", "split", "baseOnly"} \subseteq Phase!Kinds
  BY Constants DEF Phase!Kinds
<1>3. CASE ~h.base
  <2> DEFINE g == [h EXCEPT !.split = FALSE, !.injection = FALSE]
             p == Phase!BinParticles(h)
             L == {d \in F : Lists(d)}
  <2>1. Leads(h.program, A, F, R, K) BY LeadsLess DEF Stocked
  <2> HIDE DEF p
  <2>2. Prepared(p, g, "full", A, L, R, K)
    BY <1>1, <1>2, <2>1, ParticlesBinned DEF p
  <2>3. /\ p \in Hosts /\ p.base = h.base /\ p.split = FALSE /\ p.injection = FALSE
        /\ p.ready = Phase!Enabled /\ p.prepared = IF Phase!Enabled THEN "full" ELSE h.prepared
        /\ Leads(p.program, A, L, R, K)
    BY <2>2 DEF Prepared, Hosts
  <2>4. L \subseteq Settled(FALSE, FALSE, F) BY ContentOf DEF Settled, Directed, Lists
  <2> HIDE DEF L
  <2>5. Leads(p.program, A, Settled(p.split, p.injection, F), R, K) BY <2>3, <2>4, LeadsLess
  <2>6. Phase!PreTransport(h) = p BY <1>3 DEF Phase!PreTransport, p
  <2> QED BY <1>2, <2>3, <2>5, <2>6 DEF Directs, Unlisted
<1> DEFINE o == [op |-> IF config.sources THEN "binInjected" ELSE "zeroBins"]
<1>4. o \in Operations /\ o.op = (IF config.sources THEN "binInjected" ELSE "zeroBins")
  BY DEF Operations
<1> HIDE DEF o
<1>5. ASSUME h.base, NEW d \in Stocked(h.base, F), NEW injection \in BOOLEAN,
             config.sources => ReadsInjected(injection)
      PROVE  /\ Safe(d, o, R, K) /\ Phase!Outcomes(d, o) \subseteq Directed(TRUE, injection, F)
             /\ ~config.sources /\ ~config.thermal =>
                  Phase!Outcomes(d, o) \subseteq Settled(TRUE, injection, F)
  <2> DEFINE X == IF config.sources THEN Injecteds(d) ELSE {}
             e == [d EXCEPT !.bins = X]
  <2>1. Safe(d, o, R, K) BY <1>4 DEF Safe, Phase!Readers
  <2>2. Phase!Outcomes(d, o) = {e}
    BY <1>4, OutcomesOf DEF Phase!BinnedInjected, Phase!ZeroedBins, Injecteds
  <2>3. d \in F /\ d \in Devices BY <1>1 DEF Stocked
  <2>4. X \in SUBSET Parcels BY <2>3 DEF Injecteds, Devices
  <2>5. e \in F BY <2>3, <2>4, <1>1 DEF Listing
  <2>6. /\ e.population = d.population /\ e.base = d.base /\ e.bins = X
        /\ e.active = d.active /\ e.tasks = d.tasks
    BY <2>3 DEF Devices
  <2>7. d.population = d.base \union X BY <1>5 DEF Stocked, Carried
  <2>8. ~config.sources => d.population = d.base BY <1>5 DEF Stocked, Carried
  <2> HIDE DEF e, X
  <2>9. Phase!Content(e, "split") = e.population BY <2>6, <2>7, ContentOf
  <2>10. e \in Directed(TRUE, injection, F) BY <1>5, <2>5, <2>6, <2>8, <2>9 DEF Directed
  <2>11. ASSUME ~config.sources, ~config.thermal PROVE e \in Settled(TRUE, injection, F)
    <3>1. Carried(d) BY <1>5, <2>11 DEF Stocked
    <3>2. Phase!Heavy(e) => d.tasks = d.base BY <2>6, <2>11, <3>1 DEF Carried, Phase!Heavy
    <3>3. Phase!Heavy(e) => e.tasks = e.population BY <2>6, <2>8, <2>11, <3>2
    <3> QED BY <2>10, <3>3 DEF Settled
  <2> QED BY <2>1, <2>2, <2>10, <2>11
<1>6. Stocked(h.base, F) \in SUBSET Devices BY <1>1 DEF Stocked
<1>7. CASE h.base /\ ~config.sources /\ ~config.thermal
  <2> DEFINE e == Phase!Emit(h, o)
             p == [e EXCEPT !.injection = FALSE, !.split = TRUE]
  <2>1. Phase!PreTransport(h) = p BY <1>7 DEF Phase!PreTransport, o
  <2> HIDE DEF e
  <2>2. Same(e, h, A, Settled(TRUE, FALSE, F), R, K)
    <3>1. Settled(TRUE, FALSE, F) \in SUBSET Devices BY DirectedFacts
    <3>2. \A d \in Stocked(h.base, F) :
            Safe(d, o, R, K) /\ Phase!Outcomes(d, o) \subseteq Settled(TRUE, FALSE, F)
      BY <1>5, <1>7
    <3> QED BY <1>4, <3>1, <3>2, EmittedSame DEF e
  <2>3. /\ e \in Hosts /\ e.base = h.base /\ e.ready = h.ready /\ e.prepared = h.prepared
        /\ Leads(e.program, A, Settled(TRUE, FALSE, F), R, K)
    BY <2>2 DEF Same
  <2>4. /\ p \in Hosts /\ p.base = h.base /\ p.ready = h.ready /\ p.prepared = h.prepared
        /\ p.split = TRUE /\ p.injection = FALSE /\ p.program = e.program
    BY <2>3 DEF Hosts
  <2> HIDE DEF p
  <2>5. Leads(p.program, A, Settled(p.split, p.injection, F), R, K) BY <2>3, <2>4
  <2> QED BY <2>1, <2>4, <2>5 DEF Directs, Unlisted
<1>8. CASE h.base /\ (config.sources \/ config.thermal)
  <2> DEFINE g == Phase!SelectDirectory(h, TRUE)
             e == Phase!Emit(g, o)
             i == ~config.thermal
             p == Phase!PrepareDirectoryTasks(e, "split")
  <2>1. /\ g \in Hosts /\ g.program = h.program /\ g.base = h.base /\ g.prepared = h.prepared
        /\ g.split = TRUE /\ g.injection = i
    BY <1>2 DEF Phase!SelectDirectory, Hosts
  <2>2. Phase!PreTransport(h) = p BY <1>8 DEF Phase!PreTransport, o
  <2>3. i \in BOOLEAN /\ (config.sources => ReadsInjected(i)) BY <1>2 DEF ReadsInjected
  <2> HIDE DEF g, e, i, p
  <2>4. Same(e, g, A, Directed(TRUE, i, F), R, K)
    <3>1. Directed(TRUE, i, F) \in SUBSET Devices BY DirectedFacts
    <3>2. \A d \in Stocked(h.base, F) :
            Safe(d, o, R, K) /\ Phase!Outcomes(d, o) \subseteq Directed(TRUE, i, F)
      BY <1>5, <1>8, <2>3
    <3>3. Leads(g.program, A, Stocked(h.base, F), R, K) BY <2>1
    <3> QED BY <1>4, <2>1, <3>1, <3>2, <3>3, EmittedSame DEF e
  <2>5. /\ e \in Hosts /\ e.base = h.base /\ e.prepared = h.prepared
        /\ e.split = TRUE /\ e.injection = i
        /\ Leads(e.program, A, Directed(TRUE, i, F), R, K)
    BY <2>1, <2>4 DEF Same
  <2>6. /\ Directed(TRUE, i, F) \in SUBSET Devices /\ Settled(TRUE, i, F) \in SUBSET Devices
    BY DirectedFacts
  <2>7. \A d \in Directed(TRUE, i, F) :
          /\ Phase!Content(d, "split") = d.population
          /\ Phase!Content(d, IF e.split THEN "split" ELSE "full") = d.population
    BY <2>5 DEF Directed
  <2>8. \A d \in Directed(TRUE, i, F) :
          Phase!Built(d, [op |-> "build", kind |-> "split", onInspection |-> FALSE])
            \in Settled(TRUE, i, F)
    BY <1>2, <2>7, BuiltSettled
  <2>9. ~Phase!Enabled => Directed(TRUE, i, F) \subseteq Settled(TRUE, i, F)
    BY DEF Settled, Phase!Heavy
  <2>10. Prepared(p, e, "split", A, Settled(TRUE, i, F), R, K)
    BY <1>2, <2>5, <2>6, <2>7, <2>8, <2>9, DirectoryTasksPrepared DEF p
  <2> QED BY <1>2, <2>2, <2>5, <2>10 DEF Directs, Prepared, Unlisted
<1> QED BY <1>3, <1>7, <1>8

\* The kind that the schedule looks at is the one that has the particles.
LEMMA KindFits ==
  ASSUME Phase!Assumption, config \in Configurations, NEW h \in Hosts, NEW F,
         NEW d \in Directed(h.split, h.injection, F)
  PROVE  /\ Phase!CurrentKind(h) \in Phase!Kinds
         /\ Phase!Content(d, Phase!CurrentKind(h)) = d.population
<1>1. h.split \in BOOLEAN /\ h.injection \in BOOLEAN /\ config.thermal \in BOOLEAN
  BY Constants DEF Hosts
<1>2. CASE ~h.split BY <1>2, ContentOf DEF Phase!CurrentKind, Phase!Kinds, Directed
<1>3. CASE h.split /\ (config.thermal \/ h.injection)
  BY <1>3, ContentOf DEF Phase!CurrentKind, Phase!Kinds, Directed
<1>4. CASE h.split /\ ~config.thermal /\ ~h.injection
  BY <1>4, ContentOf DEF Phase!CurrentKind, Phase!Kinds, Directed, ReadsInjected
<1> QED BY <1>1, <1>2, <1>3, <1>4

\* Whatever the device decides, it has the tasks that the decision needs.
LEMMA ScheduleDirects ==
  ASSUME Phase!Assumption, config \in Configurations, NEW h \in Hosts, Unlisted(h), NEW A,
         NEW F, Directing(F), NEW R, NEW K,
         Leads(h.program, A, Settled(h.split, h.injection, F), R, K)
  PROVE  Directs(Phase!Schedule(h, Phase!CurrentKind(h)), h, A, F, R, K)
<1> DEFINE kind == Phase!CurrentKind(h)
           begin == [op |-> "begin"]
           decide == [op |-> "decide", kind |-> kind]
           e == Phase!Emit(h, begin)
           g == Phase!Emit(e, decide)
           D == Directed(h.split, h.injection, F)
           S == Settled(h.split, h.injection, F)
           M == {d \in D : ~d.inspect /\ Phase!Heavy(d) => d.tasks = d.population}
<1>1. CASE ~Phase!Automatic
  <2>1. Phase!Schedule(h, kind) = h BY <1>1 DEF Phase!Schedule
  <2> QED BY <2>1 DEF Directs
<1>2. ASSUME Phase!Automatic PROVE Directs(Phase!Schedule(h, kind), h, A, F, R, K)
  <2>1. Phase!Enabled /\ h.split \in BOOLEAN BY <1>2, Constants DEF Hosts
  <2>2. /\ D \in SUBSET Devices /\ S \in SUBSET Devices /\ M \in SUBSET Devices
        /\ S \subseteq D /\ D \subseteq F
    BY DirectedFacts DEF Directed
  <2>3. kind \in Phase!Kinds /\ \A d \in D : Phase!Content(d, kind) = d.population
    <3>1. h.program \in Seq(Operations) BY DEF Hosts
    <3>2. \A d \in D : kind \in Phase!Kinds /\ Phase!Content(d, kind) = d.population
      BY KindFits
    <3>3. kind \in Phase!Kinds BY DEF Phase!CurrentKind, Phase!Kinds
    <3> QED BY <3>2, <3>3
  <2>4. begin \in Operations /\ begin.op = "begin" BY DEF Operations
  <2>5. decide \in Operations /\ decide.op = "decide" /\ decide.kind = kind
    BY <2>3 DEF Operations
  <2>6. Phase!Schedule(h, kind) =
          IF h.ready /\ h.prepared = kind THEN Phase!PrepareTasks(g, kind, TRUE)
          ELSE Phase!PrepareTasks([g EXCEPT !.ready = FALSE], kind, FALSE)
    BY <1>2 DEF Phase!Schedule
  <2> HIDE DEF kind, begin, decide, e, g
  <2>7. ASSUME NEW d \in S PROVE Safe(d, begin, R, K) /\ Phase!Outcomes(d, begin) \subseteq S
    <3> DEFINE n == d.advances + 1
               a == (n = 1 \/ n % AutoInterval = 0)
               f == [d EXCEPT !.advances = n, !.inspect = a]
    <3>1. d \in F /\ d \in Devices BY <2>2
    <3>2. n \in Nat /\ a \in BOOLEAN BY <3>1 DEF Devices
    <3>3. Phase!Outcomes(d, begin) = {f} BY <2>4, OutcomesOf DEF Phase!BegunInspection
    <3> HIDE DEF n, a
    <3>4. f \in F BY <3>1, <3>2 DEF Directing
    <3>5. /\ f.population = d.population /\ f.base = d.base /\ f.bins = d.bins
          /\ f.active = d.active /\ f.tasks = d.tasks
      BY <3>1 DEF Devices
    <3>6. Phase!Heavy(f) = Phase!Heavy(d) BY <3>5 DEF Phase!Heavy
    <3>7. Phase!Content(f, IF h.split THEN "split" ELSE "full") =
            Phase!Content(d, IF h.split THEN "split" ELSE "full")
      BY <2>1, <3>5, ContentOf
    <3> HIDE DEF f
    <3>8. f \in D BY <3>4, <3>5, <3>7 DEF Settled, Directed
    <3>9. f \in S BY <3>5, <3>6, <3>8 DEF Settled
    <3>10. Safe(d, begin, R, K) BY <2>4 DEF Safe, Phase!Readers
    <3> QED BY <3>3, <3>9, <3>10
  <2>8. Same(e, h, A, S, R, K) BY <2>2, <2>4, <2>7, EmittedSame DEF e
  <2>9. ASSUME NEW d \in S PROVE Safe(d, decide, R, K) /\ Phase!Outcomes(d, decide) \subseteq M
    <3>1. d \in F /\ d \in Devices /\ d \in D BY <2>2
    <3>2. Phase!Outcomes(d, decide) = Phase!Decided(d) BY <2>5, OutcomesOf
    <3>3. Phase!Content(d, kind) = d.population BY <2>3, <3>1
    <3>4. Safe(d, decide, R, K) BY <2>5, <3>3, ReadsOf DEF Safe, Phase!Readers
    <3>5. CASE ~d.inspect
      <4>1. Phase!Decided(d) = {d} BY <3>5 DEF Phase!Decided
      <4>2. d \in M BY <3>1 DEF Settled
      <4> QED BY <3>2, <3>4, <4>1, <4>2
    <3>6. CASE d.inspect
      <4>1. ASSUME NEW a \in BOOLEAN PROVE [d EXCEPT !.active = a] \in M
        <5> DEFINE f == [d EXCEPT !.active = a]
        <5>1. f \in F BY <1>2, <3>1 DEF Directing
        <5>2. /\ f.population = d.population /\ f.base = d.base /\ f.bins = d.bins
              /\ f.inspect = d.inspect
          BY <3>1 DEF Devices
        <5>3. Phase!Content(f, IF h.split THEN "split" ELSE "full") =
                Phase!Content(d, IF h.split THEN "split" ELSE "full")
          BY <2>1, <5>2, ContentOf
        <5> HIDE DEF f
        <5>4. f \in D BY <3>1, <5>1, <5>2, <5>3 DEF Directed
        <5>5. f \in M BY <3>6, <5>2, <5>4
        <5> QED BY <5>5 DEF f
      <4>2. Phase!Decided(d) \subseteq M BY <3>6, <4>1 DEF Phase!Decided
      <4> QED BY <3>2, <3>4, <4>2
    <3> QED BY <3>5, <3>6
  <2>10. /\ e \in Hosts /\ Leads(e.program, A, S, R, K)
         /\ e.base = h.base /\ e.split = h.split /\ e.injection = h.injection
         /\ e.ready = h.ready /\ e.prepared = h.prepared
    BY <2>8 DEF Same
  <2> HIDE DEF M, S, D
  <2>11. Same(g, e, A, M, R, K) BY <2>2, <2>5, <2>9, <2>10, EmittedSame DEF g
  <2>12. /\ g \in Hosts /\ Leads(g.program, A, M, R, K)
         /\ g.base = h.base /\ g.split = h.split /\ g.injection = h.injection
    BY <2>10, <2>11 DEF Same
  <2>13. ASSUME NEW d \in M, NEW only \in BOOLEAN
         PROVE  Phase!Built(d, [op |-> "build", kind |-> kind, onInspection |-> only]) \in S
    <3>1. d \in D /\ (~d.inspect /\ Phase!Heavy(d) => d.tasks = d.population) BY DEF M
    <3>2. Phase!Content(d, kind) = d.population BY <2>3, <3>1
    <3> QED BY <2>1, <2>3, <3>1, <3>2, BuiltSettled DEF D, S
  <2>14. ASSUME NEW f \in Hosts, NEW only \in BOOLEAN, f.program = g.program, f.base = g.base,
                f.split = g.split, f.injection = g.injection
         PROVE  Directs(Phase!PrepareTasks(f, kind, only), h, A, F, R, K)
    <3> DEFINE p == Phase!PrepareTasks(f, kind, only)
    <3>1. Leads(f.program, A, M, R, K) BY <2>12, <2>14
    <3> HIDE DEF p
    <3>2. Prepared(p, f, kind, A, S, R, K)
      BY <2>1, <2>2, <2>3, <2>13, <3>1, TasksPrepared DEF p
    <3>3. /\ p \in Hosts /\ p.base = h.base /\ p.split = h.split /\ p.injection = h.injection
          /\ Leads(p.program, A, S, R, K)
      BY <2>12, <2>14, <3>2 DEF Prepared
    <3> QED BY <2>1, <3>3 DEF Directs, Unlisted, S, p
  <2>15. Directs(Phase!PrepareTasks(g, kind, TRUE), h, A, F, R, K) BY <2>12, <2>14
  <2>16. Directs(Phase!PrepareTasks([g EXCEPT !.ready = FALSE], kind, FALSE), h, A, F, R, K)
    <3> DEFINE f == [g EXCEPT !.ready = FALSE]
    <3>1. /\ f \in Hosts /\ f.program = g.program /\ f.base = g.base
          /\ f.split = g.split /\ f.injection = g.injection
      BY <2>12 DEF Hosts
    <3> HIDE DEF f
    <3>2. Directs(Phase!PrepareTasks(f, kind, FALSE), h, A, F, R, K) BY <2>14, <3>1
    <3> QED BY <3>2 DEF f
  <2> QED BY <2>6, <2>15, <2>16
<1> QED BY <1>1, <1>2

\* The directory of a step.
LEMMA DirectoryDirects ==
  ASSUME Phase!Assumption, config \in Configurations, Phase!CellLocal,
         NEW h \in Hosts, Unlisted(h), NEW A, NEW F, Directing(F), NEW R, NEW K,
         Leads(h.program, A, Stocked(h.base, F), R, K)
  PROVE  Directs(Phase!Directory(h), h, A, F, R, K)
<1> DEFINE p == Phase!PreTransport(h)
<1>1. Directs(p, h, A, F, R, K) BY PreTransportDirects
<1>2. Phase!Directory(h) = Phase!Schedule(p, Phase!CurrentKind(p)) BY DEF Phase!Directory
<1> HIDE DEF p
<1>3. /\ p \in Hosts /\ Unlisted(p) /\ p.base = h.base
      /\ Leads(p.program, A, Settled(p.split, p.injection, F), R, K)
  BY <1>1 DEF Directs
<1>4. Directs(Phase!Schedule(p, Phase!CurrentKind(p)), p, A, F, R, K) BY <1>3, ScheduleDirects
<1> QED BY <1>2, <1>3, <1>4 DEF Directs

-----------------------------------------------------------------------------
(* ParticlePhase: what reads the directory, and what a step leaves behind.     *)

\* The pressure kick reads a directory that has all particles.
LEMMA KickSame ==
  ASSUME NEW h \in Hosts, NEW split \in BOOLEAN, NEW zero \in BOOLEAN, NEW A,
         NEW B \in SUBSET Devices, NEW R, NEW K, Leads(h.program, A, B, R, K),
         Phase!CellLocal \in BOOLEAN,
         Phase!CellLocal => \A d \in B :
           Phase!Content(d, IF split THEN "split" ELSE "full") = d.population
  PROVE  Same(Phase!Kick(h, split, zero), h, A, B, R, K)
<1> DEFINE o == [op |-> "kick", sorted |-> Phase!CellLocal, split |-> split]
<1>1. CASE zero BY <1>1 DEF Phase!Kick, Same
<1>2. CASE ~zero
  <2>1. o \in Operations /\ o.op = "kick" /\ o.sorted = Phase!CellLocal /\ o.split = split
    BY DEF Operations
  <2>2. Phase!Kick(h, split, zero) = Phase!Emit(h, o) BY <1>2 DEF Phase!Kick
  <2> HIDE DEF o
  <2>3. \A d \in B : Safe(d, o, R, K) /\ Phase!Outcomes(d, o) \subseteq B
    BY <2>1, OutcomesOf, ReadsOf DEF Safe, Phase!Readers
  <2>4. Same(Phase!Emit(h, o), h, A, B, R, K) BY <2>1, <2>3, EmittedSame
  <2> QED BY <2>2, <2>4
<1> QED BY <1>1, <1>2

\* The device when the directory of the step is there.
Prompt(h, F) == IF Phase!CellLocal THEN Settled(h.split, h.injection, F) ELSE F

\* So does the collision pool, or the tasks of it.
LEMMA PoolSame ==
  ASSUME Phase!Assumption, config \in Configurations, NEW h \in Hosts, NEW A, NEW F, Directing(F),
         NEW R, NEW K, Leads(h.program, A, Prompt(h, F), R, K)
  PROVE  Same(Phase!Pool(h), h, A, Prompt(h, F), R, K)
<1> DEFINE i == ReadsInjected(h.injection)
           o == [op |-> "pool", sorted |-> Phase!CellLocal, split |-> h.split, injection |-> i]
<1>1. /\ Phase!CellLocal \in BOOLEAN /\ h.split \in BOOLEAN /\ i \in BOOLEAN
  BY Constants DEF Hosts, ReadsInjected
<1>2. /\ o \in Operations /\ o.op = "pool" /\ o.sorted = Phase!CellLocal /\ o.split = h.split
      /\ o.injection = i
  <2> HIDE DEF i
  <2> QED BY <1>1 DEF Operations
<1>3. Phase!Pool(h) = Phase!Emit(h, o) BY DEF Phase!Pool, ReadsInjected
<1> HIDE DEF o, i
<1>4. Prompt(h, F) \in SUBSET Devices BY DirectedFacts DEF Prompt, Directing, Listing
<1>5. ASSUME NEW d \in Prompt(h, F)
      PROVE  Safe(d, o, R, K) /\ Phase!Outcomes(d, o) \subseteq Prompt(h, F)
  <2>1. CASE ~Phase!CellLocal
    BY <1>2, <2>1, OutcomesOf, ReadsOf DEF Safe, Phase!Readers
  <2>2. CASE Phase!CellLocal
    <3>1. /\ Phase!Content(d, IF h.split THEN "split" ELSE "full") = d.population
          /\ h.split /\ ~i => d.base = d.population
          /\ Phase!Heavy(d) => d.tasks = d.population
      BY <2>2 DEF Prompt, Settled, Directed, i
    <3>2. /\ ~h.split => d.bins = d.population
          /\ h.split => d.base \union d.bins = d.population
      BY <1>1, <3>1, ContentOf
    <3>3. Phase!Reads(d, o) = d.population BY <1>1, <1>2, <2>2, <3>1, <3>2, ReadsOf
    <3> QED BY <1>2, <3>3, OutcomesOf DEF Safe, Phase!Readers
  <2> QED BY <1>1, <2>1, <2>2
<1>6. Same(Phase!Emit(h, o), h, A, Prompt(h, F), R, K) BY <1>2, <1>4, <1>5, EmittedSame
<1> QED BY <1>3, <1>6

\* After the coupling nothing is left to be known of the directory.
Couples(p, h, A, F, R, K) ==
  /\ p \in Hosts /\ Unlisted(p) /\ p.base = h.base /\ Leads(p.program, A, F, R, K)
  /\ ~Phase!CellLocal /\ ~h.split /\ ~h.injection => ~p.split /\ ~p.injection

\* The coupling reads the directory there is, or builds one.
LEMMA CoupleCouples ==
  ASSUME Phase!Assumption, config \in Configurations, NEW h \in Hosts, Unlisted(h),
         NEW A, NEW F, Directing(F), NEW R, NEW K, Leads(h.program, A, Prompt(h, F), R, K)
  PROVE  Couples(Phase!Couple(h), h, A, F, R, K)
<1>1. Prompt(h, F) \subseteq F /\ F \in SUBSET Devices /\ Listing(F)
  BY DirectedFacts DEF Prompt, Directing, Listing
<1>2. Leads(h.program, A, F, R, K) BY <1>1, LeadsLess
<1>3. CASE ~config.mixture BY <1>2, <1>3 DEF Phase!Couple, Couples
<1>4. ASSUME config.mixture, NEW g \in Hosts, Unlisted(g), g.base = h.base, NEW B \in SUBSET F,
             ~Phase!CellLocal /\ ~h.split /\ ~h.injection => ~g.split /\ ~g.injection,
             Leads(g.program, A, B, R, K),
             \A d \in B : Phase!Content(d, IF g.split THEN "split" ELSE "full") = d.population
      PROVE  Couples(Phase!Emit(g, [op |-> "couple", split |-> g.split]), h, A, F, R, K)
  <2> DEFINE o == [op |-> "couple", split |-> g.split]
  <2>1. o \in Operations /\ o.op = "couple" /\ o.split = g.split BY DEF Operations, Hosts
  <2> HIDE DEF o
  <2>2. \A d \in B : Safe(d, o, R, K) /\ Phase!Outcomes(d, o) \subseteq F
    BY <1>4, <2>1, OutcomesOf, ReadsOf DEF Safe, Phase!Readers
  <2>3. Same(Phase!Emit(g, o), g, A, F, R, K) BY <1>1, <1>4, <2>1, <2>2, EmittedSame
  <2> QED BY <1>4, <2>3 DEF Same, Couples, Unlisted, o
<1>5. CASE config.mixture /\ Phase!CellLocal
  <2>1. Phase!Couple(h) = Phase!Emit(h, [op |-> "couple", split |-> h.split])
    BY <1>5 DEF Phase!Couple
  <2>2. \A d \in Prompt(h, F) :
          Phase!Content(d, IF h.split THEN "split" ELSE "full") = d.population
    BY <1>5 DEF Prompt, Settled, Directed
  <2>3. Prompt(h, F) \in SUBSET F BY <1>1
  <2> QED BY <1>4, <1>5, <2>1, <2>2, <2>3
<1>6. CASE config.mixture /\ ~Phase!CellLocal
  <2> DEFINE g == Phase!BinParticles(h)
             B == {d \in F : Lists(d)}
  <2>1. Phase!Couple(h) = Phase!Emit(g, [op |-> "couple", split |-> g.split])
    BY <1>6 DEF Phase!Couple
  <2>2. Phase!Enabled = FALSE BY <1>6, Constants
  <2> HIDE DEF g
  <2>3. Prepared(g, [h EXCEPT !.split = FALSE, !.injection = FALSE], "full", A, B, R, K)
    BY <1>1, <1>2, <2>2, ParticlesBinned DEF g
  <2>4. /\ g \in Hosts /\ g.base = h.base /\ g.split = FALSE /\ g.injection = FALSE
        /\ g.ready = FALSE /\ g.prepared = h.prepared /\ Leads(g.program, A, B, R, K)
    BY <2>2, <2>3 DEF Prepared, Hosts
  <2>5. Unlisted(g) BY <2>2, <2>4 DEF Unlisted
  <2>6. B \in SUBSET F /\ \A d \in B :
          Phase!Content(d, IF g.split THEN "split" ELSE "full") = d.population
    BY <2>4, ContentOf DEF Lists
  <2> HIDE DEF B
  <2> QED BY <1>4, <1>6, <2>1, <2>4, <2>5, <2>6
<1> QED BY <1>3, <1>5, <1>6

\* All particles have been tracked.
Moved(F) == {d \in F : \A t \in d.population : t[1] = "moved"}

\* After the tracking every particle is a tracked one.
LEMMA TrackedMoved ==
  ASSUME NEW h \in Hosts, NEW A, NEW F, Directing(F), NEW R, NEW K, InStep(F, R, K),
         Leads(h.program, A, F, R, K), host.grid \in {0, 1}
  PROVE  /\ Same(Phase!Emit(h, [op |-> "track", grid |-> host.grid]), h, A, Moved(F), R, K)
         /\ Listing(Moved(F))
<1> DEFINE o == [op |-> "track", grid |-> host.grid]
<1>1. o \in Operations /\ o.op = "track" BY DEF Operations
<1>2. F \subseteq Devices BY DEF Directing, Listing
<1> HIDE DEF o
<1>3. ASSUME NEW d \in F PROVE Safe(d, o, R, K) /\ Phase!Outcomes(d, o) \subseteq Moved(F)
  <2> DEFINE t == <<"moved", d.step>>
             X == IF d.population = {} THEN {} ELSE {t}
             e == [d EXCEPT !.population = X]
  <2>1. Safe(d, o, R, K) BY <1>1 DEF Safe, Phase!Readers, InStep
  <2>2. Phase!Outcomes(d, o) = {e} BY <1>1, OutcomesOf DEF Phase!Tracked
  <2>3. d \in Devices BY <1>2
  <2>4. t \in Parcels /\ t[1] = "moved" BY <2>3 DEF Parcels, Devices
  <2>5. X \in SUBSET Parcels /\ \A u \in X : u[1] = "moved" BY <2>4
  <2> HIDE DEF X
  <2>6. e \in F /\ e.population = X BY <2>3, <2>5 DEF Directing, Devices
  <2> QED BY <2>1, <2>2, <2>5, <2>6 DEF Moved
<1>4. Same(Phase!Emit(h, o), h, A, Moved(F), R, K)
  <2>1. Moved(F) \in SUBSET Devices BY <1>2 DEF Moved
  <2> QED BY <1>1, <1>3, <2>1, EmittedSame
<1>5. Listing(Moved(F))
  <2>1. ASSUME NEW d \in Moved(F), NEW X \in SUBSET Parcels
        PROVE  [d EXCEPT !.bins = X] \in Moved(F) /\ [d EXCEPT !.tasks = X] \in Moved(F)
    <3>1. d \in F /\ d \in Devices BY <1>2 DEF Moved
    <3>2. [d EXCEPT !.bins = X] \in F /\ [d EXCEPT !.tasks = X] \in F
      BY <3>1 DEF Directing, Listing
    <3>3. [d EXCEPT !.bins = X].population = d.population
          /\ [d EXCEPT !.tasks = X].population = d.population
      BY <3>1 DEF Devices
    <3> QED BY <3>2, <3>3 DEF Moved
  <2> QED BY <1>2, <2>1 DEF Listing, Moved
<1> QED BY <1>4, <1>5 DEF o

\* The directory is the one of the tracked particles; their moments have been taken.
Sorted(F) == {d \in Moved(F) : Phase!CellLocal => Lists(d)}
Counted(F) == {d \in Sorted(F) : ~config.thermal => d.gathered = d.population}

\* The moments read the directory of the tracked particles or its tasks.
LEMMA MomentsCounted ==
  ASSUME Phase!Assumption, config \in Configurations, NEW h \in Hosts, NEW A, NEW F,
         Directing(F), NEW R, NEW K, Leads(h.program, A, Sorted(F), R, K)
  PROVE  Same(Phase!Emit(h, [op |-> "moments", sorted |-> Phase!CellLocal]), h, A, Counted(F),
              R, K)
<1> DEFINE o == [op |-> "moments", sorted |-> Phase!CellLocal]
<1>1. Phase!CellLocal \in BOOLEAN /\ config.thermal \in BOOLEAN BY Constants
<1>2. o \in Operations /\ o.op = "moments" /\ o.sorted = Phase!CellLocal
  BY <1>1 DEF Operations
<1>3. F \subseteq Devices BY DEF Directing, Listing
<1>4. Counted(F) \in SUBSET Devices BY <1>3 DEF Counted, Sorted, Moved
<1> HIDE DEF o
<1>5. ASSUME NEW d \in Sorted(F)
      PROVE  Safe(d, o, R, K) /\ Phase!Outcomes(d, o) \subseteq Counted(F)
  <2> DEFINE X == d.population
             e == [d EXCEPT !.gathered = X]
  <2>1. d \in F /\ d \in Devices /\ X \in SUBSET Parcels
    BY <1>3 DEF Sorted, Moved, Devices
  <2>2. Phase!Reads(d, o) = X
    <3>1. CASE ~Phase!CellLocal BY <1>2, <3>1, ReadsOf
    <3>2. CASE Phase!CellLocal BY <1>2, <3>2, ReadsOf DEF Sorted, Lists
    <3> QED BY <3>1, <3>2
  <2>3. Safe(d, o, R, K) BY <1>2, <2>2 DEF Safe, Phase!Readers
  <2>4. Phase!Outcomes(d, o) = {IF config.thermal THEN d ELSE e}
    BY <1>2, <2>2, OutcomesOf DEF Phase!Gathered
  <2>5. CASE config.thermal BY <2>3, <2>4, <2>5 DEF Counted
  <2>6. CASE ~config.thermal
    <3>1. e \in F BY <2>1 DEF Directing
    <3>2. /\ e.population = X /\ e.bins = d.bins /\ e.tasks = d.tasks
          /\ e.active = d.active /\ e.gathered = X
      BY <2>1 DEF Devices
    <3> HIDE DEF e
    <3>3. e \in Moved(F) BY <3>1, <3>2 DEF Sorted, Moved
    <3>4. Phase!Heavy(e) = Phase!Heavy(d) BY <3>2 DEF Phase!Heavy
    <3>5. Phase!CellLocal => Lists(e) BY <3>2, <3>4 DEF Sorted, Lists
    <3>6. e \in Counted(F) BY <3>2, <3>3, <3>5 DEF Counted, Sorted
    <3> QED BY <2>3, <2>4, <2>6, <3>6
  <2> QED BY <1>1, <2>5, <2>6
<1>6. Same(Phase!Emit(h, o), h, A, Counted(F), R, K) BY <1>2, <1>4, <1>5, EmittedSame
<1> QED BY <1>6 DEF o

\* Compacted particles are of the base.
LEMMA CompactedFacts ==
  ASSUME NEW X \in SUBSET Parcels, \A t \in X : t[1] = "moved"
  PROVE  /\ Phase!Compacted(X) \in SUBSET Parcels
         /\ \A t \in Phase!Compacted(X) : t[1] # "injected"
<1>1. ASSUME NEW t \in X PROVE <<"base", t[2]>> \in Parcels /\ <<"base", t[2]>>[1] # "injected"
  BY DEF Parcels
<1> QED BY <1>1 DEF Phase!Compacted

\* The device after the commit.
Ended(r, k, b) == {d \in Frame(r, k, 1 - b) : Phase!CellLocal => Carried(d)}
Compacts(p, h, A, r, k, b, R, K) ==
  /\ p \in Hosts /\ Leads(p.program, A, Ended(r, k, b), R, K)
  /\ p.base = h.base /\ p.split = h.split /\ p.injection = h.injection
  /\ p.ready = Phase!Enabled
  /\ p.prepared = IF Phase!Enabled /\ ~config.thermal /\ ~config.sources THEN "baseOnly"
                  ELSE "full"

\* What the particles are when they have been compacted.
Replaced(d, X) == [d EXCEPT !.population = X, !.buffer = 1 - @, !.baseReady = TRUE]
IsReplaced(e, d, X) ==
  /\ e.population = X /\ e.baseReady
  /\ e.base = d.base /\ e.tasks = d.tasks /\ e.active = d.active /\ e.gathered = d.gathered

\* Nothing else changes.
LEMMA ReplacedFacts ==
  ASSUME NEW r, NEW k, NEW b \in {0, 1}, NEW d \in Frame(r, k, b), NEW X \in SUBSET Parcels
  PROVE  Replaced(d, X) \in Frame(r, k, 1 - b) /\ IsReplaced(Replaced(d, X), d, X)
<1> DEFINE e == Replaced(d, X)
<1>1. d \in Devices /\ d.buffer = b /\ d.interval = r /\ d.clock = r /\ d.step = k /\ AlwaysHeavy(d)
  BY DEF Frame
<1>2. e = [d EXCEPT !.population = X, !.buffer = 1 - b, !.baseReady = TRUE]
  BY <1>1 DEF Replaced
<1> HIDE DEF e
<1>3. 1 - b \in {0, 1} OBVIOUS
<1>4. /\ e \in Devices /\ e.buffer = 1 - b /\ e.interval = d.interval /\ e.clock = d.clock
      /\ e.step = d.step
  BY <1>1, <1>2, <1>3 DEF Devices
<1>5. IsReplaced(e, d, X) BY <1>1, <1>2 DEF Devices, IsReplaced
<1>6. AlwaysHeavy(e) BY <1>1, <1>5 DEF AlwaysHeavy, IsReplaced
<1> QED BY <1>1, <1>4, <1>5, <1>6 DEF Frame, e

\* The survivors have been copied, and the base may have been captured.
Taken(F) == {d \in F : \A t \in d.gathered : t[1] = "moved"}
Kept(F) == {d \in Taken(F) : d.baseReady /\ d.base = Phase!Compacted(d.gathered)}
Tasked(F) ==
  {d \in Kept(F) : Phase!Enabled /\ ~config.sources => d.tasks = IF d.active THEN d.base ELSE {}}

\* csrCompactParticles of the isothermal back end.
LEMMA CapturedKept ==
  ASSUME NEW F, Directing(F), NEW d \in Taken(F), \A e \in F : [e EXCEPT !.baseReady = TRUE] \in F
  PROVE  Phase!Captured(d) \in Kept(F) /\ Phase!Captured(d).population = d.population
<1> DEFINE X == Phase!Compacted(d.gathered)
           e == [d EXCEPT !.base = X]
           f == [e EXCEPT !.baseReady = TRUE]
<1>1. d \in F /\ d \in Devices /\ d.gathered \in SUBSET Parcels /\ \A t \in d.gathered : t[1] = "moved"
  BY DEF Taken, Directing, Listing, Devices
<1>2. X \in SUBSET Parcels BY <1>1, CompactedFacts
<1> HIDE DEF X
<1>3. e \in F BY <1>1, <1>2 DEF Directing
<1>4. f \in F BY <1>3
<1>5. Phase!Captured(d) = f /\ f.base = X /\ f.baseReady /\ f.gathered = d.gathered
      /\ f.population = d.population
  BY <1>1 DEF Phase!Captured, Devices, X
<1> HIDE DEF e, f
<1> QED BY <1>1, <1>4, <1>5 DEF Kept, Taken, X

\* The commit makes the survivors the population, in the other buffer.
LEMMA CommittedFrame ==
  ASSUME NEW r, NEW k, NEW b \in {0, 1}, NEW d \in Taken(Frame(r, k, b))
  PROVE  /\ Phase!Committed(d) \in Taken(Frame(r, k, 1 - b))
         /\ IsReplaced(Phase!Committed(d), d, Phase!Compacted(d.gathered))
         /\ \A t \in Phase!Compacted(d.gathered) : t[1] # "injected"
<1>1. d \in Frame(r, k, b) /\ d.gathered \in SUBSET Parcels /\ \A t \in d.gathered : t[1] = "moved"
  BY DEF Taken, Frame, Devices
<1> DEFINE X == Phase!Compacted(d.gathered)
<1>2. X \in SUBSET Parcels /\ \A t \in X : t[1] # "injected" BY <1>1, CompactedFacts
<1>3. Phase!Committed(d) = Replaced(d, X) BY DEF Phase!Committed, Replaced
<1> HIDE DEF X
<1>4. Replaced(d, X) \in Frame(r, k, 1 - b) /\ IsReplaced(Replaced(d, X), d, X)
  BY <1>1, <1>2, ReplacedFacts
<1> QED BY <1>1, <1>2, <1>3, <1>4 DEF Taken, IsReplaced, X

\* Nothing of a step is about the readiness of the base.
LEMMA FrameReady ==
  ASSUME NEW r, NEW k, NEW b
  PROVE  \A e \in Frame(r, k, b) : [e EXCEPT !.baseReady = TRUE] \in Frame(r, k, b)
  BY DEF Frame, Devices, AlwaysHeavy

\* The compaction of every level and back end leaves a base that has all particles.
LEMMA CompactCompacts ==
  ASSUME Phase!Assumption, config \in Configurations, NEW h \in Hosts, NEW A, NEW R, NEW K,
         NEW r, NEW k, NEW b \in {0, 1}, Leads(h.program, A, Counted(Frame(r, k, b)), R, K),
         h.ready = Phase!Enabled, h.prepared = "full"
  PROVE  Compacts(Phase!Compact(h), h, A, r, k, b, R, K)
<1> DEFINE F == Frame(r, k, b)
           G == Frame(r, k, 1 - b)
           capture == [op |-> "capture"]
           commit == [op |-> "commit"]
           gather == [op |-> "gather"]
           select == [op |-> "select"]
           E == Ended(r, k, b)
<1>1. /\ Phase!CellLocal \in BOOLEAN /\ Phase!Enabled \in BOOLEAN /\ config.thermal \in BOOLEAN
      /\ config.sources \in BOOLEAN
      /\ Phase!Enabled => Phase!CellLocal
  BY Constants
<1>2. {capture, commit, gather, select} \subseteq Operations BY DEF Operations
<1>3. /\ capture.op = "capture" /\ commit.op = "commit" /\ gather.op = "gather"
      /\ select.op = "select"
  OBVIOUS
<1> HIDE DEF capture, commit, gather, select
<1>4. Directing(F) /\ Directing(G) /\ F \subseteq Devices /\ G \subseteq Devices
  BY FrameFacts DEF Directing, Listing
<1>5. E \in SUBSET Devices /\ Counted(F) \in SUBSET F /\ Taken(F) \in SUBSET F /\ Taken(G) \in SUBSET G
      /\ Kept(F) \in SUBSET F /\ Kept(G) \in SUBSET G /\ Tasked(F) \in SUBSET F
  BY <1>4 DEF Ended, Counted, Sorted, Moved, Taken, Kept, Tasked
<1>6. \A d : /\ Safe(d, capture, R, K) /\ Safe(d, commit, R, K) /\ Safe(d, select, R, K)
             /\ Phase!Outcomes(d, capture) = {Phase!Captured(d)}
             /\ Phase!Outcomes(d, commit) = {Phase!Committed(d)}
             /\ Phase!Outcomes(d, select) = {Phase!Selected(d)}
             /\ Phase!Outcomes(d, gather) = {Phase!Gathered(d, gather)}
             /\ Phase!Reads(d, gather) = d.bins
  BY <1>3, OutcomesOf, ReadsOf DEF Safe, Phase!Readers
<1>7. CASE ~Phase!CellLocal
  <2>1. Phase!Compact(h) = Phase!Emit(h, select) BY <1>7 DEF Phase!Compact, select
  <2>2. ASSUME NEW d \in Counted(F) PROVE Phase!Selected(d) \in E
    <3> DEFINE X == Phase!Compacted(d.population)
               e == [d EXCEPT !.population = X, !.bins = {}, !.buffer = 1 - b, !.baseReady = FALSE]
    <3>1. /\ d \in F /\ d \in Devices /\ d.population \in SUBSET Parcels /\ d.buffer = b
          /\ \A t \in d.population : t[1] = "moved"
      BY <1>4 DEF Counted, Sorted, Moved, Frame, Devices
    <3>2. X \in SUBSET Parcels BY <3>1, CompactedFacts
    <3>3. Phase!Selected(d) = e BY <3>1 DEF Phase!Selected
    <3> HIDE DEF X
    <3>4. 1 - b \in {0, 1} OBVIOUS
    <3>5. e \in Frame(r, k, 1 - b) BY <3>1, <3>2, <3>4 DEF Frame, Devices, AlwaysHeavy
    <3> QED BY <1>7, <3>3, <3>5 DEF Ended
  <2>3. \A d \in Counted(F) : Safe(d, select, R, K) /\ Phase!Outcomes(d, select) \subseteq E
    BY <1>6, <2>2
  <2> HIDE DEF E, F
  <2>4. Same(Phase!Emit(h, select), h, A, E, R, K)
    BY <1>2, <1>5, <2>3, EmittedSame DEF F
  <2> DEFINE p == Phase!Emit(h, select)
  <2> HIDE DEF p
  <2>5. /\ p \in Hosts /\ Leads(p.program, A, E, R, K)
        /\ p.base = h.base /\ p.split = h.split /\ p.injection = h.injection
        /\ p.ready = h.ready /\ p.prepared = h.prepared
    BY <2>4 DEF Same, p
  <2>6. ~Phase!Enabled BY <1>1, <1>7
  <2>7. Compacts(p, h, A, r, k, b, R, K) BY <2>5, <2>6 DEF Compacts, E
  <2> QED BY <2>1, <2>7 DEF p
<1>8. CASE Phase!CellLocal /\ config.thermal
  <2> DEFINE f == Phase!Emit(h, gather)
             g == Phase!Emit(f, commit)
             p == Phase!Emit(g, capture)
             H == {d \in Taken(G) : d.population = Phase!Compacted(d.gathered)}
  <2>1. Phase!Compact(h) = p BY <1>8 DEF Phase!Compact, gather, commit, capture
  <2>2. H \in SUBSET Devices BY <1>4, <1>5
  <2>3. ASSUME NEW d \in Counted(F)
        PROVE  Safe(d, gather, R, K) /\ Phase!Outcomes(d, gather) \subseteq Taken(F)
    <3> DEFINE X == d.population
               e == [d EXCEPT !.gathered = X]
    <3>1. /\ d \in F /\ d \in Devices /\ X \in SUBSET Parcels /\ d.bins = X
          /\ \A t \in X : t[1] = "moved"
      BY <1>4, <1>8 DEF Counted, Sorted, Moved, Lists, Devices
    <3>2. Safe(d, gather, R, K) BY <1>3, <1>6, <3>1 DEF Safe, Phase!Readers
    <3>3. Phase!Outcomes(d, gather) = {e} BY <1>6, <3>1 DEF Phase!Gathered
    <3>4. e \in F BY <1>4, <3>1 DEF Directing
    <3>5. e.gathered = X BY <3>1 DEF Devices
    <3> HIDE DEF e, X, F
    <3>6. e \in Taken(F) BY <3>1, <3>4, <3>5 DEF Taken
    <3> QED BY <3>2, <3>3, <3>6
  <2>4. ASSUME NEW d \in Taken(F)
        PROVE  Safe(d, commit, R, K) /\ Phase!Outcomes(d, commit) \subseteq H
    <3>1. /\ Phase!Committed(d) \in Taken(G)
          /\ IsReplaced(Phase!Committed(d), d, Phase!Compacted(d.gathered))
      BY CommittedFrame
    <3>2. Phase!Committed(d) \in H BY <3>1 DEF IsReplaced
    <3> QED BY <1>6, <3>2
  <2>5. ASSUME NEW d \in H
        PROVE  Safe(d, capture, R, K) /\ Phase!Outcomes(d, capture) \subseteq E
    <3>1. Phase!Captured(d) \in Kept(G) /\ Phase!Captured(d).population = d.population
      BY <1>4, FrameReady, CapturedKept
    <3> DEFINE e == Phase!Captured(d)
    <3>2. e.gathered = d.gathered BY <1>4, <1>5 DEF Phase!Captured, Devices
    <3>3. \A t \in e.gathered : t[1] = "moved" BY <3>2 DEF Taken
    <3>4. e.gathered \in SUBSET Parcels BY <3>1, <1>4, <1>5 DEF Devices
    <3>5. \A t \in Phase!Compacted(e.gathered) : t[1] # "injected" BY <3>3, <3>4, CompactedFacts
    <3> HIDE DEF e
    <3>6. e \in G /\ e.baseReady /\ e.base = e.population /\ e.base = Phase!Compacted(e.gathered)
      BY <3>1, <3>2, <1>5 DEF Kept, e
    <3>7. e \in E BY <1>8, <3>5, <3>6 DEF Ended, Carried
    <3> QED BY <1>6, <3>7 DEF e
  <2> HIDE DEF E, F, G, H, f, g, p
  <2>6. Same(f, h, A, Taken(F), R, K)
    BY <1>2, <1>4, <1>5, <2>3, EmittedSame DEF f, F
  <2>7. f \in Hosts /\ Leads(f.program, A, Taken(F), R, K) BY <2>6 DEF Same
  <2>8. Same(g, f, A, H, R, K) BY <1>2, <2>2, <2>4, <2>7, EmittedSame DEF g
  <2>9. g \in Hosts /\ Leads(g.program, A, H, R, K) BY <2>8 DEF Same
  <2>10. Same(p, g, A, E, R, K) BY <1>2, <1>5, <2>5, <2>9, EmittedSame DEF p
  <2> QED BY <1>1, <1>8, <2>1, <2>6, <2>8, <2>10 DEF Same, Compacts, E
<1>9. CASE Phase!CellLocal /\ ~config.thermal
  <2> DEFINE f == Phase!Emit(h, capture)
             g == IF config.sources THEN f ELSE Phase!PrepareTasks(f, "baseOnly", FALSE)
             p == Phase!Emit(g, commit)
  <2>1. Phase!Compact(h) = p BY <1>9 DEF Phase!Compact, commit, capture
  <2>2. ASSUME NEW d \in Counted(F)
        PROVE  Safe(d, capture, R, K) /\ Phase!Outcomes(d, capture) \subseteq Kept(F)
    <3>1. d \in Taken(F) BY <1>9 DEF Counted, Sorted, Moved, Taken
    <3>2. Phase!Captured(d) \in Kept(F) BY <1>4, <3>1, FrameReady, CapturedKept
    <3> QED BY <1>6, <3>2
  <2>3. ASSUME ~config.sources, NEW d \in Kept(F)
        PROVE  Phase!Built(d, [op |-> "build", kind |-> "baseOnly", onInspection |-> FALSE])
                 \in Tasked(F)
    <3> DEFINE X == IF Phase!Heavy(d) THEN d.base ELSE {}
               e == [d EXCEPT !.tasks = X]
    <3>1. Phase!Built(d, [op |-> "build", kind |-> "baseOnly", onInspection |-> FALSE]) = e
      BY ContentOf DEF Phase!Built
    <3>2. d \in F /\ d \in Devices /\ d.base \in SUBSET Parcels BY <1>4, <1>5 DEF Devices
    <3>3. e \in F BY <1>4, <3>2 DEF Directing, Listing
    <3>4. /\ e.gathered = d.gathered /\ e.base = d.base /\ e.baseReady = d.baseReady
          /\ e.active = d.active /\ e.tasks = X
      BY <3>2 DEF Devices
    <3> HIDE DEF e
    <3>5. e \in Kept(F) BY <3>3, <3>4 DEF Kept, Taken
    <3>6. e \in Tasked(F) BY <3>4, <3>5 DEF Tasked, Phase!Heavy
    <3> QED BY <3>1, <3>6
  <2>4. ASSUME NEW d \in Tasked(F)
        PROVE  Safe(d, commit, R, K) /\ Phase!Outcomes(d, commit) \subseteq E
    <3> DEFINE e == Phase!Committed(d)
    <3>1. d \in Taken(F) /\ d.base = Phase!Compacted(d.gathered) BY DEF Tasked, Kept
    <3>2. /\ e \in Taken(G) /\ IsReplaced(e, d, d.base)
          /\ \A t \in d.base : t[1] # "injected"
      BY <3>1, CommittedFrame
    <3> HIDE DEF e
    <3>3. e \in G /\ Carried(e) BY <3>2, <1>5 DEF IsReplaced, Carried, Tasked
    <3>4. e \in E BY <3>3 DEF Ended
    <3> QED BY <1>6, <3>4 DEF e
  <2> HIDE DEF E, F, G, f, g, p
  <2>5. Same(f, h, A, Kept(F), R, K)
    BY <1>2, <1>4, <1>5, <2>2, EmittedSame DEF f, F
  <2>6. /\ f \in Hosts /\ Leads(f.program, A, Kept(F), R, K) /\ f.base = h.base /\ f.split = h.split
        /\ f.injection = h.injection /\ f.ready = Phase!Enabled /\ f.prepared = "full"
    BY <2>5 DEF Same
  <2>7. /\ g \in Hosts /\ Leads(g.program, A, Tasked(F), R, K) /\ g.base = h.base /\ g.split = h.split
        /\ g.injection = h.injection /\ g.ready = Phase!Enabled
        /\ g.prepared = IF Phase!Enabled /\ ~config.sources THEN "baseOnly" ELSE "full"
    <3>1. CASE config.sources
      <4>1. Kept(F) \subseteq Tasked(F) BY <3>1 DEF Tasked
      <4>2. Leads(f.program, A, Tasked(F), R, K) BY <2>6, <4>1, LeadsLess
      <4> QED BY <2>6, <3>1, <4>2 DEF g
    <3>2. CASE ~config.sources
      <4>1. "baseOnly" \in Phase!Kinds /\ FALSE \in BOOLEAN BY DEF Phase!Kinds
      <4>2. Tasked(F) \in SUBSET Devices BY <1>4, <1>5
      <4>3. Phase!Enabled => \A d \in Kept(F) \intersect Devices :
              Phase!Built(d, [op |-> "build", kind |-> "baseOnly", onInspection |-> FALSE])
                \in Tasked(F)
        BY <2>3, <3>2
      <4>4. ~Phase!Enabled => Kept(F) \subseteq Tasked(F) BY DEF Tasked
      <4>5. Prepared(Phase!PrepareTasks(f, "baseOnly", FALSE), f, "baseOnly", A, Tasked(F), R, K)
        BY <1>1, <2>6, <4>1, <4>2, <4>3, <4>4, TasksPrepared
      <4>6. g = Phase!PrepareTasks(f, "baseOnly", FALSE) BY <3>2 DEF g
      <4> QED BY <2>6, <3>2, <4>5, <4>6 DEF Prepared
    <3> QED BY <1>1, <3>1, <3>2
  <2>8. Same(p, g, A, E, R, K) BY <1>2, <1>5, <2>4, <2>7, EmittedSame DEF p
  <2> QED BY <1>1, <1>9, <2>1, <2>7, <2>8 DEF Same, Compacts, E
<1> QED BY <1>1, <1>7, <1>8, <1>9

\* What a step leaves of the flags, and of the device.
Ends(p, A, r, k, b, R, K) ==
  /\ p \in Hosts /\ Leads(p.program, A, Ended(r, k, b), R, K)
  /\ p.split = FALSE /\ p.injection = FALSE /\ p.ready = Phase!Enabled
  /\ p.prepared = IF Phase!Enabled /\ ~config.thermal /\ ~config.sources THEN "baseOnly"
                  ELSE "full"

\* From the tracking to the commit.
LEMMA TransportEnds ==
  ASSUME Phase!Assumption, config \in Configurations, host.grid \in {0, 1},
         NEW h \in Hosts, Unlisted(h), ~Phase!CellLocal => ~h.split /\ ~h.injection,
         NEW zero \in BOOLEAN, NEW A, NEW R, NEW K, NEW r, NEW k, NEW b \in {0, 1},
         InStep(Frame(r, k, b), R, K), Leads(h.program, A, Frame(r, k, b), R, K)
  PROVE  Ends(Phase!Transport(h, zero), A, r, k, b, R, K)
<1> DEFINE F == Frame(r, k, b)
           t == Phase!Emit(h, [op |-> "track", grid |-> host.grid])
           g == IF Phase!CellLocal THEN Phase!BinParticles(t) ELSE t
           m == Phase!Emit(g, [op |-> "moments", sorted |-> Phase!CellLocal])
           q == Phase!Kick(m, FALSE, zero)
           p == Phase!Compact(q)
<1>1. Phase!CellLocal \in BOOLEAN /\ Phase!Enabled \in BOOLEAN BY Constants
<1>2. Phase!Enabled => Phase!CellLocal BY Constants
<1>3. Directing(F) /\ F \subseteq Devices BY FrameFacts DEF Directing, Listing
<1>4. Phase!Transport(h, zero) = p BY DEF Phase!Transport
<1>5. Same(t, h, A, Moved(F), R, K) /\ Listing(Moved(F)) BY <1>3, TrackedMoved
<1> HIDE DEF F, t, g, m, q, p
<1>6. /\ t \in Hosts /\ Leads(t.program, A, Moved(F), R, K)
      /\ t.split = h.split /\ t.injection = h.injection /\ t.ready = h.ready
      /\ t.prepared = h.prepared
  BY <1>5 DEF Same
<1>7. /\ g \in Hosts /\ Leads(g.program, A, Sorted(F), R, K)
      /\ g.split = FALSE /\ g.injection = FALSE /\ g.ready = Phase!Enabled /\ g.prepared = "full"
  <2>1. CASE Phase!CellLocal
    <3>1. g = Phase!BinParticles(t) BY <2>1 DEF g
    <3>2. Prepared(g, [t EXCEPT !.split = FALSE, !.injection = FALSE], "full", A,
                   {d \in Moved(F) : Lists(d)}, R, K)
      BY <1>1, <1>5, <1>6, <3>1, ParticlesBinned
    <3>3. {d \in Moved(F) : Lists(d)} = Sorted(F) BY <2>1 DEF Sorted
    <3> QED BY <1>6, <3>2, <3>3 DEF Prepared, Hosts, Unlisted
  <2>2. CASE ~Phase!CellLocal
    <3>1. g = t BY <2>2 DEF g
    <3>2. Moved(F) = Sorted(F) BY <2>2 DEF Sorted
    <3>3. ~Phase!Enabled BY <1>2, <2>2
    <3>4. h.split = FALSE /\ h.injection = FALSE /\ h.ready = FALSE /\ h.prepared = "full"
      BY <2>2, <3>3 DEF Hosts, Unlisted
    <3>5. h.ready = Phase!Enabled BY <1>1, <3>3, <3>4
    <3> QED BY <1>6, <3>1, <3>2, <3>4, <3>5
  <2> QED BY <1>1, <2>1, <2>2
<1>8. Same(m, g, A, Counted(F), R, K) BY <1>3, <1>7, MomentsCounted DEF m
<1>9. m \in Hosts /\ Leads(m.program, A, Counted(F), R, K) BY <1>8 DEF Same
<1>10. Same(q, m, A, Counted(F), R, K)
  <2>1. Counted(F) \in SUBSET Devices BY <1>3 DEF Counted, Sorted, Moved
  <2>2. Phase!CellLocal => \A d \in Counted(F) :
          Phase!Content(d, IF FALSE THEN "split" ELSE "full") = d.population
    BY ContentOf DEF Counted, Sorted, Lists
  <2> QED BY <1>1, <1>9, <2>1, <2>2, KickSame DEF q
<1>11. /\ q \in Hosts /\ Leads(q.program, A, Counted(F), R, K) /\ q.split = FALSE
       /\ q.injection = FALSE /\ q.ready = Phase!Enabled /\ q.prepared = "full"
  BY <1>7, <1>8, <1>10 DEF Same
<1>12. Compacts(p, q, A, r, k, b, R, K) BY <1>11, CompactCompacts DEF p, F
<1> QED BY <1>4, <1>11, <1>12 DEF Compacts, Ends

\* The flags after a step.
Post ==
  [base |-> Phase!CellLocal, split |-> FALSE, injection |-> FALSE, ready |-> Phase!Enabled,
   prepared |-> IF Phase!Enabled /\ ~config.thermal /\ ~config.sources THEN "baseOnly"
                ELSE "full"]

\* A whole step, from the published interval.
LEMMA StepEnds ==
  ASSUME Phase!Assumption, config \in Configurations, host.grid \in {0, 1},
         NEW h \in Hosts, Unlisted(h), ~Phase!CellLocal => ~h.split /\ ~h.injection,
         h.base => Phase!CellLocal,
         NEW zero \in BOOLEAN, NEW A, NEW R, NEW K, NEW r, NEW k, NEW b \in {0, 1},
         r.active, k \in 1 .. K, R[k] = r,
         Leads(h.program, A, Begun(h.base, Frame(r, k, b)), R, K)
  PROVE  /\ Phase!Submit(h, zero) \in Hosts /\ Phase!Mirror(Phase!Submit(h, zero)) = Post
         /\ Leads(Phase!Submit(h, zero).program, A, Rest(Phase!CellLocal, 1 - b, k, TRUE, r.end),
                  R, K)
<1> DEFINE F == Frame(r, k, b)
           i == Phase!Inject(h)
           d == Phase!Directory(i)
           q == Phase!Kick(d, d.split, zero)
           o == Phase!Pool(q)
           c == Phase!Couple(o)
           t == Phase!Transport(c, zero)
           finish == [op |-> "finish"]
           e == Phase!Emit(t, finish)
           p == [e EXCEPT !.base = Phase!CellLocal, !.split = FALSE]
           Z == Rest(Phase!CellLocal, 1 - b, k, TRUE, r.end)
<1>1. Phase!CellLocal \in BOOLEAN /\ Phase!Enabled \in BOOLEAN BY Constants
<1>2. Phase!Enabled => Phase!CellLocal BY Constants
<1>3. Directing(F) /\ F \in SUBSET Devices BY FrameFacts DEF Directing, Listing
<1>4. InStep(F, R, K) BY DEF InStep, Frame
<1>5. Phase!Submit(h, zero) = p BY DEF Phase!Submit
<1> HIDE DEF F, i, d, q, o, c, t, finish, e, p, Z
<1>6. Same(i, h, A, Stocked(h.base, F), R, K) BY <1>3, <1>4, InjectedNext DEF i, F
<1>7. /\ i \in Hosts /\ Unlisted(i) /\ i.base = h.base
      /\ Leads(i.program, A, Stocked(i.base, F), R, K)
      /\ ~Phase!CellLocal => ~i.split /\ ~i.injection
  BY <1>6 DEF Same, Unlisted
<1>8. /\ d \in Hosts /\ Unlisted(d) /\ Leads(d.program, A, Prompt(d, F), R, K)
      /\ ~Phase!CellLocal => ~d.split /\ ~d.injection
  <2>1. CASE Phase!CellLocal
    <3>1. Directs(d, i, A, F, R, K) BY <1>3, <1>7, <2>1, DirectoryDirects DEF d
    <3> QED BY <2>1, <3>1 DEF Directs, Prompt
  <2>2. CASE ~Phase!CellLocal
    <3>1. d = i BY <2>2 DEF d, Phase!Directory
    <3>2. Stocked(i.base, F) \subseteq F BY DEF Stocked
    <3>3. Leads(d.program, A, F, R, K) BY <1>7, <3>1, <3>2, LeadsLess
    <3> QED BY <1>7, <2>2, <3>1, <3>3 DEF Prompt
  <2> QED BY <1>1, <2>1, <2>2
<1>9. Same(q, d, A, Prompt(d, F), R, K)
  <2>1. Prompt(d, F) \in SUBSET Devices BY <1>3, DirectedFacts DEF Prompt
  <2>2. Phase!CellLocal => \A x \in Prompt(d, F) :
          Phase!Content(x, IF d.split THEN "split" ELSE "full") = x.population
    BY DEF Prompt, Settled, Directed
  <2>3. d.split \in BOOLEAN BY <1>8 DEF Hosts
  <2> QED BY <1>1, <1>8, <2>1, <2>2, <2>3, KickSame DEF q
<1>10. /\ q \in Hosts /\ Unlisted(q) /\ Leads(q.program, A, Prompt(q, F), R, K)
       /\ ~Phase!CellLocal => ~q.split /\ ~q.injection
  BY <1>8, <1>9 DEF Same, Unlisted, Prompt
<1>11. Same(o, q, A, Prompt(q, F), R, K) BY <1>3, <1>10, PoolSame DEF o
<1>12. /\ o \in Hosts /\ Unlisted(o) /\ Leads(o.program, A, Prompt(o, F), R, K)
       /\ ~Phase!CellLocal => ~o.split /\ ~o.injection
  BY <1>10, <1>11 DEF Same, Unlisted, Prompt
<1>13. Couples(c, o, A, F, R, K) BY <1>3, <1>12, CoupleCouples DEF c
<1>14. /\ c \in Hosts /\ Unlisted(c) /\ Leads(c.program, A, F, R, K)
       /\ ~Phase!CellLocal => ~c.split /\ ~c.injection
  BY <1>12, <1>13 DEF Couples
<1>15. Ends(t, A, r, k, b, R, K) BY <1>4, <1>14, TransportEnds DEF t, F
<1>16. t \in Hosts /\ Leads(t.program, A, Ended(r, k, b), R, K) BY <1>15 DEF Ends
<1>17. finish \in Operations /\ finish.op = "finish" BY DEF Operations, finish
<1>18. Z \in SUBSET Devices BY DEF Z, Rest
<1>19. ASSUME NEW x \in Ended(r, k, b)
       PROVE  Safe(x, finish, R, K) /\ Phase!Outcomes(x, finish) \subseteq Z
  <2> DEFINE y == Phase!Over(x)
  <2>1. /\ x \in Devices /\ x.interval = r /\ x.clock = r /\ x.step = k /\ x.buffer = 1 - b
        /\ AlwaysHeavy(x)
        /\ Phase!CellLocal => Carried(x)
    BY DEF Ended, Frame
  <2>2. Safe(x, finish, R, K) BY <1>17, <2>1 DEF Safe, Phase!Readers
  <2>3. /\ y \in Devices /\ ~y.interval.active /\ y.clock = r /\ y.step = k /\ y.buffer = 1 - b
        /\ y.population = x.population /\ y.base = x.base /\ y.tasks = x.tasks
        /\ y.active = x.active /\ y.baseReady = x.baseReady
    BY <2>1 DEF Phase!Over, Devices, Intervals
  <2> HIDE DEF y
  <2>4. AlwaysHeavy(y) BY <2>1, <2>3 DEF AlwaysHeavy
  <2>5. Phase!CellLocal => Carried(y) BY <2>1, <2>3 DEF Carried
  <2>6. y \in Z BY <2>3, <2>4, <2>5 DEF Z, Rest
  <2> QED BY <1>17, <2>2, <2>6, OutcomesOf DEF y
<1>20. Same(e, t, A, Z, R, K) BY <1>16, <1>17, <1>18, <1>19, EmittedSame DEF e
<1>21. /\ e \in Hosts /\ Leads(e.program, A, Z, R, K)
       /\ e.injection = FALSE /\ e.ready = Phase!Enabled
       /\ e.prepared = IF Phase!Enabled /\ ~config.thermal /\ ~config.sources THEN "baseOnly"
                       ELSE "full"
  BY <1>15, <1>20 DEF Same, Ends
<1>22. /\ p \in Hosts /\ p.program = e.program /\ p.base = Phase!CellLocal /\ p.split = FALSE
       /\ p.injection = e.injection /\ p.ready = e.ready /\ p.prepared = e.prepared
  BY <1>1, <1>21 DEF p, Hosts
<1>23. Phase!Mirror(p) = Post BY <1>21, <1>22 DEF Phase!Mirror, Post
<1> QED BY <1>5, <1>21, <1>22, <1>23 DEF Z

-----------------------------------------------------------------------------
(* ParticlePhase: nothing of this depends on anything but the configuration,  *)
(* the launch geometry in the tracking excepted.                              *)

\* The functions that only look at the configuration.
LEMMA TasksKept ==
  ASSUME config' = config
  PROVE  /\ Phase!CellLocal' = Phase!CellLocal /\ Phase!Automatic' = Phase!Automatic
         /\ Phase!Enabled' = Phase!Enabled
         /\ \A h, kind, only : Phase!PrepareTasks(h, kind, only)' = Phase!PrepareTasks(h, kind, only)
         /\ \A h, split : Phase!SelectDirectory(h, split)' = Phase!SelectDirectory(h, split)
         /\ \A h : Phase!CurrentKind(h)' = Phase!CurrentKind(h)
         /\ \A h : Phase!Inject(h)' = Phase!Inject(h)
         /\ \A h : Phase!Pool(h)' = Phase!Pool(h)
         /\ \A h, split, zero : Phase!Kick(h, split, zero)' = Phase!Kick(h, split, zero)
<1>1. /\ Phase!CellLocal' = Phase!CellLocal /\ Phase!Automatic' = Phase!Automatic
      /\ Phase!Enabled' = Phase!Enabled
  BY DEF Phase!CellLocal, Phase!Automatic, Phase!Enabled
<1>2. \A h, kind, only : Phase!PrepareTasks(h, kind, only)' = Phase!PrepareTasks(h, kind, only)
  BY <1>1 DEF Phase!PrepareTasks
<1>3. \A h, split : Phase!SelectDirectory(h, split)' = Phase!SelectDirectory(h, split)
  BY DEF Phase!SelectDirectory
<1>4. \A h : Phase!CurrentKind(h)' = Phase!CurrentKind(h) BY DEF Phase!CurrentKind
<1>5. \A h : Phase!Inject(h)' = Phase!Inject(h) BY DEF Phase!Inject
<1>6. \A h : Phase!Pool(h)' = Phase!Pool(h) BY <1>1 DEF Phase!Pool
<1>7. \A h, split, zero : Phase!Kick(h, split, zero)' = Phase!Kick(h, split, zero)
  BY <1>1 DEF Phase!Kick
<1> QED BY <1>1, <1>2, <1>3, <1>4, <1>5, <1>6, <1>7

\* Those of the directories.
LEMMA DirectoryKept ==
  ASSUME config' = config
  PROVE  /\ \A h : Phase!BinParticles(h)' = Phase!BinParticles(h)
         /\ \A h : Phase!Directory(h)' = Phase!Directory(h)
<1>1. /\ Phase!CellLocal' = Phase!CellLocal /\ Phase!Automatic' = Phase!Automatic
      /\ Phase!Enabled' = Phase!Enabled
  BY TasksKept
<1>2. \A h, kind, only : Phase!PrepareTasks(h, kind, only)' = Phase!PrepareTasks(h, kind, only)
  BY TasksKept
<1>3. \A h, split : Phase!SelectDirectory(h, split)' = Phase!SelectDirectory(h, split)
  BY TasksKept
<1>4. \A h : Phase!CurrentKind(h)' = Phase!CurrentKind(h) BY TasksKept
<1>5. \A h, kind : Phase!PrepareDirectoryTasks(h, kind)' = Phase!PrepareDirectoryTasks(h, kind)
  BY <1>1, <1>2 DEF Phase!PrepareDirectoryTasks
<1>6. \A h : Phase!BinParticles(h)' = Phase!BinParticles(h)
  BY <1>3, <1>5 DEF Phase!BinParticles
<1>7. ASSUME NEW h PROVE Phase!PreTransport(h)' = Phase!PreTransport(h)
  BY <1>1, <1>3, <1>5, <1>6 DEF Phase!PreTransport
<1>8. ASSUME NEW h, NEW kind PROVE Phase!Schedule(h, kind)' = Phase!Schedule(h, kind)
  BY <1>1, <1>2 DEF Phase!Schedule
<1>9. \A h : Phase!Directory(h)' = Phase!Directory(h)
  BY <1>1, <1>4, <1>7, <1>8 DEF Phase!Directory
<1> QED BY <1>6, <1>9

\* A whole step, which looks at the launch geometry too.
LEMMA SubmitKept ==
  ASSUME config' = config, host'.grid = host.grid
  PROVE  \A h, zero : Phase!Submit(h, zero)' = Phase!Submit(h, zero)
<1>1. Phase!CellLocal' = Phase!CellLocal BY TasksKept
<1>2. \A h, kind, only : Phase!PrepareTasks(h, kind, only)' = Phase!PrepareTasks(h, kind, only)
  BY TasksKept
<1>3. \A h, split, zero : Phase!Kick(h, split, zero)' = Phase!Kick(h, split, zero) BY TasksKept
<1>4. \A h : Phase!BinParticles(h)' = Phase!BinParticles(h) BY DirectoryKept
<1>5. \A h : Phase!Couple(h)' = Phase!Couple(h) BY <1>1, <1>4 DEF Phase!Couple
<1>6. ASSUME NEW h PROVE Phase!Compact(h)' = Phase!Compact(h) BY <1>1, <1>2 DEF Phase!Compact
<1>7. ASSUME NEW h, NEW zero PROVE Phase!Transport(h, zero)' = Phase!Transport(h, zero)
  BY <1>1, <1>3, <1>4, <1>6 DEF Phase!Transport
<1>8. /\ \A h : Phase!Inject(h)' = Phase!Inject(h)
      /\ \A h : Phase!Pool(h)' = Phase!Pool(h)
      /\ \A h : Phase!Directory(h)' = Phase!Directory(h)
  BY TasksKept, DirectoryKept
<1> QED BY <1>1, <1>3, <1>5, <1>7, <1>8 DEF Phase!Submit

\* What operations read and do, and so what a program leads to.
LEMMA LeadsKept ==
  ASSUME config' = config
  PROVE  \A s, A, B, R, K : Leads(s, A, B, R, K)' <=> Leads(s, A, B, R, K)
<1>1. \A d, kind : Phase!Content(d, kind)' = Phase!Content(d, kind) BY DEF Phase!Content
<1>2. \A d : Phase!Heavy(d)' <=> Phase!Heavy(d) BY TasksKept DEF Phase!Heavy
<1>3. \A d, o : Phase!Reads(d, o)' = Phase!Reads(d, o) BY <1>1, <1>2 DEF Phase!Reads
<1>4. \A d, o : Phase!Outcomes(d, o)' = Phase!Outcomes(d, o)
  <2>1. \A d, o : Phase!Built(d, o)' = Phase!Built(d, o) BY <1>1, <1>2 DEF Phase!Built
  <2>2. \A d, o : Phase!Gathered(d, o)' = Phase!Gathered(d, o) BY <1>3 DEF Phase!Gathered
  <2> QED BY <2>1, <2>2 DEF Phase!Outcomes
<1>5. \A d, o, R, K : Safe(d, o, R, K)' <=> Safe(d, o, R, K) BY <1>3 DEF Safe
<1>6. \A D, s, R, K : Annotates(D, s, R, K)' <=> Annotates(D, s, R, K)
  BY <1>4, <1>5 DEF Annotates
<1> QED BY <1>6 DEF Leads

\* The device between two steps, and the flags then.
LEMMA RestKept ==
  ASSUME config' = config
  PROVE  /\ \A base, b, k, known, end :
              Rest(base, b, k, known, end)' = Rest(base, b, k, known, end)
         /\ Post' = Post
<1>1. \A d : Carried(d)' <=> Carried(d) BY TasksKept DEF Carried
<1>2. \A d : AlwaysHeavy(d)' <=> AlwaysHeavy(d) BY TasksKept DEF AlwaysHeavy
<1> QED BY <1>1, <1>2, TasksKept DEF Rest, Post

-----------------------------------------------------------------------------
(* ParticlePhase: the invariant.  A recording that is current is what would be *)
(* submitted, because the flags are the same after every step; and whatever    *)
(* the device does next, it finds what it should.                              *)

Mirrors ==
  [base : BOOLEAN, split : BOOLEAN, injection : BOOLEAN, ready : BOOLEAN, prepared : Phase!Kinds]
PhaseTypes ==
  /\ config \in Configurations
  /\ host \in [base : BOOLEAN, split : BOOLEAN, injection : BOOLEAN, ready : BOOLEAN,
               prepared : Phase!Kinds, buffer : {0, 1}, epoch : Nat, grid : {0, 1},
               present : BOOLEAN]
  /\ entries \in [Phase!Index -> {Phase!NoEntry} \union
                    [recorded : {TRUE}, program : Seq(Operations), mirror : Mirrors, epoch : Nat]]
  /\ clock \in [previous : Intervals, submitted : BOOLEAN, end : Nat, steps : Nat,
                configurations : Nat]
  /\ stream \in Seq(Operations)

\* The flags are those of before the first step, or those that every step leaves.
Flagged ==
  /\ ~host.split /\ ~host.injection /\ Unlisted(host)
  /\ IF host.base = Phase!CellLocal THEN Phase!Mirror(host) = Post
     ELSE Phase!CellLocal /\ ~host.base /\ clock.steps = 0
  /\ clock.steps = 0 => ~host.base /\ \A i \in Phase!Index : ~entries[i].recorded

Recorded ==
  /\ \A i \in Phase!Index : entries[i].recorded => entries[i].epoch =< host.epoch
  /\ \A zero \in BOOLEAN : \A e \in {entries[[base |-> host.base, zero |-> zero]]} :
       e.recorded /\ e.epoch = host.epoch =>
         /\ e.program = Phase!Submitted(zero).program
         /\ e.mirror = Phase!Mirror(Phase!Submitted(zero))

PhaseInv == PhaseTypes /\ Flagged /\ Recorded /\ Streamed

\* What a step that is submitted now does.
LEMMA SubmittedEnds ==
  ASSUME Phase!Assumption, PhaseTypes, Flagged, NEW zero \in BOOLEAN
  PROVE  /\ Phase!Submitted(zero) \in Hosts /\ Phase!Mirror(Phase!Submitted(zero)) = Post
         /\ \A R, K, r, k : r.active /\ k \in 1 .. K /\ R[k] = r =>
              Leads(Phase!Submitted(zero).program, Begun(host.base, Frame(r, k, host.buffer)),
                    Rest(Phase!CellLocal, 1 - host.buffer, k, TRUE, r.end), R, K)
<1> DEFINE h == Phase!Flags
<1>1. /\ h \in Hosts /\ h.program = <<>> /\ h.base = host.base /\ h.split = FALSE
      /\ h.injection = FALSE /\ h.ready = host.ready /\ h.prepared = host.prepared
  BY DEF Phase!Flags, Hosts, PhaseTypes, Flagged
<1>2. Phase!Submitted(zero) = Phase!Submit(h, zero) BY DEF Phase!Submitted
<1> HIDE DEF h
<1>3. Unlisted(h) /\ (h.base => Phase!CellLocal) /\ config \in Configurations
      /\ host.grid \in {0, 1} /\ host.buffer \in {0, 1}
  BY <1>1, Constants DEF Flagged, Unlisted, PhaseTypes
<1>4. ASSUME NEW R, NEW K, NEW r, NEW k, r.active, k \in 1 .. K, R[k] = r
      PROVE  /\ Phase!Submit(h, zero) \in Hosts
             /\ Phase!Mirror(Phase!Submit(h, zero)) = Post
             /\ Leads(Phase!Submit(h, zero).program, Begun(host.base, Frame(r, k, host.buffer)),
                      Rest(Phase!CellLocal, 1 - host.buffer, k, TRUE, r.end), R, K)
  <2> DEFINE B == Begun(h.base, Frame(r, k, host.buffer))
  <2>1. B \in SUBSET Devices BY DEF Begun, Frame
  <2>2. Leads(h.program, B, B, R, K) BY <1>1, <2>1, LeadsNowhere
  <2>3. ~Phase!CellLocal => ~h.split /\ ~h.injection BY <1>1
  <2>4. /\ Phase!Submit(h, zero) \in Hosts
        /\ Phase!Mirror(Phase!Submit(h, zero)) = Post
        /\ Leads(Phase!Submit(h, zero).program, B,
                 Rest(Phase!CellLocal, 1 - host.buffer, k, TRUE, r.end), R, K)
    BY <1>1, <1>3, <1>4, <2>2, <2>3, StepEnds
  <2> QED BY <1>1, <2>4
<1>5. Phase!Submit(h, zero) \in Hosts /\ Phase!Mirror(Phase!Submit(h, zero)) = Post
  <2> DEFINE r == [dt |-> 0, end |-> 0, active |-> TRUE]
             R == [n \in {1} |-> r]
  <2>1. r.active /\ 1 \in 1 .. 1 /\ R[1] = r OBVIOUS
  <2> QED BY <1>4, <2>1
<1> QED BY <1>2, <1>4, <1>5

\* The interval that the caller asked for is the one that the device works in.
LEMMA IntervalBegins ==
  ASSUME NEW base, NEW b, NEW k \in Nat, NEW known, NEW end, NEW r \in Intervals, r.active,
         NEW advance \in BOOLEAN, advance => known /\ r.end = end + r.dt, NEW R, NEW K,
         NEW o, o = [op |-> "interval", advance |-> advance,
                     interval |-> IF advance THEN [r EXCEPT !.end = 0] ELSE r]
  PROVE  /\ <<o>> \in Seq(Operations)
         /\ Leads(<<o>>, Rest(base, b, k, known, end), Begun(base, Frame(r, k + 1, b)), R, K)
<1> DEFINE A == Rest(base, b, k, known, end)
           B == Begun(base, Frame(r, k + 1, b))
           i == IF advance THEN [r EXCEPT !.end = 0] ELSE r
<1>1. i \in Intervals /\ i.active /\ i.dt = r.dt /\ (~advance => i = r) BY DEF Intervals
<1>2. o.op = "interval" /\ o.advance = advance /\ o.interval = i OBVIOUS
<1>3. o \in Operations
  <2>1. o = [op |-> "interval", advance |-> advance, interval |-> i] OBVIOUS
  <2> HIDE DEF i
  <2> QED BY <1>1, <2>1 DEF Operations
<1>4. A \in SUBSET Devices /\ B \in SUBSET Devices BY DEF Rest, Begun, Frame
<1>5. ASSUME NEW d \in A PROVE Safe(d, o, R, K) /\ Phase!Outcomes(d, o) \subseteq B
  <2> DEFINE e == Phase!Published(d, o)
             g == IF o.advance THEN [o.interval EXCEPT !.end = d.clock.end + o.interval.dt]
                               ELSE o.interval
  <2>1. /\ d \in Devices /\ ~d.interval.active /\ d.step = k /\ d.buffer = b
        /\ known => d.clock.end = end
        /\ AlwaysHeavy(d) /\ (base => Carried(d))
    BY DEF Rest
  <2>2. Safe(d, o, R, K) BY <1>1, <1>2, <2>1 DEF Safe, Phase!Readers
  <2>3. g = r
    <3>1. CASE advance
      <4>1. d.clock.end + i.dt = r.end BY <1>1, <2>1, <3>1
      <4>2. [i EXCEPT !.end = r.end] = r BY <3>1 DEF Intervals
      <4> QED BY <1>2, <3>1, <4>1, <4>2
    <3>2. CASE ~advance BY <1>1, <1>2, <3>2
    <3> QED BY <3>1, <3>2
  <2>4. e = [d EXCEPT !.interval = g, !.clock = g, !.step = @ + 1] BY DEF Phase!Published
  <2> HIDE DEF e, g
  <2>5. /\ e \in Devices /\ e.interval = r /\ e.clock = r /\ e.step = k + 1 /\ e.buffer = b
        /\ e.population = d.population /\ e.base = d.base /\ e.tasks = d.tasks
        /\ e.active = d.active /\ e.baseReady = d.baseReady
    <3>1. k + 1 \in Nat OBVIOUS
    <3>2. e = [d EXCEPT !.interval = r, !.clock = r, !.step = k + 1] BY <2>1, <2>3, <2>4
    <3> QED BY <2>1, <3>1, <3>2 DEF Devices
  <2>6. AlwaysHeavy(e) /\ (base => Carried(e)) BY <2>1, <2>5 DEF AlwaysHeavy, Carried
  <2>7. e \in B BY <2>5, <2>6 DEF Begun, Frame
  <2> QED BY <1>2, <2>2, <2>7, OutcomesOf DEF e
<1> HIDE DEF A, B
<1>6. Leads(<<>>, A, A, R, K) BY <1>4, LeadsNowhere
<1>7. /\ Append(<<>>, o) \in Seq(Operations) /\ Leads(Append(<<>>, o), A, B, R, K)
  <2>1. <<>> \in Seq(Operations) OBVIOUS
  <2> QED BY <1>3, <1>4, <1>5, <1>6, <2>1, LeadsFurther
<1>8. Append(<<>>, o) = <<o>> OBVIOUS
<1> QED BY <1>7, <1>8 DEF A, B

\* An operation other than the last of a step is in the step that the device is in.
LEMMA PastKept ==
  ASSUME NEW R, NEW K, NEW d \in Devices, NEW o \in Operations, Safe(d, o, R, K),
         NEW e \in Phase!Outcomes(d, o)
  PROVE  IF o.op = "finish" THEN d.interval.active /\ d.step \in 1 .. K /\ Past(e) = Past(d) + 1
                            ELSE Past(e) = Past(d)
<1>1. CASE o.op = "finish"
  <2>1. e = Phase!Over(d) BY <1>1, OutcomesOf
  <2>2. d.interval.active /\ d.step \in 1 .. K /\ d.step \in Nat BY <1>1 DEF Safe, Devices
  <2>3. e.step = d.step /\ ~e.interval.active BY <2>1 DEF Phase!Over, Devices, Intervals
  <2> QED BY <1>1, <2>2, <2>3 DEF Past
<1>2. CASE o.op = "interval"
  <2>1. e = Phase!Published(d, o) BY <1>2, OutcomesOf
  <2>2. ~d.interval.active /\ o.interval.active BY <1>2 DEF Safe
  <2>3. o.interval \in Intervals BY <1>2 DEF Operations
  <2> DEFINE g == IF o.advance THEN [o.interval EXCEPT !.end = d.clock.end + o.interval.dt]
                               ELSE o.interval
  <2>4. g.active BY <2>2, <2>3 DEF Intervals
  <2>5. e = [d EXCEPT !.interval = g, !.clock = g, !.step = @ + 1] BY <2>1 DEF Phase!Published
  <2> HIDE DEF g
  <2>6. e.interval = g /\ e.step = d.step + 1 /\ d.step \in Nat BY <2>5 DEF Devices
  <2> QED BY <1>2, <2>2, <2>4, <2>6 DEF Past
<1>3. CASE o.op \notin {"finish", "interval"}
  <2>1. e.step = d.step /\ e.interval = d.interval
    <3>1. CASE o.op \in {"inject", "bin", "zeroBins", "binInjected", "track"}
      BY <3>1, OutcomesOf DEF Devices, Phase!Injected, Phase!Binned, Phase!ZeroedBins,
                              Phase!BinnedInjected, Phase!Tracked
    <3>2. CASE o.op \in {"gather", "capture"}
      <4>1. CASE o.op = "gather"
        <5>1. e = Phase!Gathered(d, o) BY <4>1, OutcomesOf
        <5> QED BY <5>1 DEF Devices, Phase!Gathered
      <4>2. CASE o.op = "capture"
        <5>1. e = Phase!Captured(d) BY <4>2, OutcomesOf
        <5> QED BY <5>1 DEF Devices, Phase!Captured
      <4> QED BY <3>2, <4>1, <4>2
    <3>3. CASE o.op \in {"commit", "select"}
      <4>1. CASE o.op = "commit"
        <5>1. e = Phase!Committed(d) BY <4>1, OutcomesOf
        <5> QED BY <5>1 DEF Devices, Phase!Committed
      <4>2. CASE o.op = "select"
        <5>1. e = Phase!Selected(d) BY <4>2, OutcomesOf
        <5> QED BY <5>1 DEF Devices, Phase!Selected
      <4> QED BY <3>3, <4>1, <4>2
    <3>8. CASE o.op = "build"
      <4>1. e = Phase!Built(d, o) BY <3>8, OutcomesOf
      <4> QED BY <4>1 DEF Devices, Phase!Built
    <3>9. CASE o.op = "begin"
      <4>1. e = Phase!BegunInspection(d) BY <3>9, OutcomesOf
      <4> DEFINE n == d.advances + 1
                 a == (n = 1 \/ n % AutoInterval = 0)
      <4>2. e = [d EXCEPT !.advances = @ + 1, !.inspect = a] BY <4>1 DEF Phase!BegunInspection
      <4> HIDE DEF a
      <4> QED BY <4>2 DEF Devices
    <3>4. CASE o.op = "decide" BY <3>4, OutcomesOf DEF Devices, Phase!Decided
    <3>5. CASE o.op = "moments" BY <3>5, OutcomesOf DEF Devices, Phase!Gathered
    <3>6. CASE o.op \in {"kick", "pool", "couple", "policy"} BY <3>6, OutcomesOf
    <3>7. o.op \in {"inject", "bin", "zeroBins", "binInjected", "track", "gather", "capture",
                    "commit", "select", "build", "begin", "decide", "moments", "kick", "pool",
                    "couple", "policy", "finish", "interval"}
      BY DEF Operations
    <3> QED BY <1>3, <3>1, <3>2, <3>3, <3>4, <3>5, <3>6, <3>7, <3>8, <3>9
  <2> QED BY <1>3, <2>1 DEF Past
<1> QED BY <1>1, <1>2, <1>3

-----------------------------------------------------------------------------
(* ParticlePhase: the steps.                                                   *)

\* Before the first step.
LEMMA PhaseInitial == Phase!Assumption /\ Phase!Init => PhaseInv
<1> SUFFICES ASSUME Phase!Assumption, Phase!Init PROVE PhaseInv OBVIOUS
<1>1. config \in Configurations /\ {"full", "baseOnly", "split"} \subseteq Phase!Kinds
  BY DEF Phase!Init, Phase!Kinds
<1>2. /\ Phase!CellLocal \in BOOLEAN /\ Phase!Enabled \in BOOLEAN /\ config.sources \in BOOLEAN
      /\ Phase!Automatic \in BOOLEAN
  BY <1>1, Constants
<1>3. Phase!Enabled => Phase!CellLocal BY <1>1, Constants
<1>4. Phase!Idle \in Intervals /\ Phase!Idle.active = FALSE BY DEF Phase!Idle, Intervals
<1>5. host = [base |-> FALSE, split |-> FALSE, injection |-> FALSE, ready |-> FALSE,
              prepared |-> "full", buffer |-> 0, epoch |-> 0, grid |-> 0,
              present |-> config.sources]
  BY DEF Phase!Init
<1>6. clock = [previous |-> Phase!Idle, submitted |-> FALSE, end |-> 0, steps |-> 0,
               configurations |-> 0]
  BY DEF Phase!Init
<1>7. entries = [i \in Phase!Index |-> Phase!NoEntry] BY DEF Phase!Init
<1>8. stream = <<>> /\ asked = <<>> BY DEF Phase!Init
<1>9. PhaseTypes
  <2>1. host \in [base : BOOLEAN, split : BOOLEAN, injection : BOOLEAN, ready : BOOLEAN,
               prepared : Phase!Kinds, buffer : {0, 1}, epoch : Nat, grid : {0, 1},
               present : BOOLEAN]
    BY <1>1, <1>2, <1>5
  <2>2. clock \in [previous : Intervals, submitted : BOOLEAN, end : Nat, steps : Nat,
                configurations : Nat]
    BY <1>4, <1>6
  <2>3. entries \in [Phase!Index -> {Phase!NoEntry} \union
                    [recorded : {TRUE}, program : Seq(Operations), mirror : Mirrors, epoch : Nat]]
    BY <1>7
  <2>4. stream \in Seq(Operations) BY <1>8
  <2> QED BY <1>1, <2>1, <2>2, <2>3, <2>4 DEF PhaseTypes
<1>10. \A i \in Phase!Index : ~entries[i].recorded BY <1>7 DEF Phase!NoEntry
<1>11. Flagged
  <2>1. ~Phase!CellLocal => Phase!Mirror(host) = Post
    <3>1. ASSUME ~Phase!CellLocal PROVE Phase!Mirror(host) = Post
      <4>1. ~Phase!Enabled BY <1>3, <3>1
      <4>2. Phase!CellLocal = FALSE /\ Phase!Enabled = FALSE BY <1>2, <3>1, <4>1
      <4> QED BY <1>5, <4>2 DEF Phase!Mirror, Post
    <3> QED BY <3>1
  <2> QED BY <1>2, <1>5, <1>6, <1>10, <2>1 DEF Flagged, Unlisted
<1>12. Recorded
  <2>1. \A zero \in BOOLEAN : [base |-> host.base, zero |-> zero] \in Phase!Index
    BY <1>5 DEF Phase!Index
  <2> QED BY <1>10, <2>1 DEF Recorded
<1>13. Streamed
  <2> DEFINE R == [n \in Nat |-> Phase!Idle]
  <2>1. device = [population |-> {}, bins |-> {}, base |-> {}, tasks |-> {}, gathered |-> {},
               step |-> 0, buffer |-> 0, baseReady |-> FALSE,
               advances |-> 0, inspect |-> FALSE, active |-> Phase!Enabled,
               interval |-> Phase!Idle, clock |-> Phase!Idle]
    BY DEF Phase!Init
  <2>2. device \in Devices BY <1>2, <1>4, <2>1 DEF Devices
  <2>3. AlwaysHeavy(device) BY <2>1 DEF AlwaysHeavy
  <2>4. device \in AtRest BY <1>4, <1>5, <1>6, <2>1, <2>2, <2>3 DEF AtRest, Rest
  <2>5. AtRest \in SUBSET Devices BY DEF AtRest, Rest
  <2>6. Leads(stream, {device}, AtRest, R, clock.steps)
    <3>1. Leads(<<>>, AtRest, AtRest, R, clock.steps) BY <2>5, LeadsNowhere
    <3> QED BY <1>8, <2>4, <3>1, LeadsLess
  <2>7. Owed(R) BY <1>4, <1>6, <1>8, <2>1 DEF Owed, Past
  <2>8. R \in [Nat -> Intervals] BY <1>4
  <2> QED BY <2>6, <2>7, <2>8 DEF Streamed
<1> QED BY <1>9, <1>11, <1>12, <1>13 DEF PhaseInv

\* What the host would submit stays the same, if its flags and the geometry do.
LEMMA SubmittedKept ==
  ASSUME config' = config, host'.grid = host.grid, Phase!Flags' = Phase!Flags
  PROVE  \A zero : Phase!Submitted(zero)' = Phase!Submitted(zero)
<1>1. ASSUME NEW zero PROVE Phase!Submitted(zero)' = Phase!Submitted(zero)
  BY SubmitKept DEF Phase!Submitted
<1> QED BY <1>1

\* The device executes an operation (Execute).
LEMMA ExecuteKeeps == Phase!Assumption /\ PhaseInv /\ Phase!Execute => PhaseInv'
<1> SUFFICES ASSUME Phase!Assumption, PhaseInv, Phase!Execute PROVE PhaseInv' OBVIOUS
<1>1. /\ stream # <<>> /\ stream' = Tail(stream)
      /\ device' \in Phase!Outcomes(device, Head(stream))
      /\ asked' = IF Head(stream).op = "finish" THEN Tail(asked) ELSE asked
      /\ config' = config /\ host' = host /\ entries' = entries /\ clock' = clock
  BY DEF Phase!Execute
<1>2. PhaseTypes /\ Flagged /\ Recorded /\ Streamed BY DEF PhaseInv
<1>3. stream \in Seq(Operations) /\ stream' \in Seq(Operations) /\ Head(stream) \in Operations
  BY <1>1, <1>2 DEF PhaseTypes
<1>4. PhaseTypes' BY <1>1, <1>2, <1>3 DEF PhaseTypes
<1>5. Flagged'
  <2>1. Unlisted(host)' BY <1>1, <1>2, TasksKept DEF Flagged, Unlisted
  <2>2. Phase!Mirror(host)' = Phase!Mirror(host) BY <1>1 DEF Phase!Mirror
  <2>3. Phase!CellLocal' = Phase!CellLocal /\ Post' = Post BY <1>1, TasksKept, RestKept
  <2> QED BY <1>1, <1>2, <2>1, <2>2, <2>3 DEF Flagged
<1>6. Recorded'
  <2>1. Phase!Flags' = Phase!Flags BY <1>1 DEF Phase!Flags
  <2>2. \A zero : Phase!Submitted(zero)' = Phase!Submitted(zero) BY <1>1, <2>1, SubmittedKept
  <2> QED BY <1>1, <1>2, <2>2 DEF Recorded, Phase!Mirror
<1>7. Streamed'
  <2>1. PICK R \in [Nat -> Intervals] :
          Leads(stream, {device}, AtRest, R, clock.steps) /\ Owed(R)
    BY <1>2 DEF Streamed
  <2>2. /\ device \in Devices /\ Safe(device, Head(stream), R, clock.steps)
        /\ device' \in Devices /\ Leads(Tail(stream), {device'}, AtRest, R, clock.steps)
    BY <1>1, <1>3, <2>1, LeadsShorter
  <2>3. AtRest' = AtRest BY <1>1, RestKept DEF AtRest
  <2>4. Leads(stream, {device}, AtRest, R, clock.steps)'
    BY <1>1, <2>2, <2>3, LeadsKept
  <2>5. Owed(R)'
    <3> DEFINE p == Past(device)
               q == Past(device)'
               K == clock.steps
    <3>1. IF Head(stream).op = "finish" THEN device.interval.active /\ device.step \in 1 .. K /\ q = p + 1
                                        ELSE q = p
      <4>1. IF Head(stream).op = "finish"
            THEN device.interval.active /\ device.step \in 1 .. K /\ Past(device') = p + 1
            ELSE Past(device') = p
        BY <1>1, <1>3, <2>2, PastKept
      <4>2. q = Past(device') BY DEF Past
      <4> QED BY <4>1, <4>2
    <3>2. /\ asked \in Seq(Intervals) /\ p \in Nat /\ Len(asked) = K - p
          /\ \A j \in 1 .. Len(asked) : asked[j] = R[p + j]
      BY <2>1 DEF Owed
    <3>3. K \in Nat /\ clock' = clock BY <1>1, <1>2 DEF PhaseTypes
    <3>4. CASE Head(stream).op # "finish"
      <4>1. asked' = asked /\ q = p BY <1>1, <3>1, <3>4
      <4> QED BY <3>2, <3>3, <4>1 DEF Owed
    <3>5. CASE Head(stream).op = "finish"
      <4>1. asked' = Tail(asked) /\ q = p + 1 /\ device.interval.active /\ device.step \in 1 .. K
        BY <1>1, <3>1, <3>5
      <4>2. p = device.step - 1 BY <4>1 DEF Past
      <4> HIDE DEF p, q, K
      <4>3. Len(asked) \in Nat \ {0} BY <3>2, <3>3, <4>1, <4>2
      <4>4. /\ asked' \in Seq(Intervals) /\ Len(asked') = Len(asked) - 1
            /\ \A j \in 1 .. Len(asked) - 1 : asked'[j] = asked[j + 1]
        BY <3>2, <4>1, <4>3
      <4>5. q \in Nat /\ Len(asked') = K - q BY <3>2, <3>3, <4>1, <4>4
      <4>6. ASSUME NEW j \in 1 .. Len(asked') PROVE asked'[j] = R[q + j]
        <5>1. j \in 1 .. Len(asked) - 1 /\ j + 1 \in 1 .. Len(asked) BY <4>3, <4>4
        <5>2. asked'[j] = asked[j + 1] /\ asked[j + 1] = R[p + (j + 1)] BY <3>2, <4>4, <5>1
        <5>3. p + (j + 1) = q + j BY <3>2, <4>1, <5>1
        <5> QED BY <5>2, <5>3
      <4> QED BY <3>3, <4>4, <4>5, <4>6 DEF Owed, q, K
    <3> QED BY <3>4, <3>5
  <2> QED BY <2>4, <2>5 DEF Streamed
<1> QED BY <1>4, <1>5, <1>6, <1>7 DEF PhaseInv

\* What a launch replays is what would be submitted.
Replays(e, zero) ==
  /\ e \in [recorded : {TRUE}, program : Seq(Operations), mirror : Mirrors, epoch : Nat]
  /\ e.program = Phase!Submitted(zero).program /\ e.mirror = Post /\ e.epoch = host.epoch

\* The entry of a launch is current, or has just been recorded.
LEMMA EntryReplays ==
  ASSUME Phase!Assumption, PhaseInv, NEW dt
  PROVE  /\ Replays(Phase!CurrentEntry(dt), dt = 0)
         /\ Phase!EntryIndex(dt) = [base |-> host.base, zero |-> dt = 0]
         /\ Phase!EntryIndex(dt) \in Phase!Index
<1> DEFINE z == dt = 0
           i == Phase!EntryIndex(dt)
           h == Phase!Submitted(z)
<1>1. PhaseTypes /\ Flagged /\ Recorded BY DEF PhaseInv
<1>2. z \in BOOLEAN /\ host.base \in BOOLEAN /\ host.epoch \in Nat BY <1>1 DEF PhaseTypes
<1>3. i = [base |-> host.base, zero |-> z] BY DEF Phase!EntryIndex
<1> HIDE DEF z, i, h
<1>4. i \in Phase!Index BY <1>2, <1>3 DEF Phase!Index
<1>5. h \in Hosts /\ Phase!Mirror(h) = Post BY <1>1, <1>2, SubmittedEnds DEF h
<1>6. h.program \in Seq(Operations) /\ Post \in Mirrors
  BY <1>5 DEF Hosts, Phase!Mirror, Mirrors
<1> DEFINE e == entries[i]
<1>7. CASE e.recorded /\ e.epoch = host.epoch
  <2>1. Phase!CurrentEntry(dt) = e BY <1>7 DEF Phase!CurrentEntry, i
  <2>2. e.program = h.program /\ e.mirror = Phase!Mirror(h) BY <1>1, <1>2, <1>3, <1>7 DEF Recorded, h
  <2>3. e \in {Phase!NoEntry} \union
          [recorded : {TRUE}, program : Seq(Operations), mirror : Mirrors, epoch : Nat]
    BY <1>1, <1>4 DEF PhaseTypes
  <2>4. e # Phase!NoEntry BY <1>7 DEF Phase!NoEntry
  <2> HIDE DEF e
  <2> QED BY <1>3, <1>4, <1>5, <1>7, <2>1, <2>2, <2>3, <2>4 DEF Replays, h, i, z
<1>8. CASE ~(e.recorded /\ e.epoch = host.epoch)
  <2>1. Phase!CurrentEntry(dt) = Phase!Recording(dt) BY <1>8 DEF Phase!CurrentEntry, i
  <2>2. Phase!Recording(dt) =
          [recorded |-> TRUE, program |-> h.program, mirror |-> Phase!Mirror(h),
           epoch |-> host.epoch]
    BY DEF Phase!Recording, h, z
  <2>3. Replays(Phase!Recording(dt), z) BY <1>2, <1>5, <1>6, <2>2 DEF Replays, h
  <2> QED BY <1>3, <1>4, <2>1, <2>3 DEF i, z
<1> QED BY <1>7, <1>8

\* The host submits a step (launchParticlePhaseGraph).
LEMMA LaunchKeeps ==
  ASSUME Phase!Assumption, PhaseInv, NEW dt \in TimeSteps, NEW end \in Nat, Phase!Launch(dt, end)
  PROVE  PhaseInv'
<1> DEFINE z == dt = 0
           i == Phase!EntryIndex(dt)
           r == [dt |-> dt, end |-> end, active |-> TRUE]
           advance == Phase!Continues(r)
           o == [op |-> "interval", advance |-> advance,
                 interval |-> IF advance THEN [r EXCEPT !.end = 0] ELSE r]
           e == Phase!CurrentEntry(dt)
           K == clock.steps
           b == host.buffer
<1>1. /\ entries' = [entries EXCEPT ![i] = e]
      /\ stream' = stream \o <<o>> \o e.program
      /\ asked' = Append(asked, r)
      /\ host' = Phase!Adapt(e)
      /\ clock' = [clock EXCEPT !.previous = r, !.submitted = TRUE, !.end = end, !.steps = @ + 1]
      /\ config' = config /\ device' = device
  BY DEF Phase!Launch
<1>2. PhaseTypes /\ Flagged /\ Recorded /\ Streamed BY DEF PhaseInv
<1>3. r \in Intervals /\ r.active /\ r.dt = dt /\ r.end = end BY DEF Intervals, Phase!Assumption
<1>4. advance => clock.submitted /\ r.end = clock.previous.end + r.dt
  <2>1. clock.previous \in Intervals BY <1>2 DEF PhaseTypes
  <2> QED BY <2>1 DEF Phase!Continues, Intervals
<1>5. advance \in BOOLEAN BY <1>2 DEF Phase!Continues, PhaseTypes
<1>6. /\ Replays(e, z) /\ i = [base |-> host.base, zero |-> z] /\ i \in Phase!Index
  BY EntryReplays
<1>7. z \in BOOLEAN OBVIOUS
<1> DEFINE interval == o
<1>8. interval = o OBVIOUS
<1> HIDE DEF i, e, z, advance
<1>9. /\ e \in [recorded : {TRUE}, program : Seq(Operations), mirror : Mirrors, epoch : Nat]
      /\ e.program = Phase!Submitted(z).program /\ e.mirror = Post /\ e.epoch = host.epoch
  BY <1>6 DEF Replays
<1>10. /\ Phase!CellLocal \in BOOLEAN /\ Phase!Enabled \in BOOLEAN
       /\ {"full", "baseOnly", "split"} \subseteq Phase!Kinds
  BY <1>2, Constants DEF PhaseTypes, Phase!Kinds
<1>11. Phase!CellLocal' = Phase!CellLocal /\ Phase!Enabled' = Phase!Enabled /\ Post' = Post
  BY <1>1, TasksKept, RestKept
<1>12. /\ host' \in [base : BOOLEAN, split : BOOLEAN, injection : BOOLEAN, ready : BOOLEAN,
                     prepared : Phase!Kinds, buffer : {0, 1}, epoch : Nat, grid : {0, 1},
                     present : BOOLEAN]
       /\ host'.base = Phase!CellLocal /\ host'.split = FALSE /\ host'.injection = FALSE
       /\ host'.ready = Phase!Enabled /\ host'.prepared = Post.prepared
       /\ host'.buffer = 1 - b /\ host'.epoch = host.epoch /\ host'.grid = host.grid
  <2>1. /\ Post.base = Phase!CellLocal /\ Post.split = FALSE /\ Post.injection = FALSE
        /\ Post.ready = Phase!Enabled
    BY DEF Post
  <2>2. Post.prepared \in Phase!Kinds BY <1>10 DEF Post
  <2>3. host' = [host EXCEPT !.base = Post.base, !.split = Post.split,
                   !.injection = Post.injection, !.ready = Post.ready,
                   !.prepared = Post.prepared, !.buffer = 1 - @]
    BY <1>1, <1>9 DEF Phase!Adapt
  <2>4. /\ host \in [base : BOOLEAN, split : BOOLEAN, injection : BOOLEAN, ready : BOOLEAN,
                     prepared : Phase!Kinds, buffer : {0, 1}, epoch : Nat, grid : {0, 1},
                     present : BOOLEAN]
    BY <1>2 DEF PhaseTypes
  <2>5. b \in {0, 1} /\ 1 - b \in {0, 1} BY <2>4
  <2> DEFINE prepared == Post.prepared
             buffer == 1 - b
  <2>6. host' = [host EXCEPT !.base = Phase!CellLocal, !.split = FALSE, !.injection = FALSE,
                   !.ready = Phase!Enabled, !.prepared = prepared, !.buffer = buffer]
    BY <2>1, <2>3, <2>4
  <2>7. prepared \in Phase!Kinds /\ buffer \in {0, 1} BY <2>2, <2>5
  <2> HIDE DEF prepared, buffer
  <2>8. /\ host' \in [base : BOOLEAN, split : BOOLEAN, injection : BOOLEAN, ready : BOOLEAN,
                     prepared : Phase!Kinds, buffer : {0, 1}, epoch : Nat, grid : {0, 1},
                     present : BOOLEAN]
        /\ host'.base = Phase!CellLocal /\ host'.split = FALSE /\ host'.injection = FALSE
        /\ host'.ready = Phase!Enabled /\ host'.prepared = prepared
        /\ host'.buffer = buffer /\ host'.epoch = host.epoch /\ host'.grid = host.grid
    BY <1>10, <2>4, <2>6, <2>7
  <2> QED BY <2>8 DEF prepared, buffer
<1>13. K \in Nat /\ b \in {0, 1} BY <1>2 DEF PhaseTypes
<1>14. /\ clock' \in [previous : Intervals, submitted : BOOLEAN, end : Nat, steps : Nat,
                      configurations : Nat]
       /\ clock'.steps = K + 1 /\ clock'.submitted = TRUE /\ clock'.previous = r
  <2>1. clock \in [previous : Intervals, submitted : BOOLEAN, end : Nat, steps : Nat,
                      configurations : Nat]
    BY <1>2 DEF PhaseTypes
  <2> DEFINE k == K + 1
  <2>2. clock' = [clock EXCEPT !.previous = r, !.submitted = TRUE, !.end = end, !.steps = k]
    BY <1>1
  <2>3. k \in Nat BY <1>13
  <2>4. r \in Intervals BY <1>3
  <2> HIDE DEF r, k
  <2>5. /\ clock' \in [previous : Intervals, submitted : BOOLEAN, end : Nat, steps : Nat,
                       configurations : Nat]
        /\ clock'.steps = k /\ clock'.submitted = TRUE /\ clock'.previous = r
    BY <2>1, <2>2, <2>3, <2>4
  <2> QED BY <2>5 DEF k
<1>15. /\ <<o>> \in Seq(Operations)
       /\ \A R : Leads(<<o>>, AtRest, Begun(host.base, Frame(r, K + 1, b)), R, K + 1)
  <2>1. ASSUME NEW R
        PROVE  <<o>> \in Seq(Operations)
               /\ Leads(<<o>>, AtRest, Begun(host.base, Frame(r, K + 1, b)), R, K + 1)
    <3> HIDE DEF r
    <3> QED BY <1>3, <1>4, <1>5, <1>8, <1>13, IntervalBegins DEF AtRest
  <2> QED BY <2>1
<1> HIDE DEF o, r, interval
<1>16. PhaseTypes'
  <2>1. entries' \in [Phase!Index -> {Phase!NoEntry} \union
                    [recorded : {TRUE}, program : Seq(Operations), mirror : Mirrors, epoch : Nat]]
    BY <1>1, <1>2, <1>6, <1>9 DEF PhaseTypes
  <2>2. stream' \in Seq(Operations) BY <1>1, <1>2, <1>9, <1>15 DEF PhaseTypes
  <2> QED BY <1>1, <1>2, <1>12, <1>14, <2>1, <2>2 DEF PhaseTypes
<1>17. Phase!Mirror(host)' = Post
  <2>1. Post = [base |-> Phase!CellLocal, split |-> FALSE, injection |-> FALSE,
                ready |-> Phase!Enabled, prepared |-> Post.prepared]
    BY DEF Post
  <2> DEFINE prepared == Post.prepared
  <2> HIDE DEF prepared
  <2>2. Post = [base |-> Phase!CellLocal, split |-> FALSE, injection |-> FALSE,
                ready |-> Phase!Enabled, prepared |-> prepared]
    BY <2>1 DEF prepared
  <2>3. host'.prepared = prepared BY <1>12 DEF prepared
  <2> QED BY <1>12, <2>2, <2>3 DEF Phase!Mirror
<1>18. Flagged'
  <2>1. Unlisted(host)'
    <3>1. ~Phase!Enabled => Post.prepared = "full" BY DEF Post
    <3> QED BY <1>11, <1>12, <3>1 DEF Unlisted
  <2>2. clock'.steps # 0 BY <1>13, <1>14
  <2> QED BY <1>11, <1>12, <1>17, <2>1, <2>2 DEF Flagged
<1>19. Recorded'
  <2>1. \A j \in Phase!Index : entries'[j] = IF j = i THEN e ELSE entries[j]
    BY <1>1, <1>2, <1>6 DEF PhaseTypes
  <2>2. ASSUME NEW j \in Phase!Index, entries'[j].recorded PROVE entries'[j].epoch =< host'.epoch
    <3>1. CASE j = i BY <1>2, <1>9, <1>12, <2>1, <3>1 DEF PhaseTypes
    <3>2. CASE j # i BY <1>2, <1>12, <2>1, <2>2, <3>2 DEF Recorded
    <3> QED BY <3>1, <3>2
  <2>3. ASSUME NEW zero \in BOOLEAN, NEW f \in {entries'[[base |-> host'.base, zero |-> zero]]},
               f.recorded, f.epoch = host'.epoch
        PROVE  /\ f.program = Phase!Submitted(zero)'.program
               /\ f.mirror = Phase!Mirror(Phase!Submitted(zero))'
    <3> DEFINE j == [base |-> host'.base, zero |-> zero]
    <3>1. j \in Phase!Index BY <1>10, <1>12 DEF Phase!Index
    <3>2. CASE host.base = Phase!CellLocal
      <4>1. Phase!Mirror(host) = Post BY <1>2, <3>2 DEF Flagged
      <4>2. Phase!Flags' = Phase!Flags
        <5>1. Phase!Mirror(host) = Phase!Mirror(host)' BY <1>17, <4>1
        <5>2. /\ host.base = host'.base /\ host.split = host'.split
              /\ host.injection = host'.injection /\ host.ready = host'.ready
              /\ host.prepared = host'.prepared
          BY <5>1 DEF Phase!Mirror
        <5> QED BY <5>2 DEF Phase!Flags
      <4>3. \A x : Phase!Submitted(x)' = Phase!Submitted(x)
        BY <1>1, <1>12, <4>2, SubmittedKept
      <4>4. Phase!Mirror(Phase!Submitted(zero))' = Phase!Mirror(Phase!Submitted(zero))
        BY <4>3 DEF Phase!Mirror
      <4>5. j = [base |-> host.base, zero |-> zero] BY <1>12, <3>2
      <4>6. CASE j = i
        <5>1. zero = z BY <1>6, <4>5, <4>6
        <5>2. f = e BY <2>1, <2>3, <3>1, <4>6
        <5>3. Phase!Mirror(Phase!Submitted(zero)) = Post BY <1>2, SubmittedEnds
        <5> QED BY <1>9, <4>3, <4>4, <5>1, <5>2, <5>3
      <4>7. CASE j # i
        <5>1. f = entries[[base |-> host.base, zero |-> zero]] BY <2>1, <2>3, <3>1, <4>5, <4>7
        <5>2. /\ f.program = Phase!Submitted(zero).program
              /\ f.mirror = Phase!Mirror(Phase!Submitted(zero))
          BY <1>2, <1>12, <2>3, <5>1 DEF Recorded
        <5> QED BY <4>3, <4>4, <5>2
      <4> QED BY <4>6, <4>7
    <3>3. CASE host.base # Phase!CellLocal
      <4>1. ~entries[j].recorded BY <1>2, <3>1, <3>3 DEF Flagged
      <4>2. j # i BY <1>6, <1>12, <3>3
      <4> QED BY <2>1, <2>3, <3>1, <4>1, <4>2
    <3> QED BY <3>2, <3>3
  <2>4. \A zero \in BOOLEAN : \A f \in {entries'[[base |-> host'.base, zero |-> zero]]} :
          f.recorded /\ f.epoch = host'.epoch =>
            /\ f.program = Phase!Submitted(zero)'.program
            /\ f.mirror = Phase!Mirror(Phase!Submitted(zero))'
    BY <2>3
  <2> QED BY <2>2, <2>4 DEF Recorded
<1>20. Streamed'
  <2>1. PICK S \in [Nat -> Intervals] : Leads(stream, {device}, AtRest, S, K) /\ Owed(S)
    BY <1>2 DEF Streamed
  <2>0. PICK R : R = [S EXCEPT ![K + 1] = r] OBVIOUS
  <2> DEFINE Z == Rest(Phase!CellLocal, 1 - b, K + 1, TRUE, end)
             B == Begun(host.base, Frame(r, K + 1, b))
  <2>2. R \in [Nat -> Intervals] /\ R[K + 1] = r /\ \A n \in Nat \ {K + 1} : R[n] = S[n]
    BY <1>3, <1>13, <2>0, <2>1
  <2> HIDE DEF B, Z
  <2>3. Leads(stream, {device}, AtRest, R, K + 1)
    <3>1. \A k \in 1 .. K : R[k] = S[k] BY <1>13, <2>2
    <3> QED BY <1>13, <2>1, <3>1, LeadsLater
  <2>4. Leads(<<o>>, AtRest, B, R, K + 1) BY <1>15 DEF B
  <2>5. Leads(e.program, B, Z, R, K + 1)
    <3>1. K + 1 \in 1 .. K + 1 BY <1>13
    <3> QED BY <1>2, <1>3, <1>7, <1>9, <2>2, <3>1, SubmittedEnds DEF B, Z
  <2>6. stream \in Seq(Operations) /\ e.program \in Seq(Operations) BY <1>2, <1>9 DEF PhaseTypes
  <2>7. /\ stream \o <<o>> \in Seq(Operations)
        /\ Leads(stream \o <<o>>, {device}, B, R, K + 1)
    BY <1>15, <2>3, <2>4, <2>6, LeadsOn
  <2>8. Leads(stream \o <<o>> \o e.program, {device}, Z, R, K + 1)
    BY <2>5, <2>6, <2>7, LeadsOn
  <2>9. AtRest' = Z
    <3>1. AtRest' = Rest(host'.base, host'.buffer, clock'.steps, clock'.submitted,
                         clock'.previous.end)
      <4>1. config' = config BY <1>1
      <4>2. \A base, c, k, known, until :
              Rest(base, c, k, known, until)' = Rest(base, c, k, known, until)
        BY <4>1, RestKept
      <4> QED BY <4>2 DEF AtRest
    <3>2. clock'.previous.end = end BY <1>3, <1>14
    <3>3. AtRest' = Rest(Phase!CellLocal, 1 - b, K + 1, TRUE, end)
      BY <1>12, <1>14, <3>1, <3>2
    <3> QED BY <3>3 DEF Z
  <2>10. Leads(stream, {device}, AtRest, R, clock.steps)'
    <3>1. Leads(stream', {device'}, AtRest', R, clock'.steps) BY <1>1, <1>14, <2>8, <2>9
    <3> QED BY <1>1, <3>1, LeadsKept
  <2>11. Owed(R)'
    <3> DEFINE p == Past(device)
               q == Past(device)'
    <3>1. q = p BY <1>1 DEF Past
    <3>2. /\ asked \in Seq(Intervals) /\ p \in Nat /\ Len(asked) = K - p
          /\ \A j \in 1 .. Len(asked) : asked[j] = S[p + j]
      BY <2>1 DEF Owed
    <3> DEFINE n == Len(asked)
    <3>3. /\ asked' \in Seq(Intervals) /\ Len(asked') = n + 1 /\ asked'[n + 1] = r
          /\ \A j \in 1 .. n : asked'[j] = asked[j]
      BY <1>1, <1>3, <3>2
    <3>4. n \in Nat BY <3>2
    <3> HIDE DEF p, q, n, K
    <3>5. Len(asked') = (K + 1) - q BY <1>13, <3>1, <3>2, <3>3 DEF n
    <3>6. ASSUME NEW j \in 1 .. n + 1 PROVE asked'[j] = R[q + j]
      <4>1. CASE j \in 1 .. n
        <5>1. p + j \in Nat \ {K + 1} BY <1>13, <3>2, <4>1 DEF n
        <5> QED BY <2>2, <3>1, <3>2, <3>3, <4>1, <5>1 DEF n
      <4>2. CASE j = n + 1
        <5>1. p + j = K + 1 BY <1>13, <3>2, <4>2 DEF n
        <5> QED BY <2>2, <3>1, <3>3, <4>2, <5>1
      <4> QED BY <3>4, <4>1, <4>2
    <3> QED BY <1>14, <3>1, <3>2, <3>3, <3>5, <3>6 DEF Owed, q
  <2> QED BY <2>2, <2>10, <2>11 DEF Streamed
<1> QED BY <1>16, <1>18, <1>19, <1>20 DEF PhaseInv

\* Between two steps, without a base, nothing is known of the directories.
LEMMA RestListing ==
  ASSUME NEW b, NEW k, NEW known, NEW end
  PROVE  /\ Listing(Rest(FALSE, b, k, known, end))
         /\ \A d \in Rest(FALSE, b, k, known, end) : \A X \in SUBSET Parcels :
              /\ [d EXCEPT !.population = X] \in Rest(FALSE, b, k, known, end)
              /\ [d EXCEPT !.gathered = X] \in Rest(FALSE, b, k, known, end)
<1> DEFINE F == Rest(FALSE, b, k, known, end)
<1>1. F \subseteq Devices BY DEF Rest
<1>2. ASSUME NEW d \in F, NEW X \in SUBSET Parcels
      PROVE  /\ [d EXCEPT !.bins = X] \in F /\ [d EXCEPT !.tasks = X] \in F
             /\ [d EXCEPT !.population = X] \in F /\ [d EXCEPT !.gathered = X] \in F
  BY DEF Rest, Devices, AlwaysHeavy
<1> HIDE DEF F
<1>3. Listing(F) BY <1>1, <1>2 DEF Listing
<1> QED BY <1>2, <1>3 DEF F

\* The moments of a mirror: the particles have a directory, and that is all.
LEMMA RestartKeeps == Phase!Assumption /\ PhaseInv /\ Phase!Restart => PhaseInv'
<1> SUFFICES ASSUME Phase!Assumption, PhaseInv, Phase!Restart PROVE PhaseInv' OBVIOUS
<1> DEFINE h == Phase!Flags
           g == IF Phase!CellLocal THEN Phase!BinParticles(h) ELSE h
           o == [op |-> "moments", sorted |-> Phase!CellLocal]
           F == AtRest
           L == {d \in F : Phase!CellLocal => Lists(d)}
<1>1. /\ clock.steps = 0 /\ stream = <<>>
      /\ stream' = Append(g.program, o)
      /\ host' = [host EXCEPT !.ready = g.ready, !.prepared = g.prepared,
                              !.split = g.split, !.injection = g.injection, !.present = TRUE]
      /\ device' = [device EXCEPT !.population = {<<"moved", 0>>}]
      /\ config' = config /\ entries' = entries /\ clock' = clock /\ asked' = asked
  BY DEF Phase!Restart
<1>2. PhaseTypes /\ Flagged /\ Recorded /\ Streamed BY DEF PhaseInv
<1>3. /\ Phase!CellLocal \in BOOLEAN /\ Phase!Enabled \in BOOLEAN /\ config.thermal \in BOOLEAN
      /\ {"full", "baseOnly", "split"} \subseteq Phase!Kinds
  BY <1>2, Constants DEF PhaseTypes, Phase!Kinds
<1>4. Phase!Enabled => Phase!CellLocal BY <1>2, Constants DEF PhaseTypes
<1>5. /\ h \in Hosts /\ h.program = <<>> /\ h.base = host.base /\ h.split = FALSE
      /\ h.injection = FALSE /\ h.ready = host.ready /\ h.prepared = host.prepared
  BY <1>2 DEF Phase!Flags, Hosts, PhaseTypes, Flagged
<1> HIDE DEF h, g, o
<1>6. host.base = FALSE BY <1>1, <1>2 DEF Flagged, PhaseTypes
<1>7. /\ F = Rest(FALSE, host.buffer, clock.steps, clock.submitted, clock.previous.end)
      /\ F \in SUBSET Devices /\ L \in SUBSET Devices
  BY <1>6 DEF AtRest, Rest
<1>8. Listing(F) /\ \A d \in F : \A X \in SUBSET Parcels :
        [d EXCEPT !.population = X] \in F /\ [d EXCEPT !.gathered = X] \in F
  BY <1>7, RestListing
<1> HIDE DEF F, L
<1>9. ASSUME NEW R, NEW K
      PROVE  /\ g \in Hosts /\ Leads(g.program, F, L, R, K)
             /\ g.split = FALSE /\ g.injection = FALSE
             /\ Phase!CellLocal =>
                  g.ready = Phase!Enabled /\ (Phase!Enabled \/ g.prepared = host.prepared)
             /\ ~Phase!CellLocal => g.ready = host.ready /\ g.prepared = host.prepared
  <2>1. Leads(h.program, F, F, R, K) BY <1>5, <1>7, LeadsNowhere
  <2>2. CASE Phase!CellLocal
    <3>1. g = Phase!BinParticles(h) BY <2>2 DEF g
    <3>2. Prepared(g, [h EXCEPT !.split = FALSE, !.injection = FALSE], "full", F,
                   {d \in F : Lists(d)}, R, K)
      BY <1>3, <1>5, <1>8, <2>1, <3>1, ParticlesBinned
    <3>3. {d \in F : Lists(d)} = L BY <2>2 DEF L
    <3> QED BY <1>3, <1>5, <2>2, <3>2, <3>3 DEF Prepared, Hosts
  <2>3. CASE ~Phase!CellLocal
    <3>1. g = h BY <2>3 DEF g
    <3>2. L = F BY <2>3 DEF L
    <3> QED BY <1>5, <2>1, <2>3, <3>1, <3>2
  <2> QED BY <1>3, <2>2, <2>3
<1>10. /\ g \in Hosts /\ g.split = FALSE /\ g.injection = FALSE
       /\ Phase!CellLocal =>
            g.ready = Phase!Enabled /\ (Phase!Enabled \/ g.prepared = host.prepared)
       /\ ~Phase!CellLocal => g.ready = host.ready /\ g.prepared = host.prepared
  BY <1>9
<1>11. o \in Operations /\ o.op = "moments" /\ o.sorted = Phase!CellLocal
  BY <1>3 DEF Operations, o
<1>12. ASSUME NEW R, NEW K, NEW d \in L
       PROVE  Safe(d, o, R, K) /\ Phase!Outcomes(d, o) \subseteq F
  <2> DEFINE X == d.population
             e == [d EXCEPT !.gathered = X]
  <2>1. d \in F /\ d \in Devices /\ X \in SUBSET Parcels BY <1>7 DEF L, Devices
  <2>2. Phase!Reads(d, o) = X
    <3>1. CASE ~Phase!CellLocal BY <1>11, <3>1, ReadsOf
    <3>2. CASE Phase!CellLocal BY <1>11, <3>2, ReadsOf DEF L, Lists
    <3> QED BY <3>1, <3>2
  <2>3. Safe(d, o, R, K) BY <1>11, <2>2 DEF Safe, Phase!Readers
  <2>4. Phase!Outcomes(d, o) = {IF config.thermal THEN d ELSE e}
    BY <1>11, <2>2, OutcomesOf DEF Phase!Gathered
  <2>5. e \in F BY <1>8, <2>1
  <2> QED BY <2>1, <2>3, <2>4, <2>5
<1>13. PhaseTypes'
  <2>1. host' \in [base : BOOLEAN, split : BOOLEAN, injection : BOOLEAN, ready : BOOLEAN,
               prepared : Phase!Kinds, buffer : {0, 1}, epoch : Nat, grid : {0, 1},
               present : BOOLEAN]
    BY <1>1, <1>2, <1>10 DEF PhaseTypes, Hosts
  <2>2. stream' \in Seq(Operations) BY <1>1, <1>10, <1>11 DEF Hosts
  <2> QED BY <1>1, <1>2, <2>1, <2>2 DEF PhaseTypes
<1>14. /\ host'.base = host.base /\ host'.buffer = host.buffer /\ host'.split = FALSE
       /\ host'.injection = FALSE /\ host'.ready = g.ready /\ host'.prepared = g.prepared
       /\ host'.epoch = host.epoch
  BY <1>1, <1>2, <1>10 DEF PhaseTypes
<1>15. /\ Phase!CellLocal' = Phase!CellLocal /\ Phase!Enabled' = Phase!Enabled /\ Post' = Post
  BY <1>1, TasksKept, RestKept
<1>16. Flagged'
  <2>1. Unlisted(host)'
    <3>1. ~Phase!Enabled => g.ready = FALSE /\ g.prepared = "full"
      BY <1>2, <1>3, <1>10 DEF Flagged, Unlisted, PhaseTypes
    <3> QED BY <1>14, <1>15, <3>1 DEF Unlisted
  <2>2. ~Phase!CellLocal => Phase!Mirror(host)' = Post
    <3>1. ASSUME ~Phase!CellLocal PROVE Phase!Mirror(host)' = Phase!Mirror(host)
      <4>1. host.split = FALSE /\ host.injection = FALSE BY <1>2 DEF Flagged, PhaseTypes
      <4> QED BY <1>10, <1>14, <3>1, <4>1 DEF Phase!Mirror
    <3> QED BY <1>2, <1>3, <1>6, <3>1 DEF Flagged
  <2> QED BY <1>1, <1>2, <1>3, <1>6, <1>14, <1>15, <2>1, <2>2 DEF Flagged
<1>17. Recorded'
  <2>1. \A i \in Phase!Index : ~entries'[i].recorded BY <1>1, <1>2 DEF Flagged
  <2>2. \A zero \in BOOLEAN : [base |-> host'.base, zero |-> zero] \in Phase!Index
    BY <1>6, <1>14 DEF Phase!Index
  <2> QED BY <2>1, <2>2 DEF Recorded
<1>18. Streamed'
  <2>1. PICK R \in [Nat -> Intervals] : Leads(stream, {device}, AtRest, R, clock.steps) /\ Owed(R)
    BY <1>2 DEF Streamed
  <2> DEFINE K == clock.steps
  <2>2. device \in F
    <3>1. PICK D \in [1 .. 0 + 1 -> SUBSET Devices] : {device} \subseteq D[1] /\ D[0 + 1] \subseteq F
      <4>1. Len(stream) = 0 BY <1>1
      <4> QED BY <2>1, <4>1 DEF Leads, F
    <3>2. 0 + 1 = 1 OBVIOUS
    <3> QED BY <3>1, <3>2
  <2>3. device' \in F
    <3>1. {<<"moved", 0>>} \in SUBSET Parcels BY DEF Parcels
    <3> QED BY <1>1, <1>8, <2>2, <3>1
  <2>4. Leads(Append(g.program, o), F, F, R, K)
    <3>1. /\ Phase!Emit(g, o) \in Hosts /\ Leads(Phase!Emit(g, o).program, F, F, R, K)
          /\ Phase!Emit(g, o) = [g EXCEPT !.program = Append(g.program, o)]
      <4>1. Leads(g.program, F, L, R, K) BY <1>9
      <4>2. \A d \in L \intersect Devices : Safe(d, o, R, K) /\ Phase!Outcomes(d, o) \subseteq F
        BY <1>12
      <4> QED BY <1>7, <1>10, <1>11, <4>1, <4>2, Emitted
    <3> QED BY <1>10, <3>1 DEF Hosts
  <2>5. Leads(stream', {device'}, F, R, K)
    <3>1. stream' = Append(g.program, o) BY <1>1
    <3>2. Leads(Append(g.program, o), {device'}, F, R, K) BY <2>3, <2>4, LeadsLess
    <3> QED BY <3>1, <3>2
  <2>6. AtRest' = F
    <3>1. config' = config BY <1>1
    <3>2. \A base, c, k, known, until :
            Rest(base, c, k, known, until)' = Rest(base, c, k, known, until)
      BY <3>1, RestKept
    <3>3. host'.base = host.base /\ host'.buffer = host.buffer /\ clock' = clock BY <1>1, <1>14
    <3> QED BY <3>2, <3>3 DEF AtRest, F
  <2>7. Leads(stream, {device}, AtRest, R, clock.steps)'
    <3>1. Leads(stream', {device'}, AtRest', R, clock'.steps) BY <1>1, <2>5, <2>6
    <3>2. config' = config BY <1>1
    <3> QED BY <3>1, <3>2, LeadsKept
  <2>8. Owed(R)'
    <3>1. device \in Devices BY <1>7, <2>2
    <3>2. device'.interval = device.interval /\ device'.step = device.step
      BY <1>1, <3>1 DEF Devices
    <3>3. Past(device)' = Past(device) BY <3>2 DEF Past
    <3> QED BY <1>1, <2>1, <3>3 DEF Owed
  <2> QED BY <2>7, <2>8 DEF Streamed
<1> QED BY <1>13, <1>16, <1>17, <1>18 DEF PhaseInv

\* The host replaces the state of the idle device (syncDeviceState).
LEMMA ConfigureKeeps == Phase!Assumption /\ PhaseInv /\ Phase!Configure => PhaseInv'
<1> SUFFICES ASSUME Phase!Assumption, PhaseInv, Phase!Configure PROVE PhaseInv' OBVIOUS
<1>1. /\ stream = <<>> /\ clock' = [clock EXCEPT !.configurations = @ + 1]
      /\ host' = [host EXCEPT !.epoch = @ + 1, !.grid = 1 - @]
      /\ device' = [device EXCEPT !.buffer = host.buffer, !.baseReady = host.base,
                                  !.interval = Phase!Idle]
      /\ config' = config /\ entries' = entries /\ stream' = stream /\ asked' = asked
  BY DEF Phase!Configure
<1>2. PhaseTypes /\ Flagged /\ Recorded /\ Streamed BY DEF PhaseInv
<1>3. /\ host' \in [base : BOOLEAN, split : BOOLEAN, injection : BOOLEAN, ready : BOOLEAN,
                    prepared : Phase!Kinds, buffer : {0, 1}, epoch : Nat, grid : {0, 1},
                    present : BOOLEAN]
      /\ host'.base = host.base /\ host'.split = host.split /\ host'.injection = host.injection
      /\ host'.ready = host.ready /\ host'.prepared = host.prepared
      /\ host'.buffer = host.buffer /\ host'.epoch = host.epoch + 1
  <2>1. host \in [base : BOOLEAN, split : BOOLEAN, injection : BOOLEAN, ready : BOOLEAN,
                    prepared : Phase!Kinds, buffer : {0, 1}, epoch : Nat, grid : {0, 1},
                    present : BOOLEAN]
    BY <1>2 DEF PhaseTypes
  <2>2. host.epoch + 1 \in Nat /\ 1 - host.grid \in {0, 1} BY <2>1
  <2> QED BY <1>1, <2>1, <2>2
<1>4. /\ clock' \in [previous : Intervals, submitted : BOOLEAN, end : Nat, steps : Nat,
                     configurations : Nat]
      /\ clock'.steps = clock.steps /\ clock'.submitted = clock.submitted
      /\ clock'.previous = clock.previous
  BY <1>1, <1>2 DEF PhaseTypes
<1>5. PhaseTypes' BY <1>1, <1>2, <1>3, <1>4 DEF PhaseTypes
<1>6. Phase!CellLocal' = Phase!CellLocal /\ Phase!Enabled' = Phase!Enabled /\ Post' = Post
  BY <1>1, TasksKept, RestKept
<1>7. Flagged'
  <2>1. Unlisted(host)' BY <1>2, <1>3, <1>6 DEF Flagged, Unlisted
  <2>2. Phase!Mirror(host)' = Phase!Mirror(host) BY <1>3 DEF Phase!Mirror
  <2> QED BY <1>1, <1>2, <1>3, <1>4, <1>6, <2>1, <2>2 DEF Flagged
<1>8. Recorded'
  <2>1. host.epoch \in Nat BY <1>2 DEF PhaseTypes
  <2>2. ASSUME NEW i \in Phase!Index, entries'[i].recorded
        PROVE  entries'[i].epoch =< host'.epoch /\ entries'[i].epoch # host'.epoch
    <3> DEFINE e == entries[i]
    <3>1. e \in {Phase!NoEntry} \union
            [recorded : {TRUE}, program : Seq(Operations), mirror : Mirrors, epoch : Nat]
      BY <1>2 DEF PhaseTypes
    <3>2. e # Phase!NoEntry /\ e = entries'[i] BY <1>1, <2>2 DEF Phase!NoEntry
    <3>3. e.epoch \in Nat BY <3>1, <3>2
    <3>4. e.epoch =< host.epoch BY <1>2, <2>2, <3>2 DEF Recorded
    <3> HIDE DEF e
    <3> QED BY <1>3, <2>1, <3>2, <3>3, <3>4
  <2>3. \A zero \in BOOLEAN : [base |-> host'.base, zero |-> zero] \in Phase!Index
    BY <1>3 DEF Phase!Index
  <2> QED BY <2>2, <2>3 DEF Recorded
<1>9. Streamed'
  <2>1. PICK R \in [Nat -> Intervals] : Leads(stream, {device}, AtRest, R, clock.steps) /\ Owed(R)
    BY <1>2 DEF Streamed
  <2>2. device \in AtRest
    <3>1. PICK D \in [1 .. 0 + 1 -> SUBSET Devices] :
            {device} \subseteq D[1] /\ D[0 + 1] \subseteq AtRest
      <4>1. Len(stream) = 0 BY <1>1
      <4> QED BY <2>1, <4>1 DEF Leads
    <3>2. 0 + 1 = 1 OBVIOUS
    <3> QED BY <3>1, <3>2
  <2>3. /\ device \in Devices /\ ~device.interval.active /\ device.step = clock.steps
        /\ device.buffer = host.buffer
        /\ clock.submitted => device.clock.end = clock.previous.end
        /\ AlwaysHeavy(device) /\ (host.base => Carried(device))
    BY <2>2 DEF AtRest, Rest
  <2>4. /\ device' \in Devices /\ ~device'.interval.active /\ device'.step = device.step
        /\ device'.buffer = host.buffer /\ device'.clock = device.clock
        /\ device'.population = device.population /\ device'.base = device.base
        /\ device'.tasks = device.tasks /\ device'.active = device.active
        /\ device'.baseReady = host.base
    <3>1. Phase!Idle \in Intervals /\ ~Phase!Idle.active BY DEF Phase!Idle, Intervals
    <3>2. host.buffer \in {0, 1} /\ host.base \in BOOLEAN BY <1>2 DEF PhaseTypes
    <3> QED BY <1>1, <2>3, <3>1, <3>2 DEF Devices
  <2>5. device' \in AtRest
    <3>1. AlwaysHeavy(device') BY <2>3, <2>4 DEF AlwaysHeavy
    <3>2. host.base => Carried(device') BY <2>3, <2>4 DEF Carried
    <3> QED BY <2>3, <2>4, <3>1, <3>2 DEF AtRest, Rest
  <2>6. AtRest' = AtRest
    <3>1. config' = config BY <1>1
    <3>2. \A base, c, k, known, until :
            Rest(base, c, k, known, until)' = Rest(base, c, k, known, until)
      BY <3>1, RestKept
    <3> QED BY <1>3, <1>4, <3>2 DEF AtRest
  <2>7. Leads(stream, {device}, AtRest, R, clock.steps)'
    <3>1. AtRest \in SUBSET Devices BY DEF AtRest, Rest
    <3>2. Leads(<<>>, AtRest, AtRest, R, clock.steps) BY <3>1, LeadsNowhere
    <3>3. Leads(<<>>, {device'}, AtRest, R, clock.steps) BY <2>5, <3>2, LeadsLess
    <3>4. Leads(stream', {device'}, AtRest', R, clock'.steps) BY <1>1, <1>4, <2>6, <3>3
    <3>5. config' = config BY <1>1
    <3> QED BY <3>4, <3>5, LeadsKept
  <2>8. Owed(R)'
    <3>1. Past(device)' = Past(device) BY <2>3, <2>4 DEF Past
    <3> QED BY <1>1, <1>4, <2>1, <3>1 DEF Owed
  <2> QED BY <2>7, <2>8 DEF Streamed
<1> QED BY <1>5, <1>7, <1>8, <1>9 DEF PhaseInv

\* Nothing changes.
LEMMA PhaseStutters == PhaseInv /\ UNCHANGED Phase!vars => PhaseInv'
<1> SUFFICES ASSUME PhaseInv, UNCHANGED Phase!vars PROVE PhaseInv' OBVIOUS
<1>1. /\ config' = config /\ host' = host /\ entries' = entries /\ clock' = clock
      /\ stream' = stream /\ asked' = asked /\ device' = device
  BY DEF Phase!vars
<1>2. PhaseTypes /\ Flagged /\ Recorded /\ Streamed BY DEF PhaseInv
<1>3. PhaseTypes' BY <1>1, <1>2 DEF PhaseTypes
<1>4. Flagged'
  <2>1. Unlisted(host)' BY <1>1, <1>2, TasksKept DEF Flagged, Unlisted
  <2>2. Phase!Mirror(host)' = Phase!Mirror(host) BY <1>1 DEF Phase!Mirror
  <2>3. Phase!CellLocal' = Phase!CellLocal /\ Post' = Post BY <1>1, TasksKept, RestKept
  <2> QED BY <1>1, <1>2, <2>1, <2>2, <2>3 DEF Flagged
<1>5. Recorded'
  <2>1. Phase!Flags' = Phase!Flags BY <1>1 DEF Phase!Flags
  <2>2. \A zero : Phase!Submitted(zero)' = Phase!Submitted(zero) BY <1>1, <2>1, SubmittedKept
  <2> QED BY <1>1, <1>2, <2>2 DEF Recorded, Phase!Mirror
<1>6. Streamed'
  <2>1. PICK R \in [Nat -> Intervals] :
          Leads(stream, {device}, AtRest, R, clock.steps) /\ Owed(R)
    BY <1>2 DEF Streamed
  <2>2. AtRest' = AtRest BY <1>1, RestKept DEF AtRest
  <2>3. Leads(stream, {device}, AtRest, R, clock.steps)' BY <1>1, <2>1, <2>2, LeadsKept
  <2>4. Owed(R)' BY <1>1, <2>1 DEF Owed, Past
  <2> QED BY <2>3, <2>4 DEF Streamed
<1> QED BY <1>3, <1>4, <1>5, <1>6 DEF PhaseInv

\* The invariant of the particle phase: the flags, the recordings and the
\* operations not yet executed (submitParticles, launchParticlePhaseGraph).
THEOREM PhaseInvariant == Phase!Spec => []PhaseInv
<1>1. Phase!Init => PhaseInv BY PhaseInitial, PhaseAssumption
<1>2. PhaseInv /\ [Phase!Next]_(Phase!vars) => PhaseInv'
  <2> SUFFICES ASSUME PhaseInv, [Phase!Next]_(Phase!vars) PROVE PhaseInv' OBVIOUS
  <2>1. Phase!Assumption BY PhaseAssumption
  <2>2. ASSUME NEW dt \in TimeSteps, NEW late \in {0, 1},
               Phase!Launch(dt, clock.end + dt + late)
        PROVE  PhaseInv'
    <3>1. clock.end + dt + late \in Nat BY <2>1 DEF PhaseInv, PhaseTypes, Phase!Assumption
    <3> QED BY <2>1, <2>2, <3>1, LaunchKeeps
  <2>3. CASE Phase!Restart BY <2>1, <2>3, RestartKeeps
  <2>4. CASE Phase!Configure BY <2>1, <2>4, ConfigureKeeps
  <2>5. CASE Phase!Execute BY <2>1, <2>5, ExecuteKeeps
  <2>6. CASE Phase!Finished BY <2>6, PhaseStutters DEF Phase!Finished
  <2>7. CASE UNCHANGED Phase!vars BY <2>7, PhaseStutters
  <2> QED BY <2>2, <2>3, <2>4, <2>5, <2>6, <2>7 DEF Phase!Next
<1> QED BY <1>1, <1>2, PTL DEF Phase!Spec

\* The invariant at the next operation, or when there is none.
LEMMA StreamedHead ==
  ASSUME PhaseInv
  PROVE  /\ stream = <<>> => device \in AtRest
         /\ stream # <<>> =>
              \E R \in [Nat -> Intervals] :
                Safe(device, Head(stream), R, clock.steps) /\ Owed(R) /\ device \in Devices
<1>1. PICK R \in [Nat -> Intervals] : Leads(stream, {device}, AtRest, R, clock.steps) /\ Owed(R)
  BY DEF PhaseInv, Streamed
<1>2. ASSUME stream = <<>> PROVE device \in AtRest
  <2>1. PICK D \in [1 .. 0 + 1 -> SUBSET Devices] :
          {device} \subseteq D[1] /\ D[0 + 1] \subseteq AtRest
    <3>1. Len(stream) = 0 BY <1>2
    <3> QED BY <1>1, <3>1 DEF Leads
  <2>2. 0 + 1 = 1 OBVIOUS
  <2> QED BY <2>1, <2>2
<1>3. ASSUME stream # <<>>
      PROVE  Safe(device, Head(stream), R, clock.steps) /\ device \in Devices
  <2>1. stream \in Seq(Operations) BY DEF PhaseInv, PhaseTypes
  <2> QED BY <1>1, <1>3, <2>1, LeadsShorter
<1> QED BY <1>1, <1>2, <1>3

\* Every operation of the phase reads exactly the particles that there are when
\* the device executes it: through whatever directory or task list the host has
\* chosen, in every configuration, for any number of steps and with any choice
\* of the device between the reductions (submitParticles, CsrConditionalGraph).
THEOREM ReadersReadExactly == Phase!Spec => []ReadsExact
<1>1. PhaseInv => ReadsExact
  <2> SUFFICES ASSUME PhaseInv, stream # <<>>, Head(stream).op \in Phase!Readers
               PROVE  Phase!Reads(device, Head(stream)) = device.population
    BY DEF ReadsExact, Phase!ReadsExact
  <2> QED BY StreamedHead DEF Safe
<1> QED BY <1>1, PhaseInvariant, PTL

\* What the next step of either kind replays, and the flags it leaves, are what
\* the host's code would submit and leave now (GpuParticlePhaseGraph.cuh).
THEOREM RecordingsAreCurrent == Phase!Spec => []RecordingsCurrent
<1>1. PhaseInv => RecordingsCurrent
  <2> SUFFICES ASSUME PhaseInv, NEW dt \in TimeSteps
               PROVE  /\ Phase!CurrentEntry(dt).program = Phase!Submitted(dt = 0).program
                      /\ Phase!CurrentEntry(dt).mirror = Phase!Mirror(Phase!Submitted(dt = 0))
    BY DEF RecordingsCurrent, Phase!RecordingsCurrent
  <2> DEFINE z == dt = 0
  <2>1. Replays(Phase!CurrentEntry(dt), z) BY EntryReplays, PhaseAssumption
  <2>2. z \in BOOLEAN OBVIOUS
  <2> HIDE DEF z
  <2>3. Phase!Mirror(Phase!Submitted(z)) = Post
    BY <2>2, SubmittedEnds, PhaseAssumption DEF PhaseInv
  <2> QED BY <2>1, <2>3 DEF Replays, z
<1> QED BY <1>1, PhaseInvariant, PTL

\* What the host takes the device to be like without asking it is so: the buffer
\* pointers, the base offsets, and the interval it works in.
THEOREM HostKnowsDevice == Phase!Spec => []HostFollowsDevice
<1>1. PhaseInv => HostFollowsDevice
  <2> SUFFICES ASSUME PhaseInv PROVE HostFollowsDevice OBVIOUS
  <2>1. ASSUME stream = <<>>
        PROVE  /\ host.buffer = device.buffer
               /\ host.base => device.baseReady /\ device.base = device.population
    BY <2>1, StreamedHead DEF AtRest, Rest, Carried
  <2>2. ASSUME stream # <<>>, Head(stream).op \in {"inject", "track"}
        PROVE  device.interval = asked[1]
    <3>1. PICK R \in [Nat -> Intervals] :
            Safe(device, Head(stream), R, clock.steps) /\ Owed(R) /\ device \in Devices
      BY <2>2, StreamedHead
    <3>2. /\ device.interval.active /\ device.step \in 1 .. clock.steps
          /\ device.interval = R[device.step]
      BY <2>2, <3>1 DEF Safe
    <3>3. clock.steps \in Nat BY DEF PhaseInv, PhaseTypes
    <3>4. Past(device) = device.step - 1 BY <3>2 DEF Past
    <3>5. /\ Len(asked) = clock.steps - Past(device)
          /\ \A j \in 1 .. Len(asked) : asked[j] = R[Past(device) + j]
      BY <3>1 DEF Owed
    <3>6. 1 \in 1 .. Len(asked) /\ Past(device) + 1 = device.step BY <3>2, <3>3, <3>4, <3>5
    <3>7. asked[1] = R[Past(device) + 1] BY <3>5, <3>6
    <3> QED BY <3>2, <3>6, <3>7
  <2> QED BY <2>1, <2>2 DEF HostFollowsDevice, Phase!HostFollowsDevice, Phase!PointersAgree,
                           Phase!BaseReadyIsExact, Phase!IntervalInForce
<1> QED BY <1>1, PhaseInvariant, PTL
===============================================================================
