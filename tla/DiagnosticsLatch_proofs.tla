---------------------- MODULE DiagnosticsLatch_proofs ----------------------
(***************************************************************************)
(* Proofs about DiagnosticsLatch, for any number of blocks, threads and    *)
(* categories, any limit of the counters and any bounds: the counters are  *)
(* exact, a latched fatal stops the guarded kernels after it, what the     *)
(* host sees is whole, and what it has seen is reported once.              *)
(***************************************************************************)
EXTENDS DiagnosticsLatch, FiniteSetTheorems, SequenceTheorems, TLAPS

Labels == {"idle", "entry", "work", "done", "count", "sample", "write", "latch"}
Kernels == {"guarded", "plain"}
Parts == {"claim", "fatal", "operation", "count", "overflow", "claimed", "sample"}

\* The parts of the device's state that the arguments need.
Types ==
  /\ DOMAIN context = Parts /\ context = [part \in Parts |-> context[part]]
  /\ context.claim \in BOOLEAN
  /\ context.count \in [Categories -> 0 .. MaxCount]
  /\ context.overflow \in [Categories -> BOOLEAN]
  /\ pc \in [Threads -> Labels]
  /\ category \in [Threads -> Categories]
  /\ old \in [Threads -> 0 .. MaxCount]
  /\ raised \in [Categories \cup {Fatal} -> Nat]

\* The threads that have raised a warning and not yet counted it, and the
\* warnings of a category that have been counted or found the counter full.
InLoop(c) == {t \in Threads : pc[t] = "count" /\ category[t] = c}
Settled(c) == raised[c] - Cardinality(InLoop(c))

\* A counter only grows: who has seen it full finds it full.
OldBound == \A t \in Threads : pc[t] = "count" => old[t] <= context.count[category[t]]

CountRight(c) == context.count[c] = Smaller(Settled(c), MaxCount)
OverflowRight(c) == context.overflow[c] <=> Settled(c) > MaxCount
Counted == \A c \in Categories : CountRight(c) /\ OverflowRight(c)

CountInv == Types /\ OldBound /\ Counted

-----------------------------------------------------------------------------
LEMMA FiniteThreads == IsFiniteSet(Threads) /\ Threads # {}
<1>1. IsFiniteSet(Threads)
  BY FS_Product, ThreadsAssumption DEF Threads
<1>2. PICK b \in Blocks : TRUE BY ThreadsAssumption
<1>3. PICK l \in Lanes : TRUE BY ThreadsAssumption
<1>4. <<b, l>> \in Threads BY DEF Threads
<1> QED BY <1>1, <1>4

LEMMA FiniteLoop ==
  ASSUME NEW c
  PROVE  IsFiniteSet(InLoop(c)) /\ Cardinality(InLoop(c)) \in Nat
<1>1. InLoop(c) \in SUBSET Threads BY DEF InLoop
<1>2. IsFiniteSet(InLoop(c)) BY <1>1, FiniteThreads, FS_Subset
<1> QED BY <1>2, FS_CardinalityType

LEMMA InitCount == Init => CountInv
<1> SUFFICES ASSUME Init PROVE CountInv OBVIOUS
<1>1. Types
  BY CategoriesAssumption, CountAssumption DEF Init, Types, Fresh, Parts, Labels
<1>2. \A c \in Categories : InLoop(c) = {} BY DEF Init, InLoop
<1>3. ASSUME NEW c \in Categories PROVE Settled(c) = 0
  <2>1. Cardinality(InLoop(c)) = 0 BY <1>2, FS_EmptySet
  <2>2. raised[c] = 0 BY DEF Init
  <2> QED BY <2>1, <2>2 DEF Settled
<1>4. OldBound BY DEF OldBound, Init
<1>5. ASSUME NEW c \in Categories PROVE CountRight(c) /\ OverflowRight(c)
  <2>1. context.count[c] = 0 /\ context.overflow[c] = FALSE BY DEF Init, Fresh
  <2>2. CountRight(c) BY <2>1, <1>3, CountAssumption DEF CountRight, Smaller
  <2>3. ~(Settled(c) > MaxCount) BY <1>3, CountAssumption
  <2> QED BY <2>1, <2>2, <2>3 DEF OverflowRight
<1> QED BY <1>1, <1>4, <1>5 DEF CountInv, Counted

\* A thread is in the loop of at most one category, and joins and leaves it.
LEMMA Joins ==
  ASSUME NEW c \in Categories, NEW t \in Threads, t \notin InLoop(c),
         InLoop(c)' = InLoop(c) \cup {t}, raised \in [Categories \cup {Fatal} -> Nat],
         raised[c]' = raised[c] + 1
  PROVE  Settled(c)' = Settled(c)
<1>1. Cardinality(InLoop(c)') = Cardinality(InLoop(c)) + 1
  BY FiniteLoop, FS_AddElement
<1>2. Cardinality(InLoop(c)) \in Nat BY FiniteLoop
<1>3. Settled(c)' = raised[c]' - Cardinality(InLoop(c)') BY DEF Settled
<1> QED BY <1>1, <1>2, <1>3 DEF Settled

LEMMA Leaves ==
  ASSUME NEW c \in Categories, NEW t \in InLoop(c),
         InLoop(c)' = InLoop(c) \ {t}, raised \in [Categories \cup {Fatal} -> Nat],
         raised[c]' = raised[c]
  PROVE  Settled(c)' = Settled(c) + 1
<1>1. Cardinality(InLoop(c)') = Cardinality(InLoop(c)) - 1
  BY FiniteLoop, FS_RemoveElement
<1>2. Cardinality(InLoop(c)) \in Nat BY FiniteLoop
<1>3. Settled(c)' = raised[c]' - Cardinality(InLoop(c)') BY DEF Settled
<1> QED BY <1>1, <1>2, <1>3 DEF Settled

\* A category nobody joins or leaves and whose counter is left alone stays right.
LEMMA Untouched ==
  ASSUME NEW c \in Categories, InLoop(c)' = InLoop(c), raised[c]' = raised[c],
         context.count[c]' = context.count[c], context.overflow[c]' = context.overflow[c],
         CountRight(c), OverflowRight(c)
  PROVE  CountRight(c)' /\ OverflowRight(c)'
<1>1. Settled(c)' = Settled(c) BY DEF Settled
<1>2. CountRight(c)' BY <1>1 DEF CountRight
<1>3. OverflowRight(c)' BY <1>1 DEF OverflowRight
<1> QED BY <1>2, <1>3

\* Likewise for all of them, when no thread enters or leaves a loop.
LEMMA Aside ==
  ASSUME CountInv, Types', UNCHANGED category,
         \A t \in Threads : (pc'[t] = "count") <=> (pc[t] = "count"),
         context'.count = context.count, context'.overflow = context.overflow,
         old' = old, \A c \in Categories : raised'[c] = raised[c]
  PROVE  CountInv'
<1>1. ASSUME NEW c \in Categories PROVE CountRight(c)' /\ OverflowRight(c)'
  <2>1. InLoop(c)' = InLoop(c) BY DEF InLoop
  <2>2. CountRight(c) /\ OverflowRight(c) BY DEF CountInv, Counted
  <2> QED BY <2>1, <2>2, Untouched
<1>2. OldBound' BY DEF CountInv, OldBound
<1> QED BY <1>1, <1>2 DEF CountInv, Counted

-----------------------------------------------------------------------------
LEMMA RecordWarningCount ==
  ASSUME CountInv, NEW t \in Threads, NEW c \in Categories, RecordWarning(t, c)
  PROVE  CountInv'
<1>1. /\ context' = context /\ pc[t] = "work" /\ pc' = [pc EXCEPT ![t] = "count"]
      /\ category' = [category EXCEPT ![t] = c] /\ old' = [old EXCEPT ![t] = context.count[c]]
      /\ raised' = [raised EXCEPT ![c] = @ + 1]
  BY DEF RecordWarning, Step
<1>2. Types' BY <1>1 DEF CountInv, Types, Labels
<1>3. OldBound' BY <1>1 DEF CountInv, OldBound, Types
<1>4. ASSUME NEW d \in Categories PROVE CountRight(d)' /\ OverflowRight(d)'
  <2>1. CountRight(d) /\ OverflowRight(d) BY DEF CountInv, Counted
  <2>2. CASE d = c
    <3>1. t \notin InLoop(d) /\ InLoop(d)' = InLoop(d) \cup {t}
      BY <1>1, <2>2 DEF InLoop, CountInv, Types
    <3>2. raised[d]' = raised[d] + 1 BY <1>1, <2>2 DEF CountInv, Types
    <3>3. Settled(d)' = Settled(d) BY <3>1, <3>2, Joins DEF CountInv, Types
    <3>4. CountRight(d)' BY <3>3, <2>1, <1>1 DEF CountRight
    <3>5. OverflowRight(d)' BY <3>3, <2>1, <1>1 DEF OverflowRight
    <3> QED BY <3>4, <3>5
  <2>3. CASE d # c
    <3>1. InLoop(d)' = InLoop(d) BY <1>1, <2>3 DEF InLoop, CountInv, Types
    <3>2. raised[d]' = raised[d] BY <1>1, <2>3 DEF CountInv, Types
    <3> QED BY <3>1, <3>2, <2>1, <1>1, Untouched
  <2> QED BY <2>2, <2>3
<1> QED BY <1>2, <1>3, <1>4 DEF CountInv, Counted

LEMMA SaturatedCount ==
  ASSUME CountInv, NEW t \in Threads, Saturated(t)
  PROVE  CountInv'
<1> DEFINE c == category[t]
<1>1. /\ old[t] = MaxCount /\ pc[t] = "count" /\ pc' = [pc EXCEPT ![t] = "sample"]
      /\ context' = [context EXCEPT !.overflow[c] = TRUE]
      /\ old' = [old EXCEPT ![t] = 0] /\ category' = category /\ raised' = raised
  BY DEF Saturated, Step
<1>2. c \in Categories BY DEF CountInv, Types
<1>3. /\ context'.count = context.count /\ context'.claim = context.claim
      /\ context'.overflow = [context.overflow EXCEPT ![c] = TRUE]
  BY <1>1 DEF CountInv, Types, Parts
<1>4. DOMAIN context' = Parts /\ context' = [part \in Parts |-> context'[part]]
  BY <1>1 DEF CountInv, Types, Parts
<1>5. Types' BY <1>1, <1>3, <1>4, CountAssumption DEF CountInv, Types, Labels
<1>6. OldBound' BY <1>1, <1>3 DEF CountInv, OldBound, Types
<1>7. ASSUME NEW d \in Categories PROVE CountRight(d)' /\ OverflowRight(d)'
  <2>1. CountRight(d) /\ OverflowRight(d) BY DEF CountInv, Counted
  <2>2. CASE d = c
    <3>1. t \in InLoop(d) /\ InLoop(d)' = InLoop(d) \ {t}
      BY <1>1, <2>2 DEF InLoop, CountInv, Types
    <3>2. raised[d]' = raised[d] BY <1>1
    <3>3. Settled(d)' = Settled(d) + 1 BY <3>1, <3>2, Leaves DEF CountInv, Types
    <3>4. context.count[d] = MaxCount
      <4>1. MaxCount <= context.count[d] BY <1>1, <2>2 DEF CountInv, OldBound
      <4>2. context.count[d] \in 0 .. MaxCount BY DEF CountInv, Types
      <4> QED BY <4>1, <4>2, CountAssumption
    <3>5. Settled(d) \in Int BY FiniteLoop DEF Settled, CountInv, Types
    <3>6. Settled(d) >= MaxCount
      BY <3>4, <3>5, <2>1, CountAssumption DEF CountRight, Smaller
    <3>7. CountRight(d)'
      BY <3>3, <3>4, <3>5, <3>6, <1>3, CountAssumption DEF CountRight, Smaller
    <3>8. context'.overflow[d] = TRUE BY <1>3, <2>2, <1>2 DEF CountInv, Types
    <3>9. Settled(d)' > MaxCount BY <3>3, <3>5, <3>6, CountAssumption
    <3> QED BY <3>7, <3>8, <3>9 DEF OverflowRight
  <2>3. CASE d # c
    <3>1. InLoop(d)' = InLoop(d) BY <1>1, <2>3 DEF InLoop, CountInv, Types
    <3>2. context'.overflow[d] = context.overflow[d] BY <1>3, <2>3 DEF CountInv, Types
    <3> QED BY <3>1, <3>2, <2>1, <1>1, <1>3, Untouched
  <2> QED BY <2>2, <2>3
<1> QED BY <1>5, <1>6, <1>7 DEF CountInv, Counted

LEMMA IncrementCount ==
  ASSUME CountInv, NEW t \in Threads, Increment(t)
  PROVE  CountInv'
<1> DEFINE c == category[t]
<1>1. /\ old[t] # MaxCount /\ context.count[c] = old[t]
      /\ pc[t] = "count" /\ pc' = [pc EXCEPT ![t] = "sample"]
      /\ context' = [context EXCEPT !.count[c] = old[t] + 1]
      /\ old' = [old EXCEPT ![t] = 0] /\ category' = category /\ raised' = raised
  BY DEF Increment, Expected, Step
<1>2. c \in Categories /\ old[t] \in 0 .. MaxCount BY DEF CountInv, Types
<1>3. /\ context'.overflow = context.overflow /\ context'.claim = context.claim
      /\ context'.count = [context.count EXCEPT ![c] = old[t] + 1]
  BY <1>1 DEF CountInv, Types, Parts
<1>4. DOMAIN context' = Parts /\ context' = [part \in Parts |-> context'[part]]
  BY <1>1 DEF CountInv, Types, Parts
<1>5. Types'
  <2>1. old[t] + 1 \in 0 .. MaxCount BY <1>1, <1>2, CountAssumption
  <2>2. context'.count \in [Categories -> 0 .. MaxCount] BY <2>1, <1>3 DEF CountInv, Types
  <2> QED BY <2>2, <1>1, <1>3, <1>4, CountAssumption DEF CountInv, Types, Labels
<1>6. OldBound'
  <2>1. \A d \in Categories : context.count[d] <= context'.count[d]
    BY <1>1, <1>2, <1>3 DEF CountInv, Types
  <2>2. ASSUME NEW u \in Threads, pc'[u] = "count" PROVE old'[u] <= context'.count[category'[u]]
    <3>1. u # t /\ pc[u] = "count" /\ old'[u] = old[u] BY <1>1, <2>2 DEF CountInv, Types
    <3>2. old[u] <= context.count[category[u]] BY <3>1 DEF CountInv, OldBound
    <3>3. category[u] \in Categories /\ old[u] \in Nat BY DEF CountInv, Types
    <3>4. context.count[category[u]] \in Int /\ context'.count[category[u]] \in Int
      BY <3>3, <1>5 DEF CountInv, Types
    <3> QED BY <3>1, <3>2, <3>3, <3>4, <2>1, <1>1
  <2> QED BY <2>2 DEF OldBound
<1>7. ASSUME NEW d \in Categories PROVE CountRight(d)' /\ OverflowRight(d)'
  <2>1. CountRight(d) /\ OverflowRight(d) BY DEF CountInv, Counted
  <2>2. CASE d = c
    <3>1. t \in InLoop(d) /\ InLoop(d)' = InLoop(d) \ {t}
      BY <1>1, <2>2 DEF InLoop, CountInv, Types
    <3>2. raised[d]' = raised[d] BY <1>1
    <3>3. Settled(d)' = Settled(d) + 1 BY <3>1, <3>2, Leaves DEF CountInv, Types
    <3>4. Settled(d) \in Int BY FiniteLoop DEF Settled, CountInv, Types
    <3>5. context.count[d] = Settled(d) /\ Settled(d) < MaxCount
      BY <3>4, <2>1, <2>2, <1>1, <1>2, CountAssumption DEF CountRight, Smaller
    <3>6. context'.count[d] = Settled(d) + 1
      BY <3>5, <2>2, <1>1, <1>2, <1>3 DEF CountInv, Types
    <3>7. CountRight(d)' BY <3>3, <3>4, <3>5, <3>6, CountAssumption DEF CountRight, Smaller
    <3>8. ~(Settled(d) > MaxCount) /\ ~(Settled(d)' > MaxCount)
      BY <3>3, <3>4, <3>5, CountAssumption
    <3>9. OverflowRight(d)' BY <3>8, <2>1, <1>3 DEF OverflowRight
    <3> QED BY <3>7, <3>9
  <2>3. CASE d # c
    <3>1. InLoop(d)' = InLoop(d) BY <1>1, <2>3 DEF InLoop, CountInv, Types
    <3>2. context'.count[d] = context.count[d] BY <1>3, <2>3 DEF CountInv, Types
    <3> QED BY <3>1, <3>2, <2>1, <1>1, <1>3, Untouched
  <2> QED BY <2>2, <2>3
<1> QED BY <1>5, <1>6, <1>7 DEF CountInv, Counted

LEMMA RetryCount ==
  ASSUME CountInv, NEW t \in Threads, Retry(t)
  PROVE  CountInv'
<1>1. /\ pc[t] = "count" /\ pc' = [pc EXCEPT ![t] = "count"] /\ context' = context
      /\ old' = [old EXCEPT ![t] = context.count[category[t]]]
      /\ category' = category /\ raised' = raised
  BY DEF Retry, Seen, Step
<1>2. pc' = pc BY <1>1 DEF CountInv, Types
<1>3. Types' BY <1>1, <1>2 DEF CountInv, Types
<1>4. OldBound' BY <1>1, <1>2 DEF CountInv, OldBound, Types
<1>5. ASSUME NEW d \in Categories PROVE CountRight(d)' /\ OverflowRight(d)'
  <2>1. CountRight(d) /\ OverflowRight(d) BY DEF CountInv, Counted
  <2>2. InLoop(d)' = InLoop(d) BY <1>1, <1>2 DEF InLoop
  <2> QED BY <2>1, <2>2, <1>1, Untouched
<1> QED BY <1>3, <1>4, <1>5 DEF CountInv, Counted

\* The writes of a sample and of a record, and the claims, leave the counters.
LEMMA ClaimCount ==
  ASSUME CountInv, NEW t \in Threads,
         ClaimSample(t) \/ WriteSample(t) \/ RecordFatal(t) \/ WriteFatal(t)
  PROVE  CountInv'
<1>1. /\ pc[t] # "count" /\ \E l \in Labels \ {"count"} : pc' = [pc EXCEPT ![t] = l]
      /\ category' = category /\ old' = old
  BY DEF ClaimSample, WriteSample, RecordFatal, WriteFatal, Step, Labels
<1>2. /\ DOMAIN context' = Parts /\ context' = [part \in Parts |-> context'[part]]
      /\ context'.count = context.count /\ context'.overflow = context.overflow
      /\ context'.claim \in BOOLEAN
  BY DEF ClaimSample, WriteSample, RecordFatal, WriteFatal, CountInv, Types, Parts
<1>3. raised' \in [Categories \cup {Fatal} -> Nat] /\ \A c \in Categories : raised'[c] = raised[c]
  <2>1. raised' = raised \/ raised' = [raised EXCEPT ![Fatal] = @ + 1]
    BY DEF ClaimSample, WriteSample, RecordFatal, WriteFatal
  <2> QED BY <2>1, CategoriesAssumption DEF CountInv, Types, Fatal
<1>4. Types' BY <1>1, <1>2, <1>3 DEF CountInv, Types
<1>5. \A u \in Threads : (pc'[u] = "count") <=> (pc[u] = "count") BY <1>1 DEF CountInv, Types
<1> QED BY <1>1, <1>2, <1>3, <1>4, <1>5, Aside

\* Kernels start and end, blocks enter and threads return outside of the loop.
LEMMA ControlCount ==
  ASSUME CountInv,
         \/ Begin \/ StartKernel \/ EndKernel
         \/ \E b \in Blocks : BlockEnters(b)
         \/ \E t \in Threads : Return(t)
  PROVE  CountInv'
<1>1. category' = category /\ old' = old /\ raised' = raised
  BY DEF Begin, StartKernel, EndKernel, BlockEnters, Return, threadVars
<1>2. /\ DOMAIN context' = Parts /\ context' = [part \in Parts |-> context'[part]]
      /\ context'.count = context.count /\ context'.overflow = context.overflow
      /\ context'.claim \in BOOLEAN
  BY DEF Begin, StartKernel, EndKernel, BlockEnters, Return, Stamped, CountInv, Types, Parts
<1>3. /\ pc' \in [Threads -> Labels]
      /\ \A t \in Threads : (pc'[t] = "count") <=> (pc[t] = "count")
  <2>1. CASE Begin BY <2>1 DEF Begin, threadVars, CountInv, Types
  <2>2. CASE StartKernel BY <2>2 DEF StartKernel, Labels
  <2>3. CASE EndKernel BY <2>3 DEF EndKernel, Labels
  <2>4. ASSUME NEW b \in Blocks, BlockEnters(b)
        PROVE   /\ pc' \in [Threads -> Labels]
                /\ \A u \in Threads : (pc'[u] = "count") <=> (pc[u] = "count")
    <3>1. \A t \in Threads : t[1] = b => pc[t] = "entry" BY <2>4 DEF BlockEnters, Threads
    <3> QED BY <2>4, <3>1 DEF BlockEnters, CountInv, Types, Labels
  <2>5. ASSUME NEW t \in Threads, Return(t)
        PROVE   /\ pc' \in [Threads -> Labels]
                /\ \A u \in Threads : (pc'[u] = "count") <=> (pc[u] = "count")
    BY <2>5 DEF Return, Step, CountInv, Types, Labels
  <2> QED BY <2>1, <2>2, <2>3, <2>4, <2>5
<1>4. Types' BY <1>1, <1>2, <1>3 DEF CountInv, Types
<1> QED BY <1>1, <1>2, <1>3, <1>4, Aside

\* The host appends to the stream and touches nothing else on the device.
HostStep ==
  \/ SetOperation \/ \E kind \in {"guarded", "plain"} : Launch(kind)
  \/ CompleteReadback \/ CourantReadback \/ RefuseUpload \/ Collect
  \/ \E collects \in BOOLEAN : Release(collects)
  \/ Ended

LEMMA HostLeavesDevice ==
  ASSUME HostStep \/ UNCHANGED vars
  PROVE  UNCHANGED <<context, ended, threadVars, raised, origin>>
BY DEF HostStep, SetOperation, Launch, CompleteReadback, CourantReadback, RefuseUpload,
       Collect, Release, Ended, vars, deviceVars

LEMMA NextCount == CountInv /\ [Next]_vars => CountInv'
<1> SUFFICES ASSUME CountInv, [Next]_vars PROVE CountInv' OBVIOUS
<1>1. ASSUME NEW t \in Threads, NEW c \in Categories, RecordWarning(t, c) PROVE CountInv'
  BY <1>1, RecordWarningCount
<1>2. ASSUME NEW t \in Threads, Saturated(t) PROVE CountInv' BY <1>2, SaturatedCount
<1>3. ASSUME NEW t \in Threads, Increment(t) PROVE CountInv' BY <1>3, IncrementCount
<1>4. ASSUME NEW t \in Threads, Retry(t) PROVE CountInv' BY <1>4, RetryCount
<1>5. ASSUME NEW t \in Threads,
             ClaimSample(t) \/ WriteSample(t) \/ RecordFatal(t) \/ WriteFatal(t)
      PROVE  CountInv'
  BY <1>5, ClaimCount
<1>6. CASE \/ Begin \/ StartKernel \/ EndKernel
           \/ \E b \in Blocks : BlockEnters(b)
           \/ \E t \in Threads : Return(t)
  BY <1>6, ControlCount
<1>7. CASE HostStep \/ UNCHANGED vars
  <2>1. UNCHANGED <<context, pc, category, old, raised>>
    BY <1>7, HostLeavesDevice DEF threadVars
  <2>2. Types' BY <2>1 DEF CountInv, Types
  <2> QED BY <2>1, <2>2, Aside
<1>8. Device \/ HostStep \/ UNCHANGED vars BY DEF Next, HostStep
<1> QED BY <1>1, <1>2, <1>3, <1>4, <1>5, <1>6, <1>7, <1>8 DEF Device

LEMMA CountRightOutside == CountInv => CountsExact
<1> SUFFICES ASSUME CountInv, NEW c \in Categories,
                    \A t \in Threads : pc[t] = "count" => category[t] # c
             PROVE  /\ context.count[c] = Smaller(raised[c], MaxCount)
                    /\ context.overflow[c] <=> raised[c] > MaxCount
  BY DEF CountsExact
<1>1. InLoop(c) = {} BY DEF InLoop
<1>2. Cardinality(InLoop(c)) = 0 BY <1>1, FS_EmptySet
<1>3. raised[c] \in Nat BY DEF CountInv, Types
<1>4. Settled(c) = raised[c] BY <1>2, <1>3 DEF Settled
<1>5. CountRight(c) /\ OverflowRight(c) BY DEF CountInv, Counted
<1> QED BY <1>4, <1>5 DEF CountRight, OverflowRight

(* Whatever the order in which any number of threads read, compare and swap,  *)
(* and for every limit of the counters: a counter no thread is in the middle  *)
(* of is the number of warnings raised up to the limit, and the overflow is   *)
(* set exactly when there were more (saturatingIncrement).                    *)
THEOREM Counting == Spec => []CountsExact
<1>1. Init => CountInv BY InitCount
<1>2. CountInv /\ [Next]_vars => CountInv' BY NextCount
<1>3. CountInv => CountsExact BY CountRightOutside
<1> QED BY <1>1, <1>2, <1>3, PTL DEF Spec

-----------------------------------------------------------------------------
(* The latch stops kernels that start later.  A kernel has threads somewhere *)
(* only while it is at the head of the stream; the kernel that latched has   *)
(* left it when another one is there; and the latch is never released.       *)
StreamOk == \E S : stream \in Seq(S)
IdleBetween == ~Running(Kernels) => \A t \in Threads : pc[t] = "idle"
Latched ==
  /\ ended \in Nat
  /\ DOMAIN origin = {"fatal", "kernel", "sample"} /\ origin.kernel \in Nat \cup {None}
  /\ origin.kernel # None => context.claim /\ origin.kernel <= ended

StopInv == Types /\ StreamOk /\ IdleBetween /\ Latched /\ StoppedAfterFatal

LEMMA InitStop == Init => StopInv
<1> SUFFICES ASSUME Init PROVE StopInv OBVIOUS
<1>1. Types BY InitCount DEF CountInv
<1>2. StreamOk
  <2>1. stream \in Seq({}) BY DEF Init
  <2> QED BY <2>1 DEF StreamOk
<1>3. IdleBetween BY DEF Init, IdleBetween
<1>4. Latched BY DEF Init, Latched, None
<1>5. StoppedAfterFatal BY DEF Init, StoppedAfterFatal, Running
<1> QED BY <1>1, <1>2, <1>3, <1>4, <1>5 DEF StopInv

\* The threads that a latched fatal has stopped do nothing, and none of the
\* others belongs to a later kernel.
LEMMA ThreadStop ==
  ASSUME StopInv, Types', NEW t \in Threads,
         \/ Return(t) \/ \E c \in Categories : RecordWarning(t, c)
         \/ Saturated(t) \/ Increment(t) \/ Retry(t)
         \/ ClaimSample(t) \/ WriteSample(t)
         \/ RecordFatal(t) \/ WriteFatal(t)
  PROVE  StopInv'
<1>1. /\ pc[t] \in {"work", "count", "sample", "write", "latch"}
      /\ stream' = stream /\ ended' = ended
  BY DEF Return, RecordWarning, Saturated, Increment, Retry, ClaimSample, WriteSample,
         RecordFatal, WriteFatal, Step
<1>2. Running(Kernels) BY <1>1 DEF StopInv, IdleBetween
<1>3. /\ DOMAIN origin' = DOMAIN origin
      /\ \/ origin'.kernel = origin.kernel /\ context'.claim = context.claim
         \/ origin'.kernel = origin.kernel /\ context'.claim = TRUE
         \/ origin'.kernel = ended /\ context'.claim = TRUE
  BY DEF Return, RecordWarning, Saturated, Increment, Retry, ClaimSample, WriteSample,
         RecordFatal, WriteFatal, StopInv, Types, Parts, Latched
<1>4. StreamOk' BY <1>1 DEF StopInv, StreamOk
<1>5. IdleBetween' BY <1>1, <1>2 DEF IdleBetween, Running
<1>6. Latched' BY <1>1, <1>3 DEF StopInv, Latched, None
<1>7. StoppedAfterFatal'
  <2> SUFFICES ASSUME Running({"guarded"})', origin'.kernel # None, ended' > origin'.kernel
               PROVE  FALSE
    BY DEF StoppedAfterFatal
  <2>1. origin'.kernel = origin.kernel BY <1>1, <1>3 DEF StopInv, Latched
  <2>2. Running({"guarded"}) BY <1>1 DEF Running
  <2> QED BY <2>1, <2>2, <1>1 DEF StopInv, StoppedAfterFatal
<1> QED BY <1>4, <1>5, <1>6, <1>7 DEF StopInv

\* Blocks that enter after the latch are done.
LEMMA EnterStop ==
  ASSUME StopInv, Types', NEW b \in Blocks, BlockEnters(b)
  PROVE  StopInv'
<1>1. UNCHANGED <<context, stream, ended, origin>> BY DEF BlockEnters
<1>2. StreamOk' /\ Latched' BY <1>1 DEF StopInv, StreamOk, Latched
<1>3. Running(Kernels)
  <2>1. PICK l \in Lanes : TRUE BY ThreadsAssumption
  <2>2. <<b, l>> \in Threads /\ pc[<<b, l>>] = "entry" BY <2>1 DEF BlockEnters, Threads
  <2> QED BY <2>2 DEF StopInv, IdleBetween
<1>4. IdleBetween' BY <1>1, <1>3 DEF IdleBetween, Running
<1>5. StoppedAfterFatal'
  <2> SUFFICES ASSUME Running({"guarded"})', origin'.kernel # None, ended' > origin'.kernel,
                      NEW t \in Threads
               PROVE  pc'[t] \in {"idle", "entry", "done"}
    BY DEF StoppedAfterFatal
  <2>1. Running({"guarded"}) BY <1>1 DEF Running
  <2>2. pc[t] \in {"idle", "entry", "done"} BY <2>1, <1>1 DEF StopInv, StoppedAfterFatal
  <2>3. context.claim BY <1>1 DEF StopInv, Latched
  <2> QED BY <2>2, <2>3 DEF BlockEnters, HasFatal
<1> QED BY <1>2, <1>4, <1>5 DEF StopInv

\* What starts or ends has no thread at work.
LEMMA StreamStop ==
  ASSUME StopInv, Types', Begin \/ StartKernel \/ EndKernel
  PROVE  StopInv'
<1> DEFINE Idle == \A t \in Threads : pc[t] = "idle"
<1>1. origin' = origin /\ context'.claim = context.claim
  BY DEF Begin, StartKernel, EndKernel, Stamped, StopInv, Types, Parts
<1>2. stream # <<>>
  <2>1. CASE EndKernel
    <3>1. PICK t \in Threads : TRUE BY FiniteThreads
    <3>2. pc[t] = "done" BY <3>1, <2>1 DEF EndKernel
    <3>3. Running(Kernels) BY <3>1, <3>2 DEF StopInv, IdleBetween
    <3> QED BY <3>3 DEF Running
  <2> QED BY <2>1 DEF Begin, StartKernel, Running
<1>3. StreamOk'
  <2>1. PICK S : stream \in Seq(S) BY DEF StopInv, StreamOk
  <2>2. stream' \in Seq(S)
    BY <2>1, <1>2, HeadTailProperties DEF Begin, StartKernel, EndKernel
  <2> QED BY <2>2 DEF StreamOk
<1>4. Latched'
  <2>1. ended' = ended \/ ended' = ended + 1 BY DEF Begin, StartKernel, EndKernel
  <2> QED BY <2>1, <1>1 DEF StopInv, Latched, None
<1>5. CASE Begin \/ EndKernel
  <2>1. \A t \in Threads : pc'[t] = "idle"
    <3>1. CASE Begin
      <4>1. ~Running(Kernels) BY <3>1 DEF Begin, Running, Kernels
      <4> QED BY <4>1, <3>1 DEF StopInv, IdleBetween, Begin, threadVars
    <3>2. CASE EndKernel BY <3>2 DEF EndKernel
    <3> QED BY <3>1, <3>2, <1>5
  <2> QED BY <2>1, <1>3, <1>4 DEF StopInv, IdleBetween, StoppedAfterFatal
<1>6. CASE StartKernel
  <2>1. stream' = stream /\ Running(Kernels) BY <1>6 DEF StartKernel, Kernels
  <2>2. IdleBetween' BY <2>1 DEF IdleBetween, Running
  <2>3. Running({"guarded"})' => \A t \in Threads : pc'[t] = "entry"
    BY <1>6, <2>1 DEF StartKernel, Running
  <2> QED BY <2>2, <2>3, <1>3, <1>4 DEF StopInv, StoppedAfterFatal
<1> QED BY <1>5, <1>6

\* What the host appends is not at the head while a kernel is.
LEMMA HostStop ==
  ASSUME StopInv, Types', HostStep \/ UNCHANGED vars
  PROVE  StopInv'
<1>1. UNCHANGED <<context, ended, pc, origin>> BY HostLeavesDevice DEF threadVars
<1>2. Latched' BY <1>1 DEF StopInv, Latched
<1>3. stream' = stream \/ \E entry : stream' = Append(stream, entry)
  BY DEF HostStep, SetOperation, Launch, Submit, CompleteReadback, CourantReadback,
         RefuseUpload, Collect, Release, Ended, vars, deviceVars
<1>4. CASE stream' = stream
  BY <1>1, <1>2, <1>4 DEF StopInv, StreamOk, IdleBetween, StoppedAfterFatal, Running
<1>5. ASSUME NEW entry, stream' = Append(stream, entry) PROVE StopInv'
  <2>1. PICK S : stream \in Seq(S) BY DEF StopInv, StreamOk
  <2>2. stream \in Seq(S \cup {entry}) BY <2>1
  <2>3. stream' \in Seq(S \cup {entry}) /\ stream' # <<>>
    BY <2>2, <1>5, AppendProperties
  <2>4. StreamOk' BY <2>3 DEF StreamOk
  <2>5. stream # <<>> => Head(stream') = Head(stream) BY <2>1, <1>5, HeadTailAppend
  <2>6. CASE stream = <<>>
    <3>1. \A t \in Threads : pc'[t] = "idle"
      BY <2>6, <1>1 DEF StopInv, IdleBetween, Running
    <3> QED BY <3>1, <2>4, <1>2 DEF StopInv, IdleBetween, StoppedAfterFatal
  <2>7. CASE stream # <<>>
    <3>1. \A kinds : Running(kinds)' <=> Running(kinds) BY <2>3, <2>5, <2>7 DEF Running
    <3>2. IdleBetween' BY <3>1, <1>1 DEF StopInv, IdleBetween
    <3>3. StoppedAfterFatal' BY <3>1, <1>1 DEF StopInv, StoppedAfterFatal
    <3> QED BY <3>2, <3>3, <2>4, <1>2 DEF StopInv
  <2> QED BY <2>6, <2>7
<1> QED BY <1>3, <1>4, <1>5

LEMMA NextStop == CountInv /\ StopInv /\ [Next]_vars => CountInv' /\ StopInv'
<1> SUFFICES ASSUME CountInv, StopInv, [Next]_vars PROVE StopInv' /\ CountInv' OBVIOUS
<1>1. CountInv' BY NextCount
<1>2. Types' BY <1>1 DEF CountInv
<1>3. Device \/ HostStep \/ UNCHANGED vars BY DEF Next, HostStep
<1>4. CASE Begin \/ StartKernel \/ EndKernel BY <1>1, <1>2, <1>4, StreamStop
<1>5. ASSUME NEW b \in Blocks, BlockEnters(b) PROVE StopInv' BY <1>5, <1>2, EnterStop
<1>6. ASSUME NEW t \in Threads,
             \/ Return(t) \/ \E c \in Categories : RecordWarning(t, c)
             \/ Saturated(t) \/ Increment(t) \/ Retry(t)
             \/ ClaimSample(t) \/ WriteSample(t)
             \/ RecordFatal(t) \/ WriteFatal(t)
      PROVE  StopInv'
  BY <1>6, <1>2, ThreadStop
<1>7. CASE HostStep \/ UNCHANGED vars BY <1>1, <1>2, <1>7, HostStop
<1> QED BY <1>1, <1>3, <1>4, <1>5, <1>6, <1>7 DEF Device

(* However many kernels the host has queued behind the one that fails, no     *)
(* guarded kernel that starts after it does any work (blockMayProceed).       *)
THEOREM Stopping == Spec => []StoppedAfterFatal
<1>1. Init => CountInv /\ StopInv BY InitCount, InitStop
<1>2. CountInv /\ StopInv /\ [Next]_vars => CountInv' /\ StopInv' BY NextStop
<1>3. StopInv => StoppedAfterFatal BY DEF StopInv
<1> QED BY <1>1, <1>2, <1>3, PTL DEF Spec

-----------------------------------------------------------------------------
(* What the host sees is whole.  An operation's stamp reaches the device in  *)
(* the stream, ahead of its kernels; a claim is made good by the kernel that *)
(* made it; and the host copies only when there is no kernel left.           *)
Records == Nat \cup {None}
Contexts ==
  [claim : BOOLEAN, fatal : Records, operation : Nat, count : [Categories -> 0 .. MaxCount],
   overflow : [Categories -> BOOLEAN], claimed : [Categories -> BOOLEAN],
   sample : [Categories -> Records]]
Reports == [count : [Categories -> Int], overflows : [Categories -> Int]]
Owners ==
  [sequence : Nat, report : Reports, fatal : Records,
   seen : [Categories -> 0 .. MaxCount], overflowSeen : [Categories -> BOOLEAN]]

EvidenceTypes ==
  /\ context \in Contexts /\ staging \in Contexts
  /\ stream \in Seq([kind : Kernels \cup {"begin"}, operation : Nat])
  /\ origin \in [fatal : Records, kernel : Records, sample : [Categories -> Records]]
  /\ owner \in Owners
  /\ delivered \in Reports /\ faults \in Nat

\* A kernel carries the stamp of what was submitted before it, so that the one
\* that runs finds its own in the context.
Stamps ==
  /\ \A i \in 1 .. Len(stream) : stream[i].kind \in Kernels =>
       stream[i].operation = IF i = 1 THEN context.operation ELSE stream[i - 1].operation
  /\ host = "running" =>
       owner.sequence = IF stream = <<>> THEN context.operation
                                         ELSE stream[Len(stream)].operation

\* What is claimed is written, or is about to be by a thread of this kernel.
Claims ==
  /\ \A c \in Categories : context.claimed[c] <=> origin.sample[c] # None
  /\ \A c \in Categories : context.claimed[c] =>
       \/ context.sample[c] = origin.sample[c]
       \/ \E t \in Threads : pc[t] = "write" /\ category[t] = c
  /\ \A t \in Threads : pc[t] = "write" =>
       context.claimed[category[t]] /\ origin.sample[category[t]] = Head(stream).operation
  /\ \A c \in Categories : context.count[c] # 0 =>
       context.claimed[c] \/ \E t \in Threads : pc[t] = "sample" /\ category[t] = c
  /\ context.claim <=> origin.fatal # None
  /\ context.claim => context.fatal = origin.fatal \/ \E t \in Threads : pc[t] = "latch"
  /\ \A t \in Threads : pc[t] = "latch" =>
       context.claim /\ origin.fatal = Head(stream).operation

\* A context whose counters and latch have their evidence, and which is not newer
\* than the device's.
Whole(s) ==
  /\ \A c \in Categories : s.count[c] # 0 =>
       s.sample[c] = origin.sample[c] /\ s.sample[c] # None
  /\ s.claim => s.fatal = origin.fatal /\ s.fatal # None
  /\ \A c \in Categories : s.overflow[c] => context.overflow[c]

\* All that an owner has seen is in its report or delivered.
Balanced(o, handed) ==
  \A c \in Categories :
    /\ handed.count[c] + o.report.count[c] = o.seen[c]
    /\ handed.overflows[c] + o.report.overflows[c] = IF o.overflowSeen[c] THEN 1 ELSE 0

\* What the host has seen is what it has copied last, all of it reported.
Consumption ==
  /\ Whole(staging)
  /\ owner.seen = staging.count /\ owner.overflowSeen = staging.overflow
  /\ Balanced(owner, delivered)
  /\ faults = 0 /\ owner.fatal # None => owner.fatal = origin.fatal
  /\ faults = 0 /\ host = "released" => stream = <<>> /\ staging = context

EvidenceInv == EvidenceTypes /\ Stamps /\ Claims /\ Consumption

LEMMA InitEvidence == Init => EvidenceInv
<1> SUFFICES ASSUME Init PROVE EvidenceInv OBVIOUS
<1> USE CountAssumption, CategoriesAssumption
<1>1. context = Fresh /\ staging = Fresh /\ stream = <<>> /\ faults = 0 BY DEF Init
<1>2. Fresh \in Contexts BY DEF Fresh, Contexts, Records, None
<1>3. NoReport \in Reports BY DEF NoReport, Reports
<1>4. owner \in Owners BY <1>3 DEF Init, Owners, Records, None
<1>5. EvidenceTypes
  BY <1>1, <1>2, <1>3, <1>4 DEF Init, EvidenceTypes, Records, None
<1>6. Stamps
  BY <1>1 DEF Init, Stamps, Fresh
<1>7. Claims BY <1>1 DEF Init, Claims, Fresh
<1>8. Consumption
  <2>1. Whole(staging) BY <1>1 DEF Whole, Fresh
  <2>2. Balanced(owner, delivered) BY DEF Init, Balanced, NoReport
  <2> QED BY <2>1, <2>2, <1>1 DEF Init, Consumption, Fresh
<1> QED BY <1>5, <1>6, <1>7, <1>8 DEF EvidenceInv

\* The context of a running kernel has its stamp.
LEMMA OwnStamp ==
  ASSUME EvidenceInv, Running(Kernels)
  PROVE  stream # <<>> /\ Head(stream).operation = context.operation /\ context.operation \in Nat
<1> DEFINE S == [kind : Kernels \cup {"begin"}, operation : Nat]
<1>1. stream \in Seq(S) /\ stream # <<>> /\ Head(stream).kind \in Kernels
  BY DEF EvidenceInv, EvidenceTypes, Running
<1> HIDE DEF S
<1>2. 1 \in 1 .. Len(stream) /\ Head(stream) = stream[1] BY <1>1
<1>3. stream[1].operation = context.operation BY <1>1, <1>2 DEF EvidenceInv, Stamps
<1>4. context.operation \in Nat BY DEF EvidenceInv, EvidenceTypes, Contexts
<1> QED BY <1>1, <1>2, <1>3, <1>4

\* With a thread that is not idle, a kernel runs and the stream is not empty.
LEMMA AtWork ==
  ASSUME StopInv, NEW t \in Threads, pc[t] # "idle"
  PROVE  Running(Kernels) /\ stream # <<>>
BY DEF StopInv, IdleBetween, Running

\* Steps of a thread that claim nothing and write nothing.
LEMMA QuietEvidence ==
  ASSUME EvidenceInv, StopInv, Types', NEW t \in Threads, NEW l \in {"done", "count", "sample"},
         pc[t] \in {"work", "count"}, pc' = [pc EXCEPT ![t] = l],
         \A u \in Threads : u # t => category'[u] = category[u],
         context' \in Contexts, context'.claim = context.claim, context'.fatal = context.fatal,
         context'.operation = context.operation, context'.claimed = context.claimed,
         context'.sample = context.sample,
         \A c \in Categories : context'.count[c] # 0 =>
           context.count[c] # 0 \/ (l = "sample" /\ category'[t] = c),
         \A c \in Categories : context.overflow[c] => context'.overflow[c],
         UNCHANGED <<stream, origin, hostVars>>
  PROVE  EvidenceInv'
<1>1. UNCHANGED <<owner, staging, delivered, host, faults>> BY DEF hostVars
<1>2. EvidenceTypes' BY <1>1 DEF EvidenceInv, EvidenceTypes
<1>3. Stamps' BY <1>1 DEF EvidenceInv, Stamps
<1>4. \A u \in Threads : u # t => pc'[u] = pc[u]
  BY DEF StopInv, Types
<1>5. pc'[t] = l BY DEF StopInv, Types
<1>6. Claims'
  <2>1. \A u \in Threads : pc'[u] = "write" <=> pc[u] = "write" BY <1>4, <1>5
  <2>2. \A u \in Threads : pc'[u] = "latch" <=> pc[u] = "latch" BY <1>4, <1>5
  <2>3. \A c \in Categories : context'.claimed[c] =>
          \/ context'.sample[c] = origin'.sample[c]
          \/ \E u \in Threads : pc'[u] = "write" /\ category'[u] = c
    BY <2>1 DEF EvidenceInv, Claims
  <2>4. \A u \in Threads : pc'[u] = "write" =>
          context'.claimed[category'[u]] /\ origin'.sample[category'[u]] = Head(stream').operation
    BY <2>1 DEF EvidenceInv, Claims
  <2>5. \A c \in Categories : context'.count[c] # 0 =>
          context'.claimed[c] \/ \E u \in Threads : pc'[u] = "sample" /\ category'[u] = c
    BY <1>4, <1>5 DEF EvidenceInv, Claims
  <2>6. \A c \in Categories : context'.claimed[c] <=> origin'.sample[c] # None
    BY DEF EvidenceInv, Claims
  <2>7. /\ context'.claim <=> origin'.fatal # None
        /\ context'.claim => context'.fatal = origin'.fatal \/ \E u \in Threads : pc'[u] = "latch"
        /\ \A u \in Threads : pc'[u] = "latch" =>
             context'.claim /\ origin'.fatal = Head(stream').operation
    BY <2>2 DEF EvidenceInv, Claims
  <2> QED BY <2>3, <2>4, <2>5, <2>6, <2>7 DEF Claims
<1>7. Consumption'
  <2>1. Whole(staging)' BY <1>1 DEF EvidenceInv, Consumption, Whole
  <2>2. stream # <<>> BY AtWork
  <2> QED BY <1>1, <2>1, <2>2 DEF EvidenceInv, Consumption, Balanced
<1> QED BY <1>2, <1>3, <1>6, <1>7 DEF EvidenceInv

LEMMA QuietSteps ==
  ASSUME EvidenceInv, StopInv, Types', NEW t \in Threads,
         \/ Return(t) \/ \E c \in Categories : RecordWarning(t, c)
         \/ Saturated(t) \/ Increment(t) \/ Retry(t)
  PROVE  EvidenceInv'
<1>1. context \in Contexts /\ category[t] \in Categories /\ old[t] \in 0 .. MaxCount
  BY DEF EvidenceInv, EvidenceTypes, StopInv, Types
<1>2. CASE Return(t)
  BY <1>1, <1>2, QuietEvidence DEF Return, Step
<1>3. ASSUME NEW c \in Categories, RecordWarning(t, c) PROVE EvidenceInv'
  <2>1. \A u \in Threads : u # t => category'[u] = category[u]
    BY <1>3 DEF RecordWarning, StopInv, Types
  <2> QED BY <1>1, <1>3, <2>1, QuietEvidence DEF RecordWarning, Step
<1>4. CASE Saturated(t)
  <2>1. context' = [context EXCEPT !.overflow[category[t]] = TRUE] BY <1>4 DEF Saturated
  <2>2. /\ context' \in Contexts /\ context'.count = context.count
        /\ context'.claim = context.claim /\ context'.fatal = context.fatal
        /\ context'.operation = context.operation /\ context'.claimed = context.claimed
        /\ context'.sample = context.sample
        /\ \A c \in Categories : context.overflow[c] => context'.overflow[c]
    BY <1>1, <2>1 DEF Contexts
  <2> QED BY <1>4, <2>2, QuietEvidence DEF Saturated, Step
<1>5. CASE Increment(t)
  <2>1. context' = [context EXCEPT !.count[category[t]] = old[t] + 1] BY <1>5 DEF Increment
  <2>2. old[t] + 1 \in 0 .. MaxCount BY <1>1, <1>5, CountAssumption DEF Increment
  <2>3. /\ context' \in Contexts /\ context'.overflow = context.overflow
        /\ context'.claim = context.claim /\ context'.fatal = context.fatal
        /\ context'.operation = context.operation /\ context'.claimed = context.claimed
        /\ context'.sample = context.sample
        /\ \A c \in Categories : c # category[t] => context'.count[c] = context.count[c]
    BY <1>1, <2>1, <2>2 DEF Contexts
  <2>4. category' = category BY <1>5 DEF Increment
  <2>5. /\ pc[t] = "count" /\ pc' = [pc EXCEPT ![t] = "sample"]
        /\ UNCHANGED <<stream, origin, hostVars>>
    BY <1>5 DEF Increment, Step
  <2>6. \A c \in Categories : context'.count[c] # 0 =>
          context.count[c] # 0 \/ ("sample" = "sample" /\ category'[t] = c)
    BY <2>3, <2>4
  <2> QED BY <2>3, <2>4, <2>5, <2>6, QuietEvidence
<1>6. CASE Retry(t)
  <2>1. context' = context /\ category' = category BY <1>6 DEF Retry
  <2> QED BY <1>1, <1>6, <2>1, QuietEvidence DEF Retry, Step
<1> QED BY <1>2, <1>3, <1>4, <1>5, <1>6

\* A claim is entered in the history with the stamp of the kernel it is made in.
LEMMA ClaimEvidence ==
  ASSUME EvidenceInv, StopInv, Types', NEW t \in Threads, ClaimSample(t)
  PROVE  EvidenceInv'
<1> DEFINE c == category[t]
<1>1. /\ pc[t] = "sample" /\ category' = category /\ stream' = stream
      /\ UNCHANGED <<owner, staging, delivered, host, faults>>
      /\ context' = [context EXCEPT !.claimed[c] = TRUE]
  BY DEF ClaimSample, Step, hostVars
<1>2. c \in Categories /\ context \in Contexts BY DEF StopInv, Types, EvidenceInv, EvidenceTypes
<1>3. /\ context' \in Contexts /\ context'.claimed = [context.claimed EXCEPT ![c] = TRUE]
      /\ context'.count = context.count /\ context'.overflow = context.overflow
      /\ context'.claim = context.claim /\ context'.fatal = context.fatal
      /\ context'.operation = context.operation /\ context'.sample = context.sample
  BY <1>1, <1>2 DEF Contexts
<1>4. /\ Running(Kernels) /\ stream # <<>> /\ Head(stream).operation \in Nat
      /\ Head(stream).operation = context.operation
  BY <1>1, AtWork, OwnStamp
<1>5. /\ origin' \in [fatal : Records, kernel : Records, sample : [Categories -> Records]]
      /\ origin'.fatal = origin.fatal
      /\ origin'.sample = IF context.claimed[c] THEN origin.sample
                          ELSE [origin.sample EXCEPT ![c] = Head(stream).operation]
  <2>1. origin' = IF context.claimed[c] THEN origin
                  ELSE [origin EXCEPT !.sample[c] = Head(stream).operation]
    BY DEF ClaimSample
  <2> QED BY <2>1, <1>2, <1>4 DEF EvidenceInv, EvidenceTypes, Records
<1>6. EvidenceTypes' BY <1>1, <1>3, <1>5 DEF EvidenceInv, EvidenceTypes
<1>7. Stamps' BY <1>1, <1>3 DEF EvidenceInv, Stamps
<1>8. /\ \A u \in Threads : u # t => pc'[u] = pc[u]
      /\ pc'[t] = IF context.claimed[c] THEN "work" ELSE "write"
  BY DEF ClaimSample, Step, StopInv, Types
<1>9. \A d \in Categories : d # c => /\ context'.claimed[d] = context.claimed[d]
                                     /\ origin'.sample[d] = origin.sample[d]
  BY <1>2, <1>3, <1>5 DEF Contexts, EvidenceInv, EvidenceTypes
<1>10. /\ context'.claimed[c] = TRUE /\ origin'.sample[c] # None
       /\ context.claimed[c] => origin'.sample[c] = origin.sample[c]
       /\ ~context.claimed[c] => origin'.sample[c] = Head(stream).operation
  <2>1. CASE context.claimed[c]
    BY <2>1, <1>2, <1>3, <1>5 DEF Contexts, EvidenceInv, Claims
  <2>2. CASE ~context.claimed[c]
    BY <2>2, <1>2, <1>3, <1>4, <1>5 DEF Contexts, EvidenceInv, EvidenceTypes, None
  <2> QED BY <2>1, <2>2
<1>11. Claims'
  <2>1. \A d \in Categories : context'.claimed[d] <=> origin'.sample[d] # None
    BY <1>9, <1>10 DEF EvidenceInv, Claims
  <2>2. ASSUME NEW d \in Categories, context'.claimed[d]
        PROVE  \/ context'.sample[d] = origin'.sample[d]
               \/ \E u \in Threads : pc'[u] = "write" /\ category'[u] = d
    <3>1. CASE d = c /\ ~context.claimed[c] BY <3>1, <1>1, <1>8
    <3>2. CASE ~(d = c /\ ~context.claimed[c])
      <4>1. context.claimed[d] /\ origin'.sample[d] = origin.sample[d] BY <3>2, <2>2, <1>9, <1>10
      <4> QED BY <4>1, <1>1, <1>3, <1>8 DEF EvidenceInv, Claims
    <3> QED BY <3>1, <3>2
  <2>3. ASSUME NEW u \in Threads, pc'[u] = "write"
        PROVE  context'.claimed[category'[u]] /\ origin'.sample[category'[u]] = Head(stream').operation
    <3>1. CASE u = t BY <3>1, <2>3, <1>1, <1>8, <1>10
    <3>2. CASE u # t
      <4>1. context.claimed[category[u]] /\ origin.sample[category[u]] = Head(stream).operation
        BY <3>2, <2>3, <1>8 DEF EvidenceInv, Claims
      <4>2. category[u] \in Categories BY DEF StopInv, Types
      <4> QED BY <4>1, <4>2, <1>1, <1>9, <1>10
    <3> QED BY <3>1, <3>2
  <2>4. ASSUME NEW d \in Categories, context'.count[d] # 0
        PROVE  context'.claimed[d] \/ \E u \in Threads : pc'[u] = "sample" /\ category'[u] = d
    <3>1. CASE d = c BY <3>1, <1>10
    <3>2. CASE d # c BY <3>2, <2>4, <1>1, <1>3, <1>8, <1>9 DEF EvidenceInv, Claims
    <3> QED BY <3>1, <3>2
  <2>5. /\ context'.claim <=> origin'.fatal # None
        /\ context'.claim => context'.fatal = origin'.fatal \/ \E u \in Threads : pc'[u] = "latch"
        /\ \A u \in Threads : pc'[u] = "latch" =>
             context'.claim /\ origin'.fatal = Head(stream').operation
    BY <1>1, <1>3, <1>5, <1>8 DEF EvidenceInv, Claims
  <2> QED BY <2>1, <2>2, <2>3, <2>4, <2>5 DEF Claims
<1>12. Consumption'
  <2>1. Whole(staging)'
    <3>1. ASSUME NEW d \in Categories, staging.count[d] # 0
          PROVE  staging.sample[d] = origin'.sample[d] /\ staging.sample[d] # None
      <4>1. staging.sample[d] = origin.sample[d] /\ staging.sample[d] # None
        BY <3>1 DEF EvidenceInv, Consumption, Whole
      <4>2. context.claimed[d] BY <4>1 DEF EvidenceInv, Claims
      <4> QED BY <4>1, <4>2, <1>9, <1>10
    <3> QED BY <3>1, <1>1, <1>3, <1>5 DEF Whole, EvidenceInv, Consumption
  <2> QED BY <2>1, <1>1, <1>4, <1>5 DEF EvidenceInv, Consumption, Balanced
<1> QED BY <1>6, <1>7, <1>11, <1>12 DEF EvidenceInv

LEMMA WriteEvidence ==
  ASSUME EvidenceInv, StopInv, Types', NEW t \in Threads, WriteSample(t)
  PROVE  EvidenceInv'
<1> DEFINE c == category[t]
<1>1. /\ pc[t] = "write" /\ category' = category /\ stream' = stream /\ origin' = origin
      /\ UNCHANGED <<owner, staging, delivered, host, faults>>
      /\ context' = [context EXCEPT !.sample[c] = context.operation]
  BY DEF WriteSample, Step, hostVars
<1>2. c \in Categories /\ context \in Contexts BY DEF StopInv, Types, EvidenceInv, EvidenceTypes
<1>3. /\ context' \in Contexts
      /\ context'.sample = [context.sample EXCEPT ![c] = context.operation]
      /\ context'.count = context.count /\ context'.overflow = context.overflow
      /\ context'.claim = context.claim /\ context'.fatal = context.fatal
      /\ context'.operation = context.operation /\ context'.claimed = context.claimed
  BY <1>1, <1>2 DEF Contexts, Records
<1>4. stream # <<>> /\ Head(stream).operation = context.operation BY <1>1, AtWork, OwnStamp
<1>5. context'.sample[c] = origin.sample[c]
  BY <1>1, <1>2, <1>3, <1>4 DEF EvidenceInv, Claims, Contexts
<1>6. EvidenceTypes' BY <1>1, <1>3 DEF EvidenceInv, EvidenceTypes
<1>7. Stamps' BY <1>1, <1>3 DEF EvidenceInv, Stamps
<1>8. \A u \in Threads : (u # t => pc'[u] = pc[u]) /\ pc'[t] = "work"
  BY DEF WriteSample, Step, StopInv, Types
<1>9. Claims'
  <2>1. ASSUME NEW d \in Categories, context'.claimed[d]
        PROVE  \/ context'.sample[d] = origin'.sample[d]
               \/ \E u \in Threads : pc'[u] = "write" /\ category'[u] = d
    <3>1. CASE d = c BY <3>1, <1>1, <1>5
    <3>2. CASE d # c
      <4>1. context'.sample[d] = context.sample[d] BY <3>2, <1>2, <1>3 DEF Contexts
      <4> QED BY <4>1, <3>2, <2>1, <1>1, <1>3, <1>8 DEF EvidenceInv, Claims
    <3> QED BY <3>1, <3>2
  <2>2. \A u \in Threads : pc'[u] = "write" =>
          context'.claimed[category'[u]] /\ origin'.sample[category'[u]] = Head(stream').operation
    BY <1>1, <1>3, <1>8 DEF EvidenceInv, Claims
  <2>3. \A d \in Categories : context'.count[d] # 0 =>
          context'.claimed[d] \/ \E u \in Threads : pc'[u] = "sample" /\ category'[u] = d
    BY <1>1, <1>3, <1>8 DEF EvidenceInv, Claims
  <2>4. /\ context'.claim <=> origin'.fatal # None
        /\ context'.claim => context'.fatal = origin'.fatal \/ \E u \in Threads : pc'[u] = "latch"
        /\ \A u \in Threads : pc'[u] = "latch" =>
             context'.claim /\ origin'.fatal = Head(stream').operation
    BY <1>1, <1>3, <1>8 DEF EvidenceInv, Claims
  <2>5. \A d \in Categories : context'.claimed[d] <=> origin'.sample[d] # None
    BY <1>1, <1>3 DEF EvidenceInv, Claims
  <2> QED BY <2>1, <2>2, <2>3, <2>4, <2>5 DEF Claims
<1>10. Consumption'
  BY <1>1, <1>3, <1>4 DEF EvidenceInv, Consumption, Balanced, Whole
<1> QED BY <1>6, <1>7, <1>9, <1>10 DEF EvidenceInv

LEMMA LatchEvidence ==
  ASSUME EvidenceInv, StopInv, Types', NEW t \in Threads, RecordFatal(t)
  PROVE  EvidenceInv'
<1>1. /\ pc[t] = "work" /\ category' = category /\ stream' = stream
      /\ UNCHANGED <<owner, staging, delivered, host, faults>>
      /\ context' = [context EXCEPT !.claim = TRUE]
  BY DEF RecordFatal, Step, hostVars
<1>2. /\ context' \in Contexts /\ context'.claim = TRUE
      /\ context'.count = context.count /\ context'.overflow = context.overflow
      /\ context'.claimed = context.claimed /\ context'.fatal = context.fatal
      /\ context'.operation = context.operation /\ context'.sample = context.sample
  BY <1>1 DEF Contexts, EvidenceInv, EvidenceTypes
<1>3. stream # <<>> /\ Head(stream).operation \in Nat BY <1>1, AtWork, OwnStamp
<1>4. /\ origin' \in [fatal : Records, kernel : Records, sample : [Categories -> Records]]
      /\ origin'.sample = origin.sample
      /\ origin'.fatal = IF context.claim THEN origin.fatal ELSE Head(stream).operation
  <2>1. ended \in Nat BY DEF StopInv, Latched
  <2> QED BY <2>1, <1>3 DEF RecordFatal, EvidenceInv, EvidenceTypes, Records
<1>5. origin'.fatal # None BY <1>3, <1>4 DEF EvidenceInv, Claims, None
<1>6. /\ \A u \in Threads : u # t => pc'[u] = pc[u]
      /\ pc'[t] = IF context.claim THEN "work" ELSE "latch"
  BY DEF RecordFatal, Step, StopInv, Types
<1>7. EvidenceTypes' BY <1>1, <1>2, <1>4 DEF EvidenceInv, EvidenceTypes
<1>8. Stamps' BY <1>1, <1>2 DEF EvidenceInv, Stamps
<1>9. Claims'
  <2>1. \A c \in Categories :
          /\ context'.claimed[c] <=> origin'.sample[c] # None
          /\ context'.claimed[c] =>
               \/ context'.sample[c] = origin'.sample[c]
               \/ \E u \in Threads : pc'[u] = "write" /\ category'[u] = c
          /\ context'.count[c] # 0 =>
               context'.claimed[c] \/ \E u \in Threads : pc'[u] = "sample" /\ category'[u] = c
    BY <1>1, <1>2, <1>4, <1>6 DEF EvidenceInv, Claims
  <2>2. \A u \in Threads : pc'[u] = "write" =>
          context'.claimed[category'[u]] /\ origin'.sample[category'[u]] = Head(stream').operation
    BY <1>1, <1>2, <1>4, <1>6 DEF EvidenceInv, Claims
  <2>3. context'.fatal = origin'.fatal \/ \E u \in Threads : pc'[u] = "latch"
    <3>1. CASE ~context.claim BY <3>1, <1>6
    <3>2. CASE context.claim
      <4>1. context.fatal = origin.fatal \/ \E u \in Threads : pc[u] = "latch"
        BY <3>2 DEF EvidenceInv, Claims
      <4> QED BY <4>1, <3>2, <1>1, <1>2, <1>4, <1>6
    <3> QED BY <3>1, <3>2
  <2>4. \A u \in Threads : pc'[u] = "latch" => origin'.fatal = Head(stream').operation
    BY <1>1, <1>2, <1>4, <1>6 DEF EvidenceInv, Claims
  <2> QED BY <2>1, <2>2, <2>3, <2>4, <1>2, <1>5 DEF Claims
<1>10. Consumption'
  <2>1. context.claim \/ origin.fatal = None BY DEF EvidenceInv, Claims
  <2>2. Whole(staging)' BY <2>1, <1>1, <1>2, <1>4 DEF EvidenceInv, Consumption, Whole
  <2>3. faults' = 0 /\ owner'.fatal # None => owner'.fatal = origin'.fatal
    BY <2>1, <1>1, <1>4 DEF EvidenceInv, Consumption
  <2> QED BY <2>2, <2>3, <1>1, <1>3 DEF EvidenceInv, Consumption, Balanced
<1> QED BY <1>7, <1>8, <1>9, <1>10 DEF EvidenceInv

LEMMA WriteFatalEvidence ==
  ASSUME EvidenceInv, StopInv, Types', NEW t \in Threads, WriteFatal(t)
  PROVE  EvidenceInv'
<1>1. /\ pc[t] = "latch" /\ category' = category /\ stream' = stream /\ origin' = origin
      /\ UNCHANGED <<owner, staging, delivered, host, faults>>
      /\ context' = [context EXCEPT !.fatal = context.operation]
  BY DEF WriteFatal, Step, hostVars
<1>2. /\ context' \in Contexts /\ context'.fatal = context.operation
      /\ context'.count = context.count /\ context'.overflow = context.overflow
      /\ context'.claimed = context.claimed /\ context'.claim = context.claim
      /\ context'.operation = context.operation /\ context'.sample = context.sample
  BY <1>1 DEF Contexts, EvidenceInv, EvidenceTypes, Records
<1>3. stream # <<>> /\ Head(stream).operation = context.operation BY <1>1, AtWork, OwnStamp
<1>4. context'.fatal = origin'.fatal BY <1>1, <1>2, <1>3 DEF EvidenceInv, Claims
<1>5. \A u \in Threads : (u # t => pc'[u] = pc[u]) /\ pc'[t] = "work"
  BY DEF WriteFatal, Step, StopInv, Types
<1>6. EvidenceTypes' BY <1>1, <1>2 DEF EvidenceInv, EvidenceTypes
<1>7. Stamps' BY <1>1, <1>2 DEF EvidenceInv, Stamps
<1>8. Claims' BY <1>1, <1>2, <1>4, <1>5 DEF EvidenceInv, Claims
<1>9. Consumption'
  BY <1>1, <1>2, <1>3 DEF EvidenceInv, Consumption, Balanced, Whole
<1> QED BY <1>6, <1>7, <1>8, <1>9 DEF EvidenceInv

\* The next entry of the stream finds the stamp it was submitted under.
LEMMA TailStamps ==
  ASSUME EvidenceInv, stream # <<>>, stream' = Tail(stream), host' = host, owner' = owner,
         context' \in Contexts, context'.operation = Head(stream).operation
  PROVE  stream' \in Seq([kind : Kernels \cup {"begin"}, operation : Nat]) /\ Stamps'
<1> DEFINE S == [kind : Kernels \cup {"begin"}, operation : Nat]
<1>1. stream \in Seq(S) BY DEF EvidenceInv, EvidenceTypes
<1> HIDE DEF S
<1>2. /\ stream' \in Seq(S) /\ Len(stream') = Len(stream) - 1 /\ Head(stream) = stream[1]
      /\ \A i \in 1 .. Len(stream') : stream'[i] = stream[i + 1]
  BY <1>1
<1>3. Len(stream) \in Nat /\ Len(stream) >= 1 BY <1>1
<1>4. ASSUME NEW i \in 1 .. Len(stream'), stream'[i].kind \in Kernels
      PROVE  stream'[i].operation = IF i = 1 THEN context'.operation ELSE stream'[i - 1].operation
  <2>1. i + 1 \in 1 .. Len(stream) /\ i + 1 # 1 BY <1>2, <1>3
  <2>2. stream[i + 1].operation = stream[i].operation
    BY <2>1, <1>2, <1>4 DEF EvidenceInv, Stamps
  <2>3. CASE i = 1 BY <2>2, <2>3, <1>2
  <2>4. CASE i # 1
    <3>1. i - 1 \in 1 .. Len(stream') BY <2>4
    <3> QED BY <3>1, <2>2, <2>4, <1>2
  <2> QED BY <2>3, <2>4
<1>5. ASSUME host = "running"
      PROVE  owner.sequence = IF stream' = <<>> THEN context'.operation
                                                ELSE stream'[Len(stream')].operation
  <2>1. owner.sequence = stream[Len(stream)].operation BY <1>5 DEF EvidenceInv, Stamps
  <2>2. CASE stream' = <<>>
    <3>1. Len(stream') = 0 BY <2>2, <1>2, EmptySeq
    <3>2. Len(stream) = 1 BY <3>1, <1>2, <1>3
    <3> QED BY <3>2, <2>1, <2>2, <1>2
  <2>3. CASE stream' # <<>>
    <3>1. Len(stream') \in 1 .. Len(stream') BY <2>3, <1>2
    <3>2. stream'[Len(stream')] = stream[Len(stream)] BY <3>1, <1>2, <1>3
    <3> QED BY <3>2, <2>1, <2>3
  <2> QED BY <2>2, <2>3
<1> QED BY <1>2, <1>4, <1>5 DEF Stamps, S

LEMMA StreamEvidence ==
  ASSUME EvidenceInv, StopInv, Types',
         Begin \/ StartKernel \/ EndKernel \/ \E b \in Blocks : BlockEnters(b)
  PROVE  EvidenceInv'
<1>1. /\ category' = category /\ origin' = origin
      /\ UNCHANGED <<owner, staging, delivered, host, faults>>
  BY DEF Begin, StartKernel, EndKernel, BlockEnters, threadVars, hostVars
<1>2. /\ stream # <<>>
      /\ \/ stream' = stream /\ context' = context
         \/ stream' = Tail(stream) /\ context'.operation = Head(stream).operation
      /\ context' \in Contexts
  <2>1. CASE Begin
    <3>1. stream # <<>> /\ stream' = Tail(stream) BY <2>1 DEF Begin, Running
    <3>2. context' = [context EXCEPT !.operation = Head(stream).operation]
      BY <2>1 DEF Begin, Stamped
    <3>3. Head(stream) \in [kind : Kernels \cup {"begin"}, operation : Nat]
      BY <3>1, HeadTailProperties DEF EvidenceInv, EvidenceTypes
    <3> QED BY <3>1, <3>2, <3>3 DEF EvidenceInv, EvidenceTypes, Contexts
  <2>2. CASE EndKernel
    <3>1. PICK t \in Threads : TRUE BY FiniteThreads
    <3>2. pc[t] # "idle" BY <3>1, <2>2 DEF EndKernel
    <3> QED BY <3>1, <3>2, <2>2, AtWork, OwnStamp DEF EndKernel, EvidenceInv, EvidenceTypes
  <2>3. CASE StartKernel
    BY <2>3 DEF StartKernel, Running, EvidenceInv, EvidenceTypes
  <2>4. ASSUME NEW b \in Blocks, BlockEnters(b) PROVE stream # <<>>
    <3>1. PICK l \in Lanes : TRUE BY ThreadsAssumption
    <3>2. <<b, l>> \in Threads /\ pc[<<b, l>>] # "idle"
      BY <3>1, <2>4 DEF Threads, BlockEnters
    <3> QED BY <3>2, AtWork
  <2>5. ASSUME NEW b \in Blocks, BlockEnters(b) PROVE stream' = stream /\ context' = context
    BY <2>5 DEF BlockEnters
  <2> QED BY <2>1, <2>2, <2>3, <2>4, <2>5 DEF EvidenceInv, EvidenceTypes
<1>3. /\ context'.claim = context.claim /\ context'.fatal = context.fatal
      /\ context'.count = context.count /\ context'.overflow = context.overflow
      /\ context'.claimed = context.claimed /\ context'.sample = context.sample
  BY DEF Begin, StartKernel, EndKernel, BlockEnters, Stamped,
         EvidenceInv, EvidenceTypes, Contexts
<1>4. stream' \in Seq([kind : Kernels \cup {"begin"}, operation : Nat]) /\ Stamps'
  <2>1. CASE stream' = stream /\ context' = context
    BY <2>1, <1>1 DEF EvidenceInv, EvidenceTypes, Stamps
  <2>2. CASE stream' = Tail(stream) /\ context'.operation = Head(stream).operation
    BY <2>2, <1>1, <1>2, TailStamps
  <2> QED BY <2>1, <2>2, <1>2
<1>5. EvidenceTypes' BY <1>1, <1>2, <1>4 DEF EvidenceInv, EvidenceTypes
<1>6. /\ \A t \in Threads : \A l \in {"sample", "write", "latch"} : pc'[t] = l <=> pc[t] = l
      /\ \A t \in Threads : pc[t] \in {"write", "latch"} => stream' = stream
  <2>1. CASE Begin
    <3>1. ~Running(Kernels) BY <2>1 DEF Begin, Running, Kernels
    <3> QED BY <3>1, <2>1 DEF StopInv, IdleBetween, Begin, threadVars
  <2>2. CASE StartKernel BY <2>2 DEF StartKernel
  <2>3. CASE EndKernel BY <2>3 DEF EndKernel
  <2>4. ASSUME NEW b \in Blocks, BlockEnters(b)
        PROVE  /\ \A t \in Threads : \A l \in {"sample", "write", "latch"} :
                    pc'[t] = l <=> pc[t] = l
               /\ stream' = stream
    <3>1. \A t \in Threads : t[1] = b => pc[t] = "entry" BY <2>4 DEF BlockEnters, Threads
    <3> QED BY <2>4, <3>1 DEF BlockEnters
  <2> QED BY <2>1, <2>2, <2>3, <2>4
<1>7. Claims'
  <2>1. \A c \in Categories :
          /\ context'.claimed[c] <=> origin'.sample[c] # None
          /\ context'.claimed[c] =>
               \/ context'.sample[c] = origin'.sample[c]
               \/ \E t \in Threads : pc'[t] = "write" /\ category'[t] = c
          /\ context'.count[c] # 0 =>
               context'.claimed[c] \/ \E t \in Threads : pc'[t] = "sample" /\ category'[t] = c
    BY <1>1, <1>3, <1>6 DEF EvidenceInv, Claims
  <2>2. \A t \in Threads : pc'[t] = "write" =>
          context'.claimed[category'[t]] /\ origin'.sample[category'[t]] = Head(stream').operation
    BY <1>1, <1>3, <1>6 DEF EvidenceInv, Claims
  <2>3. /\ context'.claim <=> origin'.fatal # None
        /\ context'.claim => context'.fatal = origin'.fatal \/ \E t \in Threads : pc'[t] = "latch"
        /\ \A t \in Threads : pc'[t] = "latch" =>
             context'.claim /\ origin'.fatal = Head(stream').operation
    BY <1>1, <1>3, <1>6 DEF EvidenceInv, Claims
  <2> QED BY <2>1, <2>2, <2>3 DEF Claims
<1>8. Consumption'
  BY <1>1, <1>2, <1>3 DEF EvidenceInv, Consumption, Balanced, Whole
<1> QED BY <1>4, <1>5, <1>7, <1>8 DEF EvidenceInv

-----------------------------------------------------------------------------
\* With no kernel left in the stream the context is whole.
LEMMA RestWhole ==
  ASSUME EvidenceInv, StopInv, stream = <<>>
  PROVE  Whole(context)
<1>1. \A t \in Threads : pc[t] = "idle" BY DEF StopInv, IdleBetween, Running
<1> QED BY <1>1 DEF EvidenceInv, Claims, Whole

LEMMA PlusAdds ==
  ASSUME NEW r \in Reports, NEW q \in Reports
  PROVE  /\ Plus(r, q) \in Reports
         /\ \A c \in Categories : /\ Plus(r, q).count[c] = r.count[c] + q.count[c]
                                  /\ Plus(r, q).overflows[c] = r.overflows[c] + q.overflows[c]
BY DEF Plus, Reports

\* Consuming a copy reports what is new in it, and takes its fatal.
LEMMA Consuming ==
  ASSUME EvidenceInv, NEW s \in Contexts, Whole(s), NEW o \in Owners,
         \A c \in Categories : staging.overflow[c] => s.overflow[c],
         o.report = owner.report, o.seen = owner.seen, o.overflowSeen = owner.overflowSeen
  PROVE  /\ Consumed(o, s) \in Owners /\ Balanced(Consumed(o, s), delivered)
         /\ Consumed(o, s).seen = s.count /\ Consumed(o, s).overflowSeen = s.overflow
         /\ Consumed(o, s).sequence = o.sequence
         /\ Consumed(o, s).fatal = IF o.fatal = None /\ s.claim THEN s.fatal ELSE o.fatal
<1> DEFINE overflows == [c \in Categories |->
             IF s.overflow[c] /\ ~o.overflowSeen[c] THEN 1 ELSE 0]
           new == [count |-> NewCount(o, s), overflows |-> overflows]
           r == Plus(o.report, new)
<1>1. o.report \in Reports BY DEF Owners
<1>2. new \in Reports
  <2>1. NewCount(o, s) \in [Categories -> Int] BY DEF NewCount, Owners, Contexts
  <2>2. overflows \in [Categories -> Int] OBVIOUS
  <2> QED BY <2>1, <2>2 DEF Reports
<1>3. /\ r \in Reports
      /\ \A c \in Categories : /\ r.count[c] = o.report.count[c] + new.count[c]
                               /\ r.overflows[c] = o.report.overflows[c] + new.overflows[c]
  <2> HIDE DEF new
  <2> QED BY <1>1, <1>2, PlusAdds
<1> HIDE DEF r
<1>4. Consumed(o, s) = [o EXCEPT !.report = r, !.seen = s.count, !.overflowSeen = s.overflow,
                                 !.fatal = IF @ = None /\ s.claim THEN s.fatal ELSE @]
  BY DEF Consumed, r, Owners
<1>5. /\ Consumed(o, s) \in Owners /\ Consumed(o, s).report = r
      /\ Consumed(o, s).seen = s.count /\ Consumed(o, s).overflowSeen = s.overflow
      /\ Consumed(o, s).sequence = o.sequence
      /\ Consumed(o, s).fatal = IF o.fatal = None /\ s.claim THEN s.fatal ELSE o.fatal
  BY <1>3, <1>4 DEF Owners, Contexts
<1>6. ASSUME NEW c \in Categories
      PROVE  /\ delivered.count[c] + r.count[c] = s.count[c]
             /\ delivered.overflows[c] + r.overflows[c] = IF s.overflow[c] THEN 1 ELSE 0
  <2>1. /\ delivered.count[c] \in Int /\ delivered.overflows[c] \in Int
        /\ o.report.count[c] \in Int /\ o.report.overflows[c] \in Int
        /\ s.count[c] \in Int /\ o.seen[c] \in Int
        /\ o.overflowSeen[c] \in BOOLEAN /\ s.overflow[c] \in BOOLEAN
    BY DEF EvidenceInv, EvidenceTypes, Reports, Owners, Contexts
  <2>2. /\ delivered.count[c] + o.report.count[c] = o.seen[c]
        /\ delivered.overflows[c] + o.report.overflows[c] = IF o.overflowSeen[c] THEN 1 ELSE 0
    BY DEF EvidenceInv, Consumption, Balanced
  <2>3. new.count[c] = s.count[c] - o.seen[c] BY DEF NewCount
  <2>4. new.overflows[c] = IF s.overflow[c] /\ ~o.overflowSeen[c] THEN 1 ELSE 0 OBVIOUS
  <2>5. o.overflowSeen[c] => s.overflow[c] BY DEF EvidenceInv, Consumption
  <2> HIDE DEF new
  <2>6. /\ r.count[c] = o.report.count[c] + new.count[c]
        /\ r.overflows[c] = o.report.overflows[c] + new.overflows[c]
    BY <1>3
  <2>7. delivered.count[c] + r.count[c] = s.count[c] BY <2>1, <2>2, <2>3, <2>6
  <2>8. CASE s.overflow[c] /\ ~o.overflowSeen[c]
    <3>1. new.overflows[c] = 1 /\ delivered.overflows[c] + o.report.overflows[c] = 0
      BY <2>2, <2>4, <2>8
    <3>2. delivered.overflows[c] + r.overflows[c] = 1 BY <3>1, <2>1, <2>6
    <3> QED BY <3>2, <2>7, <2>8
  <2>9. CASE ~(s.overflow[c] /\ ~o.overflowSeen[c])
    <3>1. new.overflows[c] = 0 /\ (o.overflowSeen[c] <=> s.overflow[c]) BY <2>4, <2>5, <2>9
    <3>2. delivered.overflows[c] + r.overflows[c]
            = delivered.overflows[c] + o.report.overflows[c]
      BY <3>1, <2>1, <2>6
    <3> QED BY <3>1, <3>2, <2>2, <2>7
  <2> QED BY <2>8, <2>9
<1>7. Balanced(Consumed(o, s), delivered) BY <1>5, <1>6 DEF Balanced
<1> QED BY <1>5, <1>7

\* A report that is handed over leaves the owner without one.
LEMMA Handing ==
  ASSUME NEW o \in Owners, NEW d \in Reports, Balanced(o, d)
  PROVE  /\ [o EXCEPT !.report = NoReport] \in Owners /\ Plus(d, o.report) \in Reports
         /\ Balanced([o EXCEPT !.report = NoReport], Plus(d, o.report))
<1>1. NoReport \in Reports BY DEF NoReport, Reports
<1>2. [o EXCEPT !.report = NoReport] \in Owners BY <1>1 DEF Owners
<1>3. o.report \in Reports BY DEF Owners
<1>4. /\ Plus(d, o.report) \in Reports
      /\ \A c \in Categories :
           /\ Plus(d, o.report).count[c] = d.count[c] + o.report.count[c]
           /\ Plus(d, o.report).overflows[c] = d.overflows[c] + o.report.overflows[c]
  BY <1>3, PlusAdds
<1>5. /\ [o EXCEPT !.report = NoReport].report = NoReport
      /\ [o EXCEPT !.report = NoReport].seen = o.seen
      /\ [o EXCEPT !.report = NoReport].overflowSeen = o.overflowSeen
  BY DEF Owners
<1>6. \A c \in Categories : NoReport.count[c] = 0 /\ NoReport.overflows[c] = 0 BY DEF NoReport
<1>7. \A c \in Categories : d.count[c] + o.report.count[c] \in Int
                            /\ d.overflows[c] + o.report.overflows[c] \in Int
  BY <1>3 DEF Reports
<1>8. Balanced([o EXCEPT !.report = NoReport], Plus(d, o.report))
  BY <1>4, <1>5, <1>6, <1>7 DEF Balanced
<1> QED BY <1>2, <1>4, <1>8

\* What every call of the host leaves that takes a copy s, or none, and hands over
\* its report or keeps it.
LEMMA HandedEvidence ==
  ASSUME EvidenceInv, NEW o \in Owners, Balanced(o, delivered), o.sequence = owner.sequence,
         staging' \in Contexts, Whole(staging'),
         o.seen = staging'.count, o.overflowSeen = staging'.overflow,
         faults' \in Nat, faults' = 0 /\ o.fatal # None => o.fatal = origin.fatal,
         \/ owner' = o /\ delivered' = delivered
         \/ owner' = [o EXCEPT !.report = NoReport] /\ delivered' = Plus(delivered, o.report),
         host' = "running" => host = "running",
         host' = "released" /\ faults' = 0 => stream = <<>> /\ staging' = context,
         UNCHANGED deviceVars
  PROVE  EvidenceInv'
<1>1. UNCHANGED <<context, stream, pc, category, origin>> BY DEF deviceVars, threadVars
<1>2. delivered \in Reports BY DEF EvidenceInv, EvidenceTypes
<1>3. /\ owner' \in Owners /\ delivered' \in Reports /\ Balanced(owner', delivered')
      /\ owner'.sequence = o.sequence /\ owner'.fatal = o.fatal
      /\ owner'.seen = o.seen /\ owner'.overflowSeen = o.overflowSeen
  <2>1. CASE owner' = o /\ delivered' = delivered BY <2>1, <1>2
  <2>2. CASE owner' = [o EXCEPT !.report = NoReport] /\ delivered' = Plus(delivered, o.report)
    <3>1. /\ [o EXCEPT !.report = NoReport] \in Owners /\ Plus(delivered, o.report) \in Reports
          /\ Balanced([o EXCEPT !.report = NoReport], Plus(delivered, o.report))
      BY <1>2, Handing
    <3> QED BY <3>1, <2>2 DEF Owners
  <2> QED BY <2>1, <2>2
<1>4. EvidenceTypes' BY <1>1, <1>3 DEF EvidenceInv, EvidenceTypes
<1>5. Stamps' BY <1>1, <1>3 DEF EvidenceInv, Stamps
<1>6. Claims' BY <1>1 DEF EvidenceInv, Claims
<1>7. Consumption'
  <2>1. Whole(staging)' BY <1>1 DEF Whole
  <2>2. Balanced(owner, delivered)' BY <1>3 DEF Balanced
  <2> QED BY <2>1, <2>2, <1>1, <1>3 DEF Consumption
<1> QED BY <1>4, <1>5, <1>6, <1>7 DEF EvidenceInv

LEMMA FailedOwner ==
  ASSUME NEW o \in Owners
  PROVE  /\ Failed(o) \in Owners /\ Failed(o).report = o.report /\ Failed(o).seen = o.seen
         /\ Failed(o).overflowSeen = o.overflowSeen /\ Failed(o).sequence = o.sequence
<1>1. o.sequence \in Records BY DEF Owners, Records
<1> QED BY <1>1 DEF Failed, Owners

\* A copy that has or has not arrived, consumed by the owner as it is or, after
\* a failure, with a fatal of its own.
LEMMA CopyEvidence ==
  ASSUME EvidenceInv, StopInv, NEW s \in {staging, context}, NEW o,
         \/ Copied(s) /\ o = Consumed(owner, s) /\ (UNCHANGED faults \/ Fault)
         \/ Uncopied(s) /\ o = Consumed(Failed(owner), s)
  PROVE  /\ o \in Owners /\ Balanced(o, delivered) /\ o.sequence = owner.sequence
         /\ s \in Contexts /\ Whole(s) /\ o.seen = s.count /\ o.overflowSeen = s.overflow
         /\ faults' \in Nat /\ (faults' = 0 /\ o.fatal # None => o.fatal = origin.fatal)
         /\ faults' = 0 => stream = <<>> /\ s = context
<1>1. s \in Contexts /\ Whole(s) /\ \A c \in Categories : staging.overflow[c] => s.overflow[c]
  <2>1. s = staging \/ (s = context /\ stream = <<>>)
    BY DEF Copied, Uncopied, Completed
  <2>2. Whole(staging) BY DEF EvidenceInv, Consumption
  <2>3. stream = <<>> => Whole(context) BY RestWhole
  <2>4. \A c \in Categories : staging.overflow[c] => context.overflow[c] BY <2>2 DEF Whole
  <2> QED BY <2>1, <2>2, <2>3, <2>4 DEF EvidenceInv, EvidenceTypes
<1>2. owner \in Owners /\ faults \in Nat BY DEF EvidenceInv, EvidenceTypes
<1>3. Fault => faults' = faults + 1 BY DEF Fault
<1>4. CASE Copied(s) /\ o = Consumed(owner, s) /\ (UNCHANGED faults \/ Fault)
  <2>1. /\ o \in Owners /\ Balanced(o, delivered) /\ o.sequence = owner.sequence
        /\ o.seen = s.count /\ o.overflowSeen = s.overflow
        /\ o.fatal = IF owner.fatal = None /\ s.claim THEN s.fatal ELSE owner.fatal
    BY <1>1, <1>2, <1>4, Consuming
  <2>2. faults' \in Nat /\ (faults' = 0 => faults = 0) BY <1>2, <1>3, <1>4
  <2>3. faults' = 0 /\ o.fatal # None => o.fatal = origin.fatal
    BY <2>1, <2>2, <1>1 DEF EvidenceInv, Consumption, Whole
  <2>4. stream = <<>> /\ s = context BY <1>4 DEF Copied, Completed
  <2> QED BY <2>1, <2>2, <2>3, <2>4, <1>1
<1>5. CASE Uncopied(s) /\ o = Consumed(Failed(owner), s)
  <2>1. /\ Failed(owner) \in Owners /\ Failed(owner).report = owner.report
        /\ Failed(owner).seen = owner.seen /\ Failed(owner).overflowSeen = owner.overflowSeen
        /\ Failed(owner).sequence = owner.sequence
    BY <1>2, FailedOwner
  <2>2. /\ o \in Owners /\ Balanced(o, delivered) /\ o.sequence = owner.sequence
        /\ o.seen = s.count /\ o.overflowSeen = s.overflow
    BY <2>1, <1>1, <1>5, Consuming
  <2>3. faults' \in Nat /\ faults' # 0 BY <1>2, <1>3, <1>5 DEF Uncopied
  <2> QED BY <2>2, <2>3, <1>1
<1> QED BY <1>4, <1>5

\* A readback in any call, and the one of a release, with or without a sink.
LEMMA ReadbackEvidence ==
  ASSUME EvidenceInv, StopInv,
         CompleteReadback \/ CourantReadback \/ \E collects \in BOOLEAN : Release(collects)
  PROVE  EvidenceInv'
<1>1. PICK s \in {staging, context} :
        /\ staging' = s /\ UNCHANGED deviceVars
        /\ \E o \in {Consumed(owner, s), Consumed(Failed(owner), s)} :
             /\ \/ Copied(s) /\ o = Consumed(owner, s) /\ (UNCHANGED faults \/ Fault)
                \/ Uncopied(s) /\ o = Consumed(Failed(owner), s)
             /\ \/ owner' = o /\ delivered' = delivered
                \/ owner' = [o EXCEPT !.report = NoReport] /\ delivered' = Plus(delivered, o.report)
             /\ host' = "running" => host = "running"
  <2>1. CASE CompleteReadback
    BY <2>1 DEF CompleteReadback, Dispatch
  <2>2. CASE CourantReadback
    BY <2>2 DEF CourantReadback, Dispatch
  <2>3. ASSUME NEW collects \in BOOLEAN, Release(collects)
        PROVE  \E s \in {staging, context} :
          /\ staging' = s /\ UNCHANGED deviceVars
          /\ \E o \in {Consumed(owner, s), Consumed(Failed(owner), s)} :
               /\ \/ Copied(s) /\ o = Consumed(owner, s) /\ (UNCHANGED faults \/ Fault)
                  \/ Uncopied(s) /\ o = Consumed(Failed(owner), s)
               /\ \/ owner' = o /\ delivered' = delivered
                  \/ /\ owner' = [o EXCEPT !.report = NoReport]
                     /\ delivered' = Plus(delivered, o.report)
               /\ host' = "running" => host = "running"
    <3>1. PICK s \in {staging, context} :
            /\ staging' = s
            /\ \E o \in {Consumed(owner, s), Consumed(Failed(owner), s)} :
                 /\ \/ Copied(s) /\ o = Consumed(owner, s) /\ UNCHANGED faults
                    \/ Uncopied(s) /\ o = Consumed(Failed(owner), s)
                 /\ owner' = IF sink \/ collects THEN [o EXCEPT !.report = NoReport] ELSE o
                 /\ delivered' = IF sink \/ collects THEN Plus(delivered, o.report) ELSE delivered
                 /\ host' = IF sink /\ o.fatal # None THEN "stopped" ELSE "released"
      BY <2>3 DEF Release
    <3>2. PICK o \in {Consumed(owner, s), Consumed(Failed(owner), s)} :
            /\ \/ Copied(s) /\ o = Consumed(owner, s) /\ UNCHANGED faults
               \/ Uncopied(s) /\ o = Consumed(Failed(owner), s)
            /\ owner' = IF sink \/ collects THEN [o EXCEPT !.report = NoReport] ELSE o
            /\ delivered' = IF sink \/ collects THEN Plus(delivered, o.report) ELSE delivered
            /\ host' = IF sink /\ o.fatal # None THEN "stopped" ELSE "released"
      BY <3>1
    <3>3. host' # "running" BY <3>2
    <3>4. \/ owner' = o /\ delivered' = delivered
          \/ owner' = [o EXCEPT !.report = NoReport] /\ delivered' = Plus(delivered, o.report)
      BY <3>2
    <3>5. UNCHANGED deviceVars BY <2>3 DEF Release
    <3> QED BY <3>1, <3>2, <3>3, <3>4, <3>5
  <2> QED BY <2>1, <2>2, <2>3
<1>2. PICK o \in {Consumed(owner, s), Consumed(Failed(owner), s)} :
        /\ \/ Copied(s) /\ o = Consumed(owner, s) /\ (UNCHANGED faults \/ Fault)
           \/ Uncopied(s) /\ o = Consumed(Failed(owner), s)
        /\ \/ owner' = o /\ delivered' = delivered
           \/ owner' = [o EXCEPT !.report = NoReport] /\ delivered' = Plus(delivered, o.report)
        /\ host' = "running" => host = "running"
  BY <1>1
<1>3. /\ o \in Owners /\ Balanced(o, delivered) /\ o.sequence = owner.sequence
      /\ s \in Contexts /\ Whole(s) /\ o.seen = s.count /\ o.overflowSeen = s.overflow
      /\ faults' \in Nat /\ (faults' = 0 /\ o.fatal # None => o.fatal = origin.fatal)
      /\ faults' = 0 => stream = <<>> /\ s = context
  BY <1>2, CopyEvidence
<1>4. context' = context BY <1>1 DEF deviceVars
<1>5. Whole(staging') BY <1>1, <1>3
<1>6. host' = "released" /\ faults' = 0 => stream = <<>> /\ staging' = context'
  BY <1>1, <1>3, <1>4
<1> QED BY <1>1, <1>2, <1>3, <1>5, <1>6, HandedEvidence

\* What is handed over without a copy: a refused upload and the collection.
LEMMA UncopiedEvidence ==
  ASSUME EvidenceInv, RefuseUpload \/ Collect
  PROVE  EvidenceInv'
<1>1. /\ owner \in Owners /\ staging \in Contexts /\ faults \in Nat
      /\ Whole(staging) /\ owner.seen = staging.count /\ owner.overflowSeen = staging.overflow
      /\ Balanced(owner, delivered)
      /\ faults = 0 /\ owner.fatal # None => owner.fatal = origin.fatal
  BY DEF EvidenceInv, EvidenceTypes, Consumption
<1>2. CASE RefuseUpload
  <2>1. /\ Failed(owner) \in Owners /\ Failed(owner).report = owner.report
        /\ Failed(owner).seen = owner.seen /\ Failed(owner).overflowSeen = owner.overflowSeen
        /\ Failed(owner).sequence = owner.sequence
    BY <1>1, FailedOwner
  <2>2. Balanced(Failed(owner), delivered) BY <1>1, <2>1 DEF Balanced
  <2>3. faults' \in Nat /\ faults' # 0 BY <1>1, <1>2 DEF RefuseUpload, Fault
  <2>4. /\ UNCHANGED deviceVars /\ staging' = staging /\ (host' = "running" => host = "running")
        /\ \/ owner' = Failed(owner) /\ delivered' = delivered
           \/ /\ owner' = [Failed(owner) EXCEPT !.report = NoReport]
              /\ delivered' = Plus(delivered, Failed(owner).report)
    BY <1>2 DEF RefuseUpload, Dispatch
  <2> QED BY <1>1, <2>1, <2>2, <2>3, <2>4, HandedEvidence
<1>3. CASE Collect
  <2>1. /\ UNCHANGED deviceVars /\ staging' = staging /\ faults' = faults
        /\ owner' = [owner EXCEPT !.report = NoReport]
        /\ delivered' = Plus(delivered, owner.report)
        /\ (host' = "running" => host = "running") /\ host' # "released"
    BY <1>3 DEF Collect
  <2> QED BY <1>1, <2>1, HandedEvidence
<1> QED BY <1>2, <1>3

-----------------------------------------------------------------------------
\* Submitting keeps the stamps in the order of the stream.
LEMMA SubmitStamps ==
  ASSUME EvidenceInv, host = "running", NEW kind \in Kernels \cup {"begin"}, NEW n \in Nat,
         kind \in Kernels => n = owner.sequence,
         stream' = Append(stream, [kind |-> kind, operation |-> n]),
         context' = context, host' = host, owner'.sequence = n
  PROVE  stream' \in Seq([kind : Kernels \cup {"begin"}, operation : Nat]) /\ Stamps'
<1> DEFINE S == [kind : Kernels \cup {"begin"}, operation : Nat]
           entry == [kind |-> kind, operation |-> n]
<1>1. stream \in Seq(S) /\ entry \in S BY DEF EvidenceInv, EvidenceTypes
<1>2. entry.kind = kind /\ entry.operation = n OBVIOUS
<1>3. stream' = Append(stream, entry) OBVIOUS
<1> HIDE DEF S, entry
<1>4. /\ stream' \in Seq(S) /\ Len(stream') = Len(stream) + 1 /\ stream' # <<>>
      /\ \A i \in 1 .. Len(stream) : stream'[i] = stream[i]
      /\ stream'[Len(stream')] = entry /\ Len(stream) \in Nat
  BY <1>1, <1>3, AppendProperties
<1>5. stream = <<>> <=> Len(stream) = 0 BY <1>1, EmptySeq
<1>6. ASSUME NEW i \in 1 .. Len(stream'), stream'[i].kind \in Kernels
      PROVE  stream'[i].operation = IF i = 1 THEN context.operation ELSE stream'[i - 1].operation
  <2>1. CASE i \in 1 .. Len(stream)
    <3>1. stream[i].operation = IF i = 1 THEN context.operation ELSE stream[i - 1].operation
      BY <2>1, <1>4, <1>6 DEF EvidenceInv, Stamps
    <3>2. i # 1 => i - 1 \in 1 .. Len(stream) BY <2>1, <1>4
    <3> QED BY <3>1, <3>2, <2>1, <1>4
  <2>2. CASE i = Len(stream) + 1
    <3>1. stream'[i] = entry /\ n = owner.sequence BY <2>2, <1>2, <1>4, <1>6
    <3>2. owner.sequence = IF stream = <<>> THEN context.operation
                                            ELSE stream[Len(stream)].operation
      BY DEF EvidenceInv, Stamps
    <3>3. CASE stream = <<>> BY <3>1, <3>2, <3>3, <2>2, <1>2, <1>5
    <3>4. CASE stream # <<>>
      <4>1. i # 1 /\ i - 1 = Len(stream) /\ Len(stream) \in 1 .. Len(stream)
        BY <3>4, <2>2, <1>4, <1>5
      <4> QED BY <4>1, <3>1, <3>2, <3>4, <1>2, <1>4
    <3> QED BY <3>3, <3>4
  <2> QED BY <2>1, <2>2, <1>4
<1>7. Stamps' BY <1>2, <1>4, <1>6 DEF Stamps
<1> QED BY <1>4, <1>7 DEF S

LEMMA SubmitEvidence ==
  ASSUME EvidenceInv, StopInv,
         SetOperation \/ \E kind \in Kernels : Launch(kind)
  PROVE  EvidenceInv'
<1>1. PICK kind \in Kernels \cup {"begin"} :
        \E n \in Nat :
          /\ host = "running" /\ (kind \in Kernels => n = owner.sequence)
          /\ Submit([kind |-> kind, operation |-> n])
          /\ owner' = [owner EXCEPT !.sequence = n]
          /\ UNCHANGED <<context, pc, category, origin, staging, delivered>>
  <2>1. owner \in Owners BY DEF EvidenceInv, EvidenceTypes
  <2>2. CASE SetOperation
    <3>1. owner.sequence + 1 \in Nat /\ "begin" \notin Kernels BY <2>1 DEF Owners, Kernels
    <3> QED BY <3>1, <2>2 DEF SetOperation, threadVars
  <2>3. ASSUME NEW kind \in Kernels, Launch(kind)
        PROVE  \E n \in Nat :
                 /\ host = "running" /\ (kind \in Kernels => n = owner.sequence)
                 /\ Submit([kind |-> kind, operation |-> n])
                 /\ owner' = [owner EXCEPT !.sequence = n]
                 /\ UNCHANGED <<context, pc, category, origin, staging, delivered>>
    <3>1. owner.sequence \in Nat /\ owner = [owner EXCEPT !.sequence = owner.sequence]
      BY <2>1 DEF Owners
    <3> QED BY <3>1, <2>3 DEF Launch, threadVars
  <2> QED BY <2>2, <2>3
<1>2. PICK n \in Nat :
          /\ host = "running" /\ (kind \in Kernels => n = owner.sequence)
          /\ Submit([kind |-> kind, operation |-> n])
          /\ owner' = [owner EXCEPT !.sequence = n]
          /\ UNCHANGED <<context, pc, category, origin, staging, delivered>>
  BY <1>1
<1>3. /\ owner' \in Owners /\ owner'.sequence = n /\ owner'.report = owner.report
      /\ owner'.seen = owner.seen /\ owner'.overflowSeen = owner.overflowSeen
      /\ owner'.fatal = owner.fatal
  BY <1>2 DEF EvidenceInv, EvidenceTypes, Owners
<1>4. /\ stream' \in Seq([kind : Kernels \cup {"begin"}, operation : Nat]) /\ Stamps'
      /\ faults' \in Nat /\ (faults' = 0 => faults = 0) /\ host' # "released"
  <2>1. faults \in Nat /\ stream \in Seq([kind : Kernels \cup {"begin"}, operation : Nat])
    BY DEF EvidenceInv, EvidenceTypes
  <2>2. CASE stream' = Append(stream, [kind |-> kind, operation |-> n]) /\ UNCHANGED <<host, faults>>
    BY <2>1, <2>2, <1>2, <1>3, SubmitStamps
  <2>3. CASE Fault /\ host' = "failed" /\ UNCHANGED stream
    <3>1. Stamps' BY <2>3, <1>2 DEF EvidenceInv, Stamps
    <3> QED BY <3>1, <2>1, <2>3 DEF Fault
  <2> QED BY <2>2, <2>3, <1>2 DEF Submit
<1>5. EvidenceTypes' BY <1>2, <1>3, <1>4 DEF EvidenceInv, EvidenceTypes
<1>6. Claims'
  <2>1. \A t \in Threads : pc[t] \in {"write", "latch"} => Head(stream') = Head(stream)
    <3> DEFINE S == [kind : Kernels \cup {"begin"}, operation : Nat]
               entry == [kind |-> kind, operation |-> n]
    <3>1. stream \in Seq(S) /\ entry \in S BY DEF EvidenceInv, EvidenceTypes
    <3>2. stream' = stream \/ stream' = Append(stream, entry) BY <1>2 DEF Submit
    <3> HIDE DEF S, entry
    <3>3. \A t \in Threads : pc[t] \in {"write", "latch"} => stream # <<>>
      BY AtWork
    <3>4. stream # <<>> => Head(Append(stream, entry)) = Head(stream)
      BY <3>1, HeadTailAppend
    <3> QED BY <3>2, <3>3, <3>4
  <2> QED BY <2>1, <1>2 DEF EvidenceInv, Claims
<1>7. Consumption'
  <2>1. Whole(staging)' BY <1>2 DEF EvidenceInv, Consumption, Whole
  <2>2. Balanced(owner, delivered)' BY <1>2, <1>3 DEF EvidenceInv, Consumption, Balanced
  <2> QED BY <2>1, <2>2, <1>2, <1>3, <1>4 DEF EvidenceInv, Consumption
<1> QED BY <1>4, <1>5, <1>6, <1>7 DEF EvidenceInv

LEMMA NextEvidence ==
  ASSUME CountInv, StopInv, EvidenceInv, [Next]_vars
  PROVE  EvidenceInv'
<1>1. Types' BY NextCount DEF CountInv
<1>2. CASE Begin \/ StartKernel \/ EndKernel \/ \E b \in Blocks : BlockEnters(b)
  BY <1>1, <1>2, StreamEvidence
<1>3. ASSUME NEW t \in Threads,
             \/ Return(t) \/ \E c \in Categories : RecordWarning(t, c)
             \/ Saturated(t) \/ Increment(t) \/ Retry(t)
             \/ ClaimSample(t) \/ WriteSample(t)
             \/ RecordFatal(t) \/ WriteFatal(t)
      PROVE  EvidenceInv'
  <2>1. CASE \/ Return(t) \/ \E c \in Categories : RecordWarning(t, c)
             \/ Saturated(t) \/ Increment(t) \/ Retry(t)
    BY <2>1, <1>1, QuietSteps
  <2>2. CASE ClaimSample(t) BY <2>2, <1>1, ClaimEvidence
  <2>3. CASE WriteSample(t) BY <2>3, <1>1, WriteEvidence
  <2>4. CASE RecordFatal(t) BY <2>4, <1>1, LatchEvidence
  <2>5. CASE WriteFatal(t) BY <2>5, <1>1, WriteFatalEvidence
  <2> QED BY <1>3, <2>1, <2>2, <2>3, <2>4, <2>5
<1>4. CASE SetOperation \/ \E kind \in Kernels : Launch(kind) BY <1>4, SubmitEvidence
<1>5. CASE CompleteReadback \/ CourantReadback \/ \E collects \in BOOLEAN : Release(collects)
  BY <1>5, ReadbackEvidence
<1>6. CASE RefuseUpload \/ Collect BY <1>6, UncopiedEvidence
<1>7. CASE Ended \/ UNCHANGED vars
  <2>1. UNCHANGED <<context, stream, pc, category, origin, owner, staging, delivered, host, faults>>
    BY <1>7 DEF Ended, vars, deviceVars, threadVars, hostVars
  <2> QED BY <2>1 DEF EvidenceInv, EvidenceTypes, Stamps, Claims, Consumption, Whole, Balanced
<1> QED BY <1>2, <1>3, <1>4, <1>5, <1>6, <1>7 DEF Next, Device, Kernels

LEMMA EvidenceFacts ==
  ASSUME CountInv, StopInv, EvidenceInv
  PROVE  EvidenceWhole /\ ReportedOnce
<1>1. EvidenceWhole BY DEF EvidenceInv, Consumption, Whole, EvidenceWhole
<1>2. ASSUME NEW c \in Categories
      PROVE  LET reports == Plus(delivered, owner.report)
             IN /\ reports.count[c] = owner.seen[c]
                /\ reports.overflows[c] = IF owner.overflowSeen[c] THEN 1 ELSE 0
                /\ host = "released" /\ faults = 0 => owner.seen[c] = Smaller(raised[c], MaxCount)
  <2>1. owner.report \in Reports /\ delivered \in Reports
    BY DEF EvidenceInv, EvidenceTypes, Owners
  <2>2. /\ Plus(delivered, owner.report).count[c] = delivered.count[c] + owner.report.count[c]
        /\ Plus(delivered, owner.report).overflows[c]
             = delivered.overflows[c] + owner.report.overflows[c]
    BY <2>1, PlusAdds
  <2>3. ASSUME host = "released", faults = 0 PROVE owner.seen[c] = Smaller(raised[c], MaxCount)
    <3>1. stream = <<>> /\ owner.seen = context.count
      BY <2>3 DEF EvidenceInv, Consumption
    <3>2. \A t \in Threads : pc[t] = "idle" BY <3>1 DEF StopInv, IdleBetween, Running
    <3>3. context.count[c] = Smaller(raised[c], MaxCount)
      BY <3>2, CountRightOutside DEF CountsExact
    <3> QED BY <3>1, <3>3
  <2> QED BY <2>2, <2>3 DEF EvidenceInv, Consumption, Balanced
<1>3. ReportedOnce BY <1>2 DEF ReportedOnce
<1> QED BY <1>1, <1>3

LEMMA AlwaysEvidence == Spec => [](CountInv /\ StopInv /\ EvidenceInv)
<1>1. Init => CountInv /\ StopInv /\ EvidenceInv BY InitCount, InitStop, InitEvidence
<1>2. CountInv /\ StopInv /\ EvidenceInv /\ [Next]_vars => (CountInv /\ StopInv /\ EvidenceInv)'
  BY NextStop, NextEvidence
<1> QED BY <1>1, <1>2, PTL DEF Spec

(* Although claims come before what they claim is written, and the host is    *)
(* operations ahead of the device, a copy never shows a counted warning       *)
(* without its sample or a latch without its record, nor one with the stamp   *)
(* of another operation (claimRecord, beginOperation, observeCompletedWork).  *)
THEOREM Evidence == Spec => []EvidenceWhole
<1>1. CountInv /\ StopInv /\ EvidenceInv => EvidenceWhole BY EvidenceFacts
<1> QED BY <1>1, AlwaysEvidence, PTL

(* Over any number of readbacks, failed ones included, with a sink or a       *)
(* caller who collects, what has been seen is what has been reported; and a   *)
(* release without faults has reported every warning the threads raised.      *)
THEOREM Reporting == Spec => []ReportedOnce
<1>1. CountInv /\ StopInv /\ EvidenceInv => ReportedOnce BY EvidenceFacts
<1> QED BY <1>1, AlwaysEvidence, PTL

=============================================================================
