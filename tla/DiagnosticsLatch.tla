-------------------------- MODULE DiagnosticsLatch --------------------------
(***************************************************************************)
(* The diagnostics of one resident lane (common/Diagnostics.H,             *)
(* DiagnosticsHost.H, GpuDiagnosticsOwner.cuh) as the gasUGKP backend uses *)
(* them.  The threads of a kernel count warnings in saturating counters,   *)
(* keep one sample of each category, and latch the first fatal condition,  *)
(* without locks; the blocks of later kernels look at the latch before     *)
(* they work.  The host runs ahead of the stream.  It reads the context    *)
(* back where it waits for results anyway, reports what is new to a sink,  *)
(* or keeps it for the caller when it has none, and stops at a fatal.      *)
(*                                                                         *)
(* A category stands for a warning code; a record is the number of the     *)
(* operation it is stamped with, all that the properties tell apart.       *)
(***************************************************************************)
EXTENDS Integers, Sequences, FiniteSets

CONSTANTS
  Blocks, Lanes,  (* the blocks of a kernel and the threads of a block       *)
  Categories,     (* the warning categories                                  *)
  MaxCount,       (* the largest value of a counter, 2^32 - 1 in the code    *)
  MaxRaises,      (* bound: warnings raised in each category                 *)
  MaxFatals,      (* bound: fatal conditions raised                          *)
  MaxOperations,  (* bound: operations the host announces                    *)
  MaxKernels,     (* bound: kernels the host launches                        *)
  MaxFaults       (* bound: failures of the host's calls                     *)

ASSUME ThreadsAssumption ==
  /\ IsFiniteSet(Blocks) /\ Blocks # {}
  /\ IsFiniteSet(Lanes) /\ Lanes # {}
ASSUME CategoriesAssumption == Categories # {} /\ "fatal" \notin Categories
ASSUME CountAssumption == MaxCount \in Nat \ {0}
ASSUME BoundsAssumption == {MaxRaises, MaxFatals, MaxOperations, MaxKernels, MaxFaults} \subseteq Nat

None == -1
Fatal == "fatal"
Threads == Blocks \X Lanes
Smaller(a, b) == IF a < b THEN a ELSE b

VARIABLES
  context,    (* DeviceContext: the latch, the counters and the samples      *)
  stream,     (* what the host has submitted and the device not finished     *)
  ended,      (* kernels that have ended                                     *)
  pc,         (* per thread of the kernel at the head of the stream          *)
  category,   (* per thread: the category of the warning being recorded      *)
  old,        (* per thread: the counter as last seen                        *)
  owner,      (* GpuOwner: its stamp, snapshot_ and what it has seen         *)
  staging,    (* staging_: the context as last copied to the host            *)
  sink,       (* whether the host has installed a sink                       *)
  delivered,  (* the warnings that reached the sink or the caller            *)
  host,       (* running, failed (a call returned 1), stopped or released    *)
  launched,   (* kernels launched so far                                     *)
  faults,     (* failures so far                                             *)
  raised,     (* history: how often each category and a fatal were raised    *)
  origin      (* history: the operations the claims of the latch and of the  *)
              (* samples were made in, and the kernel that latched a fatal   *)

threadVars == <<pc, category, old>>
hostVars == <<owner, staging, sink, delivered, host, launched, faults>>
deviceVars == <<context, stream, ended, threadVars, raised, origin>>
vars == <<deviceVars, hostVars>>

NoReport == [count |-> [c \in Categories |-> 0], overflows |-> [c \in Categories |-> 0]]

\* A context after reset: nothing claimed, nothing counted.
Fresh == [claim |-> FALSE, fatal |-> None, operation |-> 0,
          count |-> [c \in Categories |-> 0], overflow |-> [c \in Categories |-> FALSE],
          claimed |-> [c \in Categories |-> FALSE], sample |-> [c \in Categories |-> None]]

Init ==
  /\ context = Fresh /\ staging = Fresh
  /\ stream = <<>> /\ ended = 0
  /\ pc = [t \in Threads |-> "idle"]
  /\ category = [t \in Threads |-> CHOOSE c \in Categories : TRUE]
  /\ old = [t \in Threads |-> 0]
  /\ owner = [sequence |-> 0, report |-> NoReport, fatal |-> None,
              seen |-> [c \in Categories |-> 0], overflowSeen |-> [c \in Categories |-> FALSE]]
  /\ sink \in BOOLEAN
  /\ delivered = NoReport
  /\ host = "running" /\ launched = 0 /\ faults = 0
  /\ raised = [k \in Categories \cup {Fatal} |-> 0]
  /\ origin = [fatal |-> None, kernel |-> None, sample |-> [c \in Categories |-> None]]

\* Mistakes that the properties must notice: a new operation that starts from a
\* clear context, a counter stored without a comparison, one compared with the
\* value first seen for ever, a copy that does not wait for the kernels, and
\* totals reported in place of what is new.
ClearedAndStamped(operation) == [Fresh EXCEPT !.operation = operation]
AlwaysExpected(t) == TRUE
NeverSeen(t) == old[t]
NeverWaiting == TRUE
TotalCount(o, s) == s.count

-----------------------------------------------------------------------------
(* The stream.                                                               *)

Running(kinds) == stream # <<>> /\ Head(stream).kind \in kinds

\* beginOperation changes the stamp alone: warnings nobody has read and the
\* first fatal stay.
Stamped(operation) == [context EXCEPT !.operation = operation]

Begin ==
  /\ Running({"begin"})
  /\ context' = Stamped(Head(stream).operation)
  /\ stream' = Tail(stream)
  /\ UNCHANGED <<ended, threadVars, raised, origin, hostVars>>

\* A kernel starts at its guard, if it has one.
StartKernel ==
  /\ Running({"guarded", "plain"}) /\ \A t \in Threads : pc[t] = "idle"
  /\ pc' = [t \in Threads |-> IF Running({"guarded"}) THEN "entry" ELSE "work"]
  /\ UNCHANGED <<context, stream, ended, category, old, raised, origin, hostVars>>

EndKernel ==
  /\ \A t \in Threads : pc[t] = "done"
  /\ pc' = [t \in Threads |-> "idle"]
  /\ stream' = Tail(stream) /\ ended' = ended + 1
  /\ UNCHANGED <<context, category, old, raised, origin, hostVars>>

-----------------------------------------------------------------------------
(* The threads of a kernel.                                                  *)

\* blockMayProceed: one thread reads the latch for its block, and the barrier
\* after that sends them all the same way.
HasFatal == context.claim
BlockEnters(b) ==
  /\ \A l \in Lanes : pc[<<b, l>>] = "entry"
  /\ pc' = [t \in Threads |-> IF t[1] # b THEN pc[t] ELSE IF HasFatal THEN "done" ELSE "work"]
  /\ UNCHANGED <<context, stream, ended, category, old, raised, origin, hostVars>>

\* A step of thread t from one place to the next.
Step(t, here, next) ==
  /\ pc[t] = here /\ pc' = [pc EXCEPT ![t] = next]
  /\ UNCHANGED <<stream, ended, hostVars>>

\* The body of the kernel is over for the thread.
Return(t) ==
  /\ Step(t, "work", "done")
  /\ UNCHANGED <<context, category, old, raised, origin>>

\* recordWarning, up to the first read of the counter.
RecordWarning(t, c) ==
  /\ raised[c] < MaxRaises
  /\ Step(t, "work", "count")
  /\ raised' = [raised EXCEPT ![c] = @ + 1]
  /\ category' = [category EXCEPT ![t] = c]
  /\ old' = [old EXCEPT ![t] = context.count[c]]
  /\ UNCHANGED <<context, origin>>

\* saturatingIncrement: a compare-and-swap of the counter from the value last
\* seen, until it succeeds; a counter at its limit sets the overflow instead.
Saturated(t) ==
  /\ old[t] = MaxCount
  /\ Step(t, "count", "sample")
  /\ context' = [context EXCEPT !.overflow[category[t]] = TRUE]
  /\ old' = [old EXCEPT ![t] = 0]
  /\ UNCHANGED <<category, raised, origin>>

Expected(t) == context.count[category[t]] = old[t]
Increment(t) ==
  /\ old[t] # MaxCount /\ Expected(t)
  /\ Step(t, "count", "sample")
  /\ context' = [context EXCEPT !.count[category[t]] = old[t] + 1]
  /\ old' = [old EXCEPT ![t] = 0]
  /\ UNCHANGED <<category, raised, origin>>

Seen(t) == context.count[category[t]]
Retry(t) ==
  /\ old[t] # MaxCount /\ ~Expected(t)
  /\ Step(t, "count", "count")
  /\ old' = [old EXCEPT ![t] = Seen(t)]
  /\ UNCHANGED <<context, category, raised, origin>>

\* The first to claim the sample writes it, the others go on.
ClaimSample(t) ==
  LET c == category[t]
  IN /\ Step(t, "sample", IF context.claimed[c] THEN "work" ELSE "write")
     /\ context' = [context EXCEPT !.claimed[c] = TRUE]
     /\ origin' = IF context.claimed[c] THEN origin
                  ELSE [origin EXCEPT !.sample[c] = Head(stream).operation]
     /\ UNCHANGED <<category, old, raised>>

WriteSample(t) ==
  /\ Step(t, "write", "work")
  /\ context' = [context EXCEPT !.sample[category[t]] = context.operation]
  /\ UNCHANGED <<category, old, raised, origin>>

\* recordFatal, in the same way.
RecordFatal(t) ==
  /\ raised[Fatal] < MaxFatals
  /\ Step(t, "work", IF context.claim THEN "work" ELSE "latch")
  /\ raised' = [raised EXCEPT ![Fatal] = @ + 1]
  /\ context' = [context EXCEPT !.claim = TRUE]
  /\ origin' = IF context.claim THEN origin
               ELSE [origin EXCEPT !.fatal = Head(stream).operation, !.kernel = ended]
  /\ UNCHANGED <<category, old>>

WriteFatal(t) ==
  /\ Step(t, "latch", "work")
  /\ context' = [context EXCEPT !.fatal = context.operation]
  /\ UNCHANGED <<category, old, raised, origin>>

\* A process that has stopped takes its kernels with it.
Device ==
  /\ host # "stopped"
  /\ \/ Begin \/ StartKernel \/ EndKernel
     \/ \E b \in Blocks : BlockEnters(b)
     \/ \E t \in Threads :
          \/ Return(t) \/ \E c \in Categories : RecordWarning(t, c)
          \/ Saturated(t) \/ Increment(t) \/ Retry(t)
          \/ ClaimSample(t) \/ WriteSample(t)
          \/ RecordFatal(t) \/ WriteFatal(t)

-----------------------------------------------------------------------------
(* The owner on the host.                                                    *)

Plus(r, s) == [part \in DOMAIN r |-> [c \in Categories |-> r[part][c] + s[part][c]]]

\* consumeCompletedSnapshot: what a context has more than was seen before goes
\* to the report, and its fatal, unless there is one already.
NewCount(o, s) == [c \in Categories |-> s.count[c] - o.seen[c]]
Consumed(o, s) ==
  LET overflows == [c \in Categories |->
                     IF s.overflow[c] /\ ~o.overflowSeen[c] THEN 1 ELSE 0]
  IN [o EXCEPT !.report = Plus(@, [count |-> NewCount(o, s), overflows |-> overflows]),
               !.seen = s.count, !.overflowSeen = s.overflow,
               !.fatal = IF @ = None /\ s.claim THEN s.fatal ELSE @]

\* recordCudaFailure and recordHostFatal: the first fatal stays here too.
Failed(o) == IF o.fatal = None THEN [o EXCEPT !.fatal = o.sequence] ELSE o

\* dispatchPending, and what the call then returns.  The sink for a fatal does
\* not return; without a sink the report waits for the caller to collect it.
Dispatch(o, failed) ==
  /\ owner' = IF sink THEN [o EXCEPT !.report = NoReport] ELSE o
  /\ delivered' = IF sink THEN Plus(delivered, o.report) ELSE delivered
  /\ host' = IF o.fatal # None THEN IF sink THEN "stopped" ELSE "failed"
             ELSE IF failed THEN "failed" ELSE host

Fault == faults < MaxFaults /\ faults' = faults + 1

\* A launch that fails makes its caller stop.
Submit(entry) ==
  \/ stream' = Append(stream, entry) /\ UNCHANGED <<host, faults>>
  \/ Fault /\ host' = "failed" /\ UNCHANGED stream

\* SetDiagnosticOperation: the host's stamp at once, the device's in its turn.
SetOperation ==
  /\ host = "running" /\ owner.sequence < MaxOperations
  /\ owner' = [owner EXCEPT !.sequence = @ + 1]
  /\ Submit([kind |-> "begin", operation |-> owner.sequence + 1])
  /\ UNCHANGED <<context, ended, threadVars, raised, origin, staging, sink, delivered, launched>>

Launch(kind) ==
  /\ host = "running" /\ launched < MaxKernels
  /\ launched' = launched + 1
  /\ Submit([kind |-> kind, operation |-> owner.sequence])
  /\ UNCHANGED <<context, ended, threadVars, raised, origin, owner, staging, sink, delivered>>

\* observeCompletedWork: a copy that waits for all the work before it.  If it
\* fails, the staging area holds what it held or what was copied.
Completed == stream = <<>>
Copied(s) == Completed /\ s = context
Uncopied(s) == Fault /\ (s = staging \/ Copied(s))

\* completeReadback: an earlier copy of the same call may have failed as well.
CompleteReadback ==
  /\ host = "running"
  /\ \E s \in {staging, context} :
       /\ staging' = s
       /\ \/ Copied(s) /\ UNCHANGED faults /\ Dispatch(Consumed(owner, s), FALSE)
          \/ Copied(s) /\ Fault /\ Dispatch(Consumed(owner, s), TRUE)
          \/ Uncopied(s) /\ Dispatch(Consumed(Failed(owner), s), TRUE)
  /\ UNCHANGED <<deviceVars, sink, launched>>

\* The Courant readback returns at a failed copy before it has dispatched.
CourantReadback ==
  /\ host = "running"
  /\ \E s \in {staging, context} :
       /\ staging' = s
       /\ \/ Copied(s) /\ UNCHANGED faults /\ Dispatch(Consumed(owner, s), FALSE)
          \/ /\ Uncopied(s) /\ host' = "failed"
             /\ owner' = Consumed(Failed(owner), s) /\ UNCHANGED delivered
  /\ UNCHANGED <<deviceVars, sink, launched>>

\* An upload the host refuses.
RefuseUpload ==
  /\ host = "running" /\ Fault
  /\ Dispatch(Failed(owner), TRUE)
  /\ UNCHANGED <<deviceVars, staging, sink, launched>>

\* CollectDiagnostics: finish hands the report over, once, and the sink gets it
\* too if there is one.
Collect ==
  /\ host \in {"running", "failed"}
  /\ owner' = [owner EXCEPT !.report = NoReport]
  /\ delivered' = Plus(delivered, owner.report)
  /\ host' = IF owner.fatal = None THEN host ELSE IF sink THEN "stopped" ELSE "failed"
  /\ UNCHANGED <<deviceVars, staging, sink, launched, faults>>

\* Release and ReleaseDiagnostics: a last readback and dispatch; the second
\* hands what is then left to the caller.
Release(collects) ==
  /\ host \in {"running", "failed"}
  /\ \E s \in {staging, context} :
       /\ staging' = s
       /\ \E o \in {Consumed(owner, s), Consumed(Failed(owner), s)} :
            /\ \/ Copied(s) /\ o = Consumed(owner, s) /\ UNCHANGED faults
               \/ Uncopied(s) /\ o = Consumed(Failed(owner), s)
            /\ owner' = IF sink \/ collects THEN [o EXCEPT !.report = NoReport] ELSE o
            /\ delivered' = IF sink \/ collects THEN Plus(delivered, o.report) ELSE delivered
            /\ host' = IF sink /\ o.fatal # None THEN "stopped" ELSE "released"
  /\ UNCHANGED <<deviceVars, sink, launched>>

Ended ==
  /\ host = "stopped" \/ (host = "released" /\ Completed)
  /\ UNCHANGED vars

Next ==
  \/ Device
  \/ SetOperation \/ \E kind \in {"guarded", "plain"} : Launch(kind)
  \/ CompleteReadback \/ CourantReadback \/ RefuseUpload \/ Collect
  \/ \E collects \in BOOLEAN : Release(collects)
  \/ Ended

\* Of the host nothing is assumed; the device works as long as it can.
Spec == Init /\ [][Next]_vars /\ WF_vars(Device)

-----------------------------------------------------------------------------
\* Whatever the order of the threads' compare-and-swaps, a counter nobody is
\* in the middle of has every warning raised up to its limit, and the overflow
\* is set exactly if there were more (saturatingIncrement).
CountsExact ==
  \A c \in Categories :
    (\A t \in Threads : pc[t] = "count" => category[t] # c) =>
      /\ context.count[c] = Smaller(raised[c], MaxCount)
      /\ context.overflow[c] <=> raised[c] > MaxCount

\* Although a claim comes before what it claims is written, the host never has
\* a counted warning without its sample or a latch without its record, and all
\* carry the operation they were raised in, however far the host was ahead.
EvidenceWhole ==
  /\ \A c \in Categories :
       staging.count[c] # 0 => staging.sample[c] = origin.sample[c] /\ staging.sample[c] # None
  /\ staging.claim => staging.fatal = origin.fatal /\ staging.fatal # None
  /\ owner.fatal # None /\ faults = 0 => owner.fatal = origin.fatal

\* No guarded kernel works once an earlier kernel has latched a fatal, although
\* nobody waits for the host to see it.
StoppedAfterFatal ==
  Running({"guarded"}) /\ origin.kernel # None /\ ended > origin.kernel =>
    \A t \in Threads : pc[t] \in {"idle", "entry", "done"}

\* Every warning seen is delivered once or still in the owner's report, over any
\* number of readbacks, failed ones included; after a release without faults all
\* have been seen.
ReportedOnce ==
  LET reports == Plus(delivered, owner.report)
  IN \A c \in Categories :
       /\ reports.count[c] = owner.seen[c]
       /\ reports.overflows[c] = IF owner.overflowSeen[c] THEN 1 ELSE 0
       /\ host = "released" /\ faults = 0 => owner.seen[c] = Smaller(raised[c], MaxCount)

\* All that was submitted ends, unless the process does: no thread is kept in
\* the loop of an increment.
Drains == []<>(Completed \/ host = "stopped")
=============================================================================
