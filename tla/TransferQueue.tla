---------------------------- MODULE TransferQueue ----------------------------
(***************************************************************************)
(* The transfer queue of a CUDA owner: uploads and downloads are staged in *)
(* reusable pinned memory and copied by an asynchronous stream; a download *)
(* reaches its destination only when the whole operation has finished      *)
(* (applications/CHMT/gpu/HostTransferQueue.H), used as the gas storage    *)
(* uses it (applications/CHMT/gpu/SharedGasDeviceStorage.cuh): uploads     *)
(* before reads, one finish(), and the first failed call ends the          *)
(* operation, whose destinations are then gone.                            *)
(*                                                                         *)
(* A call is an operator that gives the set of its possible results: what  *)
(* it returns and the queue it leaves.  Every CUDA call may fail, an       *)
(* allocation of host memory may throw.  The stream copies at its own pace.*)
(***************************************************************************)
EXTENDS Integers, Sequences

CONSTANTS
  Cells,          \* device arrays
  Sizes,          \* the numbers of bytes a call may move
  MaxOperations,  \* bound: operations the owner starts
  MaxCalls,       \* bound: transfers of one operation
  MaxFaults       \* bound: calls that fail

ASSUME SizesAssumption == Sizes \subseteq Nat
ASSUME BoundsAssumption == MaxOperations \in Nat /\ MaxCalls \in Nat /\ MaxFaults \in Nat

VARIABLES
  queue,      \* slots, used, failed, readbacks of the queue; its stream and the
              \* copies in it; the device memory; the faults so far
  operation,  \* the running operation
  outcome,    \* per operation: "open", "done" or "failed"
  calls,      \* transfers of the running operation
  ordered,    \* what the device holds once the copies queued so far have run
  expected,   \* per operation: the contents its downloads should bring
  delivered   \* per operation: what is written to their destinations

vars == <<queue, operation, outcome, calls, ordered, expected, delivered>>

Operations == 1 .. MaxOperations
Nothing == -1      \* a destination nothing is written to
Released == -2     \* memory that has been freed

Init ==
  /\ queue = [slots |-> <<>>, used |-> 0, failed |-> FALSE, readbacks |-> <<>>,
              stream |-> <<>>, device |-> [c \in Cells |-> 0], faults |-> 0]
  /\ operation = 0
  /\ outcome = [o \in Operations |-> "open"]
  /\ calls = 0
  /\ ordered = [c \in Cells |-> 0]
  /\ expected = [o \in Operations |-> <<>>]
  /\ delivered = [o \in Operations |-> <<>>]

Returns(value, q) == {[ok |-> value, queue |-> q]}
MayFail(q) == IF q.faults < MaxFaults THEN Returns(FALSE, [q EXCEPT !.faults = @ + 1]) ELSE {}

-----------------------------------------------------------------------------
\* One copy of the stream, between a staging slot and a device array.
Copied(q, copy) ==
  IF copy.kind = "upload"
  THEN [q EXCEPT !.device[copy.cell] = q.slots[copy.slot].content]
  ELSE [q EXCEPT !.slots[copy.slot].content = q.device[copy.cell]]

\* cudaStreamSynchronize: the host waits until every queued copy has run.
Completed(q) == q.stream = <<>>
Synchronize(q) == (IF Completed(q) THEN Returns(TRUE, q) ELSE {}) \cup MayFail(q)

\* The staging is handed out again although copies may still be in flight.
DrainIgnoringFailure(q) ==
  {[ok |-> r.ok, queue |-> [r.queue EXCEPT !.used = 0, !.failed = FALSE]]
     : r \in Synchronize([q EXCEPT !.readbacks = <<>>])}

\* drain.
Drain(q) ==
  {IF r.ok THEN [ok |-> TRUE, queue |-> [r.queue EXCEPT !.used = 0, !.failed = FALSE]]
           ELSE r
     : r \in Synchronize([q EXCEPT !.readbacks = <<>>])}

\* Slot i, of at least the given capacity; the memory of a smaller one is freed,
\* and may have been freed too when that call reports an error.
Grown(q, i, bytes) ==
  LET slots == IF i > Len(q.slots) THEN Append(q.slots, [capacity |-> 0, content |-> Released])
                                   ELSE q.slots
      bigger == [slots EXCEPT ![i] = [capacity |-> bytes, content |-> Released]]
      empty == [q EXCEPT !.slots = slots]
  IN IF bytes <= slots[i].capacity THEN Returns(TRUE, empty)
     ELSE Returns(TRUE, [q EXCEPT !.slots = bigger])
          \cup MayFail(empty)
          \cup (IF slots[i].capacity > 0 THEN MayFail([empty EXCEPT !.failed = TRUE]) ELSE {})

\* acquire: a failed queue is drained first.
Acquire(q, bytes) ==
  UNION {IF ~r.ok THEN {r} ELSE
         {IF a.ok THEN [a EXCEPT !.queue.used = @ + 1] ELSE a
            : a \in Grown(r.queue, r.queue.used + 1, bytes)}
           : r \in IF q.failed THEN Drain(q) ELSE Returns(TRUE, q)}

\* cudaMemcpyAsync on the slot acquired last.
Enqueue(q, kind, c) ==
  Returns(TRUE, [q EXCEPT !.stream = Append(@, [kind |-> kind, slot |-> q.used, cell |-> c])])
  \cup MayFail([q EXCEPT !.failed = TRUE])

\* bad_alloc out of a vector of the queue: drained, and thrown on.
Throws(q) == {[r EXCEPT !.ok = FALSE] : r \in UNION {Drain(f.queue) : f \in MayFail(q)}}

Stage(q, content) == [q EXCEPT !.slots[q.used].content = content]
UploadBytes(q, c, bytes, content) ==
  IF bytes = 0 THEN Returns(~q.failed, q) ELSE
  (UNION {IF a.ok THEN Enqueue(Stage(a.queue, content), "upload", c) ELSE {a}
            : a \in Acquire(q, bytes)})
  \cup Throws(q)

Note(q, destination) == [q EXCEPT !.readbacks = Append(@, [to |-> destination, slot |-> q.used])]
DownloadBytes(q, c, bytes, destination) ==
  IF bytes = 0 THEN Returns(~q.failed, q) ELSE
  (UNION {IF a.ok THEN Enqueue(Note(a.queue, destination), "download", c) ELSE {a}
            : a \in Acquire(q, bytes)})
  \cup Throws(q)

\* finish, up to the publication of the readbacks (Publish below).
FinishTransfers(q) ==
  UNION {IF s.ok /\ ~q.failed THEN Returns(TRUE, [s.queue EXCEPT !.used = 0, !.readbacks = <<>>])
         ELSE Returns(FALSE, [s.queue EXCEPT !.failed = ~s.ok, !.readbacks = <<>>,
                                             !.used = IF s.ok THEN 0 ELSE @])
           : s \in Synchronize(q)}

-----------------------------------------------------------------------------
(***************************************************************************)
(* The owner.                                                              *)
(***************************************************************************)
Running == operation \in Operations /\ outcome[operation] = "open"

Begin ==
  /\ ~Running
  /\ operation < MaxOperations
  /\ operation' = operation + 1
  /\ calls' = 0
  /\ UNCHANGED <<queue, outcome, ordered, expected, delivered>>

Close(result) == outcome' = [outcome EXCEPT ![operation] = result]

\* write, uploadBuffer: each upload brings something new, which the caller may
\* change or free as soon as the call has returned.
Write(c, bytes) ==
  /\ Running
  /\ expected[operation] = <<>>
  /\ calls < MaxCalls
  /\ calls' = calls + 1
  /\ LET content == MaxCalls * operation + calls
     IN \E r \in UploadBytes(queue, c, bytes, content) :
          /\ queue' = r.queue
          /\ ordered' = IF r.ok /\ bytes > 0 THEN [ordered EXCEPT ![c] = content] ELSE ordered
          /\ IF r.ok THEN UNCHANGED outcome ELSE Close("failed")
  /\ UNCHANGED <<operation, expected, delivered>>

Destination == [operation |-> operation, index |-> Len(expected[operation]) + 1]

ReadOutcome(r, c, bytes) ==
  /\ queue' = r.queue
  /\ calls' = calls + 1
  /\ IF r.ok THEN UNCHANGED outcome ELSE Close("failed")
  /\ IF r.ok /\ bytes > 0
     THEN /\ expected' = [expected EXCEPT ![operation] = Append(@, ordered[c])]
          /\ delivered' = [delivered EXCEPT ![operation] = Append(@, Nothing)]
     ELSE UNCHANGED <<expected, delivered>>
  /\ UNCHANGED <<operation, ordered>>

\* The failed read leaves the earlier ones of the operation in the queue.
ReadWithoutDraining(c, bytes) ==
  /\ Running
  /\ calls < MaxCalls
  /\ \E r \in DownloadBytes(queue, c, bytes, Destination) : ReadOutcome(r, c, bytes)

\* enqueueRead.
Read(c, bytes) ==
  /\ Running
  /\ calls < MaxCalls
  /\ \E r \in DownloadBytes(queue, c, bytes, Destination) :
       IF r.ok THEN ReadOutcome(r, c, bytes)
       ELSE \E d \in Drain(r.queue) : ReadOutcome([d EXCEPT !.ok = FALSE], c, bytes)

\* The readbacks are copied from the staging to their destinations.
Publish(readbacks, slots) ==
  delivered' = [o \in Operations |-> [i \in DOMAIN delivered[o] |->
    LET found == {k \in DOMAIN readbacks : readbacks[k].to = [operation |-> o, index |-> i]}
    IN IF found = {} THEN delivered[o][i]
                     ELSE slots[readbacks[CHOOSE k \in found : TRUE].slot].content]]

\* What the staging holds before the copies have run is published.
ObserveWithoutWaiting ==
  /\ Running
  /\ ~queue.failed
  /\ queue' = [queue EXCEPT !.used = 0, !.readbacks = <<>>]
  /\ Publish(queue.readbacks, queue.slots)
  /\ Close("done")
  /\ UNCHANGED <<operation, calls, ordered, expected>>

\* observeDiagnostics: the completion point of the operation.  (Its read of the
\* diagnostic record is one of the Reads.)  When the record holds a fatal report
\* the operation fails although its readbacks are at their destinations.
Observe ==
  /\ Running
  /\ \E r \in FinishTransfers(queue), fatal \in BOOLEAN :
       /\ queue' = r.queue
       /\ Close(IF r.ok /\ ~fatal THEN "done" ELSE "failed")
       /\ IF r.ok THEN Publish(queue.readbacks, r.queue.slots) ELSE UNCHANGED delivered
  /\ UNCHANGED <<operation, calls, ordered, expected>>

\* The operation ends early, with no read in the queue: a launch has failed.
Abandon ==
  /\ Running
  /\ expected[operation] = <<>>
  /\ Close("failed")
  /\ UNCHANGED <<queue, operation, calls, ordered, expected, delivered>>

\* The stream runs its next copy.
Copy ==
  /\ queue.stream # <<>>
  /\ queue' = [Copied(queue, Head(queue.stream)) EXCEPT !.stream = Tail(@)]
  /\ UNCHANGED <<operation, outcome, calls, ordered, expected, delivered>>

Finished == operation = MaxOperations /\ ~Running /\ queue.stream = <<>> /\ UNCHANGED vars

Next ==
  \/ Begin
  \/ \E c \in Cells, bytes \in Sizes : Write(c, bytes) \/ Read(c, bytes)
  \/ Observe
  \/ Abandon
  \/ Copy
  \/ Finished

Spec == Init /\ [][Next]_vars
-----------------------------------------------------------------------------
\* Staging with a copy in flight is not handed out again, not after a failed
\* synchronization either: the stream's copies use slots of their own.
StagingNotShared ==
  \A i, j \in DOMAIN queue.stream :
    i # j => queue.stream[i].slot # queue.stream[j].slot

\* Once the stream is empty the device holds what was uploaded last to each
\* array, whatever has failed in between.
UploadsArrive == queue.stream = <<>> => queue.device = ordered

\* Nothing an upload reads is written before it has been read, so that all of
\* them deliver what their operations staged.
UploadsIntact == StagingNotShared /\ UploadsArrive

Full(o) == delivered[o] = expected[o]
Empty(o) == \A i \in DOMAIN delivered[o] : delivered[o][i] = Nothing

\* The destinations of an operation hold every download it asked for, with the
\* contents at its place among the transfers, or nothing at all: everything once
\* it has succeeded, nothing while it runs.  One that fails has brought nothing,
\* or everything if a fatal report came with it, and never some of it.
AllOrNothing ==
  \A o \in Operations :
    /\ outcome[o] = "done" => Full(o)
    /\ outcome[o] = "open" => Empty(o)
    /\ outcome[o] = "failed" => Full(o) \/ Empty(o)

\* Nothing is ever written to a destination of an operation that is over.
ClosedStayUntouched ==
  [][\A o \in Operations : outcome[o] # "open" => delivered'[o] = delivered[o]]_vars
=============================================================================
