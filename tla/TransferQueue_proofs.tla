------------------------ MODULE TransferQueue_proofs ------------------------
(***************************************************************************)
(* Proofs about TransferQueue, for any number of device arrays, operations *)
(* and transfers, any sizes and any number of failing calls: no staging is *)
(* shared, every upload arrives as it was staged, and an operation brings  *)
(* all of its downloads or none of them, and nothing after it is over.     *)
(***************************************************************************)
EXTENDS TransferQueue, SequenceTheorems, TLAPS

Slots == [capacity : Nat, content : Int]
Copies == [kind : {"upload", "download"}, slot : Nat, cell : Cells]
Destinations == [operation : Nat, index : Nat]
Readbacks == [to : Destinations, slot : Nat]
Queues ==
  [slots : Seq(Slots), used : Nat, failed : BOOLEAN, readbacks : Seq(Readbacks),
   stream : Seq(Copies), device : [Cells -> Int], faults : Nat]

\* The copies in flight use slots that are in use, each its own.
Disjoint(q) ==
  /\ q.used =< Len(q.slots)
  /\ \A i \in 1 .. Len(q.stream) : q.stream[i].slot \in 1 .. q.used
  /\ \A i, j \in 1 .. Len(q.stream) : i # j => q.stream[i].slot # q.stream[j].slot

Uploads(copy, c) == copy.kind = "upload" /\ copy.cell = c

\* The copies after the first i leave the array of that copy alone.
Settled(q, i) ==
  \A j \in i + 1 .. Len(q.stream) : ~Uploads(q.stream[j], q.stream[i].cell)

\* The last upload to an array carries what the array shall hold, and an array
\* without one in flight holds it.
Underway(q, held) ==
  /\ \A i \in 1 .. Len(q.stream) :
       q.stream[i].kind = "upload" /\ Settled(q, i) =>
         q.slots[q.stream[i].slot].content = held[q.stream[i].cell]
  /\ \A c \in Cells :
       (\A i \in 1 .. Len(q.stream) : ~Uploads(q.stream[i], c)) => q.device[c] = held[c]

QueueInv(q, held) == q \in Queues /\ Disjoint(q) /\ Underway(q, held)

\* What a readback shall bring is in its slot, or comes there by a copy that
\* nothing in flight can spoil.
Arrived(q, k, content) ==
  LET s == q.readbacks[k].slot
  IN  /\ q.slots[s].content = content
      /\ \A i \in 1 .. Len(q.stream) : q.stream[i].slot # s
Arriving(q, held, k, content) ==
  \E i \in 1 .. Len(q.stream) :
    /\ q.stream[i].kind = "download" /\ q.stream[i].slot = q.readbacks[k].slot
    /\ Settled(q, i) /\ content = held[q.stream[i].cell]

Fetching(q, held, o, wanted) ==
  /\ Len(q.readbacks) = Len(wanted)
  /\ \A k \in 1 .. Len(wanted) :
       /\ q.readbacks[k].to = [operation |-> o, index |-> k]
       /\ q.readbacks[k].slot \in 1 .. q.used
       /\ Arrived(q, k, wanted[k]) \/ Arriving(q, held, k, wanted[k])

Types ==
  /\ operation \in 0 .. MaxOperations
  /\ outcome \in [Operations -> {"open", "done", "failed"}]
  /\ calls \in Nat
  /\ ordered \in [Cells -> Int]
  /\ expected \in [Operations -> Seq(Int)] /\ delivered \in [Operations -> Seq(Int)]

\* Operations come one after the other; readbacks are of the one that runs.
Owner ==
  /\ \A o \in Operations : Len(delivered[o]) = Len(expected[o])
  /\ \A o \in Operations : o > operation => outcome[o] = "open" /\ expected[o] = <<>>
  /\ AllOrNothing
  /\ IF Running THEN /\ Fetching(queue, ordered, operation, expected[operation])
                     /\ expected[operation] # <<>> => ~queue.failed
                ELSE queue.readbacks = <<>>

TransferInv == Types /\ QueueInv(queue, ordered) /\ Owner

-----------------------------------------------------------------------------
(* The calls of the queue.                                                   *)
LEMMA QueueParts ==
  ASSUME NEW q \in Queues
  PROVE  /\ q.slots \in Seq(Slots) /\ q.used \in Nat /\ q.failed \in BOOLEAN
         /\ q.readbacks \in Seq(Readbacks) /\ q.stream \in Seq(Copies)
         /\ q.device \in [Cells -> Int] /\ q.faults \in Nat
         /\ Len(q.slots) \in Nat /\ Len(q.stream) \in Nat /\ Len(q.readbacks) \in Nat
         /\ \A i \in 1 .. Len(q.slots) : q.slots[i] \in Slots /\ q.slots[i].capacity \in Nat
                                         /\ q.slots[i].content \in Int
         /\ \A i \in 1 .. Len(q.stream) : q.stream[i] \in Copies /\ q.stream[i].cell \in Cells
                                          /\ q.stream[i].slot \in Nat
         /\ \A k \in 1 .. Len(q.readbacks) : q.readbacks[k].slot \in Nat
<1>1. /\ q.slots \in Seq(Slots) /\ q.used \in Nat /\ q.failed \in BOOLEAN
      /\ q.readbacks \in Seq(Readbacks) /\ q.stream \in Seq(Copies)
      /\ q.device \in [Cells -> Int] /\ q.faults \in Nat
  BY DEF Queues
<1>2. Len(q.slots) \in Nat /\ Len(q.stream) \in Nat /\ Len(q.readbacks) \in Nat
  BY <1>1, LenProperties
<1>3. /\ \A i \in 1 .. Len(q.slots) : q.slots[i] \in Slots
      /\ \A i \in 1 .. Len(q.stream) : q.stream[i] \in Copies
      /\ \A k \in 1 .. Len(q.readbacks) : q.readbacks[k] \in Readbacks
  BY <1>1, ElementOfSeq
<1>4. /\ \A s \in Slots : s.capacity \in Nat /\ s.content \in Int
      /\ \A s \in Copies : s.cell \in Cells /\ s.slot \in Nat
      /\ \A s \in Readbacks : s.slot \in Nat
  BY DEF Slots, Copies, Readbacks
<1> QED BY <1>1, <1>2, <1>3, <1>4

\* A queue with the same copies in flight and the same staging in use.
Same(q, p) ==
  /\ p \in Queues /\ p.stream = q.stream /\ p.device = q.device
  /\ q.used =< p.used /\ p.used =< Len(p.slots)
  /\ \A i \in 1 .. q.used : p.slots[i].content = q.slots[i].content

LEMMA SameKeeps ==
  ASSUME NEW q, NEW held, QueueInv(q, held), NEW p, Same(q, p)
  PROVE  /\ QueueInv(p, held)
         /\ \A o, wanted : Fetching(q, held, o, wanted) /\ p.readbacks = q.readbacks
                             => Fetching(p, held, o, wanted)
<1>1. q \in Queues /\ p \in Queues /\ q.used \in Nat /\ p.used \in Nat
  BY QueueParts DEF QueueInv, Same
<1>2. 1 .. q.used \subseteq 1 .. p.used BY <1>1 DEF Same
<1>3. Disjoint(p) BY <1>2 DEF QueueInv, Disjoint, Same
<1>4. \A i \in 1 .. Len(q.stream) : Settled(p, i) <=> Settled(q, i) BY DEF Settled, Same
<1>5. Underway(p, held)
  <2>1. \A i \in 1 .. Len(q.stream) : q.stream[i].slot \in 1 .. q.used
    BY DEF QueueInv, Disjoint
  <2>2. \A i \in 1 .. Len(p.stream) :
          p.stream[i].kind = "upload" /\ Settled(p, i) =>
            p.slots[p.stream[i].slot].content = held[p.stream[i].cell]
    BY <1>4, <2>1 DEF QueueInv, Underway, Same
  <2>3. \A c \in Cells :
          (\A i \in 1 .. Len(p.stream) : ~Uploads(p.stream[i], c)) => p.device[c] = held[c]
    BY DEF QueueInv, Underway, Same
  <2> QED BY <2>2, <2>3 DEF Underway
<1>6. ASSUME NEW o, NEW wanted, Fetching(q, held, o, wanted), p.readbacks = q.readbacks
      PROVE  Fetching(p, held, o, wanted)
  <2>1. ASSUME NEW k \in 1 .. Len(wanted)
        PROVE  /\ p.readbacks[k].slot \in 1 .. p.used
               /\ Arrived(p, k, wanted[k]) \/ Arriving(p, held, k, wanted[k])
    <3>1. /\ q.readbacks[k].slot \in 1 .. q.used
          /\ Arrived(q, k, wanted[k]) \/ Arriving(q, held, k, wanted[k])
      BY <1>6 DEF Fetching
    <3>2. CASE Arrived(q, k, wanted[k])
      BY <3>1, <3>2, <1>2, <1>6 DEF Arrived, Same
    <3>3. CASE Arriving(q, held, k, wanted[k])
      BY <3>1, <3>3, <1>2, <1>4, <1>6 DEF Arriving, Same
    <3> QED BY <3>1, <3>2, <3>3
  <2> QED BY <2>1, <1>6 DEF Fetching
<1> QED BY <1>1, <1>3, <1>5, <1>6 DEF QueueInv

\* Without copies in flight all staging may be handed out again.
LEMMA StillKeeps ==
  ASSUME NEW q, NEW held, QueueInv(q, held), q.stream = <<>>,
         NEW p \in Queues, p.stream = <<>>, p.device = q.device, p.used =< Len(p.slots)
  PROVE  QueueInv(p, held)
<1>1. Len(<<>>) = 0 BY EmptySeq
<1> QED BY <1>1 DEF QueueInv, Disjoint, Underway

LEMMA FailureKeeps ==
  ASSUME NEW q \in Queues, NEW r, r \in MayFail(q)
  PROVE  /\ r = [ok |-> FALSE, queue |-> r.queue]
         /\ r.ok = FALSE /\ r.queue = [q EXCEPT !.faults = @ + 1] /\ r.queue \in Queues
<1>1. r = [ok |-> FALSE, queue |-> [q EXCEPT !.faults = @ + 1]]
  BY DEF MayFail, Returns
<1>2. [q EXCEPT !.faults = @ + 1] \in Queues
  <2> DEFINE n == q.faults + 1
  <2>1. n \in Nat BY QueueParts
  <2> HIDE DEF n
  <2>2. [q EXCEPT !.faults = n] \in Queues BY <2>1 DEF Queues
  <2>3. [q EXCEPT !.faults = @ + 1] = [q EXCEPT !.faults = n] BY DEF n
  <2> QED BY <2>2, <2>3
<1> QED BY <1>1, <1>2

LEMMA SynchronizeKeeps ==
  ASSUME NEW q \in Queues, NEW r, r \in Synchronize(q)
  PROVE  /\ r = [ok |-> r.ok, queue |-> r.queue]
         /\ \/ r.ok = TRUE /\ r.queue = q /\ q.stream = <<>>
            \/ r.ok = FALSE /\ r.queue = [q EXCEPT !.faults = @ + 1] /\ r.queue \in Queues
<1>1. CASE r \in MayFail(q) BY <1>1, FailureKeeps
<1>2. CASE r \notin MayFail(q)
  <2>1. Completed(q) /\ r = [ok |-> TRUE, queue |-> q] BY <1>2 DEF Synchronize, Returns
  <2> QED BY <2>1 DEF Completed
<1> QED BY <1>1, <1>2

LEMMA DrainKeeps ==
  ASSUME NEW q, NEW held, QueueInv(q, held), NEW r, r \in Drain(q)
  PROVE  /\ QueueInv(r.queue, held) /\ r.queue.readbacks = <<>> /\ r.ok \in BOOLEAN
         /\ r.ok => r.queue.stream = <<>> /\ r.queue.used = 0 /\ ~r.queue.failed
         /\ r = [ok |-> r.ok, queue |-> r.queue]
<1> DEFINE p == [q EXCEPT !.readbacks = <<>>]
<1>1. q \in Queues /\ <<>> \in Seq(Readbacks) BY EmptySeq DEF QueueInv
<1>2. p \in Queues BY <1>1 DEF Queues
<1>3. /\ p.readbacks = <<>> /\ p.stream = q.stream /\ p.device = q.device
      /\ p.slots = q.slots /\ p.used = q.used
  BY <1>1 DEF Queues
<1> HIDE DEF p
<1>4. Same(q, p) BY <1>1, <1>2, <1>3, QueueParts DEF Same, QueueInv, Disjoint
<1>5. QueueInv(p, held) BY <1>4, SameKeeps
<1>6. PICK s \in Synchronize(p) :
        r = IF s.ok THEN [ok |-> TRUE, queue |-> [s.queue EXCEPT !.used = 0, !.failed = FALSE]]
                    ELSE s
  BY DEF Drain, p
<1>7. CASE s.ok = TRUE /\ s.queue = p /\ p.stream = <<>>
  <2>1. r = [ok |-> TRUE, queue |-> [p EXCEPT !.used = 0, !.failed = FALSE]] BY <1>6, <1>7
  <2>2. /\ r.queue \in Queues /\ r.queue.used = 0 /\ r.queue.failed = FALSE
        /\ r.queue.stream = p.stream /\ r.queue.device = p.device /\ r.queue.slots = p.slots
        /\ r.queue.readbacks = <<>>
    BY <2>1, <1>2, <1>3 DEF Queues
  <2>3. 0 =< Len(p.slots) BY <1>2, QueueParts
  <2>4. QueueInv(r.queue, held) BY <2>2, <2>3, <1>5, <1>7, StillKeeps
  <2> QED BY <2>1, <2>2, <2>4, <1>7
<1>8. CASE s.ok = FALSE /\ s.queue = [p EXCEPT !.faults = @ + 1] /\ s.queue \in Queues
  <2>1. r = s BY <1>6, <1>8
  <2>2. /\ r.queue.stream = p.stream /\ r.queue.device = p.device /\ r.queue.slots = p.slots
        /\ r.queue.used = p.used /\ r.queue.readbacks = <<>>
    BY <2>1, <1>2, <1>3, <1>8 DEF Queues
  <2>3. Same(p, r.queue)
    BY <2>1, <2>2, <1>2, <1>5, <1>8, QueueParts DEF Same, QueueInv, Disjoint
  <2>4. QueueInv(r.queue, held) BY <2>3, <1>5, SameKeeps
  <2>5. s = [ok |-> s.ok, queue |-> s.queue] BY <1>2, SynchronizeKeeps
  <2> QED BY <2>1, <2>2, <2>4, <2>5, <1>8
<1> QED BY <1>2, <1>6, <1>7, <1>8, SynchronizeKeeps

\* The slot after those in use is there, the ones in use are left alone.
LEMMA GrownKeeps ==
  ASSUME NEW q \in Queues, q.used =< Len(q.slots), NEW bytes \in Nat,
         NEW r, r \in Grown(q, q.used + 1, bytes)
  PROVE  /\ r.ok \in BOOLEAN /\ r.queue \in Queues
         /\ r.queue.stream = q.stream /\ r.queue.device = q.device
         /\ r.queue.readbacks = q.readbacks /\ r.queue.used = q.used
         /\ q.used + 1 =< Len(r.queue.slots)
         /\ \A i \in 1 .. q.used : r.queue.slots[i].content = q.slots[i].content
         /\ r.ok => r.queue.failed = q.failed
<1> DEFINE i == q.used + 1
           new == [capacity |-> 0, content |-> Released]
           slots == IF i > Len(q.slots) THEN Append(q.slots, new) ELSE q.slots
           slot == [capacity |-> bytes, content |-> Released]
           bigger == [slots EXCEPT ![i] = slot]
           empty == [q EXCEPT !.slots = slots]
<1>1. new \in Slots /\ slot \in Slots BY DEF Slots, Released
<1>2. q.slots \in Seq(Slots) /\ Len(q.slots) \in Nat /\ q.used \in Nat BY QueueParts
<1> HIDE DEF new, slot
<1>3. /\ slots \in Seq(Slots) /\ Len(slots) \in Nat /\ i =< Len(slots)
      /\ \A j \in 1 .. q.used : slots[j] = q.slots[j]
  <2>1. CASE i > Len(q.slots)
    <3>1. slots = Append(q.slots, new) BY <2>1
    <3>2. /\ Append(q.slots, new) \in Seq(Slots) /\ Len(Append(q.slots, new)) = Len(q.slots) + 1
          /\ \A j \in 1 .. Len(q.slots) : Append(q.slots, new)[j] = q.slots[j]
      BY <1>1, <1>2, AppendProperties
    <3> HIDE DEF slots
    <3> QED BY <3>1, <3>2, <1>2
  <2>2. CASE ~(i > Len(q.slots)) BY <2>2, <1>2
  <2> QED BY <2>1, <2>2
<1> HIDE DEF slots
<1>4. /\ bigger \in Seq(Slots) /\ Len(bigger) = Len(slots)
      /\ \A j \in 1 .. q.used : bigger[j] = q.slots[j]
  <2>1. i \in 1 .. Len(slots) BY <1>2, <1>3
  <2>2. /\ bigger \in Seq(Slots) /\ Len(bigger) = Len(slots)
        /\ \A j \in 1 .. Len(slots) : bigger[j] = IF j = i THEN slot ELSE slots[j]
    BY <2>1, <1>1, <1>3, ExceptSeq
  <2> HIDE DEF bigger
  <2> QED BY <2>2, <1>2, <1>3
<1> HIDE DEF bigger
<1> DEFINE Kept(p) ==
             /\ p \in Queues
             /\ p.stream = q.stream /\ p.device = q.device
             /\ p.readbacks = q.readbacks /\ p.used = q.used
             /\ i =< Len(p.slots)
             /\ \A j \in 1 .. q.used : p.slots[j].content = q.slots[j].content
<1>5. Kept(empty) /\ empty.failed = q.failed
  <2>1. /\ empty \in Queues /\ empty.slots = slots /\ empty.failed = q.failed
        /\ empty.stream = q.stream /\ empty.device = q.device
        /\ empty.readbacks = q.readbacks /\ empty.used = q.used
    BY <1>3 DEF Queues
  <2> HIDE DEF empty
  <2> QED BY <2>1, <1>3
<1>6. Kept([q EXCEPT !.slots = bigger]) /\ [q EXCEPT !.slots = bigger].failed = q.failed
  <2> DEFINE p == [q EXCEPT !.slots = bigger]
  <2>1. /\ p \in Queues /\ p.slots = bigger /\ p.failed = q.failed
        /\ p.stream = q.stream /\ p.device = q.device
        /\ p.readbacks = q.readbacks /\ p.used = q.used
    BY <1>4 DEF Queues
  <2> HIDE DEF p
  <2>2. Kept(p) BY <2>1, <1>3, <1>4
  <2> QED BY <2>1, <2>2 DEF p
<1>7. Kept([empty EXCEPT !.failed = TRUE])
  <2> DEFINE p == [empty EXCEPT !.failed = TRUE]
  <2> HIDE DEF empty
  <2>1. /\ p \in Queues /\ p.slots = empty.slots
        /\ p.stream = empty.stream /\ p.device = empty.device
        /\ p.readbacks = empty.readbacks /\ p.used = empty.used
    BY <1>5 DEF Queues
  <2> HIDE DEF p
  <2>2. Kept(p) BY <2>1, <1>5
  <2> QED BY <2>2 DEF p
<1> HIDE DEF empty
<1>8. ASSUME NEW p, Kept(p), r \in MayFail(p)
      PROVE  r.ok = FALSE /\ Kept(r.queue)
  <2>1. r.ok = FALSE /\ r.queue = [p EXCEPT !.faults = @ + 1] /\ r.queue \in Queues
    BY <1>8, FailureKeeps
  <2>2. /\ r.queue.slots = p.slots /\ r.queue.stream = p.stream /\ r.queue.device = p.device
        /\ r.queue.readbacks = p.readbacks /\ r.queue.used = p.used
    BY <2>1, <1>8 DEF Queues
  <2> QED BY <2>1, <2>2, <1>8
<1>9. \/ r = [ok |-> TRUE, queue |-> empty]
      \/ r = [ok |-> TRUE, queue |-> [q EXCEPT !.slots = bigger]]
      \/ r \in MayFail(empty) \/ r \in MayFail([empty EXCEPT !.failed = TRUE])
  BY DEF Grown, Returns, empty, bigger, slots, new, slot
<1>10. r.ok \in BOOLEAN /\ Kept(r.queue) /\ (r.ok => r.queue.failed = q.failed)
  <2>1. CASE r = [ok |-> TRUE, queue |-> empty] BY <2>1, <1>5
  <2>2. CASE r = [ok |-> TRUE, queue |-> [q EXCEPT !.slots = bigger]]
    <3> DEFINE p == [q EXCEPT !.slots = bigger]
    <3>1. Kept(p) /\ p.failed = q.failed BY <1>6
    <3>2. r.ok = TRUE /\ r.queue = p BY <2>2
    <3> HIDE DEF p, Kept
    <3> QED BY <3>1, <3>2
  <2>3. CASE r \in MayFail(empty)
    <3> HIDE DEF Kept
    <3>1. Kept(empty) BY <1>5
    <3> QED BY <3>1, <2>3, <1>8
  <2>4. CASE r \in MayFail([empty EXCEPT !.failed = TRUE])
    <3> HIDE DEF Kept
    <3> QED BY <2>4, <1>7, <1>8
  <2> QED BY <2>1, <2>2, <2>3, <2>4, <1>9
<1> QED BY <1>10

\* A slot of its own is acquired: nothing in flight and no readback has it.
Extended(q, p) ==
  /\ p.stream = q.stream /\ p.device = q.device /\ p.readbacks = q.readbacks
  /\ \A i \in 1 .. q.used : p.slots[i].content = q.slots[i].content

LEMMA AcquireKeeps ==
  ASSUME NEW q, NEW held, QueueInv(q, held), NEW bytes \in Nat, NEW r, r \in Acquire(q, bytes)
  PROVE  /\ QueueInv(r.queue, held) /\ r.ok \in BOOLEAN
         /\ r.ok => /\ ~r.queue.failed /\ r.queue.used \in 1 .. Len(r.queue.slots)
                    /\ \A i \in 1 .. Len(r.queue.stream) :
                         r.queue.stream[i].slot \in 1 .. r.queue.used - 1
         /\ \/ q.failed /\ r.queue.readbacks = <<>>
            \/ ~q.failed /\ Extended(q, r.queue) /\ (r.ok => r.queue.used = q.used + 1)
<1>1. PICK d \in (IF q.failed THEN Drain(q) ELSE Returns(TRUE, q)) :
        r \in IF ~d.ok THEN {d} ELSE
              {IF a.ok THEN [a EXCEPT !.queue.used = @ + 1] ELSE a
                 : a \in Grown(d.queue, d.queue.used + 1, bytes)}
  BY DEF Acquire
<1> DEFINE p == d.queue
<1>2. /\ d.ok \in BOOLEAN /\ QueueInv(p, held) /\ (d.ok => ~p.failed)
      /\ \/ q.failed /\ p.readbacks = <<>>
         \/ ~q.failed /\ p = q /\ d.ok
  <2>1. CASE q.failed BY <2>1, <1>1, DrainKeeps
  <2>2. CASE ~q.failed
    <3>1. d = [ok |-> TRUE, queue |-> q] BY <2>2, <1>1 DEF Returns
    <3> QED BY <3>1, <2>2
  <2> QED BY <2>1, <2>2
<1>3. CASE ~d.ok
  <2>1. r = d /\ q.failed BY <1>1, <1>2, <1>3
  <2> QED BY <2>1, <1>2, <1>3
<1>4. CASE d.ok
  <2>1. PICK a \in Grown(p, p.used + 1, bytes) :
          r = IF a.ok THEN [a EXCEPT !.queue.used = @ + 1] ELSE a
    BY <1>1, <1>4
  <2>2. p \in Queues /\ p.used =< Len(p.slots) /\ p.used \in Nat
    BY <1>2, QueueParts DEF QueueInv, Disjoint
  <2>3. /\ a.ok \in BOOLEAN /\ a.queue \in Queues
        /\ a.queue.stream = p.stream /\ a.queue.device = p.device
        /\ a.queue.readbacks = p.readbacks /\ a.queue.used = p.used
        /\ p.used + 1 =< Len(a.queue.slots)
        /\ \A i \in 1 .. p.used : a.queue.slots[i].content = p.slots[i].content
        /\ a.ok => a.queue.failed = p.failed
    BY <2>2, GrownKeeps
  <2>4. Len(a.queue.slots) \in Nat BY <2>3, QueueParts
  <2>5. CASE a.ok
    <3> DEFINE m == p.used + 1
               n == [a.queue EXCEPT !.used = m]
    <3>0. m \in Nat /\ m - 1 = p.used /\ m \in 1 .. Len(a.queue.slots)
      BY <2>2, <2>3, <2>4
    <3>1. r.ok = TRUE /\ r.queue = n
      <4>1. r = [a EXCEPT !.queue.used = p.used + 1] BY <2>1, <2>3, <2>5
      <4>2. DOMAIN a = {"ok", "queue"} /\ a.ok = TRUE
        BY <2>5, <2>3 DEF Grown, Returns, MayFail
      <4> QED BY <4>1, <4>2
    <3> HIDE DEF m
    <3>2. /\ n \in Queues /\ n.used = m /\ n.slots = a.queue.slots
          /\ n.stream = p.stream /\ n.device = p.device /\ n.readbacks = p.readbacks
          /\ n.failed = p.failed
      BY <3>0, <2>3, <2>5 DEF Queues
    <3> HIDE DEF n
    <3>3. Same(p, n) BY <2>2, <2>3, <3>0, <3>2 DEF Same, m
    <3>4. QueueInv(n, held) BY <3>3, <1>2, SameKeeps
    <3>5. n.used \in 1 .. Len(n.slots) /\ n.used - 1 = p.used BY <3>0, <3>2
    <3>6. \A i \in 1 .. Len(n.stream) : n.stream[i].slot \in 1 .. n.used - 1
      BY <3>2, <3>5, <1>2 DEF QueueInv, Disjoint
    <3>7. Extended(p, n) BY <2>3, <3>2 DEF Extended
    <3>8. m = p.used + 1 BY DEF m
    <3> QED BY <3>1, <3>2, <3>4, <3>5, <3>6, <3>7, <3>8, <1>2, <1>4
  <2>6. CASE ~a.ok
    <3>1. r = a BY <2>1, <2>6
    <3>2. Same(p, a.queue) BY <2>2, <2>3, <2>4 DEF Same
    <3>3. QueueInv(a.queue, held) BY <3>2, <1>2, SameKeeps
    <3>4. Extended(p, a.queue) BY <2>3 DEF Extended
    <3> QED BY <3>1, <3>3, <3>4, <2>3, <2>6, <1>2
  <2> QED BY <2>3, <2>5, <2>6
<1> QED BY <1>2, <1>3, <1>4

\* The slot acquired last is free for a copy of its own.
Fresh(q) ==
  /\ q.used \in 1 .. Len(q.slots)
  /\ \A i \in 1 .. Len(q.stream) : q.stream[i].slot \in 1 .. q.used - 1

LEMMA StageKeeps ==
  ASSUME NEW q, NEW held, QueueInv(q, held), Fresh(q), NEW content \in Int
  PROVE  LET p == Stage(q, content)
         IN  /\ QueueInv(p, held) /\ Fresh(p) /\ p.slots[p.used].content = content
             /\ p.readbacks = q.readbacks /\ p.stream = q.stream /\ p.used = q.used
<1> DEFINE s == [q.slots[q.used] EXCEPT !.content = content]
           slots == [q.slots EXCEPT ![q.used] = s]
           p == [q EXCEPT !.slots = slots]
<1>1. q \in Queues /\ q.slots \in Seq(Slots) /\ q.used \in 1 .. Len(q.slots)
  BY QueueParts DEF QueueInv, Fresh
<1>2. q.slots[q.used] \in Slots BY <1>1, ElementOfSeq
<1>3. s \in Slots /\ s.content = content BY <1>2 DEF Slots
<1> HIDE DEF s
<1>4. /\ slots \in Seq(Slots) /\ Len(slots) = Len(q.slots)
      /\ \A j \in 1 .. Len(q.slots) : slots[j] = IF j = q.used THEN s ELSE q.slots[j]
  BY <1>1, <1>3, ExceptSeq
<1> HIDE DEF slots
<1>5. /\ p \in Queues /\ p.slots = slots /\ p.stream = q.stream /\ p.device = q.device
      /\ p.used = q.used /\ p.readbacks = q.readbacks
  BY <1>1, <1>4 DEF Queues
<1>6. Stage(q, content) = p
  <2>1. Stage(q, content) = [q EXCEPT !.slots = [q.slots EXCEPT ![q.used] =
                               [q.slots[q.used] EXCEPT !.content = content]]]
    BY DEF Stage
  <2> QED BY <2>1 DEF slots, s
<1> HIDE DEF p
<1>7. Fresh(p) /\ p.slots[p.used].content = content BY <1>1, <1>3, <1>4, <1>5 DEF Fresh
<1>8. Disjoint(p) BY <1>4, <1>5 DEF QueueInv, Disjoint
<1>9. \A i \in 1 .. Len(q.stream) : Settled(p, i) <=> Settled(q, i) BY <1>5 DEF Settled
<1>10. \A i \in 1 .. Len(q.stream) : p.slots[q.stream[i].slot] = q.slots[q.stream[i].slot]
  <2>1. \A i \in 1 .. Len(q.stream) : q.stream[i].slot \in 1 .. q.used - 1 BY DEF Fresh
  <2>2. q.used \in Nat /\ Len(q.slots) \in Nat /\ q.used =< Len(q.slots) BY <1>1, QueueParts
  <2>3. \A t \in 1 .. q.used - 1 : t \in 1 .. Len(q.slots) /\ t # q.used BY <2>2
  <2> QED BY <2>1, <2>3, <1>4, <1>5
<1>11. Underway(p, held)
  <2>1. \A i \in 1 .. Len(p.stream) :
          p.stream[i].kind = "upload" /\ Settled(p, i) =>
            p.slots[p.stream[i].slot].content = held[p.stream[i].cell]
    BY <1>5, <1>9, <1>10 DEF QueueInv, Underway
  <2>2. \A c \in Cells :
          (\A i \in 1 .. Len(p.stream) : ~Uploads(p.stream[i], c)) => p.device[c] = held[c]
    BY <1>5 DEF QueueInv, Underway
  <2> QED BY <2>1, <2>2 DEF Underway
<1> QED BY <1>5, <1>6, <1>7, <1>8, <1>11 DEF QueueInv

\* A copy is queued behind the others.
Queued(q, kind, c) ==
  [q EXCEPT !.stream = Append(q.stream, [kind |-> kind, slot |-> q.used, cell |-> c])]

LEMMA QueuedParts ==
  ASSUME NEW q, NEW held, QueueInv(q, held), Fresh(q),
         NEW kind \in {"upload", "download"}, NEW c \in Cells
  PROVE  LET p == Queued(q, kind, c)
             n == Len(q.stream)
         IN  /\ p \in Queues /\ p.slots = q.slots /\ p.used = q.used /\ p.device = q.device
             /\ p.readbacks = q.readbacks /\ p.failed = q.failed
             /\ n \in Nat /\ Len(p.stream) = n + 1
             /\ p.stream[n + 1] = [kind |-> kind, slot |-> q.used, cell |-> c]
             /\ \A i \in 1 .. n : p.stream[i] = q.stream[i]
             /\ Disjoint(p)
<1> DEFINE e == [kind |-> kind, slot |-> q.used, cell |-> c]
           stream == Append(q.stream, e)
           p == [q EXCEPT !.stream = stream]
           n == Len(q.stream)
<1>1. /\ q \in Queues /\ q.used \in Nat /\ q.stream \in Seq(Copies) /\ n \in Nat
      /\ Len(q.slots) \in Nat /\ q.used \in 1 .. Len(q.slots)
  BY QueueParts DEF QueueInv, Fresh
<1>2. e \in Copies BY <1>1 DEF Copies
<1>3. e.slot = q.used OBVIOUS
<1> HIDE DEF e
<1>4. /\ stream \in Seq(Copies) /\ Len(stream) = n + 1 /\ stream[n + 1] = e
      /\ \A i \in 1 .. n : stream[i] = q.stream[i]
  BY <1>1, <1>2, AppendProperties
<1> HIDE DEF stream
<1>5. /\ p \in Queues /\ p.stream = stream /\ p.slots = q.slots /\ p.used = q.used
      /\ p.device = q.device /\ p.readbacks = q.readbacks /\ p.failed = q.failed
  BY <1>1, <1>4 DEF Queues
<1>6. Queued(q, kind, c) = p BY DEF Queued, stream, e
<1> HIDE DEF p
<1>7. Disjoint(p)
  <2>1. \A i \in 1 .. n : stream[i].slot \in 1 .. q.used - 1 BY <1>4 DEF Fresh
  <2>2. stream[n + 1].slot = q.used BY <1>3, <1>4
  <2>3. \A i \in 1 .. n + 1 : i \in 1 .. n \/ i = n + 1 BY <1>1
  <2>4. \A t \in 1 .. q.used - 1 : t \in 1 .. q.used /\ t # q.used BY <1>1
  <2>5. \A i \in 1 .. n + 1 : stream[i].slot \in 1 .. q.used
    BY <2>1, <2>2, <2>3, <2>4, <1>1
  <2>6. \A i, j \in 1 .. n : i # j => stream[i].slot # stream[j].slot
    BY <1>4 DEF QueueInv, Disjoint
  <2>7. \A i, j \in 1 .. n + 1 : i # j => stream[i].slot # stream[j].slot
    BY <2>1, <2>2, <2>3, <2>4, <2>6
  <2>8. p.used =< Len(p.slots) BY <1>1, <1>5
  <2> QED BY <2>5, <2>7, <2>8, <1>4, <1>5 DEF Disjoint
<1> HIDE DEF n
<1> QED BY <1>1, <1>4, <1>5, <1>6, <1>7 DEF e, n

LEMMA UploadQueued ==
  ASSUME NEW q, NEW held \in [Cells -> Int], QueueInv(q, held), Fresh(q), NEW c \in Cells
  PROVE  QueueInv(Queued(q, "upload", c), [held EXCEPT ![c] = q.slots[q.used].content])
<1> DEFINE p == Queued(q, "upload", c)
           n == Len(q.stream)
           content == q.slots[q.used].content
           now == [held EXCEPT ![c] = content]
<1>1. /\ p \in Queues /\ p.slots = q.slots /\ p.used = q.used /\ p.device = q.device
      /\ n \in Nat /\ Len(p.stream) = n + 1
      /\ p.stream[n + 1] = [kind |-> "upload", slot |-> q.used, cell |-> c]
      /\ \A i \in 1 .. n : p.stream[i] = q.stream[i]
      /\ Disjoint(p)
  BY QueuedParts
<1>2. now[c] = content /\ \A d \in Cells : d # c => now[d] = held[d] OBVIOUS
<1>3. q \in Queues BY DEF QueueInv
<1>4. \A i \in 1 .. n : q.stream[i].cell \in Cells BY <1>3, QueueParts
<1> HIDE DEF p, now, n
<1>5. \A i \in 1 .. n + 1 : i \in 1 .. n \/ i = n + 1 BY <1>1
<1>6. Uploads(p.stream[n + 1], c) /\ \A d \in Cells : d # c => ~Uploads(p.stream[n + 1], d)
  BY <1>1 DEF Uploads
<1>7. ASSUME NEW i \in 1 .. n, p.stream[i].kind = "upload", Settled(p, i)
      PROVE  p.slots[p.stream[i].slot].content = now[p.stream[i].cell]
  <2>1. n + 1 \in i + 1 .. Len(p.stream) BY <1>1
  <2>2. ~Uploads(p.stream[n + 1], p.stream[i].cell) BY <2>1, <1>7 DEF Settled
  <2>3. p.stream[i] = q.stream[i] /\ q.stream[i].cell # c BY <2>2, <1>1, <1>6
  <2>4. Settled(q, i)
    <3>1. \A j \in i + 1 .. n : j \in i + 1 .. Len(p.stream) /\ j \in 1 .. n BY <1>1
    <3> QED BY <3>1, <2>3, <1>1, <1>7 DEF Settled, n
  <2>5. q.slots[q.stream[i].slot].content = held[q.stream[i].cell]
    BY <2>3, <2>4, <1>7 DEF QueueInv, Underway, n
  <2> QED BY <2>3, <2>5, <1>1, <1>2, <1>4
<1>8. ASSUME NEW d \in Cells, \A i \in 1 .. n + 1 : ~Uploads(p.stream[i], d)
      PROVE  p.device[d] = now[d]
  <2>1. d # c BY <1>1, <1>6, <1>8
  <2>2. \A i \in 1 .. n : ~Uploads(q.stream[i], d) BY <1>1, <1>8
  <2>3. q.device[d] = held[d] BY <2>2 DEF QueueInv, Underway, n
  <2> QED BY <2>1, <2>3, <1>1, <1>2
<1>9. p.stream[n + 1].kind = "upload" =>
        p.slots[p.stream[n + 1].slot].content = now[p.stream[n + 1].cell]
  BY <1>1, <1>2
<1>10. Underway(p, now) BY <1>1, <1>5, <1>7, <1>8, <1>9 DEF Underway
<1>11. QueueInv(p, now) BY <1>1, <1>10 DEF QueueInv
<1> QED BY <1>11 DEF p, now

LEMMA DownloadQueued ==
  ASSUME NEW q, NEW held, QueueInv(q, held), Fresh(q), NEW c \in Cells
  PROVE  /\ QueueInv(Queued(q, "download", c), held)
         /\ \A i \in 1 .. Len(q.stream) : Settled(q, i) => Settled(Queued(q, "download", c), i)
<1> DEFINE p == Queued(q, "download", c)
           n == Len(q.stream)
<1>1. /\ p \in Queues /\ p.slots = q.slots /\ p.used = q.used /\ p.device = q.device
      /\ n \in Nat /\ Len(p.stream) = n + 1
      /\ p.stream[n + 1] = [kind |-> "download", slot |-> q.used, cell |-> c]
      /\ \A i \in 1 .. n : p.stream[i] = q.stream[i]
      /\ Disjoint(p)
  BY QueuedParts
<1> HIDE DEF p, n
<1>2. \A i \in 1 .. n + 1 : i \in 1 .. n \/ i = n + 1 BY <1>1
<1>3. p.stream[n + 1].kind # "upload" /\ \A d \in Cells : ~Uploads(p.stream[n + 1], d)
  BY <1>1 DEF Uploads
<1>4. ASSUME NEW i \in 1 .. n
      PROVE  Settled(p, i) <=> Settled(q, i)
  <2>1. \A j \in i + 1 .. n : j \in i + 1 .. n + 1 /\ j \in 1 .. n BY <1>1
  <2>2. \A j \in i + 1 .. n + 1 : j \in i + 1 .. n \/ j = n + 1 BY <1>1
  <2>3. ~Uploads(p.stream[n + 1], p.stream[i].cell) BY <1>3 DEF Uploads
  <2> QED BY <2>1, <2>2, <2>3, <1>1 DEF Settled, n
<1>5. \A i \in 1 .. n + 1 : p.stream[i].kind = "upload" /\ Settled(p, i) =>
        p.slots[p.stream[i].slot].content = held[p.stream[i].cell]
  BY <1>1, <1>2, <1>3, <1>4 DEF QueueInv, Underway, n
<1>6. \A d \in Cells :
        (\A i \in 1 .. n + 1 : ~Uploads(p.stream[i], d)) => p.device[d] = held[d]
  <2>1. 1 .. n \subseteq 1 .. n + 1 BY <1>1
  <2> QED BY <2>1, <1>1 DEF QueueInv, Underway, n
<1>7. QueueInv(p, held) BY <1>1, <1>5, <1>6 DEF QueueInv, Underway
<1> QED BY <1>4, <1>7 DEF p, n

\* bad_alloc: the queue is drained.
LEMMA ThrowsKeeps ==
  ASSUME NEW q, NEW held, QueueInv(q, held), NEW r, r \in Throws(q)
  PROVE  r.ok = FALSE /\ QueueInv(r.queue, held) /\ r.queue.readbacks = <<>>
<1>0. PICK f \in MayFail(q) : \E d \in Drain(f.queue) : r = [d EXCEPT !.ok = FALSE]
  BY DEF Throws
<1>1. PICK d \in Drain(f.queue) : r = [d EXCEPT !.ok = FALSE] BY <1>0
<1>2. q \in Queues BY DEF QueueInv
<1>3. f.queue \in Queues /\ f.queue = [q EXCEPT !.faults = @ + 1] BY <1>2, FailureKeeps
<1>4. Same(q, f.queue)
  <2>1. /\ f.queue.slots = q.slots /\ f.queue.stream = q.stream /\ f.queue.device = q.device
        /\ f.queue.used = q.used
    BY <1>2, <1>3 DEF Queues
  <2> QED BY <2>1, <1>2, <1>3, QueueParts DEF Same, QueueInv, Disjoint
<1>5. QueueInv(f.queue, held) BY <1>4, SameKeeps
<1>6. /\ QueueInv(d.queue, held) /\ d.queue.readbacks = <<>>
      /\ d = [ok |-> d.ok, queue |-> d.queue]
  BY <1>5, DrainKeeps
<1>7. r = [ok |-> FALSE, queue |-> d.queue] BY <1>1, <1>6
<1> QED BY <1>6, <1>7

\* The queue of a copy that could not be queued.
LEMMA RefusedKeeps ==
  ASSUME NEW q, NEW held, QueueInv(q, held), NEW r, r \in MayFail([q EXCEPT !.failed = TRUE])
  PROVE  r.ok = FALSE /\ QueueInv(r.queue, held) /\ r.queue.readbacks = q.readbacks
<1> DEFINE p == [q EXCEPT !.failed = TRUE]
<1>1. q \in Queues BY DEF QueueInv
<1>2. /\ p \in Queues /\ p.slots = q.slots /\ p.used = q.used /\ p.stream = q.stream
      /\ p.device = q.device /\ p.readbacks = q.readbacks
  BY <1>1 DEF Queues
<1> HIDE DEF p
<1>3. r.ok = FALSE /\ r.queue \in Queues /\ r.queue = [p EXCEPT !.faults = @ + 1]
  BY <1>2, FailureKeeps DEF p
<1>4. /\ r.queue.slots = q.slots /\ r.queue.used = q.used /\ r.queue.stream = q.stream
      /\ r.queue.device = q.device /\ r.queue.readbacks = q.readbacks
  BY <1>2, <1>3 DEF Queues
<1>5. Same(q, r.queue) BY <1>1, <1>3, <1>4, QueueParts DEF Same, QueueInv, Disjoint
<1>6. QueueInv(r.queue, held) BY <1>5, SameKeeps
<1> QED BY <1>3, <1>4, <1>6

\* What an accepted upload staged is what the device shall hold.
Accepts(held, ok, c, bytes, content) ==
  IF ok /\ bytes > 0 THEN [held EXCEPT ![c] = content] ELSE held

LEMMA UploadResult ==
  ASSUME NEW q, NEW held \in [Cells -> Int], QueueInv(q, held), NEW c \in Cells,
         NEW bytes \in Nat, NEW content \in Int, NEW r, r \in UploadBytes(q, c, bytes, content)
  PROVE  /\ r.ok \in BOOLEAN
         /\ QueueInv(r.queue, Accepts(held, r.ok, c, bytes, content))
         /\ q.readbacks = <<>> => r.queue.readbacks = <<>>
<1>0. /\ r.ok /\ bytes > 0 => Accepts(held, r.ok, c, bytes, content) = [held EXCEPT ![c] = content]
      /\ ~(r.ok /\ bytes > 0) => Accepts(held, r.ok, c, bytes, content) = held
  BY DEF Accepts
<1>1. CASE bytes = 0
  <2>1. r.ok = ~q.failed /\ r.queue = q BY <1>1 DEF UploadBytes, Returns
  <2>2. ~(bytes > 0) BY <1>1
  <2>3. q.failed \in BOOLEAN BY QueueParts DEF QueueInv
  <2> QED BY <2>1, <2>2, <2>3, <1>0
<1>2. CASE bytes # 0 /\ r \in Throws(q)
  <2>1. r.ok = FALSE /\ QueueInv(r.queue, held) /\ r.queue.readbacks = <<>>
    BY <1>2, ThrowsKeeps
  <2> QED BY <2>1, <1>0
<1>3. CASE bytes # 0 /\ r \notin Throws(q)
  <2>0. r \in UNION {IF a.ok THEN Enqueue(Stage(a.queue, content), "upload", c) ELSE {a}
                       : a \in Acquire(q, bytes)}
    BY <1>3, Zenon DEF UploadBytes
  <2>1. PICK a \in Acquire(q, bytes) :
          r \in IF a.ok THEN Enqueue(Stage(a.queue, content), "upload", c) ELSE {a}
    BY <2>0, Zenon
  <2>2. /\ QueueInv(a.queue, held) /\ a.ok \in BOOLEAN
        /\ a.ok => /\ a.queue.used \in 1 .. Len(a.queue.slots)
                   /\ \A i \in 1 .. Len(a.queue.stream) :
                        a.queue.stream[i].slot \in 1 .. a.queue.used - 1
        /\ a.queue.readbacks = <<>> \/ Extended(q, a.queue)
    BY AcquireKeeps
  <2>3. q.readbacks = <<>> => a.queue.readbacks = <<>> BY <2>2 DEF Extended
  <2>4. CASE ~a.ok
    <3>1. r = a BY <2>1, <2>4
    <3> QED BY <3>1, <2>2, <2>3, <2>4, <1>0
  <2>5. CASE a.ok
    <3> DEFINE p == Stage(a.queue, content)
    <3>1. Fresh(a.queue) BY <2>2, <2>5 DEF Fresh
    <3>2. /\ QueueInv(p, held) /\ Fresh(p) /\ p.slots[p.used].content = content
          /\ p.readbacks = a.queue.readbacks
      BY <3>1, <2>2, StageKeeps
    <3>3. \/ r = [ok |-> TRUE, queue |-> Queued(p, "upload", c)]
          \/ r \in MayFail([p EXCEPT !.failed = TRUE])
      BY <2>1, <2>5 DEF Enqueue, Returns, Queued
    <3> HIDE DEF p
    <3>4. CASE r = [ok |-> TRUE, queue |-> Queued(p, "upload", c)]
      <4>1. r.ok = TRUE /\ r.queue = Queued(p, "upload", c) BY <3>4
      <4>2. bytes > 0 BY <1>3
      <4>3. QueueInv(r.queue, [held EXCEPT ![c] = content]) BY <3>2, <4>1, UploadQueued
      <4>4. r.queue.readbacks = p.readbacks
        <5>1. p \in Queues BY <3>2 DEF QueueInv
        <5> QED BY <5>1, <4>1 DEF Queued, Queues
      <4>5. Accepts(held, r.ok, c, bytes, content) = [held EXCEPT ![c] = content]
        BY <4>1, <4>2, <1>0
      <4>6. QueueInv(r.queue, Accepts(held, r.ok, c, bytes, content)) BY <4>3, <4>5
      <4> QED BY <4>1, <4>4, <4>6, <3>2, <2>3
    <3>5. CASE r \in MayFail([p EXCEPT !.failed = TRUE])
      <4>1. r.ok = FALSE /\ QueueInv(r.queue, held) /\ r.queue.readbacks = p.readbacks
        BY <3>2, <3>5, RefusedKeeps
      <4> QED BY <4>1, <3>2, <2>3, <1>0
    <3> QED BY <3>3, <3>4, <3>5
  <2> QED BY <2>2, <2>4, <2>5
<1> QED BY <1>1, <1>2, <1>3

\* A readback is noted; its slot is the one acquired last.
LEMMA NoteKeeps ==
  ASSUME NEW q, NEW held, QueueInv(q, held), Fresh(q), NEW to \in Destinations
  PROVE  LET p == Note(q, to)
             m == Len(q.readbacks)
         IN  /\ QueueInv(p, held) /\ Fresh(p)
             /\ p.slots = q.slots /\ p.used = q.used /\ p.stream = q.stream /\ p.failed = q.failed
             /\ m \in Nat /\ Len(p.readbacks) = m + 1
             /\ p.readbacks[m + 1] = [to |-> to, slot |-> q.used]
             /\ \A k \in 1 .. m : p.readbacks[k] = q.readbacks[k]
<1> DEFINE e == [to |-> to, slot |-> q.used]
           readbacks == Append(q.readbacks, e)
           p == [q EXCEPT !.readbacks = readbacks]
           m == Len(q.readbacks)
<1>1. q \in Queues /\ q.used \in Nat /\ q.readbacks \in Seq(Readbacks) /\ m \in Nat
  BY QueueParts DEF QueueInv
<1>2. e \in Readbacks BY <1>1 DEF Readbacks
<1> HIDE DEF e
<1>3. /\ readbacks \in Seq(Readbacks) /\ Len(readbacks) = m + 1 /\ readbacks[m + 1] = e
      /\ \A k \in 1 .. m : readbacks[k] = q.readbacks[k]
  BY <1>1, <1>2, AppendProperties
<1> HIDE DEF readbacks
<1>4. /\ p \in Queues /\ p.readbacks = readbacks /\ p.slots = q.slots /\ p.used = q.used
      /\ p.stream = q.stream /\ p.device = q.device /\ p.failed = q.failed
  BY <1>1, <1>3 DEF Queues
<1>5. Note(q, to) = p BY DEF Note, readbacks, e
<1> HIDE DEF p, m
<1>6. Same(q, p) BY <1>1, <1>4, QueueParts DEF Same, QueueInv, Disjoint
<1>7. QueueInv(p, held) BY <1>6, SameKeeps
<1>8. Fresh(p) BY <1>4 DEF Fresh
<1> QED BY <1>1, <1>3, <1>4, <1>5, <1>7, <1>8 DEF e, m

\* An accepted download is on its way behind the earlier ones.
LEMMA DownloadResult ==
  ASSUME NEW q, NEW held \in [Cells -> Int], QueueInv(q, held), NEW c \in Cells,
         NEW bytes \in Nat, NEW to \in Destinations, NEW r, r \in DownloadBytes(q, c, bytes, to)
  PROVE  /\ r.ok \in BOOLEAN /\ QueueInv(r.queue, held)
         /\ r.ok /\ bytes = 0 => r.queue = q /\ ~q.failed
         /\ r.ok /\ bytes > 0 =>
              ~r.queue.failed /\
              (q.failed => \A wanted \in Seq(Int) :
                 wanted = <<>> /\ to.index = 1
                   => Fetching(r.queue, held, to.operation, Append(wanted, held[c]))) /\
              (~q.failed => \A wanted \in Seq(Int) :
                 Fetching(q, held, to.operation, wanted) /\ to.index = Len(wanted) + 1
                   => Fetching(r.queue, held, to.operation, Append(wanted, held[c])))
<1>0. q \in Queues /\ q.failed \in BOOLEAN BY QueueParts DEF QueueInv
<1>1. CASE bytes = 0
  <2>1. r = [ok |-> ~q.failed, queue |-> q] BY <1>1 DEF DownloadBytes, Returns
  <2>2. r.ok = ~q.failed /\ r.queue = q BY <2>1
  <2>3. ~(bytes > 0) BY <1>1
  <2> QED BY <2>2, <2>3, <1>0
<1>2. CASE bytes # 0 /\ r \in Throws(q)
  <2>1. r.ok = FALSE /\ QueueInv(r.queue, held) BY <1>2, ThrowsKeeps
  <2> QED BY <2>1
<1>3. CASE bytes # 0 /\ r \notin Throws(q)
  <2>0. r \in UNION {IF a.ok THEN Enqueue(Note(a.queue, to), "download", c) ELSE {a}
                       : a \in Acquire(q, bytes)}
    BY <1>3, Zenon DEF DownloadBytes
  <2>1. PICK a \in Acquire(q, bytes) :
          r \in IF a.ok THEN Enqueue(Note(a.queue, to), "download", c) ELSE {a}
    BY <2>0, Zenon
  <2>2. /\ QueueInv(a.queue, held) /\ a.ok \in BOOLEAN
        /\ a.ok => /\ ~a.queue.failed
                   /\ a.queue.used \in 1 .. Len(a.queue.slots)
                   /\ \A i \in 1 .. Len(a.queue.stream) :
                        a.queue.stream[i].slot \in 1 .. a.queue.used - 1
        /\ \/ q.failed /\ a.queue.readbacks = <<>>
           \/ ~q.failed /\ Extended(q, a.queue) /\ (a.ok => a.queue.used = q.used + 1)
    BY AcquireKeeps
  <2>3. CASE ~a.ok
    <3>1. r = a BY <2>1, <2>3
    <3> QED BY <3>1, <2>2, <2>3
  <2>4. CASE a.ok
    <3> DEFINE b == a.queue
               p == Note(b, to)
               m == Len(b.readbacks)
               n == Len(b.stream)
               d == Queued(p, "download", c)
    <3>1. Fresh(b) BY <2>2, <2>4 DEF Fresh
    <3>2. /\ QueueInv(p, held) /\ Fresh(p)
          /\ p.slots = b.slots /\ p.used = b.used /\ p.stream = b.stream /\ p.failed = b.failed
          /\ m \in Nat /\ Len(p.readbacks) = m + 1
          /\ p.readbacks[m + 1] = [to |-> to, slot |-> b.used]
          /\ \A k \in 1 .. m : p.readbacks[k] = b.readbacks[k]
      BY <3>1, <2>2, NoteKeeps
    <3>3. \/ r = [ok |-> TRUE, queue |-> d]
          \/ r \in MayFail([p EXCEPT !.failed = TRUE])
      BY <2>1, <2>4 DEF Enqueue, Returns, Queued
    <3> HIDE DEF p
    <3>4. /\ QueueInv(d, held)
          /\ \A i \in 1 .. n : Settled(p, i) => Settled(d, i)
      BY <3>2, DownloadQueued
    <3>5. /\ d.slots = p.slots /\ d.used = p.used
          /\ d.readbacks = p.readbacks /\ d.failed = p.failed
          /\ n \in Nat /\ Len(d.stream) = n + 1
          /\ d.stream[n + 1] = [kind |-> "download", slot |-> p.used, cell |-> c]
          /\ \A i \in 1 .. n : d.stream[i] = p.stream[i]
      <4> DEFINE l == Len(p.stream)
      <4>1. /\ d.slots = p.slots /\ d.used = p.used
            /\ d.readbacks = p.readbacks /\ d.failed = p.failed
            /\ l \in Nat /\ Len(d.stream) = l + 1
            /\ d.stream[l + 1] = [kind |-> "download", slot |-> p.used, cell |-> c]
            /\ \A i \in 1 .. l : d.stream[i] = p.stream[i]
        <5>1. QueueInv(p, held) /\ Fresh(p) /\ "download" \in {"upload", "download"} BY <3>2
        <5> QED BY <5>1, QueuedParts
      <4>2. l = n BY <3>2
      <4> HIDE DEF l, d, n
      <4> QED BY <4>1, <4>2
    <3> HIDE DEF d, m, n
    <3>6. CASE r \in MayFail([p EXCEPT !.failed = TRUE])
      <4>1. r.ok = FALSE /\ QueueInv(r.queue, held) BY <3>2, <3>6, RefusedKeeps
      <4> QED BY <4>1
    <3>7. CASE r = [ok |-> TRUE, queue |-> d]
      <4>1. r.ok = TRUE /\ r.queue = d BY <3>7
      <4>2. ~d.failed BY <2>2, <2>4, <3>2, <3>5
      \* The new readback, and what its copy brings.
      <4>3. Settled(d, n + 1)
        <5>1. \A j \in (n + 1) + 1 .. Len(d.stream) : FALSE BY <3>5
        <5> QED BY <5>1 DEF Settled
      <4>4. d.used \in Nat /\ d.used \in 1 .. d.used
        <5>1. b.used \in 1 .. Len(b.slots) /\ b \in Queues BY <3>1, <2>2 DEF Fresh, QueueInv
        <5>2. b.used \in Nat /\ Len(b.slots) \in Nat BY <5>1, QueueParts
        <5> QED BY <5>1, <5>2, <3>2, <3>5
      <4>5. /\ d.readbacks[m + 1].to = to /\ d.readbacks[m + 1].slot \in 1 .. d.used
            /\ Arriving(d, held, m + 1, held[c])
        <5>1. d.readbacks[m + 1].slot = d.used /\ d.readbacks[m + 1].to = to BY <3>2, <3>5
        <5>2. n + 1 \in 1 .. Len(d.stream) BY <3>5
        <5>3. /\ d.stream[n + 1].kind = "download" /\ d.stream[n + 1].slot = d.used
              /\ d.stream[n + 1].cell = c
          BY <3>5
        <5> QED BY <5>1, <5>2, <5>3, <4>3, <4>4 DEF Arriving
      <4>6. ASSUME NEW wanted \in Seq(Int), Len(wanted) = m, to.index = m + 1,
                   \A k \in 1 .. m :
                     /\ d.readbacks[k].to = [operation |-> to.operation, index |-> k]
                     /\ d.readbacks[k].slot \in 1 .. d.used
                     /\ Arrived(d, k, wanted[k]) \/ Arriving(d, held, k, wanted[k])
            PROVE  Fetching(d, held, to.operation, Append(wanted, held[c]))
        <5> DEFINE w == Append(wanted, held[c])
        <5>1. Len(w) = m + 1 /\ w[m + 1] = held[c] /\ \A k \in 1 .. m : w[k] = wanted[k]
          BY <4>6, AppendProperties
        <5> HIDE DEF w
        <5>2. \A k \in 1 .. m + 1 : k \in 1 .. m \/ k = m + 1 BY <3>2
        <5>3. to = [operation |-> to.operation, index |-> m + 1] BY <4>6 DEF Destinations
        <5>4. ASSUME NEW k \in 1 .. m + 1
              PROVE  /\ d.readbacks[k].to = [operation |-> to.operation, index |-> k]
                     /\ d.readbacks[k].slot \in 1 .. d.used
                     /\ Arrived(d, k, w[k]) \/ Arriving(d, held, k, w[k])
          <6>1. CASE k \in 1 .. m BY <6>1, <5>1, <4>6
          <6>2. CASE k = m + 1 BY <6>2, <5>1, <5>3, <4>5
          <6> QED BY <5>2, <6>1, <6>2
        <5>5. Len(d.readbacks) = Len(w) BY <5>1, <3>2, <3>5
        <5>6. Fetching(d, held, to.operation, w) BY <5>1, <5>4, <5>5 DEF Fetching
        <5> QED BY <5>6 DEF w
      <4>7. ASSUME q.failed, NEW wanted \in Seq(Int), wanted = <<>>, to.index = 1
            PROVE  Fetching(d, held, to.operation, Append(wanted, held[c]))
        <5>1. b.readbacks = <<>> BY <4>7, <2>2
        <5>2. m = 0 /\ Len(wanted) = 0 BY <4>7, <5>1, EmptySeq DEF m
        <5>3. \A k \in 1 .. m :
                /\ d.readbacks[k].to = [operation |-> to.operation, index |-> k]
                /\ d.readbacks[k].slot \in 1 .. d.used
                /\ Arrived(d, k, wanted[k]) \/ Arriving(d, held, k, wanted[k])
          BY <5>2
        <5>4. to.index = m + 1 /\ Len(wanted) = m BY <4>7, <5>2
        <5> QED BY <5>3, <5>4, <4>6, <4>7
      <4>8. ASSUME ~q.failed, NEW wanted \in Seq(Int), Fetching(q, held, to.operation, wanted),
                   to.index = Len(wanted) + 1
            PROVE  Fetching(d, held, to.operation, Append(wanted, held[c]))
        <5>1. Extended(q, b) /\ b.used = q.used + 1 /\ b \in Queues
          BY <4>8, <2>2, <2>4 DEF QueueInv
        <5>2. q.used \in Nat /\ b.used =< Len(b.slots)
          BY <1>0, <2>2, QueueParts DEF QueueInv, Disjoint
        <5>3. Same(q, b) BY <5>1, <5>2 DEF Same, Extended
        <5>4. Fetching(b, held, to.operation, wanted)
          BY <4>8, <5>1, <5>3, SameKeeps DEF Extended
        <5>5. Len(wanted) = m BY <5>4 DEF Fetching, m
        <5>6. ASSUME NEW k \in 1 .. m
              PROVE  /\ d.readbacks[k].to = [operation |-> to.operation, index |-> k]
                     /\ d.readbacks[k].slot \in 1 .. d.used
                     /\ Arrived(d, k, wanted[k]) \/ Arriving(d, held, k, wanted[k])
          <6>1. /\ b.readbacks[k].to = [operation |-> to.operation, index |-> k]
                /\ Arrived(b, k, wanted[k]) \/ Arriving(b, held, k, wanted[k])
            BY <5>4, <5>5 DEF Fetching
          <6>2. d.readbacks[k] = b.readbacks[k] BY <3>2, <3>5
          <6>3. q.readbacks = b.readbacks /\ q.readbacks[k].slot \in 1 .. q.used
            BY <4>8, <5>1, <5>5 DEF Fetching, Extended
          <6>4. b.readbacks[k].slot \in 1 .. q.used /\ b.readbacks[k].slot # d.used
                /\ b.readbacks[k].slot \in 1 .. d.used
            <7>1. b.readbacks[k].slot \in 1 .. q.used BY <6>3
            <7>2. d.used = q.used + 1
              <8>1. d.used = b.used BY <3>2, <3>5
              <8> QED BY <8>1, <5>1
            <7>3. \A s \in 1 .. q.used : s # q.used + 1 /\ s \in 1 .. q.used + 1 BY <5>2
            <7> QED BY <7>1, <7>2, <7>3
          <6>5. CASE Arrived(b, k, wanted[k])
            <7>1. \A i \in 1 .. n : d.stream[i] = b.stream[i] BY <3>2, <3>5
            <7>2. \A i \in 1 .. n + 1 : i \in 1 .. n \/ i = n + 1 BY <3>5
            <7>3. d.stream[n + 1].slot = d.used BY <3>5
            <7>4. /\ b.slots[b.readbacks[k].slot].content = wanted[k]
                  /\ \A i \in 1 .. n : b.stream[i].slot # b.readbacks[k].slot
              BY <6>5 DEF Arrived, n
            <7>5. \A i \in 1 .. n + 1 : d.stream[i].slot # d.readbacks[k].slot
              BY <7>1, <7>2, <7>3, <7>4, <6>2, <6>4
            <7>6. d.slots[d.readbacks[k].slot].content = wanted[k] BY <7>4, <6>2, <3>2, <3>5
            <7>7. Arrived(d, k, wanted[k]) BY <7>5, <7>6, <3>5 DEF Arrived
            <7> QED BY <7>7, <6>1, <6>2, <6>4
          <6>6. CASE Arriving(b, held, k, wanted[k])
            <7>1. PICK i \in 1 .. n :
                    /\ b.stream[i].kind = "download" /\ b.stream[i].slot = b.readbacks[k].slot
                    /\ Settled(b, i) /\ wanted[k] = held[b.stream[i].cell]
              BY <6>6 DEF Arriving, n
            <7>2. Settled(p, i) BY <7>1, <3>2 DEF Settled
            <7>3. i \in 1 .. Len(d.stream) /\ d.stream[i] = b.stream[i] BY <3>2, <3>5
            <7>4. Settled(d, i) BY <7>2, <3>4
            <7>5. Arriving(d, held, k, wanted[k]) BY <7>1, <7>3, <7>4, <6>2 DEF Arriving
            <7> QED BY <7>5, <6>1, <6>2, <6>4
          <6> QED BY <6>1, <6>2, <6>4, <6>5, <6>6
        <5> QED BY <4>6, <4>8, <5>5, <5>6
      <4> QED BY <4>1, <4>2, <4>7, <4>8, <3>4, <1>3
    <3> QED BY <3>3, <3>6, <3>7
  <2> QED BY <2>2, <2>3, <2>4
<1> QED BY <1>1, <1>2, <1>3

\* The end of an operation leaves a queue without readbacks; it succeeds only
\* when every copy has run and no call has failed.
LEMMA FinishResult ==
  ASSUME NEW q, NEW held, QueueInv(q, held), NEW r, r \in FinishTransfers(q)
  PROVE  /\ r.ok \in BOOLEAN /\ QueueInv(r.queue, held) /\ r.queue.readbacks = <<>>
         /\ r.ok => q.stream = <<>> /\ ~q.failed /\ r.queue.slots = q.slots
<1>1. PICK s \in Synchronize(q) :
        r \in IF s.ok /\ ~q.failed
              THEN Returns(TRUE, [s.queue EXCEPT !.used = 0, !.readbacks = <<>>])
              ELSE Returns(FALSE, [s.queue EXCEPT !.failed = ~s.ok, !.readbacks = <<>>,
                                                  !.used = IF s.ok THEN 0 ELSE @])
  BY Zenon DEF FinishTransfers
<1>2. q \in Queues /\ q.failed \in BOOLEAN /\ <<>> \in Seq(Readbacks)
      /\ q.used \in Nat /\ Len(q.slots) \in Nat /\ q.used =< Len(q.slots)
  BY QueueParts, EmptySeq DEF QueueInv, Disjoint
<1>3. CASE s.ok = TRUE /\ s.queue = q /\ q.stream = <<>>
  <2>1. CASE ~q.failed
    <3>1. r = [ok |-> TRUE, queue |-> [q EXCEPT !.used = 0, !.readbacks = <<>>]]
      BY <1>1, <1>3, <2>1 DEF Returns
    <3>2. /\ r.ok = TRUE /\ r.queue \in Queues /\ r.queue.used = 0 /\ r.queue.readbacks = <<>>
          /\ r.queue.stream = q.stream /\ r.queue.device = q.device /\ r.queue.slots = q.slots
      BY <3>1, <1>2 DEF Queues
    <3>3. QueueInv(r.queue, held) BY <3>2, <1>2, <1>3, StillKeeps
    <3> QED BY <3>2, <3>3, <1>3, <2>1
  <2>2. CASE q.failed
    <3>1. r = [ok |-> FALSE, queue |-> [q EXCEPT !.failed = FALSE, !.readbacks = <<>>,
                                                 !.used = 0]]
      BY <1>1, <1>3, <2>2 DEF Returns
    <3>2. /\ r.ok = FALSE /\ r.queue \in Queues /\ r.queue.used = 0 /\ r.queue.readbacks = <<>>
          /\ r.queue.stream = q.stream /\ r.queue.device = q.device /\ r.queue.slots = q.slots
      BY <3>1, <1>2 DEF Queues
    <3>3. QueueInv(r.queue, held) BY <3>2, <1>2, <1>3, StillKeeps
    <3> QED BY <3>2, <3>3
  <2> QED BY <2>1, <2>2
<1>4. CASE s.ok = FALSE /\ s.queue = [q EXCEPT !.faults = @ + 1] /\ s.queue \in Queues
  <2>1. r = [ok |-> FALSE, queue |-> [s.queue EXCEPT !.failed = TRUE, !.readbacks = <<>>,
                                                     !.used = s.queue.used]]
    BY <1>1, <1>4 DEF Returns
  <2>2. /\ s.queue.slots = q.slots /\ s.queue.used = q.used /\ s.queue.stream = q.stream
        /\ s.queue.device = q.device
    BY <1>2, <1>4 DEF Queues
  <2>3. /\ r.ok = FALSE /\ r.queue \in Queues /\ r.queue.readbacks = <<>>
        /\ r.queue.used = s.queue.used /\ r.queue.stream = s.queue.stream
        /\ r.queue.device = s.queue.device /\ r.queue.slots = s.queue.slots
    BY <2>1, <1>2, <1>4 DEF Queues
  <2>4. Same(q, r.queue) BY <2>2, <2>3, <1>2 DEF Same
  <2>5. QueueInv(r.queue, held) BY <2>4, SameKeeps
  <2> QED BY <2>3, <2>5
<1> QED BY <1>2, <1>3, <1>4, SynchronizeKeeps

\* The stream runs its next copy: what shall come still comes.
CopyRun(q) == [Copied(q, Head(q.stream)) EXCEPT !.stream = Tail(q.stream)]

LEMMA CopyResult ==
  ASSUME NEW q, NEW held \in [Cells -> Int], QueueInv(q, held), q.stream # <<>>
  PROVE  LET p == CopyRun(q)
         IN  /\ QueueInv(p, held) /\ p.readbacks = q.readbacks /\ p.failed = q.failed
             /\ \A o, wanted : Fetching(q, held, o, wanted) => Fetching(p, held, o, wanted)
<1> DEFINE h == Head(q.stream)
           n == Len(q.stream)
           stream == Tail(q.stream)
           p == CopyRun(q)
<1>1. /\ q \in Queues /\ q.slots \in Seq(Slots) /\ q.device \in [Cells -> Int]
      /\ q.used \in Nat /\ q.used =< Len(q.slots) /\ Len(q.slots) \in Nat
      /\ q.stream \in Seq(Copies)
      /\ \A i \in 1 .. Len(q.slots) : q.slots[i].content \in Int
  BY QueueParts DEF QueueInv, Disjoint
<1>2. /\ n \in Nat /\ n >= 1 /\ stream \in Seq(Copies) /\ Len(stream) = n - 1
      /\ h = q.stream[1] /\ \A i \in 1 .. n - 1 : stream[i] = q.stream[i + 1]
  <2>1. n \in Nat /\ n # 0 BY <1>1, EmptySeq, LenProperties
  <2>2. /\ stream \in Seq(Copies) /\ Len(stream) = n - 1 /\ h = q.stream[1]
        /\ \A i \in 1 .. Len(stream) : stream[i] = q.stream[i + 1]
    BY <1>1, HeadTailProperties
  <2> HIDE DEF n, stream, h
  <2> QED BY <2>1, <2>2
<1>3. h \in Copies /\ h.cell \in Cells /\ h.kind \in {"upload", "download"}
  <2>1. 1 \in 1 .. Len(q.stream) BY <1>2
  <2>2. h \in Copies BY <1>1, <1>2, <2>1, ElementOfSeq
  <2> HIDE DEF h
  <2> QED BY <2>2 DEF Copies
<1>4. /\ h.slot \in 1 .. q.used
      /\ \A i \in 1 .. n - 1 : stream[i].slot \in 1 .. q.used /\ stream[i].slot # h.slot
  <2>1. \A i \in 1 .. n - 1 : i + 1 \in 1 .. n /\ i + 1 # 1 BY <1>2
  <2>2. 1 \in 1 .. n BY <1>2
  <2> HIDE DEF n, stream, h
  <2> QED BY <2>1, <2>2, <1>2 DEF QueueInv, Disjoint, n
<1> DEFINE value == q.slots[h.slot].content
           device == [q.device EXCEPT ![h.cell] = value]
           s == [q.slots[h.slot] EXCEPT !.content = q.device[h.cell]]
           slots == [q.slots EXCEPT ![h.slot] = s]
<1>5. h.slot \in 1 .. Len(q.slots) BY <1>1, <1>4
<1>6. value \in Int /\ q.device[h.cell] \in Int BY <1>1, <1>3, <1>5
<1>7. s \in Slots /\ s.content = q.device[h.cell]
  <2>1. q.slots[h.slot] \in Slots BY <1>1, <1>5, ElementOfSeq
  <2> QED BY <2>1, <1>6 DEF Slots
<1>8. /\ slots \in Seq(Slots) /\ Len(slots) = Len(q.slots)
      /\ \A j \in 1 .. Len(q.slots) : slots[j] = IF j = h.slot THEN s ELSE q.slots[j]
  <2> HIDE DEF s, h
  <2> QED BY <1>1, <1>5, <1>7, ExceptSeq
<1>9. device \in [Cells -> Int] BY <1>1, <1>3, <1>6
<1> HIDE DEF n, stream, h
\* The copies behind the first, in the shorter stream.
<1>10. ASSUME NEW i \in 1 .. n - 1
       PROVE  /\ i + 1 \in 1 .. n
              /\ Settled(q, i + 1) <=> \A j \in i + 1 .. n - 1 : ~Uploads(stream[j], stream[i].cell)
  <2>1. i + 1 \in 1 .. n /\ stream[i] = q.stream[i + 1] BY <1>2
  <2>2. ASSUME NEW j \in i + 1 .. n - 1
        PROVE  j + 1 \in (i + 1) + 1 .. n /\ stream[j] = q.stream[j + 1]
    BY <1>2
  <2>3. ASSUME NEW j \in (i + 1) + 1 .. n
        PROVE  j - 1 \in i + 1 .. n - 1 /\ stream[j - 1] = q.stream[j]
    <3>1. j - 1 \in i + 1 .. n - 1 /\ j - 1 \in 1 .. n - 1 /\ (j - 1) + 1 = j BY <1>2
    <3>2. stream[j - 1] = q.stream[(j - 1) + 1] BY <3>1, <1>2
    <3> QED BY <3>1, <3>2
  <2> QED BY <2>1, <2>2, <2>3 DEF Settled, n
<1>11. Settled(q, 1) <=> \A j \in 1 .. n - 1 : ~Uploads(stream[j], h.cell)
  <2>1. ASSUME NEW j \in 1 .. n - 1
        PROVE  j + 1 \in 1 + 1 .. n /\ stream[j] = q.stream[j + 1]
    BY <1>2
  <2>2. ASSUME NEW j \in 1 + 1 .. n
        PROVE  j - 1 \in 1 .. n - 1 /\ stream[j - 1] = q.stream[j]
    <3>1. j - 1 \in 1 .. n - 1 /\ (j - 1) + 1 = j BY <1>2
    <3>2. stream[j - 1] = q.stream[(j - 1) + 1] BY <3>1, <1>2
    <3> QED BY <3>1, <3>2
  <2> QED BY <2>1, <2>2, <1>2 DEF Settled, n
<1>12. ASSUME NEW c \in Cells, \A i \in 1 .. n - 1 : ~Uploads(stream[i], c), ~Uploads(h, c)
       PROVE  q.device[c] = held[c]
  <2>1. ASSUME NEW i \in 1 .. n
        PROVE  ~Uploads(q.stream[i], c)
    <3>1. CASE i = 1 BY <3>1, <1>2, <1>12
    <3>2. CASE i # 1
      <4>1. i - 1 \in 1 .. n - 1 /\ (i - 1) + 1 = i BY <3>2, <1>2
      <4>2. stream[i - 1] = q.stream[(i - 1) + 1] BY <4>1, <1>2
      <4> QED BY <4>1, <4>2, <1>12
    <3> QED BY <3>1, <3>2
  <2> QED BY <2>1 DEF QueueInv, Underway, n
<1>13. ASSUME NEW i \in 1 .. n - 1, stream[i].kind = "upload", Settled(q, i + 1)
       PROVE  q.slots[stream[i].slot].content = held[stream[i].cell]
  <2>1. i + 1 \in 1 .. n /\ stream[i] = q.stream[i + 1] BY <1>2, <1>10
  <2> QED BY <2>1, <1>13 DEF QueueInv, Underway, n
<1>14. h.kind = "upload" /\ Settled(q, 1) => value = held[h.cell]
  <2>1. 1 \in 1 .. n BY <1>2
  <2> QED BY <2>1, <1>2 DEF QueueInv, Underway, n
<1> HIDE DEF value
<1> DEFINE Kept ==
             /\ p \in Queues /\ p.stream = stream /\ p.used = q.used
             /\ p.readbacks = q.readbacks /\ p.failed = q.failed
             /\ Len(p.slots) = Len(q.slots)
             /\ \A t \in 1 .. q.used : t # h.slot => p.slots[t].content = q.slots[t].content
<1> DEFINE Main ==
             /\ Kept
             /\ \A i \in 1 .. n - 1 :
                  p.slots[stream[i].slot].content = q.slots[stream[i].slot].content
             /\ \A c \in Cells :
                  (\A i \in 1 .. n - 1 : ~Uploads(stream[i], c)) => p.device[c] = held[c]
             /\ h.kind = "download" => p.slots[h.slot].content = q.device[h.cell]
<1>15. ASSUME h.kind = "upload" PROVE Main
  <2>1. p = [[q EXCEPT !.device = device] EXCEPT !.stream = stream]
    BY <1>15 DEF CopyRun, Copied, stream, h, value
  <2>2. device[h.cell] = value /\ \A c \in Cells : c # h.cell => device[c] = q.device[c]
    BY <1>1, <1>3
  <2> HIDE DEF device, p, slots
  <2>3. /\ p \in Queues /\ p.slots = q.slots /\ p.device = device /\ p.stream = stream
        /\ p.used = q.used /\ p.readbacks = q.readbacks /\ p.failed = q.failed
    BY <2>1, <1>1, <1>2, <1>9 DEF Queues
  <2>4. Kept BY <2>3
  <2>5. \A i \in 1 .. n - 1 : p.slots[stream[i].slot].content = q.slots[stream[i].slot].content
    BY <2>3
  <2>6. ASSUME NEW c \in Cells, \A i \in 1 .. n - 1 : ~Uploads(stream[i], c)
        PROVE  p.device[c] = held[c]
    <3>1. CASE c = h.cell BY <3>1, <2>2, <2>3, <2>6, <1>11, <1>14, <1>15
    <3>2. CASE c # h.cell
      <4>1. ~Uploads(h, c) BY <3>2 DEF Uploads
      <4> QED BY <4>1, <3>2, <2>2, <2>3, <2>6, <1>12
    <3> QED BY <3>1, <3>2
  <2> QED BY <2>3, <2>4, <2>5, <2>6, <1>15
<1>16. ASSUME h.kind = "download" PROVE Main
  <2>1. p = [[q EXCEPT !.slots = slots] EXCEPT !.stream = stream]
    <3>1. Copied(q, h) = [q EXCEPT !.slots = [q.slots EXCEPT ![h.slot] =
                            [q.slots[h.slot] EXCEPT !.content = q.device[h.cell]]]]
      BY <1>16 DEF Copied
    <3> QED BY <3>1 DEF CopyRun, stream, h, slots, s
  <2> HIDE DEF device, p, slots
  <2>3. /\ p \in Queues /\ p.slots = slots /\ p.device = q.device /\ p.stream = stream
        /\ p.used = q.used /\ p.readbacks = q.readbacks /\ p.failed = q.failed
    BY <2>1, <1>1, <1>2, <1>8 DEF Queues
  <2>4. \A t \in 1 .. q.used : t # h.slot => p.slots[t] = q.slots[t]
    <3>1. 1 .. q.used \subseteq 1 .. Len(q.slots) BY <1>1
    <3> QED BY <3>1, <2>3, <1>8
  <2>5. Kept BY <2>3, <2>4, <1>8
  <2>6. \A i \in 1 .. n - 1 : p.slots[stream[i].slot].content = q.slots[stream[i].slot].content
    BY <2>4, <1>4
  <2>7. ASSUME NEW c \in Cells, \A i \in 1 .. n - 1 : ~Uploads(stream[i], c)
        PROVE  p.device[c] = held[c]
    <3>1. ~Uploads(h, c) BY <1>16 DEF Uploads
    <3> QED BY <3>1, <2>3, <2>7, <1>12
  <2>8. p.slots[h.slot].content = q.device[h.cell] BY <2>3, <1>5, <1>7, <1>8
  <2> QED BY <2>3, <2>5, <2>6, <2>7, <2>8
<1>17. Main
  <2> HIDE DEF Main
  <2> QED BY <1>3, <1>15, <1>16
<1> HIDE DEF p
<1>18. Len(p.stream) = n - 1 BY <1>2, <1>17
<1>19. \A i \in 1 .. n - 1 : Settled(p, i) <=> Settled(q, i + 1)
  BY <1>10, <1>17, <1>18 DEF Settled
<1>20. QueueInv(p, held)
  <2>1. Underway(p, held) BY <1>13, <1>17, <1>18, <1>19 DEF Underway
  <2>2. \A i, j \in 1 .. n - 1 : i # j => stream[i].slot # stream[j].slot
    <3>1. ASSUME NEW i \in 1 .. n - 1, NEW j \in 1 .. n - 1, i # j
          PROVE  stream[i].slot # stream[j].slot
      <4>1. i + 1 \in 1 .. n /\ j + 1 \in 1 .. n /\ i + 1 # j + 1 BY <1>2, <3>1
      <4>2. q.stream[i + 1].slot # q.stream[j + 1].slot
        BY <4>1 DEF QueueInv, Disjoint, n
      <4> QED BY <4>2, <1>2
    <3> QED BY <3>1
  <2>3. Disjoint(p) BY <2>2, <1>1, <1>4, <1>17, <1>18 DEF Disjoint
  <2> QED BY <2>1, <2>3, <1>17 DEF QueueInv
<1>21. ASSUME NEW o, NEW wanted, Fetching(q, held, o, wanted)
       PROVE  Fetching(p, held, o, wanted)
  <2>1. ASSUME NEW k \in 1 .. Len(wanted)
        PROVE  Arrived(p, k, wanted[k]) \/ Arriving(p, held, k, wanted[k])
    <3> DEFINE t == q.readbacks[k].slot
    <3>1. /\ t \in 1 .. q.used /\ p.readbacks[k].slot = t
          /\ Arrived(q, k, wanted[k]) \/ Arriving(q, held, k, wanted[k])
      BY <1>17, <1>21 DEF Fetching
    <3>2. CASE Arrived(q, k, wanted[k])
      <4>1. q.slots[t].content = wanted[k] /\ \A i \in 1 .. n : q.stream[i].slot # t
        BY <3>2 DEF Arrived, n
      <4>2. 1 \in 1 .. n /\ \A i \in 1 .. n - 1 : i + 1 \in 1 .. n BY <1>2
      <4>3. t # h.slot /\ \A i \in 1 .. n - 1 : stream[i].slot # t BY <4>1, <4>2, <1>2
      <4>4. p.slots[t].content = wanted[k] BY <4>1, <4>3, <3>1, <1>17
      <4>5. Arrived(p, k, wanted[k]) BY <4>3, <4>4, <3>1, <1>17, <1>18 DEF Arrived
      <4> QED BY <4>5
    <3>3. CASE Arriving(q, held, k, wanted[k])
      <4>1. PICK i \in 1 .. n :
              /\ q.stream[i].kind = "download" /\ q.stream[i].slot = t
              /\ Settled(q, i) /\ wanted[k] = held[q.stream[i].cell]
        BY <3>3 DEF Arriving, n
      <4>2. CASE i = 1
        <5>1. h.kind = "download" /\ t = h.slot /\ wanted[k] = held[h.cell] /\ Settled(q, 1)
          BY <4>1, <4>2, <1>2
        <5>2. ~Uploads(h, h.cell) BY <5>1 DEF Uploads
        <5>3. q.device[h.cell] = held[h.cell] BY <5>1, <5>2, <1>3, <1>11, <1>12
        <5>4. p.slots[t].content = wanted[k] BY <5>1, <5>3, <1>17
        <5>5. \A j \in 1 .. n - 1 : stream[j].slot # t BY <5>1, <1>4
        <5>6. Arrived(p, k, wanted[k]) BY <5>4, <5>5, <3>1, <1>17, <1>18 DEF Arrived
        <5> QED BY <5>6
      <4>3. CASE i # 1
        <5>1. i - 1 \in 1 .. n - 1 /\ (i - 1) + 1 = i BY <4>3, <1>2
        <5>2. stream[i - 1] = q.stream[i] BY <5>1, <1>2
        <5>3. Settled(p, i - 1) BY <5>1, <4>1, <1>19
        <5>4. Arriving(p, held, k, wanted[k])
          BY <5>1, <5>2, <5>3, <4>1, <3>1, <1>17, <1>18 DEF Arriving
        <5> QED BY <5>4
      <4> QED BY <4>2, <4>3
    <3> QED BY <3>1, <3>2, <3>3
  <2> QED BY <2>1, <1>17, <1>21 DEF Fetching
<1> QED BY <1>17, <1>20, <1>21 DEF p

-----------------------------------------------------------------------------
(* The owner's operations.                                                   *)
LEMMA Initially == Init => TransferInv
<1> SUFFICES ASSUME Init PROVE TransferInv OBVIOUS
<1> USE DEF Init
<1>1. Types
  <2>1. 0 \in 0 .. MaxOperations BY BoundsAssumption
  <2>2. <<>> \in Seq(Int) BY EmptySeq
  <2> QED BY <2>1, <2>2 DEF Types
<1>2. QueueInv(queue, ordered)
  <2>1. <<>> \in Seq(Slots) /\ <<>> \in Seq(Readbacks) /\ <<>> \in Seq(Copies) BY EmptySeq
  <2>2. [c \in Cells |-> 0] \in [Cells -> Int] OBVIOUS
  <2>3. queue \in Queues BY <2>1, <2>2 DEF Queues
  <2>4. /\ queue.stream = <<>> /\ queue.slots = <<>> /\ queue.used = 0
        /\ queue.device = [c \in Cells |-> 0] /\ Len(<<>>) = 0
    BY EmptySeq
  <2>5. Disjoint(queue) BY <2>4 DEF Disjoint
  <2>6. Underway(queue, ordered) BY <2>4 DEF Underway
  <2> QED BY <2>3, <2>5, <2>6 DEF QueueInv
<1>3. Owner
  <2>1. ~Running
    <3>1. 0 \notin Operations BY DEF Operations
    <3> QED BY <3>1 DEF Running
  <2>2. queue.readbacks = <<>> OBVIOUS
  <2>3. AllOrNothing
    <3>1. \A i \in DOMAIN <<>> : FALSE BY EmptySeq
    <3> QED BY <3>1 DEF AllOrNothing, Empty
  <2> QED BY <2>1, <2>2, <2>3 DEF Owner
<1> QED BY <1>1, <1>2, <1>3 DEF TransferInv

LEMMA OwnerFacts ==
  ASSUME TransferInv
  PROVE  /\ operation \in Int /\ Operations \subseteq Int
         /\ \A o \in Operations :
              /\ expected[o] \in Seq(Int) /\ delivered[o] \in Seq(Int)
              /\ Len(expected[o]) \in Nat
              /\ DOMAIN expected[o] = 1 .. Len(expected[o])
              /\ DOMAIN delivered[o] = 1 .. Len(expected[o])
<1>1. operation \in Int /\ Operations \subseteq Int
  BY BoundsAssumption DEF TransferInv, Types, Operations
<1>2. ASSUME NEW o \in Operations
      PROVE  /\ expected[o] \in Seq(Int) /\ delivered[o] \in Seq(Int)
             /\ Len(expected[o]) = Len(delivered[o])
  BY DEF TransferInv, Types, Owner
<1> QED BY <1>1, <1>2, LenProperties

\* An operation that fails leaves its destinations alone and no readback behind.
LEMMA Closing ==
  ASSUME TransferInv, Running, Close("failed"),
         UNCHANGED <<operation, expected, delivered>>,
         calls' \in Nat, ordered' \in [Cells -> Int],
         QueueInv(queue', ordered'), queue'.readbacks = <<>>
  PROVE  TransferInv'
<1>1. /\ operation \in Operations /\ outcome[operation] = "open"
      /\ outcome \in [Operations -> {"open", "done", "failed"}]
  BY DEF Running, TransferInv, Types
<1>2. /\ outcome'[operation] = "failed"
      /\ \A o \in Operations : o # operation => outcome'[o] = outcome[o]
      /\ outcome' \in [Operations -> {"open", "done", "failed"}]
  BY <1>1 DEF Close
<1>3. Types' BY <1>2 DEF Types, TransferInv
<1>4. ~Running' BY <1>2 DEF Running
<1>5. AllOrNothing' BY <1>1, <1>2 DEF AllOrNothing, Full, Empty, TransferInv, Owner
<1>6. \A o \in Operations : o > operation' => outcome'[o] = "open" /\ expected'[o] = <<>>
  <2>1. \A o \in Operations : o > operation => o # operation BY OwnerFacts
  <2> QED BY <2>1, <1>2 DEF TransferInv, Owner
<1>7. Owner' BY <1>4, <1>5, <1>6 DEF Owner, TransferInv
<1> QED BY <1>3, <1>7 DEF TransferInv

LEMMA BeginKeeps == TransferInv /\ Begin => TransferInv'
<1> SUFFICES ASSUME TransferInv, Begin PROVE TransferInv' OBVIOUS
<1> USE DEF Begin
<1>1. operation \in 0 .. MaxOperations /\ operation' = operation + 1 /\ operation < MaxOperations
  BY DEF TransferInv, Types
<1>2. /\ operation' \in Operations /\ operation' \in 0 .. MaxOperations
      /\ operation' > operation /\ \A o \in Operations : o > operation' => o > operation
  BY <1>1, BoundsAssumption DEF Operations
<1>3. outcome'[operation'] = "open" /\ expected'[operation'] = <<>>
  BY <1>2 DEF TransferInv, Owner
<1>4. queue.readbacks = <<>> BY DEF TransferInv, Owner
<1>5. Running' BY <1>2, <1>3 DEF Running
<1>6. Types' BY <1>2 DEF TransferInv, Types
<1>7. Fetching(queue, ordered, operation', <<>>)
  <2>1. Len(<<>>) = 0 BY EmptySeq
  <2> QED BY <1>4, <2>1 DEF Fetching
<1>8. Owner'
  <2>1. AllOrNothing' BY DEF TransferInv, Owner, AllOrNothing, Full, Empty
  <2>2. \A o \in Operations : o > operation' => outcome'[o] = "open" /\ expected'[o] = <<>>
    BY <1>2 DEF TransferInv, Owner
  <2>3. \A o \in Operations : Len(delivered'[o]) = Len(expected'[o])
    BY DEF TransferInv, Owner
  <2> QED BY <2>1, <2>2, <2>3, <1>3, <1>5, <1>7 DEF Owner
<1> QED BY <1>6, <1>8 DEF TransferInv

LEMMA WriteKeeps ==
  ASSUME TransferInv, NEW c \in Cells, NEW bytes \in Sizes, Write(c, bytes)
  PROVE  TransferInv'
<1> DEFINE value == MaxCalls * operation + calls
<1>1. /\ operation \in Operations /\ outcome[operation] = "open" /\ Running
      /\ expected[operation] = <<>> /\ calls \in Nat /\ calls' \in Nat
      /\ QueueInv(queue, ordered) /\ ordered \in [Cells -> Int] /\ bytes \in Nat
  BY SizesAssumption DEF Write, Running, TransferInv, Types
<1>2. value \in Int
  <2>1. MaxCalls \in Int /\ operation \in Int /\ calls \in Int
    BY <1>1, BoundsAssumption DEF Operations
  <2>2. \A x, y, z \in Int : x * y + z \in Int OBVIOUS
  <2> QED BY <2>1, <2>2
<1> HIDE DEF value
<1>3. PICK r \in UploadBytes(queue, c, bytes, value) :
        /\ queue' = r.queue
        /\ ordered' = IF r.ok /\ bytes > 0 THEN [ordered EXCEPT ![c] = value] ELSE ordered
        /\ IF r.ok THEN UNCHANGED outcome ELSE Close("failed")
  BY DEF Write, value
<1>4. UNCHANGED <<operation, expected, delivered>> BY DEF Write
<1>5. queue.readbacks = <<>>
  <2>1. Fetching(queue, ordered, operation, <<>>) BY <1>1 DEF TransferInv, Owner
  <2>2. Len(queue.readbacks) = 0 BY <2>1, EmptySeq DEF Fetching
  <2>3. queue.readbacks \in Seq(Readbacks) BY <1>1, QueueParts DEF QueueInv
  <2> QED BY <2>2, <2>3, EmptySeq
<1>6. r.ok \in BOOLEAN /\ QueueInv(queue', ordered') /\ queue'.readbacks = <<>>
  <2>1. /\ r.ok \in BOOLEAN /\ QueueInv(r.queue, Accepts(ordered, r.ok, c, bytes, value))
        /\ queue.readbacks = <<>> => r.queue.readbacks = <<>>
    BY <1>1, <1>2, UploadResult
  <2>2. ordered' = Accepts(ordered, r.ok, c, bytes, value) /\ queue' = r.queue
    BY <1>3 DEF Accepts
  <2> QED BY <2>1, <2>2, <1>5
<1>7. ordered' \in [Cells -> Int] BY <1>1, <1>2, <1>3
<1>8. CASE r.ok
  <2>1. UNCHANGED outcome BY <1>3, <1>8
  <2>2. Fetching(queue', ordered', operation, <<>>)
    <3>1. Len(<<>>) = 0 BY EmptySeq
    <3> QED BY <1>6, <3>1 DEF Fetching
  <2>3. Running' /\ AllOrNothing'
    BY <2>1, <1>1, <1>4 DEF Running, AllOrNothing, Full, Empty, TransferInv, Owner
  <2>4. Owner' BY <2>1, <2>2, <2>3, <1>1, <1>4 DEF TransferInv, Owner
  <2>5. Types' BY <2>1, <1>1, <1>4, <1>7 DEF TransferInv, Types
  <2> QED BY <2>4, <2>5, <1>6 DEF TransferInv
<1>9. CASE ~r.ok
  <2>1. Close("failed") BY <1>3, <1>9
  <2> QED BY <2>1, <1>1, <1>4, <1>6, <1>7, Closing
<1> QED BY <1>8, <1>9

LEMMA AbandonKeeps == TransferInv /\ Abandon => TransferInv'
<1> SUFFICES ASSUME TransferInv, Abandon PROVE TransferInv' OBVIOUS
<1>1. /\ Running /\ expected[operation] = <<>> /\ Close("failed")
      /\ UNCHANGED <<queue, operation, calls, ordered, expected, delivered>>
      /\ QueueInv(queue, ordered)
  BY DEF Abandon, TransferInv
<1>2. queue.readbacks = <<>>
  <2>1. Fetching(queue, ordered, operation, <<>>) BY <1>1 DEF TransferInv, Owner
  <2>2. Len(queue.readbacks) = 0 BY <2>1, EmptySeq DEF Fetching
  <2>3. queue.readbacks \in Seq(Readbacks) BY <1>1, QueueParts DEF QueueInv
  <2> QED BY <2>2, <2>3, EmptySeq
<1>3. calls' \in Nat /\ ordered' \in [Cells -> Int] BY <1>1 DEF TransferInv, Types
<1> QED BY <1>1, <1>2, <1>3, Closing

LEMMA CopyKeeps == TransferInv /\ Copy => TransferInv'
<1> SUFFICES ASSUME TransferInv, Copy PROVE TransferInv' OBVIOUS
<1>1. /\ QueueInv(queue, ordered) /\ ordered \in [Cells -> Int] /\ queue.stream # <<>>
      /\ UNCHANGED <<operation, outcome, calls, ordered, expected, delivered>>
  BY DEF Copy, TransferInv, Types
<1>2. queue' = CopyRun(queue)
  <2>1. queue \in Queues BY <1>1 DEF QueueInv
  <2>2. Copied(queue, Head(queue.stream)).stream = queue.stream
    BY <2>1 DEF Copied, Queues
  <2>3. queue' = [Copied(queue, Head(queue.stream)) EXCEPT
                    !.stream = Tail(Copied(queue, Head(queue.stream)).stream)]
    BY DEF Copy
  <2> QED BY <2>2, <2>3 DEF CopyRun
<1>3. /\ QueueInv(queue', ordered) /\ queue'.readbacks = queue.readbacks
      /\ queue'.failed = queue.failed
      /\ \A o, wanted : Fetching(queue, ordered, o, wanted) => Fetching(queue', ordered, o, wanted)
  BY <1>1, <1>2, CopyResult
<1>4. Running' <=> Running BY <1>1 DEF Running
<1>5. Types' BY <1>1 DEF TransferInv, Types
<1>6. Owner' BY <1>1, <1>3, <1>4 DEF TransferInv, Owner, AllOrNothing, Full, Empty
<1> QED BY <1>1, <1>3, <1>5, <1>6 DEF TransferInv

LEMMA ReadKeeps ==
  ASSUME TransferInv, NEW c \in Cells, NEW bytes \in Sizes, Read(c, bytes)
  PROVE  TransferInv'
<1> DEFINE wanted == expected[operation]
           m == Len(wanted)
           to == Destination
<1>1. /\ operation \in Operations /\ outcome[operation] = "open" /\ Running
      /\ calls \in Nat /\ QueueInv(queue, ordered) /\ ordered \in [Cells -> Int]
      /\ bytes \in Nat /\ operation \in Nat
      /\ Fetching(queue, ordered, operation, wanted)
      /\ wanted # <<>> => ~queue.failed
  BY SizesAssumption, BoundsAssumption DEF Read, Running, TransferInv, Types, Owner
<1>2. wanted \in Seq(Int) /\ m \in Nat BY <1>1, OwnerFacts
<1>3. to \in Destinations /\ to.operation = operation /\ to.index = m + 1
  BY <1>1, <1>2 DEF Destination, Destinations
<1> HIDE DEF to
<1>4. PICK r \in DownloadBytes(queue, c, bytes, to) :
        IF r.ok THEN ReadOutcome(r, c, bytes)
        ELSE \E d \in Drain(r.queue) : ReadOutcome([d EXCEPT !.ok = FALSE], c, bytes)
  BY DEF Read, to
<1>5. /\ r.ok \in BOOLEAN /\ QueueInv(r.queue, ordered)
      /\ r.ok /\ bytes = 0 => r.queue = queue /\ ~queue.failed
  BY <1>1, <1>3, DownloadResult
<1>6. CASE ~r.ok
  <2>1. PICK d \in Drain(r.queue) : ReadOutcome([d EXCEPT !.ok = FALSE], c, bytes)
    BY <1>4, <1>6
  <2>2. QueueInv(d.queue, ordered) /\ d.queue.readbacks = <<>> /\ d = [ok |-> d.ok, queue |-> d.queue]
    BY <1>5, DrainKeeps
  <2>3. [d EXCEPT !.ok = FALSE] = [ok |-> FALSE, queue |-> d.queue]
    <3> SUFFICES ASSUME NEW e, e = [d EXCEPT !.ok = FALSE]
                 PROVE  e = [ok |-> FALSE, queue |-> d.queue]
      OBVIOUS
    <3> QED BY <2>2
  <2>4. /\ queue' = d.queue /\ calls' = calls + 1 /\ Close("failed")
        /\ UNCHANGED <<expected, delivered, operation, ordered>>
    BY <2>1, <2>3 DEF ReadOutcome
  <2>5. calls' \in Nat BY <2>4, <1>1
  <2> QED BY <2>2, <2>4, <2>5, <1>1, Closing
<1>7. CASE r.ok /\ bytes = 0
  <2>1. /\ queue' = queue /\ calls' = calls + 1
        /\ UNCHANGED <<outcome, expected, delivered, operation, ordered>>
    BY <1>4, <1>5, <1>7 DEF ReadOutcome
  <2>2. calls' \in Nat BY <2>1, <1>1
  <2>3. Types' BY <2>1, <2>2 DEF TransferInv, Types
  <2>4. Running' <=> Running BY <2>1 DEF Running
  <2>5. Owner' BY <2>1, <2>4 DEF TransferInv, Owner, AllOrNothing, Full, Empty
  <2> QED BY <2>1, <2>3, <2>5, <1>1 DEF TransferInv
<1>8. CASE r.ok /\ bytes > 0
  <2> DEFINE more == Append(wanted, ordered[c])
             untouched == Append(delivered[operation], Nothing)
  <2>1. /\ queue' = r.queue /\ calls' = calls + 1 /\ UNCHANGED <<outcome, operation, ordered>>
        /\ expected' = [expected EXCEPT ![operation] = more]
        /\ delivered' = [delivered EXCEPT ![operation] = untouched]
    BY <1>4, <1>8 DEF ReadOutcome
  <2>2. calls' \in Nat BY <2>1, <1>1
  <2>3. delivered[operation] \in Seq(Int) /\ Len(delivered[operation]) = m
    BY <1>1, <1>2, OwnerFacts DEF TransferInv, Owner
  <2>4. ordered[c] \in Int /\ Nothing \in Int BY <1>1 DEF Nothing
  <2>5. more \in Seq(Int) /\ Len(more) = m + 1 BY <1>2, <2>4, AppendProperties
  <2>6. /\ untouched \in Seq(Int) /\ Len(untouched) = m + 1
        /\ \A i \in 1 .. m : untouched[i] = delivered[operation][i]
        /\ untouched[m + 1] = Nothing
    BY <2>3, <2>4, AppendProperties
  <2>7. ~queue'.failed /\ Fetching(queue', ordered, operation, more)
    <3>1. queue.failed \in BOOLEAN BY <1>1, QueueParts DEF QueueInv
    <3>2. CASE queue.failed
      <4>1. wanted = <<>> /\ m = 0 BY <3>2, <1>1, EmptySeq
      <4>2. to.index = 1 BY <4>1, <1>3
      <4> QED BY <4>1, <4>2, <3>2, <1>1, <1>2, <1>3, <1>8, <2>1, DownloadResult
    <3>3. CASE ~queue.failed
      BY <3>3, <1>1, <1>2, <1>3, <1>8, <2>1, DownloadResult
    <3> QED BY <3>1, <3>2, <3>3
  <2> HIDE DEF more, untouched
  <2>8. /\ expected'[operation] = more /\ delivered'[operation] = untouched
        /\ \A o \in Operations : o # operation =>
             expected'[o] = expected[o] /\ delivered'[o] = delivered[o]
        /\ expected' \in [Operations -> Seq(Int)] /\ delivered' \in [Operations -> Seq(Int)]
    BY <1>1, <2>1, <2>5, <2>6 DEF TransferInv, Types
  <2>9. Types' BY <2>1, <2>2, <2>8 DEF TransferInv, Types
  <2>10. Running' BY <1>1, <2>1 DEF Running
  <2>11. AllOrNothing'
    <3>1. ASSUME NEW i \in DOMAIN untouched PROVE untouched[i] = Nothing
      <4>1. DOMAIN untouched = 1 .. m + 1 BY <2>6, LenProperties
      <4>2. CASE i = m + 1 BY <4>2, <2>6
      <4>3. CASE i # m + 1
        <5>1. i \in 1 .. m BY <4>1, <4>3, <1>2
        <5>2. i \in DOMAIN delivered[operation] BY <5>1, <2>3, LenProperties
        <5>3. delivered[operation][i] = Nothing
          BY <5>2, <1>1 DEF TransferInv, Owner, AllOrNothing, Empty
        <5> QED BY <5>1, <5>3, <2>6
      <4> QED BY <4>2, <4>3
    <3>2. ASSUME NEW o \in Operations
          PROVE  /\ outcome'[o] = "done" => Full(o)'
                 /\ outcome'[o] = "open" => Empty(o)'
                 /\ outcome'[o] = "failed" => Full(o)' \/ Empty(o)'
      <4>1. CASE o = operation BY <4>1, <3>1, <1>1, <2>1, <2>8 DEF Empty
      <4>2. CASE o # operation
        BY <4>2, <2>1, <2>8 DEF TransferInv, Owner, AllOrNothing, Full, Empty
      <4> QED BY <4>1, <4>2
    <3> QED BY <3>2 DEF AllOrNothing
  <2>12. \A o \in Operations : Len(delivered'[o]) = Len(expected'[o])
    BY <2>5, <2>6, <2>8 DEF TransferInv, Owner
  <2>13. \A o \in Operations : o > operation => outcome'[o] = "open" /\ expected'[o] = <<>>
    <3>1. \A o \in Operations : o > operation => o # operation BY OwnerFacts
    <3> QED BY <3>1, <2>1, <2>8 DEF TransferInv, Owner
  <2>14. Owner' BY <2>1, <2>7, <2>8, <2>10, <2>11, <2>12, <2>13 DEF Owner
  <2> QED BY <1>5, <2>1, <2>9, <2>14 DEF TransferInv
<1> QED BY <1>1, <1>5, <1>6, <1>7, <1>8

\* What the end of an operation brings is written to its destinations only.
LEMMA Published ==
  ASSUME TransferInv, Running, NEW slots, slots = queue.slots, queue.stream = <<>>,
         Publish(queue.readbacks, slots)
  PROVE  delivered' = [delivered EXCEPT ![operation] = expected[operation]]
<1> DEFINE wanted == expected[operation]
           rs == queue.readbacks
           found(o, i) == {k \in DOMAIN rs : rs[k].to = [operation |-> o, index |-> i]}
<1>1. /\ operation \in Operations /\ Fetching(queue, ordered, operation, wanted)
      /\ QueueInv(queue, ordered)
  BY DEF Running, TransferInv, Owner
<1>2. /\ Len(wanted) \in Nat /\ DOMAIN wanted = 1 .. Len(wanted) /\ wanted \in Seq(Int)
      /\ DOMAIN delivered[operation] = 1 .. Len(wanted)
  BY <1>1, OwnerFacts
<1>3. DOMAIN rs = 1 .. Len(wanted)
  <2>1. rs \in Seq(Readbacks) BY <1>1, QueueParts DEF QueueInv
  <2> QED BY <2>1, <1>1, LenProperties DEF Fetching
<1>4. ASSUME NEW k \in 1 .. Len(wanted)
      PROVE  /\ rs[k].to = [operation |-> operation, index |-> k]
             /\ slots[rs[k].slot].content = wanted[k]
  <2>1. \A i \in 1 .. Len(queue.stream) : FALSE BY EmptySeq
  <2>2. Arrived(queue, k, wanted[k]) BY <2>1, <1>1 DEF Fetching, Arriving
  <2> QED BY <2>2, <1>1 DEF Fetching, Arrived
<1>5. \A o \in Operations : o # operation => \A i : found(o, i) = {}
  <2>1. ASSUME NEW o \in Operations, o # operation, NEW i, NEW k \in DOMAIN rs
        PROVE  rs[k].to # [operation |-> o, index |-> i]
    <3>1. rs[k].to = [operation |-> operation, index |-> k] BY <1>3, <1>4
    <3>2. rs[k].to.operation = operation BY <3>1
    <3> QED BY <2>1, <3>2
  <2> QED BY <2>1
<1>6. \A i \in 1 .. Len(wanted) : found(operation, i) = {i}
  <2>1. ASSUME NEW i \in 1 .. Len(wanted), NEW k \in 1 .. Len(wanted),
               rs[k].to = [operation |-> operation, index |-> i]
        PROVE  k = i
    <3>1. rs[k].to = [operation |-> operation, index |-> k] BY <1>4
    <3>2. rs[k].to.index = k BY <3>1
    <3>3. rs[k].to.index = i BY <2>1
    <3> QED BY <3>2, <3>3
  <2> QED BY <2>1, <1>3, <1>4
<1> DEFINE row(o) == [i \in DOMAIN delivered[o] |->
             IF found(o, i) = {} THEN delivered[o][i]
             ELSE slots[rs[CHOOSE k \in found(o, i) : TRUE].slot].content]
<1>7. delivered' = [o \in Operations |-> row(o)] BY DEF Publish
<1> HIDE DEF found, rs
<1>8. ASSUME NEW o \in Operations, o # operation
      PROVE  row(o) = delivered[o]
  <2>1. delivered[o] \in Seq(Int) BY OwnerFacts
  <2>2. delivered[o] = [i \in DOMAIN delivered[o] |-> delivered[o][i]]
    BY <2>1, LenProperties, SeqDef
  <2> QED BY <2>2, <1>5, <1>8
<1>9. row(operation) = wanted
  <2>1. ASSUME NEW i \in 1 .. Len(wanted)
        PROVE  (IF found(operation, i) = {} THEN delivered[operation][i]
                ELSE slots[rs[CHOOSE k \in found(operation, i) : TRUE].slot].content) = wanted[i]
    <3>1. found(operation, i) = {i} BY <1>6
    <3>2. (CHOOSE k \in {i} : TRUE) = i OBVIOUS
    <3>3. found(operation, i) # {} BY <3>1
    <3>4. slots[rs[i].slot].content = wanted[i] BY <1>4 DEF rs
    <3> QED BY <3>1, <3>2, <3>3, <3>4
  <2>2. wanted = [i \in 1 .. Len(wanted) |-> wanted[i]]
    BY <1>2, LenProperties, SeqDef
  <2> QED BY <2>1, <2>2, <1>2
<1> HIDE DEF row, wanted
<1>10. delivered' = [o \in Operations |-> IF o = operation THEN wanted ELSE delivered[o]]
  BY <1>7, <1>8, <1>9
<1>11. delivered = [o \in Operations |-> delivered[o]] BY DEF TransferInv, Types
<1> QED BY <1>10, <1>11, <1>1 DEF wanted

LEMMA ObserveKeeps == TransferInv /\ Observe => TransferInv'
<1> SUFFICES ASSUME TransferInv, Observe PROVE TransferInv' OBVIOUS
<1>1. /\ Running /\ operation \in Operations /\ outcome[operation] = "open"
      /\ QueueInv(queue, ordered) /\ calls \in Nat /\ ordered \in [Cells -> Int]
      /\ UNCHANGED <<operation, calls, ordered, expected>>
  BY DEF Observe, Running, TransferInv, Types
<1>2. PICK r \in FinishTransfers(queue), fatal \in BOOLEAN :
        /\ queue' = r.queue
        /\ Close(IF r.ok /\ ~fatal THEN "done" ELSE "failed")
        /\ IF r.ok THEN Publish(queue.readbacks, r.queue.slots) ELSE UNCHANGED delivered
  BY DEF Observe
<1>3. /\ r.ok \in BOOLEAN /\ QueueInv(queue', ordered') /\ queue'.readbacks = <<>>
      /\ r.ok => queue.stream = <<>> /\ r.queue.slots = queue.slots
  BY <1>1, <1>2, FinishResult
<1>4. CASE ~r.ok
  BY <1>1, <1>2, <1>3, <1>4, Closing
<1>5. CASE r.ok
  <2>1. PICK ending \in {"done", "failed"} :
          Publish(queue.readbacks, r.queue.slots) /\ Close(ending)
    BY <1>2, <1>5
  <2>2. delivered' = [delivered EXCEPT ![operation] = expected[operation]]
    BY <2>1, <1>1, <1>3, <1>5, Published
  <2>3. /\ delivered'[operation] = expected[operation]
        /\ \A o \in Operations : o # operation => delivered'[o] = delivered[o]
        /\ delivered' \in [Operations -> Seq(Int)]
    BY <2>2, <1>1 DEF TransferInv, Types
  <2>4. /\ outcome'[operation] = ending
        /\ \A o \in Operations : o # operation => outcome'[o] = outcome[o]
        /\ outcome' \in [Operations -> {"open", "done", "failed"}]
    BY <2>1, <1>1 DEF Close, TransferInv, Types
  <2>5. Types' BY <2>3, <2>4, <1>1 DEF TransferInv, Types
  <2>6. ~Running' BY <2>4, <1>1 DEF Running
  <2>7. AllOrNothing'
    <3>1. ASSUME NEW o \in Operations
          PROVE  /\ outcome'[o] = "done" => Full(o)'
                 /\ outcome'[o] = "open" => Empty(o)'
                 /\ outcome'[o] = "failed" => Full(o)' \/ Empty(o)'
      <4>1. CASE o = operation BY <4>1, <2>3, <2>4, <1>1 DEF Full
      <4>2. CASE o # operation
        BY <4>2, <2>3, <2>4, <1>1 DEF TransferInv, Owner, AllOrNothing, Full, Empty
      <4> QED BY <4>1, <4>2
    <3> QED BY <3>1 DEF AllOrNothing
  <2>8. \A o \in Operations : Len(delivered'[o]) = Len(expected'[o])
    BY <2>3, <1>1 DEF TransferInv, Owner
  <2>9. \A o \in Operations : o > operation => outcome'[o] = "open" /\ expected'[o] = <<>>
    <3>1. \A o \in Operations : o > operation => o # operation BY OwnerFacts
    <3> QED BY <3>1, <2>4, <1>1 DEF TransferInv, Owner
  <2>10. Owner' BY <2>6, <2>7, <2>8, <2>9, <1>1, <1>3 DEF Owner
  <2> QED BY <2>5, <2>10, <1>3 DEF TransferInv
<1> QED BY <1>3, <1>4, <1>5

LEMMA StutterKeeps == TransferInv /\ UNCHANGED vars => TransferInv'
BY DEF TransferInv, vars, Types, Owner, AllOrNothing, Full, Empty, Running

LEMMA StepKeeps == TransferInv /\ [Next]_vars => TransferInv'
<1> SUFFICES ASSUME TransferInv, [Next]_vars PROVE TransferInv' OBVIOUS
<1>1. CASE Begin BY <1>1, BeginKeeps
<1>2. ASSUME NEW c \in Cells, NEW bytes \in Sizes, Write(c, bytes) PROVE TransferInv'
  BY <1>2, WriteKeeps
<1>3. ASSUME NEW c \in Cells, NEW bytes \in Sizes, Read(c, bytes) PROVE TransferInv'
  BY <1>3, ReadKeeps
<1>4. CASE Observe BY <1>4, ObserveKeeps
<1>5. CASE Abandon BY <1>5, AbandonKeeps
<1>6. CASE Copy BY <1>6, CopyKeeps
<1>7. CASE Finished BY <1>7, StutterKeeps DEF Finished
<1>8. CASE UNCHANGED vars BY <1>8, StutterKeeps
<1> QED BY <1>1, <1>2, <1>3, <1>4, <1>5, <1>6, <1>7, <1>8 DEF Next

LEMMA AlwaysTransfer == Spec => []TransferInv
<1>1. Init => TransferInv BY Initially
<1>2. TransferInv /\ [Next]_vars => TransferInv' BY StepKeeps
<1> QED BY <1>1, <1>2, PTL DEF Spec

-----------------------------------------------------------------------------
\* However the calls fail, two copies in flight never share staging, and once
\* the stream is empty the device holds the last upload to every array.
THEOREM Intact == Spec => []UploadsIntact
<1>1. TransferInv => UploadsIntact
  <2> SUFFICES ASSUME TransferInv PROVE UploadsIntact OBVIOUS
  <2>1. /\ queue \in Queues /\ Disjoint(queue) /\ Underway(queue, ordered)
        /\ ordered \in [Cells -> Int] /\ queue.device \in [Cells -> Int]
        /\ DOMAIN queue.stream = 1 .. Len(queue.stream)
    BY QueueParts, LenProperties DEF TransferInv, QueueInv, Types
  <2>2. StagingNotShared BY <2>1 DEF StagingNotShared, Disjoint
  <2>3. UploadsArrive
    <3> SUFFICES ASSUME queue.stream = <<>> PROVE queue.device = ordered
      BY DEF UploadsArrive
    <3>1. \A i \in 1 .. Len(queue.stream) : FALSE BY EmptySeq
    <3>2. \A c \in Cells : queue.device[c] = ordered[c] BY <2>1, <3>1 DEF Underway
    <3> QED BY <2>1, <3>2
  <2> QED BY <2>2, <2>3 DEF UploadsIntact
<1> QED BY <1>1, AlwaysTransfer, PTL

\* The destinations of an operation hold all of its downloads, with the contents
\* at their places among the transfers, or none of them: all once it succeeded,
\* none while it runs, and one or the other when it has failed.
THEOREM Whole == Spec => []AllOrNothing
<1>1. TransferInv => AllOrNothing BY DEF TransferInv, Owner
<1> QED BY <1>1, AlwaysTransfer, PTL

\* No step writes to a destination of an operation that is over, so nothing
\* reaches memory the caller has taken back.
THEOREM Untouched == Spec => ClosedStayUntouched
<1> DEFINE Kept == \A o \in Operations : outcome[o] # "open" => delivered'[o] = delivered[o]
<1>1. TransferInv /\ [Next]_vars => [Kept]_vars
  <2> SUFFICES ASSUME TransferInv, Next PROVE Kept OBVIOUS
  <2>1. Running => operation \in Operations /\ outcome[operation] = "open" BY DEF Running
  <2>2. delivered \in [Operations -> Seq(Int)] BY DEF TransferInv, Types
  <2>3. ASSUME NEW new, Running, delivered' = [delivered EXCEPT ![operation] = new]
        PROVE  Kept
    BY <2>1, <2>2, <2>3
  <2>4. ASSUME NEW c \in Cells, NEW bytes \in Sizes, Read(c, bytes)
        PROVE  Kept
    <3>1. Running BY <2>4 DEF Read
    <3>2. PICK r \in DownloadBytes(queue, c, bytes, Destination) :
            IF r.ok THEN ReadOutcome(r, c, bytes)
            ELSE \E d \in Drain(r.queue) : ReadOutcome([d EXCEPT !.ok = FALSE], c, bytes)
      BY <2>4 DEF Read
    <3>3. PICK s : ReadOutcome(s, c, bytes) BY <3>2
    <3>4. \/ UNCHANGED delivered
          \/ delivered' = [delivered EXCEPT ![operation] = Append(@, Nothing)]
      BY <3>3 DEF ReadOutcome
    <3>5. CASE UNCHANGED delivered BY <3>5
    <3>6. CASE delivered' = [delivered EXCEPT ![operation] = Append(delivered[operation], Nothing)]
      BY <3>1, <3>6, <2>3
    <3> QED BY <3>4, <3>5, <3>6
  <2>5. ASSUME Observe PROVE Kept
    <3>1. Running /\ QueueInv(queue, ordered) BY <2>5 DEF Observe, TransferInv
    <3>2. PICK r \in FinishTransfers(queue) :
            IF r.ok THEN Publish(queue.readbacks, r.queue.slots) ELSE UNCHANGED delivered
      BY <2>5 DEF Observe
    <3>3. r.ok => queue.stream = <<>> /\ r.queue.slots = queue.slots BY <3>1, FinishResult
    <3>4. CASE r.ok
      <4>1. delivered' = [delivered EXCEPT ![operation] = expected[operation]]
        BY <3>1, <3>2, <3>3, <3>4, Published
      <4> QED BY <4>1, <3>1, <2>3
    <3>5. CASE ~r.ok BY <3>2, <3>5
    <3> QED BY <3>4, <3>5
  <2>6. CASE UNCHANGED delivered BY <2>6
  <2>7. \/ UNCHANGED delivered \/ Observe
        \/ \E c \in Cells, bytes \in Sizes : Read(c, bytes)
    BY DEF Next, Begin, Write, Abandon, Copy, Finished, vars
  <2> QED BY <2>4, <2>5, <2>6, <2>7
<1>2. Spec => [][Kept]_vars BY <1>1, AlwaysTransfer, PTL DEF Spec
<1> QED BY <1>2 DEF ClosedStayUntouched
=============================================================================
