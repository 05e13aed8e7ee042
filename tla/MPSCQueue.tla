------------------------------ MODULE MPSCQueue ------------------------------
(***************************************************************************)
(* The multi-producer single-consumer queue of                             *)
(* exchange/OrderProcessor/repo/mpscqueue.h: a linked list of buffers of   *)
(* BufferSize slots, claimed by a fetch_add on tail and filled in any      *)
(* order.  One action per access to memory that threads share; accesses to *)
(* what a thread owns, or to fields that no longer change, go with the     *)
(* access before or after them.  Memory is sequentially consistent.        *)
(*                                                                         *)
(* heap is every BufferList ever linked in, by allocation number; delete   *)
(* marks it.  A thread that follows a pointer to deleted memory either     *)
(* crashes the process or still reads what was there.                      *)
(***************************************************************************)
EXTENDS Integers, Sequences, FiniteSets, FiniteSetsExt

CONSTANTS Producers,         \* threads that call enqueue
          Quota,             \* bound: the number of enqueues each of them makes
          BufferSize,        \* bufferSize, 1620 in the code
          IndexModulus       \* values of a PositionIndex, 2^32 in the code

ASSUME ProducersAssumption == IsFiniteSet(Producers)
ASSUME QuotaAssumption == Quota \in [Producers -> Nat]
ASSUME BufferSizeAssumption == BufferSize \in Nat /\ BufferSize >= 2
ASSUME IndexModulusAssumption == IndexModulus \in Nat /\ IndexModulus > BufferSize

VARIABLES
  heap,             \* the buffers: fields of BufferList, slots, `memory'
  headOfQueue, tailOfQueue, tail, garbageListHead,
  sent,             \* enqueues each producer has begun
  ppc, location, tempTail, newBuffer, isLastBuffer,  \* locals of enqueue
  cpc, temp, scan, flagMoveToNewBuffer, flagBufferAllHandled, \* of dequeue
  crashed,          \* the process died of a bad memory access
  pending, calm     \* history: see MessageQueue

queueVars == <<headOfQueue, tailOfQueue, tail, garbageListHead>>
producerVars == <<sent, ppc, location, tempTail, newBuffer, isLastBuffer>>
consumerVars == <<cpc, temp, scan, flagMoveToNewBuffer, flagBufferAllHandled, calm>>
vars == <<heap, queueVars, producerVars, consumerVars, crashed, pending>>

Null == 0
Slots == 0 .. BufferSize - 1
Items == UNION {{p} \X (1 .. Quota[p]) : p \in Producers}
NoPlace == [buffer |-> Null, at |-> 0]

Item(p) == <<p, sent[p]>>
Open == {Item(p) : p \in {q \in Producers : ppc[q] # "idle"}}

\* new BufferList(previous, 0, position).
NewBuffer(previous, position) ==
  [positionInQueue |-> position, head |-> 0, prev |-> previous, next |-> Null,
   slots |-> [i \in Slots |-> [isSet |-> "EMPTY", data |-> <<>>]],
   memory |-> "live"]

\* PositionIndex arithmetic.
Wrap(x) == x % IndexModulus
End(b) == Wrap(BufferSize * heap[b].positionInQueue)
Begin(b) == Wrap(BufferSize * (heap[b].positionInQueue - 1))

Init ==
  /\ heap = <<NewBuffer(Null, 1)>>
  /\ headOfQueue = 1
  /\ tailOfQueue = 1
  /\ tail = 0
  /\ garbageListHead = Null
  /\ sent = [p \in Producers |-> 0]
  /\ ppc = [p \in Producers |-> "idle"]
  /\ location = [p \in Producers |-> 0]
  /\ tempTail = [p \in Producers |-> Null]
  /\ newBuffer = [p \in Producers |-> Null]
  /\ isLastBuffer = [p \in Producers |-> TRUE]
  /\ cpc = "idle"
  /\ temp = NoPlace
  /\ scan = NoPlace
  /\ flagMoveToNewBuffer = FALSE
  /\ flagBufferAllHandled = TRUE
  /\ crashed = FALSE
  /\ pending = <<>>
  /\ calm = FALSE

-----------------------------------------------------------------------------
(* enqueue()                                                               *)

\* Where a thread of the running process is.
At(p, pc) == ~crashed /\ ppc[p] = pc
ConsumerAt(pc) == ~crashed /\ cpc = pc

\* p is about to follow a pointer into memory that was deleted.
Dangling(p) ==
  \/ /\ ppc[p] \in {"check", "link", "walk", "write", "linkAhead"}
     /\ heap[tempTail[p]].memory = "deleted"
  \/ /\ ppc[p] = "write"
     /\ heap[tempTail[p]].memory = "folded"

\* The operating system ends the process.
Crash(p) ==
  /\ ~crashed
  /\ Dangling(p)
  /\ crashed' = TRUE
  /\ UNCHANGED <<heap, queueVars, producerVars, consumerVars, pending>>

\* tail.fetch_add(1).
Claim(p) ==
  /\ At(p, "idle")
  /\ sent[p] < Quota[p]
  /\ sent' = [sent EXCEPT ![p] = @ + 1]
  /\ location' = [location EXCEPT ![p] = tail]
  /\ tail' = Wrap(tail + 1)
  /\ isLastBuffer' = [isLastBuffer EXCEPT ![p] = TRUE]
  /\ ppc' = [ppc EXCEPT ![p] = "load"]
  /\ pending' = [i \in DOMAIN pending \cup {<<p, sent'[p]>>} |->
                   IF i = <<p, sent'[p]>> THEN DOMAIN pending \ Open ELSE pending[i]]
  /\ calm' = FALSE
  /\ UNCHANGED <<heap, headOfQueue, tailOfQueue, garbageListHead, tempTail, newBuffer,
                 cpc, temp, scan, flagMoveToNewBuffer, flagBufferAllHandled, crashed>>

\* A step of p inside enqueue that moves p to `pc' and leaves the rest alone.
Goto(p, pc) ==
  /\ ppc' = [ppc EXCEPT ![p] = pc]
  /\ UNCHANGED <<headOfQueue, tail, garbageListHead, sent, location, consumerVars,
                 crashed, pending>>

\* tempTail = tailOfQueue.load().
LoadTail(p) ==
  /\ At(p, "load")
  /\ tempTail' = [tempTail EXCEPT ![p] = tailOfQueue]
  /\ Goto(p, "check")
  /\ UNCHANGED <<heap, tailOfQueue, newBuffer, isLastBuffer>>

\* The loop's condition, and tempTail->next.load() when it goes on.
CheckTail(p) ==
  /\ At(p, "check")
  /\ Goto(p, IF location[p] < End(tempTail[p]) THEN "walk"
             ELSE IF heap[tempTail[p]].next = Null THEN "link" ELSE "load")
  /\ UNCHANGED <<heap, tailOfQueue, tempTail, newBuffer, isLastBuffer>>

\* tempTail->next = newBuffer without looking at what is there: a mutant.
LinkBufferBlindly(p, onSuccess, onFailure) ==
  LET b == tempTail[p]
  IN /\ heap' = Append([heap EXCEPT ![b].next = Len(heap) + 1],
                       NewBuffer(b, heap[b].positionInQueue + 1))
     /\ newBuffer' = [newBuffer EXCEPT ![p] = Len(heap) + 1]
     /\ Goto(p, onSuccess)

\* tempTail->next.compare_exchange_strong(null, newBuffer): on success swing
\* tailOfQueue next, on failure delete newBuffer.
LinkBuffer(p, onSuccess, onFailure) ==
  LET b == tempTail[p]
  IN IF heap[b].next = Null
     THEN /\ heap' = Append([heap EXCEPT ![b].next = Len(heap) + 1],
                            NewBuffer(b, heap[b].positionInQueue + 1))
          /\ newBuffer' = [newBuffer EXCEPT ![p] = Len(heap) + 1]
          /\ Goto(p, onSuccess)
     ELSE Goto(p, onFailure) /\ UNCHANGED <<heap, newBuffer>>

Link(p) ==
  /\ At(p, "link")
  /\ LinkBuffer(p, "swing", "load")
  /\ UNCHANGED <<tailOfQueue, tempTail, isLastBuffer>>

\* tailOfQueue stays where it is: a mutant.
SwingTailNever(p) ==
  /\ At(p, "swing") \/ At(p, "swingAhead")
  /\ newBuffer' = [newBuffer EXCEPT ![p] = Null]
  /\ Goto(p, IF ppc[p] = "swing" THEN "load" ELSE "idle")
  /\ UNCHANGED <<heap, tailOfQueue, tempTail, isLastBuffer>>

\* tailOfQueue.compare_exchange_strong(tempTail, newBuffer).
SwingTail(p) ==
  /\ At(p, "swing") \/ At(p, "swingAhead")
  /\ tailOfQueue' = IF tailOfQueue = tempTail[p] THEN newBuffer[p] ELSE tailOfQueue
  /\ newBuffer' = [newBuffer EXCEPT ![p] = Null]
  /\ Goto(p, IF ppc[p] = "swing" THEN "load" ELSE "idle")
  /\ UNCHANGED <<heap, tempTail, isLastBuffer>>

\* Back over prev to the buffer that holds the claimed slot.
WalkBack(p) ==
  /\ At(p, "walk")
  /\ IF location[p] < Begin(tempTail[p])
     THEN /\ tempTail' = [tempTail EXCEPT ![p] = heap[@].prev]
          /\ isLastBuffer' = [isLastBuffer EXCEPT ![p] = FALSE]
          /\ Goto(p, "walk")
     ELSE Goto(p, "write") /\ UNCHANGED <<tempTail, isLastBuffer>>
  /\ UNCHANGED <<heap, tailOfQueue, newBuffer>>

Slot(p) == location[p] - Begin(tempTail[p])

\* Fill the slot if it is EMPTY; whoever fills the last but one slot of the
\* last buffer goes on to link the next one.
Write(p) ==
  LET empty == heap[tempTail[p]].slots[Slot(p)].isSet = "EMPTY"
  IN /\ At(p, "write")
     /\ heap' = IF empty
                THEN [heap EXCEPT ![tempTail[p]].slots[Slot(p)] =
                        [isSet |-> "SET", data |-> Item(p)]]
                ELSE heap
     /\ Goto(p, IF empty /\ Slot(p) = BufferSize - 2 /\ isLastBuffer[p]
                THEN "linkAhead" ELSE "idle")
     /\ UNCHANGED <<tailOfQueue, tempTail, newBuffer, isLastBuffer>>

LinkAhead(p) ==
  /\ At(p, "linkAhead")
  /\ LinkBuffer(p, "swingAhead", "idle")
  /\ UNCHANGED <<tailOfQueue, tempTail, isLastBuffer>>

EnqueueStep(p) ==
  \/ LoadTail(p)
  \/ CheckTail(p)
  \/ Link(p)
  \/ SwingTail(p)
  \/ WalkBack(p)
  \/ Write(p)
  \/ LinkAhead(p)

-----------------------------------------------------------------------------
(* dequeue()                                                               *)

SlotAt(place) == heap[place.buffer].slots[place.at]
Front(h) == [buffer |-> headOfQueue, at |-> h[headOfQueue].head]

\* The pointers on the way from b over next, when the way goes on at the buffers
\* in `through' and ends elsewhere: the least set that holds b and these steps.
Walk(h, b, through) ==
  LET closed == {S \in SUBSET (0 .. Len(h)) :
                   b \in S /\ \A x \in S \cap through : h[x].next \in S}
  IN IF b \notin through THEN {b} ELSE {c \in 0 .. Len(h) : \A S \in closed : c \in S}

\* The garbage list up to the first buffer at `position' or beyond it, and
\* that buffer.
Before(h, position) == {g \in DOMAIN h : h[g].positionInQueue < position}

Outdated(h, position) ==
  Walk(h, garbageListHead, Before(h, position)) \cap Before(h, position)

FirstKept(h, position) ==
  CHOOSE g \in Walk(h, garbageListHead, Before(h, position)) : g \notin Before(h, position)

\* moveToNextBuffer() on heap h: whether it returns true, and its effect.
CanMove(h) ==
  h[headOfQueue].head >= BufferSize =>
    headOfQueue # tailOfQueue /\ h[headOfQueue].next # Null

MoveToNextBuffer(h) ==
  LET next == h[headOfQueue].next
      position == h[next].positionInQueue
  IN IF h[headOfQueue].head >= BufferSize /\ CanMove(h)
     THEN /\ heap' = [b \in DOMAIN h |->
                        IF b \in Outdated(h, position) \cup {headOfQueue}
                        THEN [h[b] EXCEPT !.memory = "deleted"] ELSE h[b]]
          /\ garbageListHead' = FirstKept(h, position)
          /\ headOfQueue' = next
     ELSE heap' = h /\ UNCHANGED <<garbageListHead, headOfQueue>>

\* The head moves over a slot that was not taken: a mutant.
HeadAdvancedTwice(h) == [h EXCEPT ![headOfQueue].head = @ + 2]

\* headOfQueue->head++.
HeadAdvanced(h) == [h EXCEPT ![headOfQueue].head = @ + 1]

\* dequeue returns: its locals are gone.
Return ==
  /\ cpc' = "idle"
  /\ temp' = NoPlace
  /\ scan' = NoPlace
  /\ flagMoveToNewBuffer' = FALSE
  /\ flagBufferAllHandled' = TRUE
  /\ calm' = FALSE
  /\ UNCHANGED <<tailOfQueue, tail, producerVars, crashed>>

ReturnFalse == Return /\ UNCHANGED pending

ReturnItem(i) ==
  /\ Return
  /\ pending' = [j \in DOMAIN pending \ {i} |-> pending[j] \ {i}]

\* A step of dequeue that goes on at `pc'.
Continue(pc) ==
  /\ cpc' = pc
  /\ UNCHANGED <<tailOfQueue, tail, producerVars, crashed, pending>>

BeginDequeue ==
  /\ ConsumerAt("idle")
  /\ calm' = (Open = {})
  /\ Continue("leave")
  /\ UNCHANGED <<heap, headOfQueue, garbageListHead, temp, scan, flagMoveToNewBuffer,
                 flagBufferAllHandled>>

scanVars == <<temp, scan, flagMoveToNewBuffer, flagBufferAllHandled, calm>>

\* while (headOfQueue->head >= bufferSize).
LeaveBuffer ==
  /\ ConsumerAt("leave")
  /\ MoveToNextBuffer(heap)
  /\ IF CanMove(heap)
     THEN /\ Continue(IF heap[headOfQueue].head >= BufferSize THEN "leave" ELSE "skip")
          /\ UNCHANGED scanVars
     ELSE ReturnFalse

\* while (n->isSet == HANDLED): only the consumer writes HANDLED.
SkipHandled ==
  /\ ConsumerAt("skip")
  /\ IF SlotAt(Front(heap)).isSet = "HANDLED"
     THEN /\ MoveToNextBuffer(HeadAdvanced(heap))
          /\ IF CanMove(HeadAdvanced(heap))
             THEN Continue("skip") /\ UNCHANGED scanVars
             ELSE ReturnFalse
     ELSE /\ Continue("lastBuffer")
          /\ UNCHANGED <<heap, headOfQueue, garbageListHead, scanVars>>

\* headOfQueue == tailOfQueue.load() ...
CheckLastBuffer ==
  /\ ConsumerAt("lastBuffer")
  /\ Continue(IF headOfQueue = tailOfQueue THEN "empty" ELSE "first")
  /\ UNCHANGED <<heap, headOfQueue, garbageListHead, scanVars>>

\* ... && headOfQueue->head == tail.load() % bufferSize.
CheckEmpty ==
  /\ ConsumerAt("empty")
  /\ IF heap[headOfQueue].head = tail % BufferSize
     THEN ReturnFalse
     ELSE Continue("first") /\ UNCHANGED scanVars
  /\ UNCHANGED <<heap, headOfQueue, garbageListHead>>

\* The first slot is SET: take it.  It is not marked HANDLED, head moves on.
TakeFirst ==
  /\ ConsumerAt("first")
  /\ IF SlotAt(Front(heap)).isSet = "SET"
     THEN /\ ReturnItem(SlotAt(Front(heap)).data)
          /\ MoveToNextBuffer(HeadAdvanced(heap))
     ELSE /\ Continue("second")
          /\ UNCHANGED <<heap, headOfQueue, garbageListHead, scanVars>>

\* The slot is loaded again: if it was filled meanwhile, dequeue gives up.
StartScan ==
  /\ ConsumerAt("second")
  /\ IF SlotAt(Front(heap)).isSet = "EMPTY"
     THEN /\ Continue("scan")
          /\ temp' = Front(heap)
          /\ UNCHANGED <<scan, flagMoveToNewBuffer, flagBufferAllHandled, calm>>
     ELSE ReturnFalse
  /\ UNCHANGED <<heap, headOfQueue, garbageListHead>>

\* Scan(): the next slot.  A slot that is not SET at the first load is EMPTY
\* or HANDLED, and not HANDLED at the second only if it was EMPTY.
ScanSlot ==
  /\ ConsumerAt("scan")
  /\ IF SlotAt(temp).isSet = "SET"
     THEN /\ scan' = Front(heap)
          /\ Continue("rescan")
          /\ UNCHANGED <<temp, flagMoveToNewBuffer, flagBufferAllHandled, calm>>
     ELSE /\ temp' = [temp EXCEPT !.at = @ + 1]
          /\ flagBufferAllHandled' = (flagBufferAllHandled /\ SlotAt(temp).isSet = "HANDLED")
          /\ Continue(IF temp.at + 1 >= BufferSize THEN "scanEnd" ELSE "scan")
          /\ UNCHANGED <<scan, flagMoveToNewBuffer, calm>>
  /\ UNCHANGED <<heap, headOfQueue, garbageListHead>>

ScanBuffer(b) ==
  /\ Continue("scan")
  /\ temp' = [buffer |-> b, at |-> heap[b].head]
  /\ flagBufferAllHandled' = TRUE
  /\ flagMoveToNewBuffer' = TRUE
  /\ UNCHANGED <<scan, calm>>

\* What is left of a folded buffer: its fields, for producers that walk back.
\* Mutant: the whole buffer is deleted at once.
AfterFoldDeleted == "deleted"
AfterFold == "folded"

\* The list the folded buffer is pushed on.
GarbageLink(b) == garbageListHead

\* fold(): unlink a buffer whose slots are all HANDLED, free its slots, and
\* put it on the garbage list for producers that may still walk over it.
Fold ==
  LET b == temp.buffer
      next == heap[b].next
      prev == heap[b].prev
  IN /\ ConsumerAt("scanEnd")
     /\ flagBufferAllHandled /\ flagMoveToNewBuffer
     /\ IF b = tailOfQueue \/ next = Null
        THEN ReturnFalse /\ UNCHANGED <<heap, garbageListHead>>
        ELSE /\ heap' = [heap EXCEPT ![next].prev = prev,
                                     ![prev].next = next,
                                     ![b].next = GarbageLink(b),
                                     ![b].memory = AfterFold]
             /\ garbageListHead' = b
             /\ ScanBuffer(next)
     /\ UNCHANGED headOfQueue

\* Scan() goes on in the next buffer.
ScanNextBuffer ==
  /\ ConsumerAt("scanEnd")
  /\ ~(flagBufferAllHandled /\ flagMoveToNewBuffer)
  /\ IF heap[temp.buffer].next = Null
     THEN ReturnFalse
     ELSE ScanBuffer(heap[temp.buffer].next)
  /\ UNCHANGED <<heap, headOfQueue, garbageListHead>>

\* The item found first is taken, without a second look: a mutant.
ReScanSkipped ==
  /\ ConsumerAt("rescan")
  /\ Continue("take")
  /\ UNCHANGED <<temp, scan, heap, headOfQueue, garbageListHead, flagMoveToNewBuffer,
                 flagBufferAllHandled, calm>>

\* ReScan(): look again at the slots before the one found; a slot SET by now
\* replaces it, and the look starts over.
ReScan ==
  /\ ConsumerAt("rescan")
  /\ \/ /\ scan.buffer = temp.buffer /\ scan.at >= temp.at
        /\ Continue("take")
        /\ UNCHANGED <<temp, scan>>
     \/ /\ scan.buffer # temp.buffer \/ scan.at < temp.at
        /\ Continue("rescan")
        /\ \/ /\ scan.at >= BufferSize
              /\ scan' = LET b == heap[scan.buffer].next
                         IN [buffer |-> b, at |-> heap[b].head]
              /\ UNCHANGED temp
           \/ /\ scan.at < BufferSize
              /\ SlotAt(scan).isSet = "SET"
              /\ temp' = scan
              /\ scan' = Front(heap)
           \/ /\ scan.at < BufferSize
              /\ SlotAt(scan).isSet # "SET"
              /\ scan' = [scan EXCEPT !.at = @ + 1]
              /\ UNCHANGED temp
  /\ UNCHANGED <<heap, headOfQueue, garbageListHead, flagMoveToNewBuffer,
                 flagBufferAllHandled, calm>>

\* Take the item found and mark its slot; head moves on if it was the first.
TakeFound ==
  LET h == [heap EXCEPT ![temp.buffer].slots[temp.at].isSet = "HANDLED"]
  IN /\ ConsumerAt("take")
     /\ ReturnItem(SlotAt(temp).data)
     /\ IF temp = Front(heap)
        THEN MoveToNextBuffer(HeadAdvanced(h))
        ELSE heap' = h /\ UNCHANGED <<garbageListHead, headOfQueue>>

DequeueStep ==
  \/ BeginDequeue
  \/ LeaveBuffer
  \/ SkipHandled
  \/ CheckLastBuffer
  \/ CheckEmpty
  \/ TakeFirst
  \/ StartScan
  \/ ScanSlot
  \/ Fold
  \/ ScanNextBuffer
  \/ ReScan
  \/ TakeFound

Next ==
  \/ \E p \in Producers : Claim(p) \/ EnqueueStep(p) \/ Crash(p)
  \/ DequeueStep

\* Threads inside enqueue are scheduled, and the consumer polls for ever;
\* nobody has to call enqueue.
Fairness ==
  /\ \A p \in Producers : WF_vars(EnqueueStep(p))
  /\ WF_vars(DequeueStep)

Spec == Init /\ [][Next]_vars /\ Fairness

-----------------------------------------------------------------------------
(* Properties                                                              *)

\* The buffers reached from b over next.
From(b) == Walk(heap, b, DOMAIN heap) \ {Null}

\* The list of buffers stays whole while producers extend it and the consumer
\* folds it and deletes from it: tailOfQueue is on it, nothing on it is freed,
\* positions grow along next, and prev leads back.
ChainIntact ==
  LET chain == From(headOfQueue)
  IN /\ tailOfQueue \in chain
     /\ \A b \in chain :
          LET next == heap[b].next
          IN /\ heap[b].memory = "live"
             /\ next # Null => /\ heap[next].prev = b
                               /\ heap[next].positionInQueue > heap[b].positionInQueue

\* What is on the garbage list is not in use by the queue and not freed yet,
\* so that nothing is deleted twice.
GarbageSeparate ==
  LET chain == From(headOfQueue)
  IN \A g \in From(garbageListHead) : heap[g].memory # "deleted" /\ g \notin chain

\* A producer that found the buffer of its location writes to an EMPTY slot of
\* a buffer the consumer will come to: the test of isSet in enqueue never
\* fails, which would drop the item without a word.
WriterFindsItsSlot ==
  \A p \in Producers : ppc[p] = "write" =>
    /\ tempTail[p] \in From(headOfQueue)
    /\ Slot(p) \in Slots
    /\ heap[tempTail[p]].slots[Slot(p)].isSet = "EMPTY"

\* A producer that walks back over prev never steps into deleted memory: that
\* is what the garbage list is for.
WalkOverGarbageSafe ==
  \A p \in Producers : ppc[p] = "walk" => heap[tempTail[p]].memory # "deleted"

Claims == MapThenSumSet(LAMBDA p : sent[p], Producers)

\* Producers link no buffer that no claim needs: at most one ahead of the
\* buffer of the last claimed location.
BuffersBounded ==
  \A b \in DOMAIN heap :
    heap[b].positionInQueue <= (IF Claims = 0 THEN 1 ELSE ((Claims - 1) \div BufferSize) + 2)

\* Whatever the race between producers that link a buffer from the loop and
\* ahead of need, the list of buffers is whole and holds no buffer too many.
ChainSound == ChainIntact /\ BuffersBounded

\* No thread follows a pointer to memory the consumer has deleted.
NoUseAfterFree == \A p \in Producers : ~Dangling(p)

\* As long as only one producer has used the queue, which is so for the queue of
\* every subscriber, it never follows a pointer to memory that was deleted.
LoneProducerSafe ==
  \A p \in Producers : (\A q \in Producers \ {p} : sent[q] = 0) => ~Dangling(p)

\* Where the queue takes care of freed memory, it does so: nothing is deleted
\* twice, folded buffers can be walked over, and a producer that is alone finds
\* no freed one.
FreedMemorySafe == GarbageSeparate /\ WalkOverGarbageSafe /\ LoneProducerSafe

Abstract == INSTANCE MessageQueue WITH
  open <- Open,
  dequeue <- IF cpc = "idle" THEN "idle" ELSE IF calm THEN "calm" ELSE "disturbed"

\* Nothing is delivered twice or out of thin air; an item whose enqueue
\* returned before another one's began is delivered first; and dequeue reports
\* an empty queue only if it is empty or an enqueue is under way.
ImplementsMessageQueue == Abstract!Spec

\* Every item is delivered in the end, whatever the order in which its
\* neighbours are filled.
EveryItemDelivered ==
  \A i \in Items : (i \in DOMAIN pending) ~> (i \notin DOMAIN pending \/ crashed)
=============================================================================
