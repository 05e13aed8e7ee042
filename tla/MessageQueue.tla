----------------------------- MODULE MessageQueue -----------------------------
(***************************************************************************)
(* What a multi-producer single-consumer queue promises its users.         *)
(*                                                                         *)
(* An enqueue takes time: it is open from its call to its return, and its  *)
(* item may come out before it returns.  Items whose enqueues overlap may  *)
(* come out in either order; an item whose enqueue returned before another *)
(* one's began comes out first.  Nothing comes out twice.  A dequeue may   *)
(* report an empty queue if the queue is empty, or if an enqueue was open  *)
(* at some moment of the dequeue: concurrent enqueues may hide items that  *)
(* are already there, a queue nobody is writing to hides nothing.          *)
(***************************************************************************)
EXTENDS FiniteSets

CONSTANT Items

VARIABLES
  pending,  \* for each item not delivered yet, the items that go first
  open,     \* items whose enqueue has not returned
  dequeue   \* "idle", or the dequeue under way: "calm" as long as no enqueue
            \* has been open during it, else "disturbed"

vars == <<pending, open, dequeue>>

TypeOK ==
  /\ DOMAIN pending \subseteq Items
  /\ \A i \in DOMAIN pending : pending[i] \subseteq DOMAIN pending
  /\ open \subseteq Items
  /\ dequeue \in {"idle", "calm", "disturbed"}

Init == pending = <<>> /\ open = {} /\ dequeue = "idle"

BeginEnqueue(i) ==
  /\ i \notin DOMAIN pending \cup open
  /\ pending' = [j \in DOMAIN pending \cup {i} |->
                   IF j = i THEN DOMAIN pending \ open ELSE pending[j]]
  /\ open' = open \cup {i}
  /\ dequeue' = IF dequeue = "calm" THEN "disturbed" ELSE dequeue

EndEnqueue(i) ==
  /\ i \in open
  /\ open' = open \ {i}
  /\ UNCHANGED <<pending, dequeue>>

BeginDequeue ==
  /\ dequeue = "idle"
  /\ dequeue' = IF open = {} THEN "calm" ELSE "disturbed"
  /\ UNCHANGED <<pending, open>>

Without(i) == [j \in DOMAIN pending \ {i} |-> pending[j] \ {i}]

Deliver(i) ==
  /\ dequeue # "idle"
  /\ i \in DOMAIN pending
  /\ pending[i] = {}
  /\ pending' = Without(i)
  /\ dequeue' = "idle"
  /\ UNCHANGED open

ReportEmpty ==
  /\ dequeue = "disturbed" \/ (dequeue = "calm" /\ DOMAIN pending = {})
  /\ dequeue' = "idle"
  /\ UNCHANGED <<pending, open>>

Next ==
  \/ \E i \in Items : BeginEnqueue(i) \/ EndEnqueue(i) \/ Deliver(i)
  \/ BeginDequeue
  \/ ReportEmpty

Spec == Init /\ [][Next]_vars
=============================================================================
