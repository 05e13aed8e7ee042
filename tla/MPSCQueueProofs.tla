--------------------------- MODULE MPSCQueueProofs ---------------------------
(***************************************************************************)
(* The list of buffers behind the queue, and what its users are promised,  *)
(* for any finite set of producers, any number of enqueues and any size of *)
(* a buffer, as long as no index is about to wrap around.  The invariant   *)
(* says of every buffer ever linked in what the code relies on: that those *)
(* from headOfQueue on are one list in the order of their positions, that  *)
(* a producer that walks back over prev from any buffer passes its own,    *)
(* that the slots nobody wrote to are EMPTY, that the garbage list is      *)
(* apart from all this and ends.  On it rests a second one, PromiseInv:    *)
(* where the items are that wait, and what the consumer knows of the slots *)
(* it has looked at.                                                       *)
(***************************************************************************)
EXTENDS MPSCQueue, SumFacts, SequenceTheorems, FiniteSetTheorems, TLAPS

\* The locations that come before the buffer at position n + 1.
Times(n) == BufferSize * n

\* As long as PositionIndex has not come near its end: there is room for the
\* buffers of the next claims below 2^32.
RoomLeft == tail + 2 * BufferSize <= IndexModulus

\* From, on any heap.
Reach(h, b) == Walk(h, b, DOMAIN h) \ {Null}
Chain == Reach(heap, headOfQueue)

\* The position of a buffer, and the locations Lo .. Hi - 1 it has slots for.
Pos(h, b) == h[b].positionInQueue
Lo(h, b) == Times(Pos(h, b) - 1)
Hi(h, b) == Times(Pos(h, b))

\* What the memory holds, and where the threads can be.
States == {"EMPTY", "SET", "HANDLED"}
Data == (Producers \X Nat) \cup {<<>>}
SlotType == [isSet : States, data : Data]
BufferType ==
  [positionInQueue : Nat \ {0}, head : 0 .. BufferSize, prev : Nat, next : Nat,
   slots : [Slots -> SlotType], memory : {"live", "folded", "deleted"}]

HeapType(h) ==
  /\ h \in Seq(BufferType)
  /\ \A b \in DOMAIN h : h[b].next \in 0 .. Len(h) /\ h[b].prev \in 0 .. Len(h)

InEnqueue == {"load", "check", "link", "swing", "walk", "write", "linkAhead", "swingAhead"}
Seeking == {"load", "check", "link", "swing", "walk", "write"}
Scanning == {"scan", "scanEnd", "rescan", "take"}
InDequeue == {"leave", "skip", "lastBuffer", "empty", "first", "second"} \cup Scanning
Place == [buffer : Nat, at : Nat]

TypeInv ==
  /\ tail \in Nat
  /\ sent \in [Producers -> Nat]
  /\ ppc \in [Producers -> InEnqueue \cup {"idle"}]
  /\ location \in [Producers -> Nat]
  /\ tempTail \in [Producers -> Nat]
  /\ newBuffer \in [Producers -> Nat]
  /\ isLastBuffer \in [Producers -> BOOLEAN]
  /\ cpc \in InDequeue \cup {"idle"}
  /\ temp \in Place
  /\ scan \in Place
  /\ flagMoveToNewBuffer \in BOOLEAN
  /\ flagBufferAllHandled \in BOOLEAN

\* C is one list from hd on, doubly linked, in the order of the positions.
Linked(h, hd, C) ==
  /\ C \subseteq DOMAIN h
  /\ hd \in C
  /\ \A b \in C : h[b].memory = "live"
  /\ \A b \in C : h[b].next # Null =>
       /\ h[b].next \in C
       /\ h[h[b].next].prev = b
       /\ Pos(h, b) < Pos(h, h[b].next)
  /\ \A b \in C : b # hd => h[b].prev \in C /\ h[h[b].prev].next = b
  /\ \A b, c \in C : Pos(h, b) < Pos(h, c) => h[b].next # Null /\ Pos(h, h[b].next) <= Pos(h, c)
  /\ \A b, c \in C : Pos(h, b) = Pos(h, c) => b = c
  /\ \A b \in C : Pos(h, hd) <= Pos(h, b)

\* Locations nobody has written to: not claimed yet, or claimed by a producer
\* that is on its way to the slot.
Unwritten ==
  {l \in Nat : l >= tail \/ \E p \in Producers : ppc[p] \in Seeking /\ location[p] = l}

\* Buffers that a producer can come to: on the list now, or once.
Known(h, C) == {b \in DOMAIN h : b \in C \/ h[b].memory # "live"}

\* Going back over prev from a buffer skips no buffer of the list and no unwritten
\* location, whatever was folded since.
Back(h, hd, C, U) ==
  \A b \in DOMAIN h : Pos(h, b) > Pos(h, hd) =>
    /\ h[b].prev \in Known(h, C)
    /\ Pos(h, h[b].prev) < Pos(h, b)
    /\ \A c \in C : Pos(h, c) < Pos(h, b) => Pos(h, c) <= Pos(h, h[b].prev)
    /\ \A l \in U : l < Hi(h, h[b].prev) \/ l >= Lo(h, b)

\* At most one buffer is beyond tailOfQueue, and each was needed by a claim when
\* it was linked.
Bounded(h, last, n) ==
  \A b \in DOMAIN h :
    /\ Pos(h, b) <= Pos(h, last) + 1
    /\ Pos(h, b) > 1 => Times(Pos(h, b) - 2) < n

Holds(h, b, l) == Lo(h, b) <= l /\ l < Hi(h, b)

\* Unwritten locations are EMPTY slots that the consumer has not passed; what was
\* folded or deleted holds none.
SlotInv(h, hd, last, C, U) ==
  /\ \A l \in U : Lo(h, hd) <= l
  /\ \A b \in C, l \in U : Holds(h, b, l) =>
       /\ h[b].slots[l - Lo(h, b)].isSet = "EMPTY"
       /\ h[b].head <= l - Lo(h, b)
  /\ \A b \in DOMAIN h, l \in U : h[b].memory = "folded" => ~Holds(h, b, l)
  /\ \A b \in DOMAIN h : h[b].memory = "deleted" => Pos(h, b) < Pos(h, hd)
  /\ \A b \in C : b # hd => h[b].head = 0
  /\ \A b \in C, i \in Slots : Pos(h, b) > Pos(h, last) => h[b].slots[i].isSet = "EMPTY"

\* No other producer has ever claimed a slot.
Alone(p) == \A q \in Producers \ {p} : sent[q] = 0

\* Where a producer at pc with location `loc' and tempTail `tt' stands.
Seated(h, C, last, n, pc, loc, tt) ==
  /\ pc # "idle" => loc < n
  /\ pc \in InEnqueue \ {"load"} => tt \in Known(h, C) /\ Pos(h, tt) <= Pos(h, last)
  /\ pc = "link" => Hi(h, tt) <= loc
  /\ pc \in {"walk", "write"} => loc < Hi(h, tt)
  /\ pc \in {"write", "linkAhead"} => Lo(h, tt) <= loc

\* Between the two compare-and-swaps: if the second is to succeed, the buffer it
\* makes the last one is linked onto the one that is.
Swinging(h, last, pc, tt, nb) ==
  pc \in {"swing", "swingAhead"} /\ tt = last => nb # Null /\ h[last].next = nb

\* A producer that is alone has tailOfQueue in hand until it walks back.
AtTail(p) ==
  Alone(p) /\ (\/ ppc[p] \in {"check", "link", "linkAhead"}
               \/ ppc[p] \in {"walk", "write"} /\ isLastBuffer[p]) =>
    tempTail[p] = tailOfQueue

\* Every producer stands where its step expects it; no two are on their way to the
\* same slot.
ProducerInv(h, C, last, n) ==
  \A p \in Producers :
    /\ sent[p] = 0 => ppc[p] = "idle"
    /\ Seated(h, C, last, n, ppc[p], location[p], tempTail[p])
    /\ Swinging(h, last, ppc[p], tempTail[p], newBuffer[p])
    /\ \A q \in Producers : p # q /\ ppc[p] \in Seeking /\ ppc[q] \in Seeking =>
         location[p] # location[q]
    /\ AtTail(p)

\* A consumer at pc that looks at slot t, from s on the second time, with
\* flagMoveToNewBuffer `moved' and flagBufferAllHandled `handled'.
ConsumerInv(h, hd, C, pc, t, s, moved, handled) ==
  /\ pc \in InDequeue \ {"leave"} => h[hd].head < BufferSize
  /\ pc \in Scanning => t.buffer \in C
  /\ pc \notin Scanning => ~moved
  /\ pc \in {"scan", "scanEnd"} /\ moved => t.buffer # hd
  /\ pc \in {"scan", "scanEnd"} /\ handled =>
       \A i \in Slots : h[t.buffer].head <= i /\ i < t.at =>
         h[t.buffer].slots[i].isSet = "HANDLED"
  /\ pc = "scan" => t.at < BufferSize
  /\ pc = "scanEnd" => t.at = BufferSize
  /\ pc \in {"rescan", "take"} => t.at < BufferSize /\ h[t.buffer].slots[t.at].isSet = "SET"
  /\ pc = "rescan" => s.buffer \in C /\ Pos(h, s.buffer) <= Pos(h, t.buffer)

\* G is what is on the garbage list, and following next in it comes to an end.
Garbage(h, gh, C, G, r) ==
  /\ G \subseteq DOMAIN h
  /\ gh \in G \cup {Null}
  /\ r \in [Nat -> Nat]
  /\ \A g \in G :
       /\ h[g].memory # "deleted"
       /\ g \notin C
       /\ h[g].next \in G \cup {Null}
       /\ r[h[g].next] < r[g]

GarbageInv(h, gh, C) == \E G \in SUBSET DOMAIN h, r \in [Nat -> Nat] : Garbage(h, gh, C, G, r)

\* All of this of the buffers in the queue and on the garbage list.
HeapInv(h, hd, last, gh, C, n, U) ==
  /\ HeapType(h)
  /\ Linked(h, hd, C)
  /\ last \in C
  /\ gh \in 0 .. Len(h)
  /\ Back(h, hd, C, U)
  /\ Bounded(h, last, n)
  /\ SlotInv(h, hd, last, C, U)
  /\ GarbageInv(h, gh, C)

\* The inductive invariant, but for the count of the claims.
IInv ==
  /\ TypeInv
  /\ HeapInv(heap, headOfQueue, tailOfQueue, garbageListHead, Chain, tail, Unwritten)
  /\ ProducerInv(heap, Chain, tailOfQueue, tail)
  /\ ConsumerInv(heap, headOfQueue, Chain, cpc, temp, scan,
                 flagMoveToNewBuffer, flagBufferAllHandled)

-----------------------------------------------------------------------------
(* Arithmetic.                                                             *)

\* BufferSize * n grows with n by at least two.
LEMMA TimesFacts ==
  /\ BufferSize \in Nat /\ BufferSize >= 2
  /\ \A n \in Nat : Times(n) \in Nat /\ Times(n + 1) = Times(n) + BufferSize
  /\ \A m, n \in Nat : m < n => Times(m) + BufferSize <= Times(n)
  /\ \A m, n \in Nat : m <= n => Times(m) <= Times(n)
<1>1. BufferSize \in Nat /\ BufferSize >= 2
  BY BufferSizeAssumption
<1>2. \A n \in Nat : Times(n) \in Nat /\ Times(n + 1) = Times(n) + BufferSize
  BY <1>1 DEF Times
<1>3. ASSUME NEW m \in Nat, NEW n \in Nat, m < n
      PROVE  Times(m) + BufferSize <= Times(n)
  <2>1. PICK k \in Nat : n = m + 1 + k
    <3>1. n - m - 1 \in Nat
      BY <1>3
    <3> QED
      BY <3>1
  <2>2. BufferSize * n = BufferSize * m + BufferSize + BufferSize * k
    BY <1>1, <2>1
  <2>3. BufferSize * k \in Nat /\ BufferSize * m \in Nat
    BY <1>1
  <2> QED
    BY <1>1, <2>2, <2>3 DEF Times
<1>4. \A m, n \in Nat : m <= n => Times(m) <= Times(n)
  <2> SUFFICES ASSUME NEW m \in Nat, NEW n \in Nat, m <= n PROVE Times(m) <= Times(n)
    OBVIOUS
  <2>1. CASE m = n
    BY <1>2, <2>1
  <2>2. CASE m < n
    BY <1>1, <1>2, <1>3, <2>2
  <2> QED
    BY <2>1, <2>2
<1> QED
  BY <1>1, <1>2, <1>3, <1>4

-----------------------------------------------------------------------------
(* Walking over next.                                                      *)

\* The fields of a buffer, from HeapType.
LEMMA HeapFacts ==
  ASSUME NEW h, HeapType(h)
  PROVE  /\ Len(h) \in Nat /\ DOMAIN h = 1 .. Len(h)
         /\ h \in [1 .. Len(h) -> BufferType]
         /\ \A b \in DOMAIN h :
              /\ h[b] \in BufferType
              /\ Pos(h, b) \in Nat /\ Pos(h, b) >= 1
              /\ h[b].next \in 0 .. Len(h) /\ h[b].prev \in 0 .. Len(h)
              /\ h[b].head \in 0 .. BufferSize
              /\ h[b].slots \in [Slots -> SlotType]
<1>1. h \in Seq(BufferType)
  BY DEF HeapType
<1>2. Len(h) \in Nat /\ DOMAIN h = 1 .. Len(h) /\ h \in [1 .. Len(h) -> BufferType]
  BY <1>1, LenProperties
<1>3. ASSUME NEW b \in DOMAIN h
      PROVE  /\ h[b] \in BufferType
             /\ Pos(h, b) \in Nat /\ Pos(h, b) >= 1
             /\ h[b].head \in 0 .. BufferSize
             /\ h[b].slots \in [Slots -> SlotType]
  <2>1. h[b] \in BufferType
    BY <1>2, <1>3
  <2> QED
    BY <2>1 DEF BufferType, Pos
<1> QED
  BY <1>2, <1>3 DEF HeapType

\* Walk is the least set that holds b and the steps over next.
LEMMA WalkFacts ==
  ASSUME NEW h, NEW b, NEW through, HeapType(h), b \in 0 .. Len(h),
         through \subseteq DOMAIN h
  PROVE  /\ b \in Walk(h, b, through)
         /\ Walk(h, b, through) \subseteq 0 .. Len(h)
         /\ \A c \in Walk(h, b, through) : c \in through => h[c].next \in Walk(h, b, through)
         /\ \A S \in SUBSET (0 .. Len(h)) :
              b \in S /\ (\A x \in S : x \in through => h[x].next \in S) =>
                Walk(h, b, through) \subseteq S
<1>1. \A c \in through : h[c].next \in 0 .. Len(h)
  BY DEF HeapType
<1>2. CASE b \in through
  BY <1>1, <1>2 DEF Walk
<1>3. CASE b \notin through
  BY <1>3 DEF Walk
<1> QED
  BY <1>2, <1>3

\* What is reached stays in any set that holds the start and is closed.
LEMMA ReachWithin ==
  ASSUME NEW h, NEW b, HeapType(h), b \in 0 .. Len(h), NEW S, S \subseteq DOMAIN h,
         b \in S \cup {Null}, \A x \in S : h[x].next \in S \cup {Null}
  PROVE  Reach(h, b) \subseteq S
<1>1. DOMAIN h = 1 .. Len(h) /\ Len(h) \in Nat
  BY HeapFacts
<1>2. S \cup {Null} \in SUBSET (0 .. Len(h))
  BY <1>1 DEF Null
<1>3. \A x \in S \cup {Null} : x \in DOMAIN h => h[x].next \in S \cup {Null}
  BY <1>1 DEF Null
<1> HIDE DEF Null
<1>4. Walk(h, b, DOMAIN h) \subseteq S \cup {Null}
  BY <1>2, <1>3, WalkFacts
<1> QED
  BY <1>4 DEF Reach

\* What is reached from b is closed under next.
LEMMA ReachClosed ==
  ASSUME NEW h, NEW b, HeapType(h), b \in DOMAIN h
  PROVE  /\ b \in Reach(h, b)
         /\ Reach(h, b) \subseteq DOMAIN h
         /\ \A c \in Reach(h, b) : h[c].next # Null => h[c].next \in Reach(h, b)
<1>1. DOMAIN h = 1 .. Len(h) /\ Len(h) \in Nat
  BY HeapFacts
<1> QED
  BY <1>1, WalkFacts DEF Reach, Null

\* On a list that leads back over prev to its head, everything is reached.
LEMMA ReachIsChain ==
  ASSUME NEW h, NEW hd, NEW C, HeapType(h), Linked(h, hd, C)
  PROVE  Reach(h, hd) = C
<1>1. DOMAIN h = 1 .. Len(h) /\ Len(h) \in Nat /\ \A b \in DOMAIN h : Pos(h, b) \in Nat
  BY HeapFacts
<1>2. C \subseteq DOMAIN h /\ hd \in C
  BY DEF Linked
<1>3. Reach(h, hd) \subseteq C
  BY <1>1, <1>2, ReachWithin DEF Linked
<1>4. C \subseteq Reach(h, hd)
  <2> SUFFICES ASSUME C \ Reach(h, hd) # {} PROVE FALSE
    OBVIOUS
  <2> DEFINE T == {Pos(h, b) : b \in C \ Reach(h, hd)}
  <2>1. T \subseteq Nat /\ T # {}
    BY <1>1, <1>2
  <2>2. PICK x \in T : \A y \in T : x <= y
    <3> HIDE DEF T
    <3> QED
      BY <2>1, NatMin
  <2>3. PICK b \in C \ Reach(h, hd) : x = Pos(h, b)
    BY <2>2
  <2>4. b # hd
    BY <1>2, <2>3, ReachClosed
  <2>5. h[b].prev \in C /\ h[h[b].prev].next = b
    BY <2>3, <2>4 DEF Linked
  <2>6. b # Null
    BY <1>1, <1>2, <2>3 DEF Null
  <2>7. h[b].prev \notin Reach(h, hd)
    BY <1>2, <2>3, <2>5, <2>6, ReachClosed
  <2>8. Pos(h, h[b].prev) < Pos(h, b)
    BY <2>5, <2>6 DEF Linked
  <2>9. Pos(h, h[b].prev) \in T
    BY <2>5, <2>7
  <2>10. Pos(h, b) \in Nat /\ Pos(h, h[b].prev) \in Nat
    BY <1>1, <1>2, <2>3, <2>5
  <2>11. Pos(h, b) <= Pos(h, h[b].prev)
    BY <2>2, <2>3, <2>9
  <2> QED
    BY <2>8, <2>10, <2>11
<1> QED
  BY <1>3, <1>4

-----------------------------------------------------------------------------
(* How HeapInv survives each kind of change to the buffers.                *)

\* Facts of HeapInv that most steps start from.
LEMMA ChainFacts ==
  ASSUME NEW h, NEW hd, NEW last, NEW gh, NEW C, NEW n, NEW U,
         HeapInv(h, hd, last, gh, C, n, U)
  PROVE  /\ Len(h) \in Nat /\ DOMAIN h = 1 .. Len(h)
         /\ C \subseteq DOMAIN h /\ hd \in C /\ last \in C
         /\ hd \in DOMAIN h /\ last \in DOMAIN h
         /\ \A b \in DOMAIN h : Pos(h, b) \in Nat /\ Pos(h, b) >= 1
         /\ \A b \in DOMAIN h : Lo(h, b) \in Nat /\ Hi(h, b) \in Nat /\ Hi(h, b) = Lo(h, b) + BufferSize
         /\ \A b, c \in DOMAIN h : Pos(h, b) < Pos(h, c) => Hi(h, b) <= Lo(h, c)
         /\ \A b, c \in DOMAIN h : Pos(h, b) <= Pos(h, c) => Lo(h, b) <= Lo(h, c) /\ Hi(h, b) <= Hi(h, c)
         /\ BufferSize \in Nat /\ BufferSize >= 2
<1>1. HeapType(h) /\ Linked(h, hd, C) /\ last \in C
  BY DEF HeapInv
<1>2. /\ Len(h) \in Nat /\ DOMAIN h = 1 .. Len(h)
      /\ \A b \in DOMAIN h : Pos(h, b) \in Nat /\ Pos(h, b) >= 1
  BY <1>1, HeapFacts
<1>3. C \subseteq DOMAIN h /\ hd \in C
  BY <1>1 DEF Linked
<1>4. BufferSize \in Nat /\ BufferSize >= 2
  BY TimesFacts
<1>5. ASSUME NEW b \in DOMAIN h
      PROVE  Lo(h, b) \in Nat /\ Hi(h, b) \in Nat /\ Hi(h, b) = Lo(h, b) + BufferSize
  <2>1. Pos(h, b) - 1 \in Nat /\ Pos(h, b) \in Nat /\ Pos(h, b) = (Pos(h, b) - 1) + 1
    BY <1>2
  <2> QED
    BY <2>1, TimesFacts DEF Lo, Hi
<1>6. ASSUME NEW b \in DOMAIN h, NEW c \in DOMAIN h, Pos(h, b) < Pos(h, c)
      PROVE  Hi(h, b) <= Lo(h, c)
  <2>1. Pos(h, b) \in Nat /\ Pos(h, c) - 1 \in Nat /\ Pos(h, b) <= Pos(h, c) - 1
    BY <1>2, <1>6
  <2> QED
    BY <2>1, TimesFacts DEF Lo, Hi
<1>7. ASSUME NEW b \in DOMAIN h, NEW c \in DOMAIN h, Pos(h, b) <= Pos(h, c)
      PROVE  Lo(h, b) <= Lo(h, c) /\ Hi(h, b) <= Hi(h, c)
  <2>1. /\ Pos(h, b) \in Nat /\ Pos(h, c) \in Nat
        /\ Pos(h, b) - 1 \in Nat /\ Pos(h, c) - 1 \in Nat
        /\ Pos(h, b) - 1 <= Pos(h, c) - 1
    BY <1>2, <1>7
  <2> QED
    BY <2>1, <1>7, TimesFacts DEF Lo, Hi
<1> QED
  BY <1>1, <1>2, <1>3, <1>4, <1>5, <1>6, <1>7

\* Fewer unwritten locations, more claims.
LEMMA HeapInvShrinks ==
  ASSUME NEW h, NEW hd, NEW last, NEW gh, NEW C, NEW n \in Nat, NEW U, NEW m \in Nat, NEW V,
         HeapInv(h, hd, last, gh, C, n, U), n <= m, V \subseteq U
  PROVE  HeapInv(h, hd, last, gh, C, m, V)
<1>1. Back(h, hd, C, V)
  BY DEF HeapInv, Back
<1>2. Bounded(h, last, m)
  <2>1. ASSUME NEW b \in DOMAIN h, Pos(h, b) > 1 PROVE Times(Pos(h, b) - 2) \in Nat
    <3>1. Pos(h, b) \in Nat
      BY ChainFacts
    <3>2. Pos(h, b) - 2 \in Nat
      BY <2>1, <3>1
    <3> QED
      BY <3>2, TimesFacts
  <2> QED
    BY <2>1 DEF HeapInv, Bounded
<1>3. SlotInv(h, hd, last, C, V)
  BY DEF HeapInv, SlotInv
<1> QED
  BY <1>1, <1>2, <1>3 DEF HeapInv

\* tailOfQueue moves on to the next buffer.
LEMMA HeapInvSwings ==
  ASSUME NEW h, NEW hd, NEW last, NEW gh, NEW C, NEW n, NEW U,
         HeapInv(h, hd, last, gh, C, n, U), h[last].next # Null
  PROVE  /\ HeapInv(h, hd, h[last].next, gh, C, n, U)
         /\ Pos(h, last) < Pos(h, h[last].next)
<1> DEFINE new == h[last].next
<1>1. new \in C /\ Pos(h, last) < Pos(h, new)
  BY ChainFacts DEF HeapInv, Linked
<1>2. new \in DOMAIN h
  BY <1>1, ChainFacts
<1>3. Bounded(h, new, n)
  <2>1. \A b \in DOMAIN h : Pos(h, b) <= Pos(h, last) + 1
    BY DEF HeapInv, Bounded
  <2>2. \A b \in DOMAIN h : Pos(h, b) \in Nat
    BY ChainFacts
  <2>3. \A b \in DOMAIN h : Pos(h, b) <= Pos(h, new) + 1
    BY <1>1, <1>2, <2>1, <2>2, ChainFacts
  <2> QED
    BY <2>3 DEF HeapInv, Bounded
<1>4. SlotInv(h, hd, new, C, U)
  <2>1. \A b \in C : Pos(h, b) > Pos(h, new) => Pos(h, b) > Pos(h, last)
    BY <1>1, <1>2, ChainFacts
  <2> QED
    BY <2>1 DEF HeapInv, SlotInv
<1> QED
  BY <1>1, <1>3, <1>4 DEF HeapInv

\* Slots are filled or emptied, or the head moves within its buffer.
SameShape(h, g) ==
  /\ HeapType(g)
  /\ DOMAIN g = DOMAIN h /\ Len(g) = Len(h)
  /\ \A b \in DOMAIN h :
       /\ Pos(g, b) = Pos(h, b)
       /\ g[b].prev = h[b].prev
       /\ g[b].next = h[b].next
       /\ g[b].memory = h[b].memory

\* Slots and heads change.
LEMMA HeapInvSlots ==
  ASSUME NEW h, NEW hd, NEW last, NEW gh, NEW C, NEW n, NEW U, NEW g, NEW V,
         HeapInv(h, hd, last, gh, C, n, U), SameShape(h, g), V \subseteq U,
         \A b \in C, l \in V : Holds(h, b, l) =>
           g[b].slots[l - Lo(h, b)].isSet = "EMPTY" /\ g[b].head <= l - Lo(h, b),
         \A b \in C : b # hd => g[b].head = 0,
         \A b \in C, i \in Slots : Pos(h, b) > Pos(h, last) => g[b].slots[i].isSet = "EMPTY"
  PROVE  HeapInv(g, hd, last, gh, C, n, V)
<1>1. \A b \in DOMAIN h : Lo(g, b) = Lo(h, b) /\ Hi(g, b) = Hi(h, b)
  BY DEF SameShape, Lo, Hi
<1>2. C \subseteq DOMAIN h /\ hd \in DOMAIN h /\ last \in DOMAIN h /\ Null \notin DOMAIN h
  BY ChainFacts DEF Null
<1>3. \A b \in DOMAIN h : h[b].next # Null => h[b].next \in DOMAIN h
  BY HeapFacts DEF HeapInv, Null
<1>4. Linked(g, hd, C)
  <2>1. Linked(h, hd, C)
    BY DEF HeapInv
  <2>2. \A b \in C : b # hd => h[b].prev \in DOMAIN h
    BY <1>2, <2>1 DEF Linked
  <2>3. \A b \in C : g[b].memory = "live"
    BY <1>2, <2>1 DEF Linked, SameShape
  <2>4. ASSUME NEW b \in C, g[b].next # Null
        PROVE  /\ g[b].next \in C
               /\ g[g[b].next].prev = b
               /\ Pos(g, b) < Pos(g, g[b].next)
    <3>1. g[b].next = h[b].next /\ h[b].next \in DOMAIN h
      BY <1>2, <1>3, <2>4 DEF SameShape
    <3> QED
      BY <1>2, <2>1, <2>4, <3>1 DEF Linked, SameShape
  <2>5. ASSUME NEW b \in C, b # hd
        PROVE  g[b].prev \in C /\ g[g[b].prev].next = b
    BY <1>2, <2>1, <2>2, <2>5 DEF Linked, SameShape
  <2>6. ASSUME NEW b \in C, NEW c \in C, Pos(g, b) < Pos(g, c)
        PROVE  g[b].next # Null /\ Pos(g, g[b].next) <= Pos(g, c)
    <3>1. Pos(h, b) < Pos(h, c) /\ g[b].next = h[b].next
      BY <1>2, <2>6 DEF SameShape
    <3>2. h[b].next # Null /\ Pos(h, h[b].next) <= Pos(h, c)
      BY <2>1, <3>1 DEF Linked
    <3> QED
      BY <1>2, <1>3, <3>1, <3>2 DEF SameShape
  <2>7. \A b, c \in C : Pos(g, b) = Pos(g, c) => b = c
    BY <1>2, <2>1 DEF Linked, SameShape
  <2>8. \A b \in C : Pos(g, hd) <= Pos(g, b)
    BY <1>2, <2>1 DEF Linked, SameShape
  <2> QED
    BY <1>2, <2>1, <2>3, <2>4, <2>5, <2>6, <2>7, <2>8 DEF Linked, SameShape
<1>5. Known(g, C) = Known(h, C)
  BY DEF Known, SameShape
<1>6. Back(g, hd, C, V)
  <2> SUFFICES ASSUME NEW b \in DOMAIN h, Pos(h, b) > Pos(h, hd)
               PROVE  /\ h[b].prev \in Known(h, C)
                      /\ Pos(g, h[b].prev) < Pos(h, b)
                      /\ \A c \in C : Pos(h, c) < Pos(h, b) => Pos(g, c) <= Pos(g, h[b].prev)
                      /\ \A l \in V : l < Hi(g, h[b].prev) \/ l >= Lo(h, b)
    BY <1>1, <1>2, <1>5 DEF Back, SameShape
  <2>1. h[b].prev \in Known(h, C) /\ h[b].prev \in DOMAIN h
    BY DEF HeapInv, Back, Known
  <2> QED
    BY <1>1, <1>2, <2>1 DEF HeapInv, Back, SameShape
<1>7. Bounded(g, last, n)
  BY <1>2 DEF HeapInv, Bounded, SameShape
<1>8. SlotInv(g, hd, last, C, V)
  <2>1. \A b \in DOMAIN h, l \in V : Holds(g, b, l) <=> Holds(h, b, l)
    BY <1>1 DEF Holds
  <2> QED
    BY <1>1, <1>2, <2>1 DEF HeapInv, SlotInv, SameShape
<1>9. GarbageInv(g, gh, C)
  <2>1. PICK G \in SUBSET DOMAIN h, r \in [Nat -> Nat] : Garbage(h, gh, C, G, r)
    BY DEF HeapInv, GarbageInv
  <2>2. Garbage(g, gh, C, G, r)
    BY <2>1 DEF Garbage, SameShape
  <2> QED
    BY <2>1, <2>2 DEF GarbageInv, SameShape
<1> QED
  BY <1>4, <1>6, <1>7, <1>8, <1>9 DEF HeapInv, SameShape

\* A buffer is linked onto b.
Extended(h, g, b) ==
  LET new == Len(h) + 1
  IN /\ HeapType(g)
     /\ Len(g) = new /\ DOMAIN g = DOMAIN h \cup {new}
     /\ \A c \in DOMAIN h :
          /\ Pos(g, c) = Pos(h, c)
          /\ g[c].prev = h[c].prev
          /\ g[c].memory = h[c].memory
          /\ g[c].head = h[c].head
          /\ g[c].slots = h[c].slots
          /\ g[c].next = IF c = b THEN new ELSE h[c].next
     /\ Pos(g, new) = Pos(h, b) + 1
     /\ g[new].prev = b
     /\ g[new].next = Null
     /\ g[new].head = 0
     /\ g[new].memory = "live"
     /\ \A i \in Slots : g[new].slots[i].isSet = "EMPTY"

Grown(h, C, b) == IF b \in C THEN C \cup {Len(h) + 1} ELSE C

\* If b is on the list it is its last buffer, and the list grows; otherwise the
\* new buffer hangs off garbage, where nobody finds it.
LEMMA HeapInvExtends ==
  ASSUME NEW h, NEW hd, NEW last, NEW gh, NEW C, NEW n \in Nat, NEW U, U \subseteq Nat, NEW g, NEW b,
         HeapInv(h, hd, last, gh, C, n, U), Extended(h, g, b),
         b \in Known(h, C), h[b].next = Null, Pos(h, b) <= Pos(h, last),
         Times(Pos(h, b) - 1) < n
  PROVE  HeapInv(g, hd, last, gh, Grown(h, C, b), n, U) /\ (b \in C => b = last)
<1> DEFINE new == Len(h) + 1
           D == IF b \in C THEN C \cup {new} ELSE C
<1> HIDE DEF new
<1>1. /\ C \subseteq DOMAIN h /\ hd \in C /\ last \in C /\ hd \in DOMAIN h /\ last \in DOMAIN h
      /\ b \in DOMAIN h
      /\ new \notin DOMAIN h /\ Null \notin DOMAIN h /\ new # Null /\ new \notin C
      /\ \A c \in DOMAIN h : Pos(h, c) \in Nat /\ Pos(h, c) >= 1
      /\ \A c \in DOMAIN h : h[c].next \in DOMAIN h \cup {Null}
  <2>1. HeapType(h)
    BY DEF HeapInv
  <2>2. /\ C \subseteq DOMAIN h /\ hd \in C /\ last \in C /\ hd \in DOMAIN h /\ last \in DOMAIN h
        /\ Len(h) \in Nat /\ DOMAIN h = 1 .. Len(h)
    BY ChainFacts
  <2> QED
    BY <2>1, <2>2, HeapFacts DEF Known, Null, new
<1>2. /\ HeapType(g) /\ Len(g) = new /\ DOMAIN g = DOMAIN h \cup {new}
      /\ \A c \in DOMAIN h :
          /\ Pos(g, c) = Pos(h, c)
          /\ g[c].prev = h[c].prev
          /\ g[c].memory = h[c].memory
          /\ g[c].head = h[c].head
          /\ g[c].slots = h[c].slots
          /\ g[c].next = IF c = b THEN new ELSE h[c].next
     /\ Pos(g, new) = Pos(h, b) + 1
     /\ g[new].prev = b
     /\ g[new].next = Null
     /\ g[new].head = 0
     /\ g[new].memory = "live"
     /\ \A i \in Slots : g[new].slots[i].isSet = "EMPTY"
  BY DEF Extended, new
<1>3. /\ \A c \in DOMAIN h : Lo(g, c) = Lo(h, c) /\ Hi(g, c) = Hi(h, c)
      /\ Lo(g, new) = Hi(h, b)
  <2>1. Pos(g, new) - 1 = Pos(h, b)
    BY <1>1, <1>2
  <2>2. Lo(g, new) = Hi(h, b)
    BY <2>1, Zenon DEF Lo, Hi
  <2> QED
    BY <1>2, <2>2 DEF Lo, Hi
<1>4. Linked(h, hd, C)
  BY DEF HeapInv
<1>5. b \in C => b = last
  <2> SUFFICES ASSUME b \in C, b # last PROVE FALSE
    OBVIOUS
  <2>1. Pos(h, b) < Pos(h, last)
    BY <1>1, <1>4 DEF Linked
  <2> QED
    BY <1>1, <1>4, <2>1 DEF Linked
<1>6. \A c \in C : b \in C => Pos(h, c) <= Pos(h, b)
  BY <1>1, <1>4 DEF Linked
<1>7. Linked(g, hd, D)
  <2>1. D \subseteq DOMAIN g /\ hd \in D
    BY <1>1, <1>2
  <2>2. \A c \in D : g[c].memory = "live"
    BY <1>1, <1>2, <1>4 DEF Linked
  <2>3. ASSUME NEW c \in D, g[c].next # Null
        PROVE  /\ g[c].next \in D
               /\ g[g[c].next].prev = c
               /\ Pos(g, c) < Pos(g, g[c].next)
    <3>1. c \in C
      BY <1>2, <2>3
    <3>2. CASE c = b
      <4>1. g[c].next = new /\ Pos(h, b) \in Nat
        BY <1>1, <1>2, <3>2
      <4> QED
        BY <1>1, <1>2, <3>1, <3>2, <4>1
    <3>3. CASE c # b
      <4>1. g[c].next = h[c].next /\ h[c].next \in C /\ h[h[c].next].prev = c /\ Pos(h, c) < Pos(h, h[c].next)
        BY <1>1, <1>2, <1>4, <2>3, <3>1, <3>3 DEF Linked
      <4> QED
        BY <1>1, <1>2, <3>1, <4>1
    <3> QED
      BY <3>2, <3>3
  <2>4. ASSUME NEW c \in D, c # hd
        PROVE  g[c].prev \in D /\ g[g[c].prev].next = c
    <3>1. CASE c = new
      BY <1>1, <1>2, <3>1
    <3>2. CASE c \in C
      <4>1. h[c].prev \in C /\ h[h[c].prev].next = c
        BY <1>4, <2>4, <3>2 DEF Linked
      <4>2. h[c].prev # b
        BY <1>1, <3>2, <4>1
      <4> QED
        BY <1>1, <1>2, <3>2, <4>1, <4>2
    <3> QED
      BY <3>1, <3>2
  <2>5. ASSUME NEW c \in D, NEW d \in D, Pos(g, c) < Pos(g, d)
        PROVE  g[c].next # Null /\ Pos(g, g[c].next) <= Pos(g, d)
    <3>1. CASE c = new
      <4>1. b \in C /\ d \in C
        BY <1>1, <1>2, <2>5, <3>1
      <4>2. Pos(h, d) <= Pos(h, b) /\ Pos(h, d) \in Nat /\ Pos(h, b) \in Nat
        BY <1>1, <1>6, <4>1
      <4> QED
        BY <1>1, <1>2, <2>5, <3>1, <4>1, <4>2
    <3>2. CASE c = b /\ c \in C
      <4>1. CASE d = new
        BY <1>1, <1>2, <3>2, <4>1
      <4>2. CASE d \in C
        <5>1. Pos(h, d) <= Pos(h, b) /\ Pos(h, d) \in Nat /\ Pos(h, b) \in Nat
          BY <1>1, <1>6, <3>2, <4>2
        <5> QED
          BY <1>1, <1>2, <2>5, <3>2, <4>2, <5>1
      <4> QED
        BY <4>1, <4>2
    <3>3. CASE c # b /\ c \in C /\ d \in C
      <4>1. h[c].next # Null /\ Pos(h, h[c].next) <= Pos(h, d)
        BY <1>1, <1>2, <1>4, <2>5, <3>3 DEF Linked
      <4> QED
        BY <1>1, <1>2, <3>3, <4>1
    <3>4. CASE c # b /\ c \in C /\ d = new
      <4>1. b \in C
        BY <1>1, <3>4
      <4>2. Pos(h, c) < Pos(h, b)
        BY <1>1, <1>4, <1>6, <3>4, <4>1 DEF Linked
      <4>3. h[c].next # Null /\ Pos(h, h[c].next) <= Pos(h, b) /\ h[c].next \in C
        BY <1>4, <3>4, <4>1, <4>2 DEF Linked
      <4>4. Pos(h, h[c].next) \in Nat /\ Pos(h, b) \in Nat
        BY <1>1, <4>3
      <4> QED
        BY <1>1, <1>2, <3>4, <4>3, <4>4
    <3> QED
      BY <3>1, <3>2, <3>3, <3>4
  <2>6. ASSUME NEW c \in D, NEW d \in D, Pos(g, c) = Pos(g, d)
        PROVE  c = d
    BY <1>1, <1>2, <1>4, <1>6, <2>6 DEF Linked
  <2>7. \A c \in D : Pos(g, hd) <= Pos(g, c)
    <3>1. b \in C => Pos(h, hd) <= Pos(h, b) + 1
      BY <1>1, <1>4 DEF Linked
    <3> QED
      BY <1>1, <1>2, <1>4, <3>1 DEF Linked
  <2> QED
    BY <2>1, <2>2, <2>3, <2>4, <2>5, <2>6, <2>7 DEF Linked
<1>8. Known(h, C) \subseteq Known(g, D)
  BY <1>1, <1>2 DEF Known
<1>9. Back(g, hd, D, U)
  <2> SUFFICES ASSUME NEW c \in DOMAIN g, Pos(g, c) > Pos(g, hd)
               PROVE  /\ g[c].prev \in Known(g, D)
                      /\ Pos(g, g[c].prev) < Pos(g, c)
                      /\ \A d \in D : Pos(g, d) < Pos(g, c) => Pos(g, d) <= Pos(g, g[c].prev)
                      /\ \A l \in U : l < Hi(g, g[c].prev) \/ l >= Lo(g, c)
    BY DEF Back
  <2>1. CASE c = new
    <3>1. g[c].prev = b
      BY <1>2, <2>1
    <3>2. \A d \in DOMAIN g : Pos(g, d) \in Nat
      BY <1>1, <1>2
    <3>3. \A d \in D : Pos(g, d) < Pos(g, c) => Pos(g, d) <= Pos(g, b)
      BY <1>1, <1>2, <2>1, <3>2
    <3>4. Hi(h, b) \in Nat
      BY <1>1, ChainFacts
    <3>5. \A l \in U : l < Hi(g, b) \/ l >= Lo(g, c)
      BY <1>1, <1>3, <2>1, <3>4
    <3>6. Pos(g, b) < Pos(g, c)
      BY <1>1, <1>2, <2>1
    <3> QED
      BY <1>8, <3>1, <3>3, <3>5, <3>6
  <2>2. CASE c \in DOMAIN h
    <3>1. Pos(h, c) > Pos(h, hd)
      BY <1>1, <1>2, <2>2
    <3>2. /\ h[c].prev \in Known(h, C)
          /\ Pos(h, h[c].prev) < Pos(h, c)
          /\ \A d \in C : Pos(h, d) < Pos(h, c) => Pos(h, d) <= Pos(h, h[c].prev)
          /\ \A l \in U : l < Hi(h, h[c].prev) \/ l >= Lo(h, c)
      BY <2>2, <3>1 DEF HeapInv, Back
    <3>3. h[c].prev \in DOMAIN h
      BY <3>2 DEF Known
    <3>4. new \in D => ~(Pos(g, new) < Pos(g, c))
      <4>1. Pos(h, c) <= Pos(h, last) + 1
        BY <2>2 DEF HeapInv, Bounded
      <4> QED
        BY <1>1, <1>2, <1>5, <2>2, <4>1
    <3>5. \A d \in D : Pos(g, d) < Pos(g, c) => Pos(g, d) <= Pos(g, h[c].prev)
      BY <1>1, <1>2, <2>2, <3>2, <3>3, <3>4
    <3> QED
      BY <1>2, <1>3, <1>8, <2>2, <3>2, <3>3, <3>5
  <2> QED
    BY <1>2, <2>1, <2>2
<1>10. Bounded(g, last, n)
  <2>1. \A c \in DOMAIN h : Pos(g, c) <= Pos(g, last) + 1 /\ (Pos(g, c) > 1 => Times(Pos(g, c) - 2) < n)
    BY <1>1, <1>2 DEF HeapInv, Bounded
  <2>2. Pos(g, new) <= Pos(g, last) + 1
    BY <1>1, <1>2
  <2>3. Pos(g, new) - 2 = Pos(h, b) - 1
    BY <1>1, <1>2
  <2> QED
    BY <1>2, <2>1, <2>2, <2>3 DEF Bounded
<1>11. SlotInv(g, hd, last, D, U)
  <2>1. \A c \in DOMAIN h, l \in U : Holds(g, c, l) <=> Holds(h, c, l)
    BY <1>3 DEF Holds
  <2>2. SlotInv(h, hd, last, C, U)
    BY DEF HeapInv
  <2>3. \A l \in U : Lo(g, hd) <= l
    BY <1>1, <1>3, <2>2 DEF SlotInv
  <2>4. ASSUME NEW c \in D, NEW l \in U, Holds(g, c, l)
        PROVE  g[c].slots[l - Lo(g, c)].isSet = "EMPTY" /\ g[c].head <= l - Lo(g, c)
    <3>1. CASE c \in C
      BY <1>1, <1>2, <1>3, <2>1, <2>2, <2>4, <3>1 DEF SlotInv
    <3>2. CASE c = new
      <4>1. Hi(h, b) \in Nat /\ l \in Nat /\ BufferSize \in Nat
        BY <1>1, ChainFacts
      <4>2. Lo(g, new) = Hi(h, b) /\ Hi(g, new) = Hi(h, b) + BufferSize
        BY <1>1, <1>2, <1>3, TimesFacts DEF Hi
      <4>3. l - Lo(g, c) \in Slots
        BY <2>4, <3>2, <4>1, <4>2 DEF Holds, Slots
      <4> QED
        BY <1>2, <3>2, <4>3 DEF Slots
    <3> QED
      BY <3>1, <3>2
  <2>5. \A c \in DOMAIN g, l \in U : g[c].memory = "folded" => ~Holds(g, c, l)
    BY <1>2, <2>1, <2>2 DEF SlotInv
  <2>6. \A c \in DOMAIN g : g[c].memory = "deleted" => Pos(g, c) < Pos(g, hd)
    BY <1>1, <1>2, <2>2 DEF SlotInv
  <2>7. \A c \in D : c # hd => g[c].head = 0
    BY <1>1, <1>2, <2>2 DEF SlotInv
  <2>8. \A c \in D, i \in Slots : Pos(g, c) > Pos(g, last) => g[c].slots[i].isSet = "EMPTY"
    BY <1>1, <1>2, <2>2 DEF SlotInv
  <2> QED
    BY <2>3, <2>4, <2>5, <2>6, <2>7, <2>8 DEF SlotInv
<1>12. GarbageInv(g, gh, D)
  <2>1. PICK G \in SUBSET DOMAIN h, r \in [Nat -> Nat] : Garbage(h, gh, C, G, r)
    BY DEF HeapInv, GarbageInv
  <2> DEFINE H == IF b \in G THEN G \cup {new} ELSE G
             s == [x \in Nat |-> IF x = Null THEN 0 ELSE IF x = new THEN 1 ELSE r[x] + 2]
  <2>2. H \in SUBSET DOMAIN g /\ s \in [Nat -> Nat]
    <3>1. \A x \in Nat : r[x] \in Nat
      OBVIOUS
    <3>2. s \in [Nat -> Nat]
      BY <3>1
    <3> QED
      BY <1>2, <3>2
  <2>3. new \in Nat /\ \A c \in DOMAIN h : c \in Nat /\ s[c] = r[c] + 2 /\ r[c] \in Nat
    <3>1. Len(h) \in Nat /\ DOMAIN h = 1 .. Len(h)
      BY ChainFacts
    <3>2. new \in Nat /\ \A c \in DOMAIN h : c \in Nat
      BY <3>1 DEF new
    <3>3. \A c \in DOMAIN h : r[c] \in Nat
      BY <3>2
    <3> QED
      BY <1>1, <3>2, <3>3
  <2>4. Null \in Nat /\ s[Null] = 0
    BY DEF Null
  <2>5. s[new] = 1
    BY <1>1, <2>3
  <2> HIDE DEF s
  <2>6. gh \in H \cup {Null}
    BY <2>1 DEF Garbage
  <2>7. ASSUME NEW x \in H
        PROVE  /\ g[x].memory # "deleted"
               /\ x \notin D
               /\ g[x].next \in H \cup {Null}
               /\ s[g[x].next] < s[x]
    <3>1. CASE x = new
      <4>1. b \in G /\ b \notin C
        BY <1>1, <2>1, <2>7, <3>1 DEF Garbage
      <4>2. D = C /\ g[x].next = Null
        BY <1>2, <3>1, <4>1
      <4>3. s[g[x].next] < s[x]
        BY <2>4, <2>5, <3>1, <4>2
      <4> QED
        BY <1>1, <1>2, <3>1, <4>2, <4>3
    <3>2. CASE x \in G /\ x = b
      <4>1. s[x] = r[x] + 2 /\ r[x] \in Nat
        BY <1>1, <2>3, <3>2
      <4>2. x \notin C /\ h[x].memory # "deleted"
        BY <2>1, <3>2 DEF Garbage
      <4>3. g[x].next = new /\ g[x].memory = h[x].memory
        BY <1>1, <1>2, <3>2
      <4>4. s[g[x].next] < s[x]
        BY <2>5, <4>1, <4>3
      <4>5. D = C /\ new \in H
        BY <3>2, <4>2
      <4> QED
        BY <4>2, <4>3, <4>4, <4>5
    <3>3. CASE x \in G /\ x # b
      <4>1. x \in DOMAIN h /\ g[x].next = h[x].next /\ g[x].memory = h[x].memory
        BY <1>2, <2>1, <3>3
      <4>2. /\ h[x].memory # "deleted" /\ x \notin C
            /\ h[x].next \in G \cup {Null} /\ r[h[x].next] < r[x]
        BY <2>1, <3>3 DEF Garbage
      <4>3. s[h[x].next] < s[x]
        <5>1. CASE h[x].next = Null
          BY <2>3, <2>4, <4>1, <5>1
        <5>2. CASE h[x].next \in G
          <6>1. h[x].next \in DOMAIN h
            BY <5>2
          <6> QED
            BY <2>3, <4>1, <4>2, <6>1
        <5> QED
          BY <4>2, <5>1, <5>2
      <4> QED
        BY <1>1, <4>1, <4>2, <4>3
    <3> QED
      BY <2>7, <3>1, <3>2, <3>3
  <2>8. Garbage(g, gh, D, H, s)
    BY <2>2, <2>6, <2>7 DEF Garbage
  <2> QED
    BY <2>2, <2>8 DEF GarbageInv
<1>13. gh \in 0 .. Len(g)
  <2>1. Len(h) \in Nat /\ gh \in 0 .. Len(h)
    BY ChainFacts DEF HeapInv
  <2> QED
    BY <1>2, <2>1 DEF new
<1>14. HeapInv(g, hd, last, gh, D, n, U)
  BY <1>1, <1>2, <1>7, <1>9, <1>10, <1>11, <1>12, <1>13 DEF HeapInv
<1> QED
  BY <1>5, <1>14 DEF new, Grown

Linkable(h, C, last, n, b) ==
  /\ b \in Known(h, C)
  /\ h[b].next = Null
  /\ Pos(h, b) <= Pos(h, last)
  /\ Lo(h, b) < n

\* A new buffer is linked onto b, the last of the list or of what was folded.
LEMMA HeapInvLinks ==
  ASSUME NEW h, NEW hd, NEW last, NEW gh, NEW C, NEW n \in Nat, NEW U, U \subseteq Nat, NEW g, NEW b,
         HeapInv(h, hd, last, gh, C, n, U), Extended(h, g, b), Linkable(h, C, last, n, b)
  PROVE  HeapInv(g, hd, last, gh, Grown(h, C, b), n, U)
<1>1. /\ b \in Known(h, C)
      /\ h[b].next = Null
      /\ Pos(h, b) <= Pos(h, last)
      /\ Times(Pos(h, b) - 1) < n
  BY DEF Linkable, Lo
<1> QED
  BY <1>1, HeapInvExtends

\* fold() takes b out of the list and puts it before gh on the garbage list.
Folded(h, g, b, gh) ==
  /\ HeapType(g)
  /\ Len(g) = Len(h) /\ DOMAIN g = DOMAIN h
  /\ \A c \in DOMAIN h :
       /\ Pos(g, c) = Pos(h, c)
       /\ g[c].head = h[c].head
       /\ g[c].slots = h[c].slots
       /\ g[c].prev = IF c = h[b].next THEN h[b].prev ELSE h[c].prev
       /\ g[c].next = IF c = b THEN gh ELSE IF c = h[b].prev THEN h[b].next ELSE h[c].next
       /\ g[c].memory = IF c = b THEN "folded" ELSE h[c].memory

SameNext(h, g, b) == g[b].next = h[b].next

Folds(h, g, hd, last, gh, C, n, U, b) ==
  /\ U \subseteq Nat
  /\ HeapInv(h, hd, last, gh, C, n, U)
  /\ Folded(h, g, b, gh)
  /\ b \in C
  /\ b # hd
  /\ b # last
  /\ h[b].next # Null
  /\ \A i \in Slots : h[b].slots[i].isSet # "EMPTY"

\* A buffer without an EMPTY slot is nobody's goal, and it is not beyond
\* tailOfQueue, where a producer still has to swing it.
LEMMA HeapInvFolds ==
  ASSUME NEW h, NEW hd, NEW last, NEW gh, NEW C, NEW n, NEW U, NEW g, NEW b,
         Folds(h, g, hd, last, gh, C, n, U, b)
  PROVE  /\ HeapInv(g, hd, last, b, C \ {b}, n, U)
         /\ Known(h, C) \subseteq Known(g, C \ {b})
         /\ SameNext(h, g, last)
<1> DEFINE x == h[b].prev
           y == h[b].next
           D == C \ {b}
<1>0. /\ U \subseteq Nat /\ HeapInv(h, hd, last, gh, C, n, U) /\ Folded(h, g, b, gh)
      /\ b \in C /\ b # hd /\ b # last /\ h[b].next # Null
      /\ \A i \in Slots : h[b].slots[i].isSet # "EMPTY"
  BY DEF Folds
<1> USE <1>0
<1>1. /\ C \subseteq DOMAIN h /\ hd \in C /\ last \in C /\ hd \in DOMAIN h /\ last \in DOMAIN h
      /\ b \in DOMAIN h /\ Null \notin DOMAIN h
      /\ \A c \in DOMAIN h : Pos(h, c) \in Nat /\ Pos(h, c) >= 1
  BY ChainFacts DEF Null
<1>2. Linked(h, hd, C) /\ SlotInv(h, hd, last, C, U) /\ Back(h, hd, C, U)
  BY DEF HeapInv
<1>3. /\ x \in C /\ h[x].next = b /\ y \in C /\ h[y].prev = b
      /\ Pos(h, x) < Pos(h, b) /\ Pos(h, b) < Pos(h, y)
  <2>1. x \in C /\ h[x].next = b /\ y \in C /\ h[y].prev = b /\ Pos(h, b) < Pos(h, y)
    BY <1>2 DEF Linked
  <2> QED
    BY <1>1, <1>2, <2>1 DEF Linked
<1>4. x \in DOMAIN h /\ y \in DOMAIN h /\ x # b /\ y # b /\ x # y
  BY <1>1, <1>3
<1> HIDE DEF x, y
<1>5. /\ HeapType(g) /\ Len(g) = Len(h) /\ DOMAIN g = DOMAIN h
      /\ \A c \in DOMAIN h :
           /\ Pos(g, c) = Pos(h, c)
           /\ g[c].head = h[c].head
           /\ g[c].slots = h[c].slots
           /\ g[c].prev = IF c = y THEN x ELSE h[c].prev
           /\ g[c].next = IF c = b THEN gh ELSE IF c = x THEN y ELSE h[c].next
           /\ g[c].memory = IF c = b THEN "folded" ELSE h[c].memory
  BY DEF Folded, x, y
<1>6. h[b].prev = x /\ h[b].next = y
  BY DEF x, y
<1>7. /\ \A c \in DOMAIN h : Lo(g, c) = Lo(h, c) /\ Hi(g, c) = Hi(h, c)
      /\ \A c \in DOMAIN h, l \in U : Holds(g, c, l) <=> Holds(h, c, l)
  BY <1>5 DEF Lo, Hi, Holds
<1>8. \A l \in U : ~Holds(h, b, l)
  <2> SUFFICES ASSUME NEW l \in U, Holds(h, b, l) PROVE FALSE
    OBVIOUS
  <2>1. h[b].slots[l - Lo(h, b)].isSet = "EMPTY"
    BY <1>2 DEF SlotInv
  <2>2. Lo(h, b) \in Nat /\ Hi(h, b) = Lo(h, b) + BufferSize /\ BufferSize \in Nat /\ l \in Nat
    BY <1>1, ChainFacts
  <2>3. l - Lo(h, b) \in Slots
    BY <2>2 DEF Holds, Slots
  <2> QED
    BY <2>1, <2>3
<1>9. x # last
  <2> SUFFICES ASSUME x = last PROVE FALSE
    OBVIOUS
  <2>1. 0 \in Slots
    BY TimesFacts DEF Slots
  <2> QED
    BY <1>2, <1>3, <2>1 DEF SlotInv
<1>10. g[last].next = h[last].next
  BY <1>1, <1>5, <1>9
<1>11. Linked(g, hd, D)
  <2>1. D \subseteq DOMAIN g /\ hd \in D
    BY <1>1, <1>5
  <2>2. \A c \in D : g[c].memory = "live"
    BY <1>1, <1>2, <1>5 DEF Linked
  <2>3. ASSUME NEW c \in D, g[c].next # Null
        PROVE  /\ g[c].next \in D
               /\ g[g[c].next].prev = c
               /\ Pos(g, c) < Pos(g, g[c].next)
    <3>1. CASE c = x
      <4>1. g[c].next = y /\ g[y].prev = x
        BY <1>4, <1>5, <3>1
      <4>2. Pos(h, x) < Pos(h, y)
        BY <1>1, <1>3, <1>4
      <4> QED
        BY <1>3, <1>4, <1>5, <3>1, <4>1, <4>2
    <3>2. CASE c # x
      <4>1. g[c].next = h[c].next /\ h[c].next \in C /\ h[h[c].next].prev = c /\ Pos(h, c) < Pos(h, h[c].next)
        BY <1>1, <1>2, <1>5, <2>3, <3>2 DEF Linked
      <4>2. h[c].next # b /\ h[c].next # y
        BY <1>3, <1>6, <3>2, <4>1
      <4> QED
        BY <1>1, <1>5, <4>1, <4>2
    <3> QED
      BY <3>1, <3>2
  <2>4. ASSUME NEW c \in D, c # hd
        PROVE  g[c].prev \in D /\ g[g[c].prev].next = c
    <3>1. CASE c = y
      BY <1>3, <1>4, <1>5, <3>1
    <3>2. CASE c # y
      <4>1. h[c].prev \in C /\ h[h[c].prev].next = c
        BY <1>2, <2>4 DEF Linked
      <4>2. h[c].prev # b /\ h[c].prev # x
        BY <1>3, <1>6, <3>2, <4>1
      <4> QED
        BY <1>1, <1>5, <3>2, <4>1, <4>2
    <3> QED
      BY <3>1, <3>2
  <2>5. ASSUME NEW c \in D, NEW d \in D, Pos(g, c) < Pos(g, d)
        PROVE  g[c].next # Null /\ Pos(g, g[c].next) <= Pos(g, d)
    <3>1. Pos(h, c) < Pos(h, d) /\ c \in DOMAIN h /\ d \in DOMAIN h
      BY <1>1, <1>5, <2>5
    <3>2. CASE c = x
      <4>1. Pos(h, b) <= Pos(h, d) /\ Pos(h, b) # Pos(h, d)
        BY <1>2, <1>3, <3>1, <3>2 DEF Linked
      <4>2. Pos(h, b) < Pos(h, d)
        BY <1>1, <3>1, <4>1
      <4>3. Pos(h, y) <= Pos(h, d)
        BY <1>2, <1>6, <4>2 DEF Linked
      <4> QED
        BY <1>1, <1>4, <1>5, <3>1, <3>2, <4>3
    <3>3. CASE c # x
      <4>1. h[c].next # Null /\ Pos(h, h[c].next) <= Pos(h, d) /\ h[c].next \in C
        BY <1>2, <3>1 DEF Linked
      <4> QED
        BY <1>1, <1>5, <3>1, <3>3, <4>1
    <3> QED
      BY <3>2, <3>3
  <2>6. \A c, d \in D : Pos(g, c) = Pos(g, d) => c = d
    BY <1>1, <1>2, <1>5 DEF Linked
  <2>7. \A c \in D : Pos(g, hd) <= Pos(g, c)
    BY <1>1, <1>2, <1>5 DEF Linked
  <2> QED
    BY <2>1, <2>2, <2>3, <2>4, <2>5, <2>6, <2>7 DEF Linked
<1>12. Known(h, C) \subseteq Known(g, D)
  BY <1>1, <1>5 DEF Known
<1>13. Back(g, hd, D, U)
  <2> SUFFICES ASSUME NEW c \in DOMAIN h, Pos(h, c) > Pos(h, hd)
               PROVE  /\ g[c].prev \in Known(g, D)
                      /\ Pos(g, g[c].prev) < Pos(h, c)
                      /\ \A d \in D : Pos(h, d) < Pos(h, c) => Pos(h, d) <= Pos(g, g[c].prev)
                      /\ \A l \in U : l < Hi(g, g[c].prev) \/ l >= Lo(h, c)
    BY <1>1, <1>5, <1>7 DEF Back
  <2>1. CASE c = y
    <3>1. g[c].prev = x /\ x \in Known(g, D)
      BY <1>3, <1>4, <1>5, <2>1 DEF Known
    <3>2. ASSUME NEW d \in D, Pos(h, d) < Pos(h, y) PROVE Pos(h, d) <= Pos(h, x)
      <4> SUFFICES ASSUME Pos(h, x) < Pos(h, d) PROVE FALSE
        BY <1>1, <1>4
      <4>1. Pos(h, b) <= Pos(h, d) /\ Pos(h, b) # Pos(h, d)
        BY <1>2, <1>3 DEF Linked
      <4>2. Pos(h, b) < Pos(h, d)
        BY <1>1, <4>1
      <4>3. Pos(h, y) <= Pos(h, d)
        BY <1>2, <1>6, <4>2 DEF Linked
      <4> QED
        BY <1>1, <1>4, <3>2, <4>3
    <3>3. ASSUME NEW l \in U PROVE l < Hi(h, x) \/ l >= Lo(h, y)
      <4>1. Pos(h, y) > Pos(h, hd) /\ Pos(h, b) > Pos(h, hd)
        BY <1>1, <1>2, <1>3, <1>4 DEF Linked
      <4>2. l < Hi(h, b) \/ l >= Lo(h, y)
        BY <1>2, <1>3, <1>4, <4>1 DEF Back
      <4>3. l < Hi(h, x) \/ l >= Lo(h, b)
        BY <1>1, <1>2, <1>6, <4>1 DEF Back
      <4> QED
        BY <1>8, <4>2, <4>3 DEF Holds
    <3>4. Pos(h, x) < Pos(h, y)
      BY <1>1, <1>3, <1>4
    <3> QED
      BY <1>4, <1>5, <1>7, <2>1, <3>1, <3>2, <3>3, <3>4
  <2>2. CASE c # y
    <3>1. /\ h[c].prev \in Known(h, C)
          /\ Pos(h, h[c].prev) < Pos(h, c)
          /\ \A d \in C : Pos(h, d) < Pos(h, c) => Pos(h, d) <= Pos(h, h[c].prev)
          /\ \A l \in U : l < Hi(h, h[c].prev) \/ l >= Lo(h, c)
      BY <1>2 DEF Back
    <3>2. h[c].prev \in DOMAIN h /\ g[c].prev = h[c].prev
      BY <1>5, <2>2, <3>1 DEF Known
    <3> QED
      BY <1>5, <1>7, <1>12, <3>1, <3>2
  <2> QED
    BY <2>1, <2>2
<1>14. Bounded(g, last, n)
  BY <1>1, <1>5 DEF HeapInv, Bounded
<1>15. SlotInv(g, hd, last, D, U)
  <2>1. \A l \in U : Lo(g, hd) <= l
    BY <1>1, <1>2, <1>7 DEF SlotInv
  <2>2. \A c \in D, l \in U : Holds(g, c, l) =>
          g[c].slots[l - Lo(g, c)].isSet = "EMPTY" /\ g[c].head <= l - Lo(g, c)
    BY <1>1, <1>2, <1>5, <1>7 DEF SlotInv
  <2>3. \A c \in DOMAIN g, l \in U : g[c].memory = "folded" => ~Holds(g, c, l)
    BY <1>2, <1>5, <1>7, <1>8 DEF SlotInv
  <2>4. \A c \in DOMAIN g : g[c].memory = "deleted" => Pos(g, c) < Pos(g, hd)
    BY <1>1, <1>2, <1>5 DEF SlotInv
  <2>5. \A c \in D : c # hd => g[c].head = 0
    BY <1>1, <1>2, <1>5 DEF SlotInv
  <2>6. \A c \in D, i \in Slots : Pos(g, c) > Pos(g, last) => g[c].slots[i].isSet = "EMPTY"
    BY <1>1, <1>2, <1>5 DEF SlotInv
  <2> QED
    BY <2>1, <2>2, <2>3, <2>4, <2>5, <2>6 DEF SlotInv
<1>16. GarbageInv(g, b, D)
  <2>1. PICK G \in SUBSET DOMAIN h, r \in [Nat -> Nat] : Garbage(h, gh, C, G, r)
    BY DEF HeapInv, GarbageInv
  <2> DEFINE H == G \cup {b}
             s == [r EXCEPT ![b] = r[gh] + 1]
  <2>2. b \notin G /\ gh \in G \cup {Null} /\ gh # b
    BY <1>1, <2>1 DEF Garbage
  <2>3. b \in Nat /\ gh \in Nat /\ r[gh] \in Nat
    <3>1. b \in Nat /\ gh \in Nat
      <4>1. Len(h) \in Nat /\ DOMAIN h = 1 .. Len(h) /\ gh \in 0 .. Len(h)
        BY ChainFacts DEF HeapInv
      <4> QED
        BY <1>1, <4>1
    <3> QED
      BY <3>1
  <2>4. s \in [Nat -> Nat] /\ s[b] = r[gh] + 1 /\ \A c \in Nat : c # b => s[c] = r[c]
    BY <2>3
  <2> HIDE DEF s
  <2>5. H \in SUBSET DOMAIN g
    BY <1>1, <1>5
  <2>6. ASSUME NEW c \in H
        PROVE  /\ g[c].memory # "deleted"
               /\ c \notin D
               /\ g[c].next \in H \cup {Null}
               /\ s[g[c].next] < s[c]
    <3>1. CASE c = b
      <4>1. g[c].next = gh /\ g[c].memory = "folded"
        BY <1>1, <1>5, <3>1
      <4>2. s[gh] = r[gh]
        BY <2>2, <2>3, <2>4
      <4>3. s[gh] < s[b]
        BY <2>3, <2>4, <4>2
      <4> QED
        BY <2>2, <3>1, <4>1, <4>3
    <3>2. CASE c \in G
      <4>1. /\ h[c].memory # "deleted" /\ c \notin C
            /\ h[c].next \in G \cup {Null} /\ r[h[c].next] < r[c]
        BY <2>1, <3>2 DEF Garbage
      <4>2. c \in DOMAIN h /\ c # b /\ c # x
        BY <1>3, <2>2, <3>2, <4>1
      <4>3. g[c].next = h[c].next /\ g[c].memory = h[c].memory
        BY <1>5, <4>2
      <4>4. h[c].next # b /\ h[c].next \in Nat /\ c \in Nat
        <5>1. Len(h) \in Nat /\ DOMAIN h = 1 .. Len(h)
          BY ChainFacts
        <5>2. h[c].next \in DOMAIN h \cup {Null} /\ h[c].next # b
          BY <1>1, <2>1, <2>2, <4>1 DEF Garbage
        <5>3. DOMAIN h \subseteq Nat /\ Null \in Nat
          BY <5>1 DEF Null
        <5> QED
          BY <4>2, <5>2, <5>3
      <4>5. s[h[c].next] = r[h[c].next] /\ s[c] = r[c]
        BY <2>4, <4>2, <4>4
      <4> QED
        BY <4>1, <4>3, <4>5
    <3> QED
      BY <2>6, <3>1, <3>2
  <2>7. Garbage(g, b, D, H, s)
    BY <2>4, <2>5, <2>6 DEF Garbage
  <2> QED
    BY <2>4, <2>5, <2>7 DEF GarbageInv
<1>17. b \in 0 .. Len(g)
  BY <1>1, <1>5, ChainFacts
<1>18. HeapInv(g, hd, last, b, D, n, U)
  BY <1>1, <1>5, <1>11, <1>13, <1>14, <1>15, <1>16, <1>17 DEF HeapInv
<1> QED
  BY <1>10, <1>12, <1>18 DEF SameNext

\* Where the consumer stops deleting garbage: the list that is left, from `kept'
\* on, holds nothing of what it has passed.
Cut(h, gh, old) == CHOOSE g \in Walk(h, gh, old) : g \notin old
Passed(h, gh, old) == Walk(h, gh, old) \cap old

Leaves(h, G, K, kept) ==
  /\ K \subseteq G
  /\ \E H \in SUBSET G :
       /\ kept \in H \cup {Null}
       /\ H \cap K = {}
       /\ \A x \in H : h[x].next \in H \cup {Null}

\* Cutting the garbage list at the first buffer to be kept leaves a garbage list.
LEMMA GarbageCut ==
  ASSUME NEW h, NEW gh, NEW C, NEW G, NEW r, NEW old, HeapType(h), gh \in 0 .. Len(h),
         Garbage(h, gh, C, G, r), old \subseteq DOMAIN h
  PROVE  Leaves(h, G, Passed(h, gh, old), Cut(h, gh, old))
<1> DEFINE W == Walk(h, gh, old)
           kept == CHOOSE g \in W : g \notin old
<1>1. /\ Len(h) \in Nat /\ DOMAIN h = 1 .. Len(h) /\ Null \notin DOMAIN h
      /\ \A c \in DOMAIN h : h[c].next \in 0 .. Len(h)
      /\ G \subseteq DOMAIN h /\ Null \notin G /\ Null \notin old
      /\ G \cup {Null} \subseteq 0 .. Len(h)
  <2>1. /\ Len(h) \in Nat /\ DOMAIN h = 1 .. Len(h)
        /\ \A c \in DOMAIN h : h[c].next \in 0 .. Len(h)
    BY HeapFacts
  <2>2. G \subseteq DOMAIN h
    BY DEF Garbage
  <2>3. Null \notin 1 .. Len(h) /\ 1 .. Len(h) \subseteq 0 .. Len(h) /\ Null \in 0 .. Len(h)
    BY <2>1 DEF Null
  <2> QED
    BY <2>1, <2>2, <2>3
<1>2. /\ gh \in G \cup {Null} /\ r \in [Nat -> Nat]
      /\ \A g \in G : h[g].next \in G \cup {Null} /\ r[h[g].next] < r[g]
  BY DEF Garbage
<1>3. \A c \in 0 .. Len(h) : c \in Nat /\ r[c] \in Nat
  <2>1. \A c \in 0 .. Len(h) : c \in Nat
    BY <1>1
  <2> QED
    BY <1>2, <2>1
<1>4. W \subseteq G \cup {Null} /\ gh \in W /\ W \subseteq 0 .. Len(h)
  <2>1. G \cup {Null} \in SUBSET (0 .. Len(h))
    BY <1>1
  <2>2. \A x \in G \cup {Null} : x \in old => h[x].next \in G \cup {Null}
    BY <1>1, <1>2
  <2> QED
    BY <1>2, <2>1, <2>2, WalkFacts
<1>5. \A x \in W : x \in old => h[x].next \in W
  BY WalkFacts
<1> HIDE DEF W
<1>6. \E x \in W : x \notin old
  <2> DEFINE T == {r[x] : x \in W}
  <2>1. T \subseteq Nat /\ T # {}
    BY <1>3, <1>4
  <2>2. PICK t \in T : \A u \in T : t <= u
    <3> HIDE DEF T
    <3> QED
      BY <2>1, NatMin
  <2>3. PICK x \in W : t = r[x]
    BY <2>2
  <2> SUFFICES ASSUME x \in old PROVE FALSE
    BY <2>3
  <2>4. h[x].next \in W /\ r[h[x].next] < r[x]
    BY <1>1, <1>2, <1>4, <1>5, <2>3
  <2>5. r[x] <= r[h[x].next]
    BY <2>2, <2>3, <2>4
  <2>6. r[x] \in Nat /\ r[h[x].next] \in Nat
    BY <1>3, <1>4, <2>3, <2>4
  <2> QED
    BY <2>4, <2>5, <2>6
<1>7. kept \in W /\ kept \notin old
  BY <1>6
<1> HIDE DEF kept
<1>8. kept \in G \cup {Null} /\ W \cap old \subseteq G
  BY <1>1, <1>4, <1>7
<1>9. ASSUME NEW x \in old, kept \in Walk(h, x, old)
      PROVE  kept \in Walk(h, h[x].next, old)
  <2> DEFINE N == Walk(h, h[x].next, old)
  <2>1. x \in 0 .. Len(h) /\ h[x].next \in 0 .. Len(h)
    BY <1>1
  <2>2. h[x].next \in N /\ N \subseteq 0 .. Len(h) /\ \A c \in N : c \in old => h[c].next \in N
    BY <2>1, WalkFacts
  <2> HIDE DEF N
  <2>3. {x} \cup N \in SUBSET (0 .. Len(h))
    BY <2>1, <2>2
  <2>4. \A c \in {x} \cup N : c \in old => h[c].next \in {x} \cup N
    BY <2>2
  <2>5. Walk(h, x, old) \subseteq {x} \cup N
    BY <2>1, <2>3, <2>4, WalkFacts
  <2> QED
    BY <1>7, <1>9, <2>5 DEF N
<1>10. \A x \in W : kept \in Walk(h, x, old)
  <2> DEFINE S == {x \in 0 .. Len(h) : kept \in Walk(h, x, old)}
  <2>1. gh \in S
    BY <1>7 DEF W
  <2>2. \A x \in S : x \in old => h[x].next \in S
    BY <1>1, <1>9
  <2>3. S \in SUBSET (0 .. Len(h))
    OBVIOUS
  <2> HIDE DEF S
  <2>4. W \subseteq S
    BY <2>1, <2>2, <2>3, WalkFacts DEF W
  <2> QED
    BY <2>4 DEF S
<1>11. ASSUME NEW x \in W \cap old PROVE r[kept] < r[x]
  <2> DEFINE Q == {y \in G \cup {Null} : r[y] <= r[h[x].next]}
  <2>1. x \in G /\ h[x].next \in G \cup {Null} /\ r[h[x].next] < r[x]
    BY <1>2, <1>8
  <2>2. h[x].next \in 0 .. Len(h) /\ x \in 0 .. Len(h)
    BY <1>1, <2>1
  <2>3. h[x].next \in Q
    BY <1>3, <2>1, <2>2
  <2>4. ASSUME NEW y \in Q, y \in old PROVE h[y].next \in Q
    <3>1. y \in G /\ h[y].next \in G \cup {Null} /\ r[h[y].next] < r[y] /\ r[y] <= r[h[x].next]
      BY <1>1, <1>2, <2>4
    <3>2. r[h[y].next] \in Nat /\ r[y] \in Nat /\ r[h[x].next] \in Nat
      BY <1>1, <1>3, <2>2, <3>1
    <3>3. r[h[y].next] <= r[h[x].next]
      BY <3>1, <3>2
    <3> QED
      BY <3>1, <3>3
  <2>5. Q \in SUBSET (0 .. Len(h))
    BY <1>1
  <2> HIDE DEF Q
  <2>6. Walk(h, h[x].next, old) \subseteq Q
    BY <2>2, <2>3, <2>4, <2>5, WalkFacts
  <2>7. kept \in Q
    BY <1>9, <1>10, <2>6
  <2>8. r[kept] <= r[h[x].next] /\ r[kept] \in Nat /\ r[h[x].next] \in Nat /\ r[x] \in Nat
    BY <1>1, <1>3, <1>8, <2>2, <2>7 DEF Q
  <2> QED
    BY <2>1, <2>8
<1>12. \E H \in SUBSET G :
         /\ kept \in H \cup {Null}
         /\ H \cap (W \cap old) = {}
         /\ \A g \in H : h[g].next \in H \cup {Null}
  <2>1. CASE kept = Null
    <3> DEFINE H == {}
    <3>1. H \in SUBSET G /\ kept \in H \cup {Null} /\ H \cap (W \cap old) = {}
      BY <2>1
    <3> QED
      BY <3>1
  <2>2. CASE kept # Null
    <3> DEFINE H == {g \in G : r[g] <= r[kept]}
    <3>1. kept \in H
      <4>1. kept \in G /\ r[kept] \in Nat
        BY <1>1, <1>3, <1>8, <2>2
      <4> QED
        BY <4>1
    <3>2. ASSUME NEW g \in H PROVE h[g].next \in H \cup {Null}
      <4>1. g \in G /\ r[g] <= r[kept] /\ h[g].next \in G \cup {Null} /\ r[h[g].next] < r[g]
        BY <1>2
      <4>2. r[g] \in Nat /\ r[kept] \in Nat /\ r[h[g].next] \in Nat
        BY <1>1, <1>3, <1>8, <4>1
      <4> QED
        BY <4>1, <4>2
    <3>3. H \cap (W \cap old) = {}
      <4> SUFFICES ASSUME NEW g \in H, g \in W \cap old PROVE FALSE
        OBVIOUS
      <4>1. r[g] <= r[kept] /\ r[kept] < r[g] /\ r[g] \in Nat /\ r[kept] \in Nat
        BY <1>1, <1>3, <1>8, <1>11
      <4> QED
        BY <4>1
    <3> QED
      BY <3>1, <3>2, <3>3
  <2> QED
    BY <2>1, <2>2
<1> QED
  BY <1>8, <1>12 DEF W, kept, Cut, Passed, Leaves

\* moveToNextBuffer() deletes the first buffer and the garbage in K.
Moved(h, g, hd, K) ==
  /\ HeapType(g)
  /\ Len(g) = Len(h) /\ DOMAIN g = DOMAIN h
  /\ \A c \in DOMAIN h :
       /\ Pos(g, c) = Pos(h, c)
       /\ g[c].head = h[c].head
       /\ g[c].slots = h[c].slots
       /\ g[c].prev = h[c].prev
       /\ g[c].next = h[c].next
       /\ g[c].memory = IF c \in K \cup {hd} THEN "deleted" ELSE h[c].memory

\* headOfQueue moves on, the buffers in K go with the old first one.
LEMMA HeapInvMoves ==
  ASSUME NEW h, NEW hd, NEW last, NEW gh, NEW C, NEW n, NEW U, U \subseteq Nat, NEW g,
         HeapInv(h, hd, last, gh, C, n, U),
         hd # last, h[hd].next # Null, h[hd].head >= BufferSize,
         NEW K, NEW kept, \A c \in K : Pos(h, c) < Pos(h, h[hd].next),
         NEW G, NEW r, Garbage(h, gh, C, G, r), K \subseteq G, NEW H, H \subseteq G,
         kept \in H \cup {Null}, H \cap K = {}, \A x \in H : h[x].next \in H \cup {Null},
         Moved(h, g, hd, K)
  PROVE  /\ HeapInv(g, h[hd].next, last, kept, C \ {hd}, n, U)
         /\ Known(h, C) \subseteq Known(g, C \ {hd})
         /\ h[h[hd].next].head = 0
<1> DEFINE y == h[hd].next
           D == C \ {hd}
<1>1. /\ C \subseteq DOMAIN h /\ hd \in C /\ last \in C /\ hd \in DOMAIN h /\ last \in DOMAIN h
      /\ Null \notin DOMAIN h /\ Len(h) \in Nat /\ DOMAIN h = 1 .. Len(h)
      /\ \A c \in DOMAIN h : Pos(h, c) \in Nat /\ Pos(h, c) >= 1
  BY ChainFacts DEF Null
<1>2. Linked(h, hd, C) /\ SlotInv(h, hd, last, C, U) /\ Back(h, hd, C, U) /\ HeapType(h)
  BY DEF HeapInv
<1>3. y \in C /\ y \in DOMAIN h /\ h[y].prev = hd /\ Pos(h, hd) < Pos(h, y) /\ y # hd
  BY <1>1, <1>2 DEF Linked
<1>7. K \subseteq DOMAIN h /\ K \cap C = {} /\ \A c \in K : Pos(h, c) < Pos(h, y)
  BY DEF Garbage
<1>8. \A c \in D : Pos(h, hd) < Pos(h, c) /\ Pos(h, y) <= Pos(h, c)
  <2>1. \A c \in D : Pos(h, hd) <= Pos(h, c) /\ Pos(h, hd) # Pos(h, c)
    BY <1>2, <1>1 DEF Linked
  <2>2. \A c \in D : Pos(h, hd) < Pos(h, c)
    BY <1>1, <2>1
  <2> QED
    BY <1>1, <1>2, <2>2 DEF Linked
<1> HIDE DEF y
<1>9. h[hd].next = y
  BY DEF y
<1>10. /\ HeapType(g) /\ Len(g) = Len(h) /\ DOMAIN g = DOMAIN h
       /\ \A c \in DOMAIN h :
            /\ Pos(g, c) = Pos(h, c)
            /\ g[c].head = h[c].head
            /\ g[c].slots = h[c].slots
            /\ g[c].prev = h[c].prev
            /\ g[c].next = h[c].next
            /\ g[c].memory = IF c \in K \cup {hd} THEN "deleted" ELSE h[c].memory
  BY DEF Moved
<1>11. /\ \A c \in DOMAIN h : Lo(g, c) = Lo(h, c) /\ Hi(g, c) = Hi(h, c)
       /\ \A c \in DOMAIN h, l \in U : Holds(g, c, l) <=> Holds(h, c, l)
  BY <1>10 DEF Lo, Hi, Holds
<1>12. Linked(g, y, D)
  <2>1. D \subseteq DOMAIN g /\ y \in D
    BY <1>1, <1>3, <1>10
  <2>2. \A c \in D : g[c].memory = "live"
    BY <1>1, <1>2, <1>7, <1>10 DEF Linked
  <2>3. ASSUME NEW c \in D, g[c].next # Null
        PROVE  /\ g[c].next \in D
               /\ g[g[c].next].prev = c
               /\ Pos(g, c) < Pos(g, g[c].next)
    <3>1. g[c].next = h[c].next /\ h[c].next \in C /\ h[h[c].next].prev = c /\ Pos(h, c) < Pos(h, h[c].next)
      BY <1>1, <1>2, <1>10, <2>3 DEF Linked
    <3>2. h[c].next # hd
      BY <1>1, <1>8, <3>1
    <3> QED
      BY <1>1, <1>10, <3>1, <3>2
  <2>4. ASSUME NEW c \in D, c # y
        PROVE  g[c].prev \in D /\ g[g[c].prev].next = c
    <3>1. h[c].prev \in C /\ h[h[c].prev].next = c
      BY <1>2 DEF Linked
    <3>2. h[c].prev # hd
      BY <1>9, <2>4, <3>1
    <3> QED
      BY <1>1, <1>10, <3>1, <3>2
  <2>5. ASSUME NEW c \in D, NEW d \in D, Pos(g, c) < Pos(g, d)
        PROVE  g[c].next # Null /\ Pos(g, g[c].next) <= Pos(g, d)
    <3>1. Pos(h, c) < Pos(h, d) /\ c \in DOMAIN h /\ d \in DOMAIN h
      BY <1>1, <1>10, <2>5
    <3>2. h[c].next # Null /\ Pos(h, h[c].next) <= Pos(h, d) /\ h[c].next \in C
      BY <1>2, <3>1 DEF Linked
    <3> QED
      BY <1>1, <1>10, <3>1, <3>2
  <2>6. \A c, d \in D : Pos(g, c) = Pos(g, d) => c = d
    BY <1>1, <1>2, <1>10 DEF Linked
  <2>7. \A c \in D : Pos(g, y) <= Pos(g, c)
    BY <1>1, <1>3, <1>8, <1>10
  <2> QED
    BY <2>1, <2>2, <2>3, <2>4, <2>5, <2>6, <2>7 DEF Linked
<1>13. Known(h, C) \subseteq Known(g, D)
  BY <1>1, <1>10 DEF Known
<1>14. Back(g, y, D, U)
  <2> SUFFICES ASSUME NEW c \in DOMAIN h, Pos(h, c) > Pos(h, y)
               PROVE  /\ h[c].prev \in Known(g, D)
                      /\ Pos(g, h[c].prev) < Pos(h, c)
                      /\ \A d \in D : Pos(h, d) < Pos(h, c) => Pos(h, d) <= Pos(g, h[c].prev)
                      /\ \A l \in U : l < Hi(g, h[c].prev) \/ l >= Lo(h, c)
    BY <1>1, <1>3, <1>10, <1>11 DEF Back
  <2>1. Pos(h, c) > Pos(h, hd)
    BY <1>1, <1>3
  <2>2. /\ h[c].prev \in Known(h, C)
        /\ Pos(h, h[c].prev) < Pos(h, c)
        /\ \A d \in C : Pos(h, d) < Pos(h, c) => Pos(h, d) <= Pos(h, h[c].prev)
        /\ \A l \in U : l < Hi(h, h[c].prev) \/ l >= Lo(h, c)
    BY <1>2, <2>1 DEF Back
  <2>3. h[c].prev \in DOMAIN h
    BY <2>2 DEF Known
  <2> QED
    BY <1>10, <1>11, <1>13, <2>2, <2>3
<1>15. Bounded(g, last, n)
  BY <1>1, <1>10 DEF HeapInv, Bounded
<1>16. SlotInv(g, y, last, D, U)
  <2>1. ASSUME NEW l \in U PROVE Lo(g, y) <= l
    <3>1. Lo(h, hd) <= l /\ (Holds(h, hd, l) => h[hd].head <= l - Lo(h, hd))
      BY <1>1, <1>2 DEF SlotInv
    <3>2. /\ Lo(h, hd) \in Nat /\ Hi(h, hd) = Lo(h, hd) + BufferSize /\ BufferSize \in Nat /\ l \in Nat
          /\ h[hd].head \in Nat
      <4>1. h[hd].head \in 0 .. BufferSize /\ BufferSize \in Nat
        BY <1>1, <1>2, HeapFacts, TimesFacts
      <4>2. l \in Nat
        OBVIOUS
      <4>4. h[hd].head \in Nat
        BY ONLY <4>1
      <4>3. Lo(h, hd) \in Nat /\ Hi(h, hd) = Lo(h, hd) + BufferSize
        BY <1>1, ChainFacts
      <4> QED
        BY <4>1, <4>2, <4>3, <4>4
    <3>3. l >= Hi(h, hd)
      BY <3>1, <3>2 DEF Holds
    <3>4. l < Hi(h, hd) \/ l >= Lo(h, y)
      BY <1>2, <1>3 DEF Back
    <3> QED
      BY <1>3, <1>11, <3>2, <3>3, <3>4
  <2>2. \A c \in D, l \in U : Holds(g, c, l) =>
          g[c].slots[l - Lo(g, c)].isSet = "EMPTY" /\ g[c].head <= l - Lo(g, c)
    BY <1>1, <1>2, <1>10, <1>11 DEF SlotInv
  <2>3. \A c \in DOMAIN g, l \in U : g[c].memory = "folded" => ~Holds(g, c, l)
    BY <1>2, <1>10, <1>11 DEF SlotInv
  <2>4. \A c \in DOMAIN g : g[c].memory = "deleted" => Pos(g, c) < Pos(g, y)
    <3>1. \A c \in DOMAIN h : h[c].memory = "deleted" => Pos(h, c) < Pos(h, y)
      BY <1>1, <1>2, <1>3 DEF SlotInv
    <3> QED
      BY <1>1, <1>3, <1>7, <1>10, <3>1
  <2>5. \A c \in D : c # y => g[c].head = 0
    BY <1>1, <1>2, <1>10 DEF SlotInv
  <2>6. \A c \in D, i \in Slots : Pos(g, c) > Pos(g, last) => g[c].slots[i].isSet = "EMPTY"
    BY <1>1, <1>2, <1>10 DEF SlotInv
  <2> QED
    BY <2>1, <2>2, <2>3, <2>4, <2>5, <2>6 DEF SlotInv
<1>17. GarbageInv(g, kept, D)
  <2>2. ASSUME NEW c \in H
        PROVE  /\ g[c].memory # "deleted"
               /\ c \notin D
               /\ g[c].next \in H \cup {Null}
               /\ r[g[c].next] < r[c]
    <3>1. h[c].memory # "deleted" /\ c \notin C /\ r[h[c].next] < r[c] /\ c \in DOMAIN h
      BY DEF Garbage
    <3>2. c \notin K \cup {hd}
      BY <1>1, <3>1
    <3> QED
      BY <1>10, <3>1, <3>2
  <2>3. Garbage(g, kept, D, H, r)
    BY <1>10, <2>2 DEF Garbage
  <2>4. H \in SUBSET DOMAIN g /\ r \in [Nat -> Nat]
    BY <1>10 DEF Garbage
  <2> QED
    BY <2>3, <2>4 DEF GarbageInv
<1>18. kept \in 0 .. Len(g)
  <2>1. kept \in 1 .. Len(h) \cup {Null}
    BY <1>1 DEF Garbage
  <2> QED
    BY <1>1, <1>10, <2>1 DEF Null
<1>19. HeapInv(g, y, last, kept, D, n, U)
  BY <1>1, <1>10, <1>12, <1>14, <1>15, <1>16, <1>17, <1>18 DEF HeapInv
<1>20. h[y].head = 0
  BY <1>2, <1>3 DEF SlotInv
<1> QED
  BY <1>9, <1>13, <1>19, <1>20

\* K is garbage, what is left of the list starts at `kept' and has none of K, and
\* the first buffer may go.
Discards(h, hd, last, gh, C, K, kept) ==
  /\ hd # last
  /\ h[hd].next # Null
  /\ h[hd].head >= BufferSize
  /\ \A c \in K : Pos(h, c) < Pos(h, h[hd].next)
  /\ \E G \in SUBSET DOMAIN h, r \in [Nat -> Nat] :
       Garbage(h, gh, C, G, r) /\ Leaves(h, G, K, kept)

\* The same, with what moveToNextBuffer() finds on the garbage list.
LEMMA HeapInvMovesOn ==
  ASSUME NEW h, NEW hd, NEW last, NEW gh, NEW C, NEW n, NEW U, U \subseteq Nat, NEW g,
         HeapInv(h, hd, last, gh, C, n, U),
         NEW K, NEW kept, Discards(h, hd, last, gh, C, K, kept), Moved(h, g, hd, K)
  PROVE  /\ HeapInv(g, h[hd].next, last, kept, C \ {hd}, n, U)
         /\ Known(h, C) \subseteq Known(g, C \ {hd})
         /\ h[h[hd].next].head = 0
<1>1. PICK G \in SUBSET DOMAIN h, r \in [Nat -> Nat] :
        Garbage(h, gh, C, G, r) /\ Leaves(h, G, K, kept)
  BY DEF Discards
<1>2. PICK H \in SUBSET G :
        /\ kept \in H \cup {Null}
        /\ H \cap K = {}
        /\ \A x \in H : h[x].next \in H \cup {Null}
  BY <1>1 DEF Leaves
<1>3. /\ hd # last /\ h[hd].next # Null /\ h[hd].head >= BufferSize
      /\ \A c \in K : Pos(h, c) < Pos(h, h[hd].next)
  BY DEF Discards
<1>4. Garbage(h, gh, C, G, r) /\ K \subseteq G /\ H \subseteq G
  BY <1>1, <1>2 DEF Leaves
<1> QED
  BY <1>2, <1>3, <1>4, HeapInvMoves

-----------------------------------------------------------------------------
(* What the steps of the code do to the fields of the buffers.             *)

\* A function of buffers on 1 .. n is a heap.
LEMMA MakeHeap ==
  ASSUME NEW n \in Nat, NEW g \in [1 .. n -> BufferType],
         \A b \in 1 .. n : g[b].next \in 0 .. n /\ g[b].prev \in 0 .. n
  PROVE  HeapType(g) /\ Len(g) = n /\ DOMAIN g = 1 .. n
<1>1. g \in Seq(BufferType)
  BY SeqDef
<1>2. DOMAIN g = 1 .. n /\ DOMAIN g = 1 .. Len(g) /\ Len(g) \in Nat
  BY <1>1, LenProperties
<1>3. Len(g) = n
  BY <1>2
<1> QED
  BY <1>1, <1>2, <1>3 DEF HeapType

\* compare_exchange_strong(null, newBuffer).
LEMMA LinkFields ==
  ASSUME NEW h, HeapType(h), NEW b \in DOMAIN h
  PROVE  Extended(h, Append([h EXCEPT ![b].next = Len(h) + 1],
                            NewBuffer(b, h[b].positionInQueue + 1)), b)
<1> DEFINE n == Len(h)
           e == [h EXCEPT ![b].next = n + 1]
           f == NewBuffer(b, h[b].positionInQueue + 1)
           g == Append(e, f)
<1>1. /\ n \in Nat /\ DOMAIN h = 1 .. n /\ h \in [1 .. n -> BufferType]
      /\ \A c \in DOMAIN h : h[c] \in BufferType /\ h[c].next \in 0 .. n /\ h[c].prev \in 0 .. n
  BY HeapFacts
<1>2. [h[b] EXCEPT !.next = n + 1] \in BufferType
  <2>1. n + 1 \in Nat /\ h[b] \in BufferType
    BY <1>1
  <2> HIDE DEF n
  <2> QED
    BY <2>1 DEF BufferType
<1>3. e \in [1 .. n -> BufferType]
  BY <1>1, <1>2
<1>4. f \in BufferType
  <2>1. h[b].positionInQueue + 1 \in Nat \ {0} /\ b \in Nat
    BY <1>1 DEF BufferType
  <2>2. 0 \in 0 .. BufferSize
    BY TimesFacts
  <2>3. [i \in Slots |-> [isSet |-> "EMPTY", data |-> <<>>]] \in [Slots -> SlotType]
    BY DEF SlotType, States, Data
  <2> QED
    BY <2>1, <2>2, <2>3 DEF NewBuffer, BufferType, Null
<1>5. e \in Seq(BufferType) /\ Len(e) = n
  <2>1. e \in Seq(BufferType)
    BY <1>1, <1>3, SeqDef
  <2>2. DOMAIN e = 1 .. n /\ DOMAIN e = 1 .. Len(e) /\ Len(e) \in Nat
    BY <1>3, <2>1, LenProperties
  <2> QED
    BY <1>1, <2>1, <2>2
<1>6. /\ \A c \in DOMAIN h : c # b => e[c] = h[c]
      /\ e[b] = [h[b] EXCEPT !.next = n + 1]
  BY <1>1
<1> HIDE DEF e, f
<1>7. /\ g \in Seq(BufferType) /\ Len(g) = n + 1 /\ g[n + 1] = f
      /\ \A c \in 1 .. n : g[c] = e[c]
  BY <1>1, <1>4, <1>5
<1> HIDE DEF g
<1>8. DOMAIN g = 1 .. n + 1
  BY <1>7, LenProperties
<1>9. DOMAIN g = DOMAIN h \cup {n + 1}
  BY <1>1, <1>8
<1>10. /\ f.positionInQueue = h[b].positionInQueue + 1 /\ f.prev = b /\ f.next = Null /\ f.head = 0
       /\ f.memory = "live" /\ \A i \in Slots : f.slots[i].isSet = "EMPTY"
  BY DEF f, NewBuffer
<1>11. ASSUME NEW c \in DOMAIN h
       PROVE  /\ Pos(g, c) = Pos(h, c)
              /\ g[c].prev = h[c].prev
              /\ g[c].memory = h[c].memory
              /\ g[c].head = h[c].head
              /\ g[c].slots = h[c].slots
              /\ g[c].next = IF c = b THEN n + 1 ELSE h[c].next
  <2>1. CASE c = b
    <3>1. h[b] \in BufferType /\ g[c] = [h[b] EXCEPT !.next = n + 1]
      BY <1>1, <1>6, <1>7, <2>1
    <3> QED
      BY <2>1, <3>1 DEF Pos, BufferType
  <2>2. CASE c # b
    BY <1>1, <1>6, <1>7, <2>2 DEF Pos
  <2> QED
    BY <2>1, <2>2
<1>12. HeapType(g)
  <2>1. ASSUME NEW c \in DOMAIN g PROVE g[c].next \in 0 .. n + 1 /\ g[c].prev \in 0 .. n + 1
    <3>1. CASE c = n + 1
      BY <1>1, <1>7, <1>10, <3>1 DEF Null
    <3>2. CASE c \in DOMAIN h
      <4>1. h[c].next \in 0 .. n /\ h[c].prev \in 0 .. n
        BY <1>1, <3>2
      <4> QED
        BY <1>1, <1>11, <3>2, <4>1
    <3> QED
      BY <1>9, <3>1, <3>2
  <2> QED
    BY <1>7, <2>1 DEF HeapType
<1>13. Pos(g, n + 1) = Pos(h, b) + 1
  BY <1>7, <1>10 DEF Pos
<1>14. Extended(h, g, b)
  BY <1>7, <1>9, <1>10, <1>11, <1>12, <1>13 DEF Extended
<1> QED
  BY <1>14 DEF g, e, f

Written(h, b, i, v) == [h EXCEPT ![b].slots[i] = v]

\* n->data = input; n->isSet = SET.
LEMMA WriteFields ==
  ASSUME NEW h, HeapType(h), NEW b \in DOMAIN h, NEW i \in Slots, NEW v \in SlotType,
         NEW g, g = Written(h, b, i, v)
  PROVE  /\ SameShape(h, g)
         /\ \A c \in DOMAIN h : g[c].head = h[c].head
         /\ \A c \in DOMAIN h, j \in Slots :
              g[c].slots[j] = IF c = b /\ j = i THEN v ELSE h[c].slots[j]
<1> DEFINE n == Len(h)
<1>1. /\ n \in Nat /\ DOMAIN h = 1 .. n /\ h \in [1 .. n -> BufferType]
      /\ \A c \in DOMAIN h : h[c] \in BufferType /\ h[c].next \in 0 .. n /\ h[c].prev \in 0 .. n
      /\ h[b].slots \in [Slots -> SlotType]
  BY HeapFacts
<1>2. [h[b].slots EXCEPT ![i] = v] \in [Slots -> SlotType]
  BY <1>1
<1>3. /\ g[b] = [h[b] EXCEPT !.slots = [h[b].slots EXCEPT ![i] = v]]
      /\ \A c \in DOMAIN h : c # b => g[c] = h[c]
      /\ DOMAIN g = DOMAIN h
  BY <1>1 DEF Written
<1>4. g[b] \in BufferType /\ h[b] \in BufferType
  BY <1>1, <1>2, <1>3 DEF BufferType
<1>5. g \in [1 .. n -> BufferType]
  BY <1>1, <1>3, <1>4 DEF Written
<1>6. /\ g[b].positionInQueue = h[b].positionInQueue
      /\ g[b].head = h[b].head
      /\ g[b].prev = h[b].prev
      /\ g[b].next = h[b].next
      /\ g[b].memory = h[b].memory
      /\ g[b].slots = [h[b].slots EXCEPT ![i] = v]
  BY <1>3, <1>4 DEF BufferType
<1>7. \A c \in 1 .. n : g[c].next \in 0 .. n /\ g[c].prev \in 0 .. n
  BY <1>1, <1>3, <1>6
<1>8. HeapType(g) /\ Len(g) = n /\ DOMAIN g = 1 .. n
  BY <1>1, <1>5, <1>7, MakeHeap
<1>9. \A j \in Slots : g[b].slots[j] = IF j = i THEN v ELSE h[b].slots[j]
  BY <1>1, <1>6
<1> QED
  BY <1>1, <1>3, <1>6, <1>8, <1>9 DEF SameShape, Pos

Marked(h, b, i) == [h EXCEPT ![b].slots[i].isSet = "HANDLED"]

\* n->isSet = HANDLED.
LEMMA HandledFields ==
  ASSUME NEW h, HeapType(h), NEW b \in DOMAIN h, NEW i \in Slots,
         NEW g, g = Marked(h, b, i)
  PROVE  /\ SameShape(h, g)
         /\ \A c \in DOMAIN h : g[c].head = h[c].head
         /\ \A c \in DOMAIN h, j \in Slots :
              g[c].slots[j].isSet = IF c = b /\ j = i THEN "HANDLED" ELSE h[c].slots[j].isSet
         /\ \A c \in DOMAIN h, j \in Slots : g[c].slots[j].data = h[c].slots[j].data
<1> DEFINE v == [h[b].slots[i] EXCEPT !.isSet = "HANDLED"]
<1>1. h[b].slots \in [Slots -> SlotType]
  BY HeapFacts
<1>2. h[b].slots[i] \in SlotType
  BY <1>1
<1>3. v \in SlotType /\ v.isSet = "HANDLED" /\ v.data = h[b].slots[i].data
  BY <1>2 DEF SlotType, States
<1>4. g = Written(h, b, i, v)
  BY DEF Written, Marked
<1> HIDE DEF v
<1>5. /\ SameShape(h, g)
      /\ \A c \in DOMAIN h : g[c].head = h[c].head
      /\ \A c \in DOMAIN h, j \in Slots :
           g[c].slots[j] = IF c = b /\ j = i THEN v ELSE h[c].slots[j]
  BY ONLY <1>3, <1>4, HeapType(h), b \in DOMAIN h, i \in Slots, WriteFields
<1> QED
  BY ONLY <1>3, <1>5

Advanced(h, b) == [h EXCEPT ![b].head = @ + 1]

\* head++.
LEMMA HeadFields ==
  ASSUME NEW h, HeapType(h), NEW b \in DOMAIN h, h[b].head < BufferSize,
         NEW g, g = Advanced(h, b)
  PROVE  /\ SameShape(h, g)
         /\ g[b].head = h[b].head + 1
         /\ \A c \in DOMAIN h : c # b => g[c].head = h[c].head
         /\ \A c \in DOMAIN h : g[c].slots = h[c].slots
<1> DEFINE n == Len(h)
<1>1. /\ n \in Nat /\ DOMAIN h = 1 .. n /\ h \in [1 .. n -> BufferType]
      /\ \A c \in DOMAIN h : h[c] \in BufferType /\ h[c].next \in 0 .. n /\ h[c].prev \in 0 .. n
      /\ h[b].head \in 0 .. BufferSize /\ BufferSize \in Nat
  BY HeapFacts, TimesFacts
<1>2. h[b].head + 1 \in 0 .. BufferSize
  BY <1>1
<1>3. /\ g[b] = [h[b] EXCEPT !.head = h[b].head + 1]
      /\ \A c \in DOMAIN h : c # b => g[c] = h[c]
  BY <1>1 DEF Advanced
<1>4. g[b] \in BufferType /\ h[b] \in BufferType
  BY <1>1, <1>2, <1>3 DEF BufferType
<1>5. g \in [1 .. n -> BufferType]
  BY <1>1, <1>3, <1>4 DEF Advanced
<1>6. /\ g[b].positionInQueue = h[b].positionInQueue
      /\ g[b].head = h[b].head + 1
      /\ g[b].prev = h[b].prev
      /\ g[b].next = h[b].next
      /\ g[b].memory = h[b].memory
      /\ g[b].slots = h[b].slots
  BY <1>3, <1>4 DEF BufferType
<1>7. \A c \in 1 .. n : g[c].next \in 0 .. n /\ g[c].prev \in 0 .. n
  BY <1>1, <1>3, <1>6
<1>8. HeapType(g) /\ Len(g) = n /\ DOMAIN g = 1 .. n
  BY <1>1, <1>5, <1>7, MakeHeap
<1> QED
  BY <1>1, <1>3, <1>6, <1>8 DEF SameShape, Pos

Unlinked(h, b, x, y, gh) ==
  [h EXCEPT ![y].prev = x, ![x].next = y, ![b].next = gh, ![b].memory = "folded"]

\* The pointers that fold() sets.
LEMMA FoldFields ==
  ASSUME NEW h, HeapType(h), NEW b \in DOMAIN h, NEW x \in DOMAIN h, NEW y \in DOMAIN h,
         x # b, y # b, x # y, h[b].prev = x, h[b].next = y, NEW gh \in 0 .. Len(h),
         NEW g, g = Unlinked(h, b, x, y, gh)
  PROVE  Folded(h, g, b, gh)
<1> DEFINE n == Len(h)
<1>1. /\ n \in Nat /\ DOMAIN h = 1 .. n /\ h \in [1 .. n -> BufferType]
      /\ \A c \in DOMAIN h : h[c] \in BufferType /\ h[c].next \in 0 .. n /\ h[c].prev \in 0 .. n
  BY HeapFacts
<1>2. /\ g[y] = [h[y] EXCEPT !.prev = x]
      /\ g[x] = [h[x] EXCEPT !.next = y]
      /\ g[b] = [h[b] EXCEPT !.next = gh, !.memory = "folded"]
      /\ \A c \in DOMAIN h : c # b /\ c # x /\ c # y => g[c] = h[c]
      /\ DOMAIN g = DOMAIN h
  BY <1>1 DEF Unlinked
<1>3. x \in Nat /\ y \in Nat /\ gh \in Nat
  BY <1>1
<1>4. h[x] \in BufferType /\ h[y] \in BufferType /\ h[b] \in BufferType
  BY <1>1
<1>5. g[x] \in BufferType /\ g[y] \in BufferType /\ g[b] \in BufferType
  <2>1. g[x] \in BufferType
    BY ONLY <1>2, <1>3, <1>4 DEF BufferType
  <2>2. g[y] \in BufferType
    BY ONLY <1>2, <1>3, <1>4 DEF BufferType
  <2>3. g[b] \in BufferType
    BY ONLY <1>2, <1>3, <1>4 DEF BufferType
  <2> QED
    BY <2>1, <2>2, <2>3
<1>6. DOMAIN g = 1 .. n /\ \A c \in 1 .. n : g[c] \in BufferType
  BY <1>1, <1>2, <1>5
<1>7. g \in [1 .. n -> BufferType]
  BY <1>1, <1>6 DEF Unlinked
<1>8. ASSUME NEW c \in DOMAIN h
      PROVE  /\ Pos(g, c) = Pos(h, c)
             /\ g[c].head = h[c].head
             /\ g[c].slots = h[c].slots
             /\ g[c].prev = IF c = y THEN x ELSE h[c].prev
             /\ g[c].next = IF c = b THEN gh ELSE IF c = x THEN y ELSE h[c].next
             /\ g[c].memory = IF c = b THEN "folded" ELSE h[c].memory
  <2>1. CASE c = x
    BY <1>2, <1>4, <2>1 DEF BufferType, Pos
  <2>2. CASE c = y
    BY <1>2, <1>4, <2>2 DEF BufferType, Pos
  <2>3. CASE c = b
    BY <1>2, <1>4, <2>3 DEF BufferType, Pos
  <2>4. CASE c # b /\ c # x /\ c # y
    BY <1>2, <2>4 DEF Pos
  <2> QED
    BY <2>1, <2>2, <2>3, <2>4
<1>9. \A c \in 1 .. n : g[c].next \in 0 .. n /\ g[c].prev \in 0 .. n
  <2>1. x \in 0 .. n /\ y \in 0 .. n /\ gh \in 0 .. n
    BY <1>1
  <2> QED
    BY ONLY <1>1, <1>8, <2>1
<1>10. HeapType(g) /\ Len(g) = n /\ DOMAIN g = 1 .. n
  BY <1>1, <1>7, <1>9, MakeHeap
<1> QED
  BY ONLY <1>1, <1>8, <1>10, h[b].prev = x, h[b].next = y DEF Folded

\* The deletes of moveToNextBuffer().
LEMMA MoveFields ==
  ASSUME NEW h, HeapType(h), NEW hd, NEW K,
         NEW g, g = [b \in DOMAIN h |->
                       IF b \in K \cup {hd} THEN [h[b] EXCEPT !.memory = "deleted"] ELSE h[b]]
  PROVE  Moved(h, g, hd, K)
<1> DEFINE n == Len(h)
<1>1. /\ n \in Nat /\ DOMAIN h = 1 .. n /\ h \in [1 .. n -> BufferType]
      /\ \A c \in DOMAIN h : h[c] \in BufferType /\ h[c].next \in 0 .. n /\ h[c].prev \in 0 .. n
  BY HeapFacts
<1>2. ASSUME NEW c \in DOMAIN h
      PROVE  /\ g[c] \in BufferType
             /\ Pos(g, c) = Pos(h, c)
             /\ g[c].head = h[c].head
             /\ g[c].slots = h[c].slots
             /\ g[c].prev = h[c].prev
             /\ g[c].next = h[c].next
             /\ g[c].memory = IF c \in K \cup {hd} THEN "deleted" ELSE h[c].memory
  <2>1. h[c] \in BufferType
    BY <1>1
  <2>2. CASE c \in K \cup {hd}
    <3>1. g[c] = [h[c] EXCEPT !.memory = "deleted"]
      BY <2>2
    <3> QED
      BY <2>1, <2>2, <3>1 DEF BufferType, Pos
  <2>3. CASE c \notin K \cup {hd}
    BY <2>1, <2>3 DEF Pos
  <2> QED
    BY <2>2, <2>3
<1>3. DOMAIN g = 1 .. n
  BY <1>1
<1>4. g \in [1 .. n -> BufferType]
  BY <1>1, <1>2, <1>3
<1>5. HeapType(g) /\ Len(g) = n /\ DOMAIN g = 1 .. n
  <2>1. \A c \in 1 .. n : g[c].next \in 0 .. n /\ g[c].prev \in 0 .. n
    BY <1>1, <1>2
  <2> HIDE DEF n
  <2> QED
    BY <1>1, <1>4, <2>1, MakeHeap
<1> QED
  BY <1>1, <1>2, <1>5 DEF Moved

-----------------------------------------------------------------------------
(* A step of one thread, as the others see it.                             *)

\* What a producer can rely on while the buffers change around it: those it can come
\* to stay, and tailOfQueue never moves back.
Evolves(h, C, last, g, D, new) ==
  /\ DOMAIN h \subseteq DOMAIN g
  /\ \A b \in DOMAIN h : Pos(g, b) = Pos(h, b)
  /\ Known(h, C) \subseteq Known(g, D)
  /\ Pos(h, last) <= Pos(g, new)

\* A producer stays well seated while the buffers change around it.
LEMMA SeatedStays ==
  ASSUME NEW h, NEW C, NEW last, NEW g, NEW D, NEW new, Evolves(h, C, last, g, D, new),
         NEW n \in Nat, NEW m \in Nat, n <= m,
         last \in DOMAIN h, new \in DOMAIN g,
         \A b \in DOMAIN h : Pos(h, b) \in Nat, \A b \in DOMAIN g : Pos(g, b) \in Nat,
         NEW pc, NEW loc \in Nat, NEW tt,
         Seated(h, C, last, n, pc, loc, tt)
  PROVE  Seated(g, D, new, m, pc, loc, tt)
<1>1. pc # "idle" => loc < m
  BY DEF Seated
<1>2. tt \in Known(h, C) => tt \in DOMAIN h /\ Hi(g, tt) = Hi(h, tt) /\ Lo(g, tt) = Lo(h, tt)
  BY DEF Known, Evolves, Hi, Lo
<1>3. ASSUME tt \in Known(h, C), Pos(h, tt) <= Pos(h, last)
      PROVE  tt \in Known(g, D) /\ Pos(g, tt) <= Pos(g, new)
  <2>1. Pos(g, tt) = Pos(h, tt) /\ Pos(h, last) <= Pos(g, new)
    BY <1>2, <1>3 DEF Evolves
  <2>2. Pos(h, tt) \in Nat /\ Pos(h, last) \in Nat /\ Pos(g, new) \in Nat
    BY <1>2, <1>3
  <2> QED
    BY <1>3, <2>1, <2>2 DEF Evolves
<1> QED
  BY <1>1, <1>2, <1>3 DEF Seated, InEnqueue

Keeps(h, g) ==
  \A b \in DOMAIN h :
    /\ g[b].head = h[b].head
    /\ \A i \in Slots : h[b].slots[i].isSet # "EMPTY" => g[b].slots[i].isSet = h[b].slots[i].isSet

\* What the invariant says at a glance.
LEMMA InvFacts ==
  ASSUME IInv
  PROVE  /\ tail \in Nat
         /\ Chain \subseteq DOMAIN heap /\ headOfQueue \in Chain /\ tailOfQueue \in Chain
         /\ headOfQueue \in DOMAIN heap /\ tailOfQueue \in DOMAIN heap
         /\ \A b \in DOMAIN heap : Pos(heap, b) \in Nat /\ Pos(heap, b) >= 1
         /\ HeapType(heap)
         /\ HeapInv(heap, headOfQueue, tailOfQueue, garbageListHead, Chain, tail, Unwritten)
         /\ Linked(heap, headOfQueue, Chain)
         /\ Unwritten \subseteq Nat
<1>1. HeapInv(heap, headOfQueue, tailOfQueue, garbageListHead, Chain, tail, Unwritten) /\ tail \in Nat
  BY DEF IInv, TypeInv
<1>2. HeapType(heap) /\ Linked(heap, headOfQueue, Chain)
  BY <1>1 DEF HeapInv
<1>3. Unwritten \subseteq Nat
  BY DEF Unwritten
<1> QED
  BY <1>1, <1>2, <1>3, ChainFacts

\* One producer moves, and the buffers on the list become D.
LEMMA ProducerStep ==
  ASSUME IInv, TypeInv', NEW p \in Producers, NEW D,
         UNCHANGED <<headOfQueue, garbageListHead, cpc, temp, scan, flagMoveToNewBuffer,
                     flagBufferAllHandled>>,
         \A q \in Producers \ {p} :
           /\ ppc'[q] = ppc[q] /\ location'[q] = location[q] /\ tempTail'[q] = tempTail[q]
           /\ sent'[q] = sent[q],
         sent'[p] # 0,
         tail <= tail',
         HeapInv(heap', headOfQueue, tailOfQueue', garbageListHead, D, tail', Unwritten'),
         Evolves(heap, Chain, tailOfQueue, heap', D, tailOfQueue'),
         Chain \subseteq D, Keeps(heap, heap'),
         Seated(heap', D, tailOfQueue', tail', ppc'[p], location'[p], tempTail'[p]),
         \A q \in Producers : Swinging(heap', tailOfQueue', ppc'[q], tempTail'[q], newBuffer'[q]),
         \A q \in Producers : p # q /\ ppc'[p] \in Seeking /\ ppc[q] \in Seeking =>
           location'[p] # location[q],
         AtTail(p)'
  PROVE  IInv' /\ Chain' = D
<1>1. Chain' = D
  <2>1. HeapType(heap') /\ Linked(heap', headOfQueue', D)
    BY DEF HeapInv
  <2> QED
    BY <2>1, ReachIsChain DEF Chain
<1>2. /\ tail \in Nat /\ tail' \in Nat /\ tailOfQueue \in DOMAIN heap /\ tailOfQueue' \in DOMAIN heap'
      /\ \A b \in DOMAIN heap : Pos(heap, b) \in Nat
      /\ \A b \in DOMAIN heap' : Pos(heap', b) \in Nat
  BY InvFacts, ChainFacts DEF TypeInv
<1>3. ASSUME NEW q \in Producers
      PROVE  Seated(heap', D, tailOfQueue', tail', ppc'[q], location'[q], tempTail'[q])
  <2>1. CASE q = p
    BY <2>1
  <2>2. CASE q # p
    <3>1. Seated(heap, Chain, tailOfQueue, tail, ppc[q], location[q], tempTail[q])
      BY DEF IInv, ProducerInv
    <3>2. location[q] \in Nat
      BY DEF IInv, TypeInv
    <3>3. Seated(heap', D, tailOfQueue', tail', ppc[q], location[q], tempTail[q])
      BY <1>2, <3>1, <3>2, SeatedStays
    <3> QED
      BY <2>2, <3>3
  <2> QED
    BY <2>1, <2>2
<1>4. ASSUME NEW q \in Producers PROVE AtTail(q)'
  <2>1. CASE q = p
    BY <2>1
  <2>2. CASE q # p
    <3>1. ~Alone(q)'
      BY <2>2 DEF Alone
    <3> QED
      BY <3>1 DEF AtTail
  <2> QED
    BY <2>1, <2>2
<1>5. \A q \in Producers : sent'[q] = 0 => ppc'[q] = "idle"
  BY DEF IInv, ProducerInv
<1>6. ASSUME NEW q \in Producers, NEW r \in Producers, q # r, ppc'[q] \in Seeking, ppc'[r] \in Seeking
      PROVE  location'[q] # location'[r]
  <2>1. CASE q # p /\ r # p
    BY <1>6, <2>1 DEF IInv, ProducerInv
  <2>2. CASE q = p
    BY <1>6, <2>2
  <2>3. CASE r = p
    BY <1>6, <2>3
  <2> QED
    BY <2>1, <2>2, <2>3
<1>7. ProducerInv(heap, Chain, tailOfQueue, tail)'
  BY <1>1, <1>3, <1>4, <1>5, <1>6 DEF ProducerInv
<1>8. ConsumerInv(heap', headOfQueue, D, cpc, temp, scan,
                  flagMoveToNewBuffer, flagBufferAllHandled)
  <2>1. ConsumerInv(heap, headOfQueue, Chain, cpc, temp, scan,
                    flagMoveToNewBuffer, flagBufferAllHandled)
    BY DEF IInv
  <2>2. headOfQueue \in DOMAIN heap /\ Chain \subseteq DOMAIN heap
    BY InvFacts
  <2>3. temp \in Place /\ BufferSize \in Nat
    BY TimesFacts DEF IInv, TypeInv
  <2>4. cpc \in InDequeue \ {"leave"} => heap'[headOfQueue].head < BufferSize
    BY <2>1, <2>2 DEF ConsumerInv, Keeps
  <2>5. cpc \in Scanning => temp.buffer \in D
    BY <2>1 DEF ConsumerInv
  <2>6. cpc \in {"scan", "scanEnd"} /\ flagBufferAllHandled =>
          \A i \in Slots : heap'[temp.buffer].head <= i /\ i < temp.at =>
            heap'[temp.buffer].slots[i].isSet = "HANDLED"
    <3> SUFFICES ASSUME cpc \in {"scan", "scanEnd"}, flagBufferAllHandled,
                        NEW i \in Slots, heap'[temp.buffer].head <= i, i < temp.at
                 PROVE  heap'[temp.buffer].slots[i].isSet = "HANDLED"
      OBVIOUS
    <3>1. temp.buffer \in DOMAIN heap
      BY <2>1, <2>2 DEF ConsumerInv, Scanning
    <3>2. heap[temp.buffer].slots[i].isSet = "HANDLED"
      BY <2>1, <3>1 DEF ConsumerInv, Keeps
    <3> QED
      BY <3>1, <3>2 DEF Keeps
  <2>7. cpc \in {"rescan", "take"} =>
          temp.at < BufferSize /\ heap'[temp.buffer].slots[temp.at].isSet = "SET"
    <3> SUFFICES ASSUME cpc \in {"rescan", "take"}
                 PROVE  temp.at < BufferSize /\ heap'[temp.buffer].slots[temp.at].isSet = "SET"
      OBVIOUS
    <3>1. temp.buffer \in DOMAIN heap
      BY <2>1, <2>2 DEF ConsumerInv, Scanning
    <3>2. temp.at < BufferSize /\ heap[temp.buffer].slots[temp.at].isSet = "SET"
      BY <2>1 DEF ConsumerInv
    <3>3. temp.at \in Slots
      BY <2>3, <3>2 DEF Place, Slots
    <3> QED
      BY <3>1, <3>2, <3>3 DEF Keeps
  <2>8. cpc = "rescan" => scan.buffer \in D /\ Pos(heap', scan.buffer) <= Pos(heap', temp.buffer)
    <3>1. cpc = "rescan" => scan.buffer \in DOMAIN heap /\ temp.buffer \in DOMAIN heap
      BY <2>1, <2>2 DEF ConsumerInv, Scanning
    <3> QED
      BY <2>1, <3>1 DEF ConsumerInv, Evolves
  <2> QED
    BY <2>1, <2>4, <2>5, <2>6, <2>7, <2>8 DEF ConsumerInv
<1>9. ConsumerInv(heap, headOfQueue, Chain, cpc, temp, scan,
                  flagMoveToNewBuffer, flagBufferAllHandled)'
  BY <1>1, <1>8
<1> QED
  BY <1>1, <1>7, <1>9 DEF IInv

\* The consumer moves, and the buffers on the list become D.
LEMMA ConsumerStep ==
  ASSUME IInv, TypeInv', NEW D,
         UNCHANGED <<tailOfQueue, tail, producerVars>>,
         HeapInv(heap', headOfQueue', tailOfQueue, garbageListHead', D, tail, Unwritten),
         Evolves(heap, Chain, tailOfQueue, heap', D, tailOfQueue),
         heap'[tailOfQueue].next = heap[tailOfQueue].next,
         ConsumerInv(heap', headOfQueue', D, cpc', temp', scan',
                     flagMoveToNewBuffer', flagBufferAllHandled')
  PROVE  IInv' /\ Chain' = D
<1>1. Chain' = D
  <2>1. HeapType(heap') /\ Linked(heap', headOfQueue', D)
    BY DEF HeapInv
  <2> QED
    BY <2>1, ReachIsChain DEF Chain
<1>2. /\ tail \in Nat /\ tailOfQueue \in DOMAIN heap /\ tailOfQueue \in DOMAIN heap'
      /\ \A b \in DOMAIN heap : Pos(heap, b) \in Nat
      /\ \A b \in DOMAIN heap' : Pos(heap', b) \in Nat
  BY InvFacts, ChainFacts
<1>3. Unwritten' = Unwritten
  BY DEF Unwritten, producerVars
<1>4. HeapInv(heap, headOfQueue, tailOfQueue, garbageListHead, Chain, tail, Unwritten)'
  BY <1>1, <1>3
<1>5. ASSUME NEW q \in Producers
      PROVE  Seated(heap', D, tailOfQueue', tail', ppc'[q], location'[q], tempTail'[q])
  <2>1. Seated(heap, Chain, tailOfQueue, tail, ppc[q], location[q], tempTail[q])
    BY DEF IInv, ProducerInv
  <2>2. location[q] \in Nat
    BY DEF IInv, TypeInv
  <2>3. Seated(heap', D, tailOfQueue, tail, ppc[q], location[q], tempTail[q])
    BY <1>2, <2>1, <2>2, SeatedStays
  <2> QED
    BY <2>3 DEF producerVars
<1>6. ASSUME NEW q \in Producers
      PROVE  Swinging(heap', tailOfQueue', ppc'[q], tempTail'[q], newBuffer'[q])
  <2>1. Swinging(heap, tailOfQueue, ppc[q], tempTail[q], newBuffer[q])
    BY DEF IInv, ProducerInv
  <2> QED
    BY <2>1 DEF Swinging, producerVars
<1>7. ASSUME NEW q \in Producers PROVE AtTail(q)'
  BY DEF IInv, ProducerInv, AtTail, Alone, producerVars
<1>8. ProducerInv(heap, Chain, tailOfQueue, tail)'
  BY <1>1, <1>5, <1>6, <1>7 DEF ProducerInv, IInv, producerVars
<1>9. ConsumerInv(heap, headOfQueue, Chain, cpc, temp, scan,
                  flagMoveToNewBuffer, flagBufferAllHandled)'
  BY <1>1
<1> QED
  BY <1>1, <1>4, <1>8, <1>9 DEF IInv

-----------------------------------------------------------------------------
(* enqueue()                                                               *)

\* No wrap below the modulus.
LEMMA SmallModulo ==
  ASSUME NEW x \in Nat, x < IndexModulus
  PROVE  Wrap(x) = x
BY IndexModulusAssumption DEF Wrap

\* With room left, the ends of the buffers are what they look like.
LEMMA NoWrap ==
  ASSUME IInv, RoomLeft, NEW b \in DOMAIN heap
  PROVE  End(b) = Hi(heap, b) /\ Begin(b) = Lo(heap, b)
<1>1. Pos(heap, b) \in Nat /\ Pos(heap, b) >= 1 /\ tail \in Nat
  BY InvFacts
<1>2. BufferSize \in Nat /\ BufferSize >= 2 /\ IndexModulus \in Nat /\ BufferSize < IndexModulus
  BY BufferSizeAssumption, IndexModulusAssumption
<1>3. Hi(heap, b) \in Nat /\ Lo(heap, b) \in Nat /\ Hi(heap, b) = Lo(heap, b) + BufferSize
  BY InvFacts, ChainFacts
<1>4. Hi(heap, b) < IndexModulus
  <2>1. CASE Pos(heap, b) = 1
    <3>1. Hi(heap, b) = BufferSize
      BY <1>2, <2>1 DEF Hi, Times
    <3> QED
      BY <1>2, <3>1
  <2>2. CASE Pos(heap, b) > 1
    <3> DEFINE m == Pos(heap, b) - 2
    <3>1. m \in Nat /\ m + 1 \in Nat /\ Pos(heap, b) = m + 1 + 1
      BY <1>1, <2>2
    <3>2. Times(m) < tail
      BY <2>2 DEF IInv, HeapInv, Bounded
    <3> HIDE DEF m
    <3>3. Hi(heap, b) = Times(m) + BufferSize + BufferSize /\ Times(m) \in Nat
      BY <3>1, TimesFacts DEF Hi
    <3> QED
      BY <1>1, <1>2, <3>2, <3>3 DEF RoomLeft
  <2> QED
    BY <1>1, <2>1, <2>2
<1>5. Lo(heap, b) < IndexModulus
  BY <1>2, <1>3, <1>4
<1>6. End(b) = Wrap(Hi(heap, b)) /\ Begin(b) = Wrap(Lo(heap, b))
  BY DEF End, Begin, Hi, Lo, Times, Pos
<1> QED
  BY <1>3, <1>4, <1>5, <1>6, SmallModulo

\* A producer that moves on leaves no location unwritten that was written.
LEMMA UnwrittenShrinks ==
  ASSUME TypeInv, NEW p \in Producers, NEW pc, ppc' = [ppc EXCEPT ![p] = pc],
         UNCHANGED <<tail, location>>, pc \in Seeking => ppc[p] \in Seeking
  PROVE  Unwritten' \subseteq Unwritten
<1>1. \A q \in Producers : ppc'[q] \in Seeking => ppc[q] \in Seeking
  BY DEF TypeInv
<1> QED
  BY <1>1 DEF Unwritten

\* A producer on its way has a location that is unwritten.
LEMMA SeekerIsUnwritten ==
  ASSUME TypeInv, NEW p \in Producers, ppc[p] \in Seeking
  PROVE  location[p] \in Unwritten
BY DEF TypeInv, Unwritten

\* Steps that leave the buffers alone.
LEMMA StillStep ==
  ASSUME IInv, NEW p \in Producers, NEW pc \in InEnqueue \cup {"idle"}, Goto(p, pc),
         UNCHANGED <<heap, tailOfQueue, newBuffer>>,
         ppc[p] # "idle", pc \notin {"swing", "swingAhead"},
         pc \in Seeking => ppc[p] \in Seeking,
         tempTail' \in [Producers -> Nat], \A q \in Producers \ {p} : tempTail'[q] = tempTail[q],
         isLastBuffer' \in [Producers -> BOOLEAN],
         Seated(heap, Chain, tailOfQueue, tail, pc, location[p], tempTail'[p]),
         AtTail(p)'
  PROVE  IInv'
<1>1. TypeInv /\ TypeInv'
  BY DEF IInv, TypeInv, Goto, consumerVars
<1>2. ppc'[p] = pc /\ \A q \in Producers \ {p} : ppc'[q] = ppc[q]
  BY <1>1 DEF TypeInv, Goto
<1>3. Unwritten' \subseteq Unwritten
  BY <1>1, UnwrittenShrinks DEF Goto
<1>4. HeapInv(heap', headOfQueue, tailOfQueue', garbageListHead, Chain, tail', Unwritten')
  <2>1. HeapInv(heap, headOfQueue, tailOfQueue, garbageListHead, Chain, tail, Unwritten) /\ tail \in Nat
    BY InvFacts
  <2>2. HeapInv(heap, headOfQueue, tailOfQueue, garbageListHead, Chain, tail, Unwritten')
    BY <1>3, <2>1, HeapInvShrinks
  <2> QED
    BY <2>2 DEF Goto
<1>5. Evolves(heap, Chain, tailOfQueue, heap', Chain, tailOfQueue')
  BY InvFacts DEF Evolves
<1>6. Keeps(heap, heap')
  BY DEF Keeps
<1>7. sent'[p] # 0 /\ tail <= tail'
  BY InvFacts DEF IInv, ProducerInv, Goto
<1>8. Seated(heap', Chain, tailOfQueue', tail', ppc'[p], location'[p], tempTail'[p])
  BY <1>2 DEF Goto
<1>9. \A q \in Producers : Swinging(heap', tailOfQueue', ppc'[q], tempTail'[q], newBuffer'[q])
  BY <1>2 DEF IInv, ProducerInv, Swinging
<1>10. \A q \in Producers : p # q /\ ppc'[p] \in Seeking /\ ppc[q] \in Seeking =>
         location'[p] # location[q]
  BY <1>2 DEF IInv, ProducerInv, Goto
<1>11. \A q \in Producers \ {p} :
         /\ ppc'[q] = ppc[q] /\ location'[q] = location[q] /\ tempTail'[q] = tempTail[q]
         /\ sent'[q] = sent[q]
  BY <1>2 DEF Goto
<1>12. UNCHANGED <<headOfQueue, garbageListHead, cpc, temp, scan, flagMoveToNewBuffer,
                   flagBufferAllHandled>>
  BY DEF Goto, consumerVars
<1> QED
  BY <1>1, <1>4, <1>5, <1>6, <1>7, <1>8, <1>9, <1>10, <1>11, <1>12, ProducerStep

\* Where a producer stands, as ProducerInv says it.
LEMMA SeatFacts ==
  ASSUME IInv, NEW p \in Producers
  PROVE  /\ location[p] \in Nat /\ tempTail[p] \in Nat
         /\ ppc[p] \in InEnqueue \cup {"idle"}
         /\ Seated(heap, Chain, tailOfQueue, tail, ppc[p], location[p], tempTail[p])
         /\ ppc[p] \in InEnqueue \ {"load"} =>
              tempTail[p] \in DOMAIN heap /\ tempTail[p] \in Known(heap, Chain)
         /\ AtTail(p)
BY DEF IInv, TypeInv, ProducerInv, Seated, Known

\* tailOfQueue.load().
LEMMA LoadTailKeeps ==
  ASSUME IInv, NEW p \in Producers, LoadTail(p)
  PROVE  IInv'
<1>1. Seated(heap, Chain, tailOfQueue, tail, ppc[p], location[p], tempTail[p]) /\ ppc[p] = "load"
  BY SeatFacts DEF LoadTail, At
<1>2. tailOfQueue \in Known(heap, Chain) /\ Pos(heap, tailOfQueue) <= Pos(heap, tailOfQueue)
      /\ tailOfQueue \in Nat
  BY InvFacts, HeapFacts DEF Known
<1>3. tempTail' \in [Producers -> Nat] /\ tempTail'[p] = tailOfQueue
      /\ \A q \in Producers \ {p} : tempTail'[q] = tempTail[q]
  BY <1>2 DEF LoadTail, IInv, TypeInv
<1>4. Seated(heap, Chain, tailOfQueue, tail, "check", location[p], tempTail'[p])
  BY <1>1, <1>2, <1>3 DEF Seated
<1>5. AtTail(p)'
  BY <1>3 DEF AtTail, LoadTail
<1>6. isLastBuffer' \in [Producers -> BOOLEAN]
  BY DEF LoadTail, IInv, TypeInv
<1> QED
  BY <1>1, <1>3, <1>4, <1>5, <1>6, StillStep DEF LoadTail, InEnqueue, Seeking

\* The loop's condition.
LEMMA CheckTailKeeps ==
  ASSUME IInv, RoomLeft, NEW p \in Producers, CheckTail(p)
  PROVE  IInv'
<1> DEFINE pc == IF location[p] < End(tempTail[p]) THEN "walk"
                 ELSE IF heap[tempTail[p]].next = Null THEN "link" ELSE "load"
<1>1. /\ Seated(heap, Chain, tailOfQueue, tail, ppc[p], location[p], tempTail[p])
      /\ ppc[p] = "check" /\ tempTail[p] \in DOMAIN heap /\ AtTail(p) /\ location[p] \in Nat
  BY SeatFacts DEF CheckTail, At, InEnqueue
<1>2. End(tempTail[p]) = Hi(heap, tempTail[p]) /\ Hi(heap, tempTail[p]) \in Nat
  BY <1>1, NoWrap, InvFacts, ChainFacts
<1>3. tempTail' = tempTail /\ isLastBuffer' = isLastBuffer /\ Goto(p, pc)
  BY DEF CheckTail
<1>4. Seated(heap, Chain, tailOfQueue, tail, pc, location[p], tempTail'[p])
  BY <1>1, <1>2, <1>3 DEF Seated, InEnqueue
<1>5. AtTail(p)'
  BY <1>1, <1>3 DEF AtTail, CheckTail, Alone, Goto
<1>6. isLastBuffer' \in [Producers -> BOOLEAN] /\ tempTail' \in [Producers -> Nat]
  BY <1>3 DEF IInv, TypeInv
<1>7. pc \in InEnqueue \cup {"idle"} /\ pc \notin {"swing", "swingAhead"}
  BY DEF InEnqueue
<1>8. ppc[p] # "idle" /\ ppc[p] \in Seeking
  BY <1>1 DEF Seeking
<1>9. UNCHANGED <<heap, tailOfQueue, newBuffer>>
  BY DEF CheckTail
<1> HIDE DEF pc
<1> QED
  BY <1>3, <1>4, <1>5, <1>6, <1>7, <1>8, <1>9, StillStep

\* The way back over prev passes the buffer of the location: neither the list
\* nor the garbage leaves it out.
LEMMA WalkBackKeeps ==
  ASSUME IInv, RoomLeft, NEW p \in Producers, WalkBack(p)
  PROVE  IInv'
<1> DEFINE b == tempTail[p]
           loc == location[p]
<1>1. /\ Seated(heap, Chain, tailOfQueue, tail, ppc[p], location[p], tempTail[p])
      /\ ppc[p] = "walk" /\ b \in DOMAIN heap /\ AtTail(p) /\ loc \in Nat
  BY SeatFacts DEF WalkBack, At, InEnqueue
<1>2. Begin(b) = Lo(heap, b) /\ Lo(heap, b) \in Nat
  BY <1>1, NoWrap, InvFacts, ChainFacts
<1>3. /\ loc < tail /\ b \in Known(heap, Chain) /\ Pos(heap, b) <= Pos(heap, tailOfQueue)
      /\ loc < Hi(heap, b)
  BY <1>1 DEF Seated, InEnqueue
<1>4. UNCHANGED <<heap, tailOfQueue, newBuffer>>
  BY DEF WalkBack
<1>5. CASE loc < Lo(heap, b)
  <2> DEFINE x == heap[b].prev
  <2>1. /\ tempTail' = [tempTail EXCEPT ![p] = x]
        /\ isLastBuffer' = [isLastBuffer EXCEPT ![p] = FALSE]
        /\ Goto(p, "walk")
    BY <1>2, <1>5 DEF WalkBack
  <2>2. loc \in Unwritten
    BY <1>1, SeekerIsUnwritten DEF IInv, Seeking
  <2>3. Lo(heap, headOfQueue) <= loc
    BY <2>2 DEF IInv, HeapInv, SlotInv
  <2>4. Pos(heap, b) > Pos(heap, headOfQueue)
    <3>1. /\ Pos(heap, b) \in Nat /\ Pos(heap, headOfQueue) \in Nat
          /\ Lo(heap, headOfQueue) \in Nat
          /\ Pos(heap, b) <= Pos(heap, headOfQueue) => Lo(heap, b) <= Lo(heap, headOfQueue)
      BY <1>1, InvFacts, ChainFacts
    <3> QED
      BY <1>1, <1>2, <1>5, <2>3, <3>1
  <2>5. x \in Known(heap, Chain) /\ Pos(heap, x) < Pos(heap, b) /\ loc < Hi(heap, x)
    <3>1. x \in Known(heap, Chain) /\ Pos(heap, x) < Pos(heap, b)
          /\ (loc < Hi(heap, x) \/ loc >= Lo(heap, b))
      BY <1>1, <2>2, <2>4 DEF IInv, HeapInv, Back
    <3> QED
      BY <1>1, <1>2, <1>5, <3>1
  <2>6. Pos(heap, x) <= Pos(heap, tailOfQueue)
    <3>1. x \in DOMAIN heap
      BY <2>5 DEF Known
    <3>2. Pos(heap, x) \in Nat /\ Pos(heap, b) \in Nat /\ Pos(heap, tailOfQueue) \in Nat
      BY <1>1, <3>1, InvFacts
    <3> QED
      BY <1>3, <2>5, <3>2
  <2>7. x \in Nat
    BY <1>1, InvFacts, HeapFacts
  <2>8. tempTail' \in [Producers -> Nat] /\ tempTail'[p] = x
        /\ \A q \in Producers \ {p} : tempTail'[q] = tempTail[q]
    BY <2>1, <2>7 DEF IInv, TypeInv
  <2>9. isLastBuffer' \in [Producers -> BOOLEAN] /\ ~isLastBuffer'[p] /\ ppc'[p] = "walk"
    BY <2>1 DEF IInv, TypeInv, Goto
  <2> HIDE DEF x
  <2>10. Seated(heap, Chain, tailOfQueue, tail, "walk", location[p], tempTail'[p])
    BY <1>3, <2>5, <2>6, <2>8 DEF Seated
  <2>11. AtTail(p)'
    BY <2>9 DEF AtTail
  <2>12. Goto(p, "walk") /\ ppc[p] # "idle" /\ "walk" \in InEnqueue \cup {"idle"} /\ ppc[p] \in Seeking
    BY <1>1, <2>1 DEF InEnqueue, Seeking
  <2> QED
    BY <1>4, <2>8, <2>9, <2>10, <2>11, <2>12, StillStep
<1>6. CASE ~(loc < Lo(heap, b))
  <2>1. tempTail' = tempTail /\ isLastBuffer' = isLastBuffer /\ Goto(p, "write")
    BY <1>2, <1>6 DEF WalkBack
  <2>2. Seated(heap, Chain, tailOfQueue, tail, "write", location[p], tempTail'[p])
    BY <1>1, <1>2, <1>3, <1>6, <2>1 DEF Seated
  <2>3. AtTail(p)'
    BY <1>1, <1>4, <2>1 DEF AtTail, Alone, Goto
  <2>4. isLastBuffer' \in [Producers -> BOOLEAN] /\ tempTail' \in [Producers -> Nat]
    BY <2>1 DEF IInv, TypeInv
  <2>5. ppc[p] # "idle" /\ "write" \in InEnqueue \cup {"idle"} /\ ppc[p] \in Seeking
    BY <1>1 DEF InEnqueue, Seeking
  <2> QED
    BY <1>4, <2>1, <2>2, <2>3, <2>4, <2>5, StillStep
<1> QED
  BY <1>5, <1>6

\* p linked a buffer onto its tempTail.
Linking(p) ==
  /\ heap[tempTail[p]].next = Null
  /\ Extended(heap, heap', tempTail[p])
  /\ Chain' = Grown(heap, Chain, tempTail[p])

\* The first compare-and-swap of a producer that needs another buffer.
LEMMA LinkBufferKeeps ==
  ASSUME IInv, NEW p \in Producers, NEW yes \in {"swing", "swingAhead"}, NEW no \in {"load", "idle"},
         ppc[p] \in {"link", "linkAhead"},
         yes = "swing" \/ no = "load" => ppc[p] = "link",
         LinkBuffer(p, yes, no), UNCHANGED <<tailOfQueue, tempTail, isLastBuffer>>
  PROVE  /\ IInv'
         /\ heap[tempTail[p]].next # Null => UNCHANGED heap
         /\ heap[tempTail[p]].next = Null => Linking(p)
<1> DEFINE b == tempTail[p]
           new == Len(heap) + 1
           D == Grown(heap, Chain, b)
<1>1. /\ Seated(heap, Chain, tailOfQueue, tail, ppc[p], location[p], b)
      /\ b \in DOMAIN heap /\ b \in Known(heap, Chain)
      /\ location[p] \in Nat /\ ppc[p] # "idle"
  BY SeatFacts DEF InEnqueue
<1>2. location[p] < tail /\ Pos(heap, b) <= Pos(heap, tailOfQueue)
  BY <1>1 DEF Seated, InEnqueue
<1>3. CASE heap[b].next # Null
  <2>1. Goto(p, no) /\ UNCHANGED <<heap, newBuffer>>
    BY <1>3 DEF LinkBuffer
  <2>2. Seated(heap, Chain, tailOfQueue, tail, no, location[p], tempTail'[p])
    BY <1>2 DEF Seated, InEnqueue
  <2>3. ppc'[p] = no
    BY <2>1 DEF Goto, IInv, TypeInv
  <2>4. AtTail(p)'
    BY <2>3 DEF AtTail
  <2>5. isLastBuffer' \in [Producers -> BOOLEAN] /\ tempTail' \in [Producers -> Nat]
    BY DEF IInv, TypeInv
  <2>6. no \in InEnqueue \cup {"idle"} /\ (no \in Seeking => ppc[p] \in Seeking)
    BY DEF InEnqueue, Seeking
  <2> QED
    BY <1>1, <1>3, <2>1, <2>2, <2>4, <2>5, <2>6, StillStep
<1>4. CASE heap[b].next = Null
  <2>1. /\ heap' = Append([heap EXCEPT ![b].next = Len(heap) + 1],
                          NewBuffer(b, heap[b].positionInQueue + 1))
        /\ newBuffer' = [newBuffer EXCEPT ![p] = Len(heap) + 1]
        /\ Goto(p, yes)
    BY <1>4 DEF LinkBuffer
  <2>2. Extended(heap, heap', b)
    <3>1. HeapType(heap)
      BY InvFacts
    <3> QED
      BY <1>1, <2>1, <3>1, LinkFields
  <2>3. Lo(heap, b) < tail
    <3>1. Lo(heap, b) \in Nat /\ Hi(heap, b) = Lo(heap, b) + BufferSize /\ BufferSize \in Nat /\ tail \in Nat
      BY <1>1, InvFacts, ChainFacts
    <3>2. Hi(heap, b) <= location[p] \/ Lo(heap, b) <= location[p]
      BY <1>1 DEF Seated
    <3> QED
      BY <1>1, <1>2, <3>1, <3>2
  <2>4. Len(heap) \in Nat /\ new \in Nat /\ new # Null /\ Chain \subseteq DOMAIN heap /\ new \notin DOMAIN heap
    <3>1. Len(heap) \in Nat /\ DOMAIN heap = 1 .. Len(heap) /\ Chain \subseteq DOMAIN heap
      BY ONLY IInv, InvFacts, HeapFacts
    <3> QED
      BY <3>1 DEF Null
  <2>5. HeapInv(heap', headOfQueue, tailOfQueue, garbageListHead, D, tail, Unwritten)
    <3>1. HeapInv(heap, headOfQueue, tailOfQueue, garbageListHead, Chain, tail, Unwritten)
          /\ tail \in Nat /\ Unwritten \subseteq Nat
      BY ONLY IInv, InvFacts
    <3>2. Linkable(heap, Chain, tailOfQueue, tail, b)
      BY ONLY <1>1, <1>2, <1>4, <2>3 DEF Linkable
    <3> QED
      BY ONLY <2>2, <3>1, <3>2, HeapInvLinks
  <2>6. TypeInv /\ TypeInv'
    <3>1. newBuffer' \in [Producers -> Nat]
      BY <2>1, <2>4 DEF IInv, TypeInv
    <3>2. yes \in InEnqueue
      BY DEF InEnqueue
    <3>3. Goto(p, yes)
      BY <2>1
    <3> QED
      BY ONLY <3>1, <3>2, <3>3, IInv, UNCHANGED <<tailOfQueue, tempTail, isLastBuffer>>
      DEF IInv, TypeInv, Goto, consumerVars
  <2>7. ppc'[p] = yes /\ \A q \in Producers \ {p} : ppc'[q] = ppc[q]
    BY <2>1, <2>6 DEF TypeInv, Goto
  <2>8. Unwritten' \subseteq Unwritten
    <3>1. yes \in Seeking => ppc[p] \in Seeking
      BY DEF Seeking
    <3> QED
      BY <2>1, <2>6, <3>1, UnwrittenShrinks DEF Goto
  <2>9. /\ newBuffer'[p] = new
        /\ \A q \in Producers \ {p} : newBuffer'[q] = newBuffer[q]
    BY <2>1, <2>6 DEF TypeInv
  <2>10. /\ UNCHANGED <<headOfQueue, garbageListHead, cpc, temp, scan, flagMoveToNewBuffer,
                        flagBufferAllHandled>>
         /\ UNCHANGED <<sent, location, tail>>
    BY <2>1 DEF Goto, consumerVars
  <2>11. HeapInv(heap', headOfQueue, tailOfQueue', garbageListHead, D, tail', Unwritten')
    <3>1. tail \in Nat
      BY InvFacts
    <3>2. HeapInv(heap', headOfQueue, tailOfQueue, garbageListHead, D, tail, Unwritten')
      BY ONLY <2>5, <2>8, <3>1, HeapInvShrinks
    <3> QED
      BY <2>10, <3>2
  <2>12. /\ DOMAIN heap \subseteq DOMAIN heap'
         /\ \A c \in DOMAIN heap :
              /\ Pos(heap', c) = Pos(heap, c)
              /\ heap'[c].memory = heap[c].memory
              /\ heap'[c].head = heap[c].head
              /\ heap'[c].slots = heap[c].slots
              /\ heap'[c].next = IF c = b THEN new ELSE heap[c].next
    BY ONLY <2>2 DEF Extended
  <2>13. Known(heap, Chain) \subseteq Known(heap', D) /\ Chain \subseteq D
    <3>1. Chain \subseteq D
      BY DEF Grown
    <3> HIDE DEF D
    <3> QED
      BY ONLY <2>12, <3>1 DEF Known
  <2>14. Pos(heap', tailOfQueue') = Pos(heap, tailOfQueue) /\ Pos(heap, tailOfQueue) \in Nat
    BY ONLY <2>12, IInv, UNCHANGED <<tailOfQueue, tempTail, isLastBuffer>>, InvFacts
  <2>15. Evolves(heap, Chain, tailOfQueue, heap', D, tailOfQueue')
    <3>1. Pos(heap, tailOfQueue) <= Pos(heap', tailOfQueue')
      BY ONLY <2>14
    <3> QED
      BY ONLY <2>12, <2>13, <3>1 DEF Evolves
  <2>16. Keeps(heap, heap')
    BY ONLY <2>12 DEF Keeps
  <2>17. Seated(heap', D, tailOfQueue', tail', ppc'[p], location'[p], tempTail'[p])
    <3>1. Pos(heap', b) <= Pos(heap', tailOfQueue')
      BY ONLY <1>1, <1>2, <2>12, <2>14
    <3>2. b \in Known(heap', D) /\ tempTail'[p] = b
      BY <1>1, <2>13
    <3> QED
      BY ONLY <1>2, <2>7, <2>10, <3>1, <3>2, yes \in {"swing", "swingAhead"} DEF Seated
  <2>18. ASSUME NEW q \in Producers
         PROVE  Swinging(heap', tailOfQueue', ppc'[q], tempTail'[q], newBuffer'[q])
    <3>1. tailOfQueue' = tailOfQueue /\ tempTail'[q] = tempTail[q] /\ tailOfQueue \in DOMAIN heap
      BY InvFacts
    <3>2. CASE q = p
      BY ONLY <1>1, <2>4, <2>9, <2>12, <3>1, <3>2 DEF Swinging
    <3>3. CASE q # p
      <4>1. Swinging(heap, tailOfQueue, ppc[q], tempTail[q], newBuffer[q])
        BY DEF IInv, ProducerInv
      <4> QED
        BY ONLY <1>4, <2>7, <2>9, <2>12, <3>1, <3>3, <4>1, q \in Producers DEF Swinging
    <3> QED
      BY <3>2, <3>3
  <2>19. AtTail(p)'
    BY <2>7 DEF AtTail
  <2>20. \A q \in Producers : p # q /\ ppc'[p] \in Seeking /\ ppc[q] \in Seeking =>
           location'[p] # location[q]
    BY <2>7, <2>10 DEF IInv, ProducerInv, Seeking
  <2>21. sent'[p] # 0 /\ tail <= tail'
    BY <1>1, <2>10, InvFacts DEF IInv, ProducerInv
  <2>22. \A q \in Producers \ {p} :
           /\ ppc'[q] = ppc[q] /\ location'[q] = location[q] /\ tempTail'[q] = tempTail[q]
           /\ sent'[q] = sent[q]
    BY <2>7, <2>10
  <2>23. IInv' /\ Chain' = D
    <3> HIDE DEF D
    <3> QED
      BY ONLY IInv, p \in Producers, <2>6, <2>10, <2>11, <2>13, <2>15, <2>16, <2>17, <2>18, <2>19, <2>20,
         <2>21, <2>22, ProducerStep
  <2> QED
    BY <1>4, <2>2, <2>23 DEF Linking
<1> QED
  BY <1>3, <1>4

\* The two places where a buffer is linked.
LEMMA LinkKeeps ==
  ASSUME IInv, NEW p \in Producers, Link(p)
  PROVE  /\ IInv'
         /\ heap[tempTail[p]].next # Null => UNCHANGED heap
         /\ heap[tempTail[p]].next = Null => Linking(p)
BY LinkBufferKeeps DEF Link, At

LEMMA LinkAheadKeeps ==
  ASSUME IInv, NEW p \in Producers, LinkAhead(p)
  PROVE  /\ IInv'
         /\ heap[tempTail[p]].next # Null => UNCHANGED heap
         /\ heap[tempTail[p]].next = Null => Linking(p)
BY LinkBufferKeeps DEF LinkAhead, At

\* The second compare-and-swap: it succeeds only if tailOfQueue is still the
\* buffer that newBuffer was linked onto.
LEMMA SwingTailKeeps ==
  ASSUME IInv, NEW p \in Producers, SwingTail(p)
  PROVE  IInv'
<1> DEFINE pc == IF ppc[p] = "swing" THEN "load" ELSE "idle"
           new == tailOfQueue'
<1>1. /\ Seated(heap, Chain, tailOfQueue, tail, ppc[p], location[p], tempTail[p])
      /\ ppc[p] \in {"swing", "swingAhead"} /\ location[p] \in Nat
      /\ Swinging(heap, tailOfQueue, ppc[p], tempTail[p], newBuffer[p])
  BY SeatFacts DEF SwingTail, At, IInv, ProducerInv
<1>2. /\ Goto(p, pc) /\ UNCHANGED <<heap, tempTail, isLastBuffer>>
      /\ newBuffer' = [newBuffer EXCEPT ![p] = Null]
      /\ new = IF tailOfQueue = tempTail[p] THEN newBuffer[p] ELSE tailOfQueue
  BY DEF SwingTail
<1>3. /\ HeapInv(heap, headOfQueue, new, garbageListHead, Chain, tail, Unwritten)
      /\ new = tailOfQueue \/ Pos(heap, tailOfQueue) < Pos(heap, new)
  <2>1. HeapInv(heap, headOfQueue, tailOfQueue, garbageListHead, Chain, tail, Unwritten)
    BY InvFacts
  <2>2. CASE tailOfQueue # tempTail[p]
    BY <1>2, <2>1, <2>2
  <2>3. CASE tailOfQueue = tempTail[p]
    <3>1. new = heap[tailOfQueue].next /\ heap[tailOfQueue].next # Null
      BY <1>1, <1>2, <2>3 DEF Swinging
    <3> HIDE DEF new
    <3> QED
      BY ONLY <2>1, <3>1, HeapInvSwings
  <2> QED
    BY <2>2, <2>3
<1>4. /\ new \in DOMAIN heap /\ tailOfQueue \in DOMAIN heap
      /\ Pos(heap, new) \in Nat /\ Pos(heap, tailOfQueue) \in Nat
  BY <1>3, InvFacts, ChainFacts
<1>5. TypeInv /\ TypeInv'
  <2>1. newBuffer' \in [Producers -> Nat]
    BY <1>2 DEF IInv, TypeInv, Null
  <2>2. pc \in InEnqueue \cup {"idle"}
    BY DEF InEnqueue
  <2> HIDE DEF pc
  <2> QED
    BY ONLY <1>2, <2>1, <2>2, IInv DEF IInv, TypeInv, Goto, consumerVars
<1>6. ppc'[p] = pc /\ \A q \in Producers \ {p} : ppc'[q] = ppc[q]
  BY <1>2, <1>5 DEF TypeInv, Goto
<1>7. Unwritten' \subseteq Unwritten
  <2>1. pc \in Seeking => ppc[p] \in Seeking
    BY <1>1 DEF Seeking
  <2> HIDE DEF pc
  <2> QED
    BY <1>2, <1>5, <2>1, UnwrittenShrinks DEF Goto
<1>8. /\ UNCHANGED <<headOfQueue, garbageListHead, cpc, temp, scan, flagMoveToNewBuffer,
                     flagBufferAllHandled>>
      /\ UNCHANGED <<sent, location, tail>>
  BY <1>2 DEF Goto, consumerVars
<1> HIDE DEF new
<1>9. HeapInv(heap', headOfQueue, tailOfQueue', garbageListHead, Chain, tail', Unwritten')
  <2>1. tail \in Nat
    BY InvFacts
  <2>2. HeapInv(heap, headOfQueue, new, garbageListHead, Chain, tail, Unwritten')
    BY ONLY <1>3, <1>7, <2>1, HeapInvShrinks
  <2> QED
    BY <1>2, <1>8, <2>2 DEF new
<1>10. Evolves(heap, Chain, tailOfQueue, heap', Chain, tailOfQueue')
  <2>1. Pos(heap, tailOfQueue) <= Pos(heap, new)
    BY ONLY <1>3, <1>4
  <2> QED
    BY <1>2, <2>1 DEF Evolves, new
<1>11. Keeps(heap, heap')
  BY <1>2 DEF Keeps
<1>12. Seated(heap', Chain, tailOfQueue', tail', ppc'[p], location'[p], tempTail'[p])
  <2>1. location[p] < tail
    BY <1>1 DEF Seated
  <2>2. ppc'[p] \notin InEnqueue \ {"load"} /\ ppc'[p] \in {"load", "idle"}
    BY <1>6 DEF InEnqueue
  <2> QED
    BY <1>8, <2>1, <2>2 DEF Seated
<1>13. ASSUME NEW q \in Producers
       PROVE  Swinging(heap', tailOfQueue', ppc'[q], tempTail'[q], newBuffer'[q])
  <2>1. CASE q = p
    BY <1>6, <2>1 DEF Swinging
  <2>2. CASE q # p
    <3>1. /\ Swinging(heap, tailOfQueue, ppc[q], tempTail[q], newBuffer[q])
          /\ Seated(heap, Chain, tailOfQueue, tail, ppc[q], location[q], tempTail[q])
      BY DEF IInv, ProducerInv
    <3>2. ppc'[q] = ppc[q] /\ tempTail'[q] = tempTail[q] /\ newBuffer'[q] = newBuffer[q] /\ heap' = heap
      BY <1>2, <1>5, <1>6, <2>2 DEF TypeInv
    <3>3. CASE new = tailOfQueue
      BY <3>1, <3>2, <3>3 DEF new
    <3>4. CASE Pos(heap, tailOfQueue) < Pos(heap, new)
      <4>1. ppc[q] \in {"swing", "swingAhead"} => Pos(heap, tempTail[q]) <= Pos(heap, tailOfQueue)
        BY <3>1 DEF Seated, InEnqueue
      <4>2. ppc[q] \in {"swing", "swingAhead"} => tempTail[q] # new
        BY <1>4, <3>4, <4>1
      <4> QED
        BY <3>2, <4>2 DEF Swinging, new
    <3> QED
      BY <1>3, <3>3, <3>4
  <2> QED
    BY <2>1, <2>2
<1>14. AtTail(p)'
  BY <1>6 DEF AtTail
<1>15. \A q \in Producers : p # q /\ ppc'[p] \in Seeking /\ ppc[q] \in Seeking =>
         location'[p] # location[q]
  BY <1>1, <1>6, <1>8 DEF IInv, ProducerInv, Seeking
<1>16. sent'[p] # 0 /\ tail <= tail'
  BY <1>1, <1>8, InvFacts DEF IInv, ProducerInv
<1>17. \A q \in Producers \ {p} :
         /\ ppc'[q] = ppc[q] /\ location'[q] = location[q] /\ tempTail'[q] = tempTail[q]
         /\ sent'[q] = sent[q]
  BY <1>2, <1>6, <1>8
<1> QED
  BY ONLY IInv, p \in Producers, <1>5, <1>8, <1>9, <1>10, <1>11, <1>12, <1>13, <1>14, <1>15, <1>16,
     <1>17, ProducerStep

\* tail.fetch_add(1): the location is nobody else's.
LEMMA ClaimKeeps ==
  ASSUME IInv, RoomLeft, NEW p \in Producers, Claim(p)
  PROVE  IInv' /\ tail' = tail + 1 /\ sent' = [sent EXCEPT ![p] = @ + 1]
<1>1. /\ tail \in Nat /\ sent \in [Producers -> Nat] /\ ppc[p] = "idle" /\ BufferSize \in Nat
      /\ BufferSize >= 2
  BY InvFacts, BufferSizeAssumption DEF IInv, TypeInv, Claim, At
<1>2. tail' = tail + 1
  <2>1. tail + 1 \in Nat /\ tail + 1 < IndexModulus
    BY <1>1, IndexModulusAssumption DEF RoomLeft
  <2> QED
    BY <2>1, SmallModulo DEF Claim
<1>3. /\ sent' = [sent EXCEPT ![p] = @ + 1]
      /\ location' = [location EXCEPT ![p] = tail]
      /\ isLastBuffer' = [isLastBuffer EXCEPT ![p] = TRUE]
      /\ ppc' = [ppc EXCEPT ![p] = "load"]
      /\ UNCHANGED <<heap, headOfQueue, tailOfQueue, garbageListHead, tempTail, newBuffer,
                     cpc, temp, scan, flagMoveToNewBuffer, flagBufferAllHandled>>
  BY DEF Claim
<1>4. TypeInv /\ TypeInv'
  <2>1. "load" \in InEnqueue
    BY DEF InEnqueue
  <2>2. sent[p] + 1 \in Nat /\ tail + 1 \in Nat
    BY <1>1
  <2>3. TypeInv
    BY DEF IInv
  <2> QED
    BY ONLY <1>1, <1>2, <1>3, <2>1, <2>2, <2>3 DEF TypeInv
<1>5. /\ ppc'[p] = "load" /\ location'[p] = tail /\ sent'[p] = sent[p] + 1
      /\ \A q \in Producers \ {p} :
         /\ ppc'[q] = ppc[q] /\ location'[q] = location[q] /\ tempTail'[q] = tempTail[q]
         /\ sent'[q] = sent[q]
  BY <1>3, <1>4 DEF TypeInv
<1>6. Unwritten' \subseteq Unwritten
  <2> SUFFICES ASSUME NEW l \in Unwritten' PROVE l \in Unwritten
    OBVIOUS
  <2>1. l \in Nat /\ (l >= tail + 1 \/ \E q \in Producers : ppc'[q] \in Seeking /\ location'[q] = l)
    BY <1>2 DEF Unwritten
  <2>2. CASE l >= tail + 1
    BY <1>1, <2>1, <2>2 DEF Unwritten
  <2>3. CASE \E q \in Producers : ppc'[q] \in Seeking /\ location'[q] = l
    <3>1. PICK q \in Producers : ppc'[q] \in Seeking /\ location'[q] = l
      BY <2>3
    <3>2. CASE q = p
      BY <1>1, <1>5, <2>1, <3>1, <3>2 DEF Unwritten
    <3>3. CASE q # p
      BY <1>5, <2>1, <3>1, <3>3 DEF Unwritten
    <3> QED
      BY <3>2, <3>3
  <2> QED
    BY <2>1, <2>2, <2>3
<1>7. HeapInv(heap', headOfQueue, tailOfQueue', garbageListHead, Chain, tail', Unwritten')
  <2>1. HeapInv(heap, headOfQueue, tailOfQueue, garbageListHead, Chain, tail, Unwritten)
    BY InvFacts
  <2>2. tail' \in Nat /\ tail <= tail'
    BY <1>1, <1>2
  <2>3. HeapInv(heap, headOfQueue, tailOfQueue, garbageListHead, Chain, tail', Unwritten')
    BY ONLY <1>1, <1>6, <2>1, <2>2, HeapInvShrinks
  <2> QED
    BY <1>3, <2>3
<1>8. Evolves(heap, Chain, tailOfQueue, heap', Chain, tailOfQueue')
  BY <1>3, InvFacts DEF Evolves
<1>9. Keeps(heap, heap')
  BY <1>3 DEF Keeps
<1>10. Seated(heap', Chain, tailOfQueue', tail', ppc'[p], location'[p], tempTail'[p])
  BY <1>1, <1>2, <1>5 DEF Seated
<1>11. \A q \in Producers : Swinging(heap', tailOfQueue', ppc'[q], tempTail'[q], newBuffer'[q])
  <2>1. \A q \in Producers : Swinging(heap, tailOfQueue, ppc[q], tempTail[q], newBuffer[q])
    BY DEF IInv, ProducerInv
  <2> QED
    BY ONLY <1>3, <1>5, <2>1 DEF Swinging
<1>12. AtTail(p)'
  BY <1>5 DEF AtTail
<1>13. ASSUME NEW q \in Producers, p # q, ppc[q] \in Seeking
       PROVE  location'[p] # location[q]
  <2>1. location[q] < tail /\ location[q] \in Nat
    BY <1>13 DEF IInv, TypeInv, ProducerInv, Seated, Seeking
  <2> QED
    BY <1>1, <1>5, <2>1
<1>14. sent'[p] # 0 /\ tail <= tail'
  BY <1>1, <1>2, <1>5
<1>15. IInv'
  BY ONLY IInv, p \in Producers, <1>3, <1>4, <1>5, <1>7, <1>8, <1>9, <1>10, <1>11, <1>12, <1>13, <1>14,
     ProducerStep
<1> QED
  BY <1>2, <1>3, <1>15

\* A producer that is about to write stands at the buffer of its location, which
\* is still on the list, and the slot is EMPTY.
LEMMA WriterFacts ==
  ASSUME IInv, RoomLeft, NEW p \in Producers, ppc[p] = "write"
  PROVE  /\ tempTail[p] \in Chain
         /\ Slot(p) \in Slots
         /\ Slot(p) = location[p] - Lo(heap, tempTail[p])
         /\ heap[tempTail[p]].slots[Slot(p)].isSet = "EMPTY"
         /\ Holds(heap, tempTail[p], location[p])
<1> DEFINE b == tempTail[p]
           loc == location[p]
<1>1. /\ b \in DOMAIN heap /\ b \in Known(heap, Chain) /\ loc \in Nat
      /\ Lo(heap, b) <= loc /\ loc < Hi(heap, b)
  BY SeatFacts DEF InEnqueue, Seated
<1>2. loc \in Unwritten
  BY SeekerIsUnwritten DEF IInv, Seeking
<1>3. Holds(heap, b, loc)
  BY <1>1 DEF Holds
<1>4. SlotInv(heap, headOfQueue, tailOfQueue, Chain, Unwritten)
  BY DEF IInv, HeapInv
<1>5. heap[b].memory # "folded"
  BY <1>1, <1>2, <1>3, <1>4 DEF SlotInv
<1>6. heap[b].memory # "deleted"
  <2> SUFFICES ASSUME heap[b].memory = "deleted" PROVE FALSE
    OBVIOUS
  <2>1. Pos(heap, b) < Pos(heap, headOfQueue) /\ Lo(heap, headOfQueue) <= loc
    BY <1>1, <1>2, <1>4 DEF SlotInv
  <2>2. Hi(heap, b) <= Lo(heap, headOfQueue) /\ Hi(heap, b) \in Nat /\ Lo(heap, headOfQueue) \in Nat
    BY <1>1, <2>1, InvFacts, ChainFacts
  <2> QED
    BY <1>1, <2>1, <2>2
<1>7. b \in Chain
  <2>1. heap[b] \in BufferType
    BY <1>1, InvFacts, HeapFacts
  <2>2. heap[b].memory \in {"live", "folded", "deleted"}
    BY <2>1 DEF BufferType
  <2> QED
    BY <1>1, <1>5, <1>6, <2>2 DEF Known
<1>8. Lo(heap, b) \in Nat /\ Hi(heap, b) = Lo(heap, b) + BufferSize /\ BufferSize \in Nat
      /\ Slot(p) = loc - Lo(heap, b)
  BY <1>1, NoWrap, InvFacts, ChainFacts DEF Slot
<1>9. Slot(p) \in Slots
  BY <1>1, <1>8 DEF Slots
<1>10. heap[b].slots[loc - Lo(heap, b)].isSet = "EMPTY"
  BY <1>2, <1>3, <1>4, <1>7 DEF SlotInv
<1> QED
  BY <1>3, <1>7, <1>8, <1>9, <1>10

\* The write goes to a buffer on the list, to the slot of the claimed location.
LEMMA WriteKeeps ==
  ASSUME IInv, RoomLeft, NEW p \in Producers, Write(p)
  PROVE  IInv' /\ Chain' = Chain
<1> DEFINE b == tempTail[p]
           loc == location[p]
           i == Slot(p)
           v == [isSet |-> "SET", data |-> Item(p)]
           pc == IF i = BufferSize - 2 /\ isLastBuffer[p] THEN "linkAhead" ELSE "idle"
<1>1. ppc[p] = "write"
  BY DEF Write, At
<1>2. /\ b \in Chain /\ i \in Slots /\ i = loc - Lo(heap, b) /\ heap[b].slots[i].isSet = "EMPTY"
      /\ Holds(heap, b, loc)
  BY <1>1, WriterFacts
<1>3. /\ heap' = Written(heap, b, i, v)
      /\ Goto(p, pc) /\ UNCHANGED <<tailOfQueue, tempTail, newBuffer, isLastBuffer>>
  BY <1>2 DEF Write, Written
<1>4. v \in SlotType
  <2>1. Item(p) \in Producers \X Nat
    BY DEF Item, IInv, TypeInv
  <2> QED
    BY <2>1 DEF SlotType, States, Data
<1>5. b \in DOMAIN heap /\ HeapType(heap)
  BY <1>2, InvFacts
<1> HIDE DEF v, pc, b, i, loc
<1>6. /\ SameShape(heap, heap')
      /\ \A c \in DOMAIN heap : heap'[c].head = heap[c].head
      /\ \A c \in DOMAIN heap, j \in Slots :
           heap'[c].slots[j] = IF c = b /\ j = i THEN v ELSE heap[c].slots[j]
  BY ONLY <1>2, <1>3, <1>4, <1>5, WriteFields
<1>7. TypeInv /\ TypeInv'
  <2>1. pc \in InEnqueue \cup {"idle"}
    BY DEF InEnqueue, pc
  <2> QED
    BY ONLY <1>3, <2>1, IInv DEF IInv, TypeInv, Goto, consumerVars
<1>8. ppc'[p] = pc /\ \A q \in Producers \ {p} : ppc'[q] = ppc[q]
  BY <1>3, <1>7 DEF TypeInv, Goto
<1>9. /\ UNCHANGED <<headOfQueue, garbageListHead, cpc, temp, scan, flagMoveToNewBuffer,
                     flagBufferAllHandled>>
      /\ UNCHANGED <<sent, location, tail>>
  BY <1>3 DEF Goto, consumerVars
<1>10. pc \notin Seeking
  BY DEF pc, Seeking
<1>11. /\ Seated(heap, Chain, tailOfQueue, tail, ppc[p], loc, b) /\ AtTail(p) /\ loc \in Nat
       /\ loc < tail /\ Pos(heap, b) <= Pos(heap, tailOfQueue) /\ b \in Known(heap, Chain)
       /\ Lo(heap, b) <= loc
  BY <1>1, SeatFacts DEF b, loc, Seated, InEnqueue
<1>12. Unwritten' \subseteq Unwritten \ {loc}
  <2> SUFFICES ASSUME NEW l \in Unwritten' PROVE l \in Unwritten /\ l # loc
    OBVIOUS
  <2>1. l \in Nat /\ (l >= tail \/ \E q \in Producers : ppc'[q] \in Seeking /\ location[q] = l)
    BY <1>9 DEF Unwritten
  <2>2. CASE l >= tail
    <3>1. tail \in Nat
      BY InvFacts
    <3> QED
      BY <1>11, <2>1, <2>2, <3>1 DEF Unwritten
  <2>3. CASE \E q \in Producers : ppc'[q] \in Seeking /\ location[q] = l
    <3>1. PICK q \in Producers : ppc'[q] \in Seeking /\ location[q] = l
      BY <2>3
    <3>2. q # p /\ ppc[q] \in Seeking
      BY <1>8, <1>10, <3>1
    <3>3. location[p] # location[q]
      BY <1>1, <3>2 DEF IInv, ProducerInv, Seeking
    <3> QED
      BY <2>1, <3>1, <3>2, <3>3 DEF Unwritten, loc
  <2> QED
    BY <2>1, <2>2, <2>3
<1>13. HeapInv(heap, headOfQueue, tailOfQueue, garbageListHead, Chain, tail, Unwritten)
       /\ Chain \subseteq DOMAIN heap /\ Unwritten \subseteq Nat /\ Unwritten' \subseteq Unwritten
  BY <1>12, InvFacts
<1>14. /\ \A c \in DOMAIN heap : Pos(heap, c) \in Nat /\ Lo(heap, c) \in Nat
                                 /\ Hi(heap, c) = Lo(heap, c) + BufferSize
       /\ BufferSize \in Nat /\ tailOfQueue \in DOMAIN heap
  BY <1>13, ChainFacts
<1>15. ASSUME NEW c \in Chain, NEW l \in Unwritten', Holds(heap, c, l)
       PROVE  heap'[c].slots[l - Lo(heap, c)].isSet = "EMPTY" /\ heap'[c].head <= l - Lo(heap, c)
  <2>1. l \in Unwritten /\ l \in Nat /\ l # loc /\ c \in DOMAIN heap
    BY <1>12, <1>13
  <2>2. heap[c].slots[l - Lo(heap, c)].isSet = "EMPTY" /\ heap[c].head <= l - Lo(heap, c)
    BY <1>13, <1>15, <2>1 DEF HeapInv, SlotInv
  <2>3. l - Lo(heap, c) \in Slots
    BY <1>14, <1>15, <2>1 DEF Holds, Slots
  <2>4. ~(c = b /\ l - Lo(heap, c) = i)
    BY <1>2, <1>11, <1>14, <2>1
  <2> QED
    BY <1>6, <2>1, <2>2, <2>3, <2>4
<1>16. \A c \in Chain : c # headOfQueue => heap'[c].head = 0
  BY <1>6, <1>13 DEF HeapInv, SlotInv
<1>17. ASSUME NEW c \in Chain, NEW j \in Slots, Pos(heap, c) > Pos(heap, tailOfQueue)
       PROVE  heap'[c].slots[j].isSet = "EMPTY"
  <2>1. c # b
    BY <1>5, <1>11, <1>14, <1>17
  <2>2. heap[c].slots[j].isSet = "EMPTY"
    BY <1>13, <1>17 DEF HeapInv, SlotInv
  <2> QED
    BY <1>6, <1>13, <2>1, <2>2
<1>18. HeapInv(heap', headOfQueue, tailOfQueue', garbageListHead, Chain, tail', Unwritten')
  <2>1. HeapInv(heap', headOfQueue, tailOfQueue, garbageListHead, Chain, tail, Unwritten')
    BY ONLY <1>6, <1>13, <1>15, <1>16, <1>17, HeapInvSlots
  <2> QED
    BY <1>3, <1>9, <2>1
<1>19. /\ \A c \in DOMAIN heap : Pos(heap', c) = Pos(heap, c) /\ heap'[c].memory = heap[c].memory
                                 /\ heap'[c].next = heap[c].next
       /\ DOMAIN heap' = DOMAIN heap
  BY ONLY <1>6 DEF SameShape
<1>20. Evolves(heap, Chain, tailOfQueue, heap', Chain, tailOfQueue')
  BY <1>3, <1>14, <1>19 DEF Evolves, Known
<1>21. Keeps(heap, heap')
  BY <1>2, <1>6 DEF Keeps
<1>22. Seated(heap', Chain, tailOfQueue', tail', ppc'[p], location'[p], tempTail'[p])
  <2>1. b \in Known(heap', Chain) /\ Pos(heap', b) <= Pos(heap', tailOfQueue) /\ Lo(heap', b) <= loc
    BY <1>5, <1>11, <1>14, <1>19 DEF Known, Lo
  <2>2. ppc'[p] \in {"linkAhead", "idle"}
    BY <1>8 DEF pc
  <2>3. tailOfQueue' = tailOfQueue /\ tail' = tail /\ location'[p] = loc /\ tempTail'[p] = b
    BY <1>3, <1>9 DEF loc, b
  <2> QED
    BY ONLY <1>11, <2>1, <2>2, <2>3 DEF Seated
<1>23. ASSUME NEW q \in Producers
       PROVE  Swinging(heap', tailOfQueue', ppc'[q], tempTail'[q], newBuffer'[q])
  <2>1. Swinging(heap, tailOfQueue, ppc[q], tempTail[q], newBuffer[q])
    BY DEF IInv, ProducerInv
  <2>2. ppc'[q] \in {"swing", "swingAhead"} => ppc'[q] = ppc[q]
    BY <1>8 DEF pc
  <2> QED
    BY <1>3, <1>14, <1>19, <2>1, <2>2 DEF Swinging
<1>24. AtTail(p)'
  <2> SUFFICES ASSUME Alone(p)', ppc'[p] \in {"check", "link", "linkAhead", "walk", "write"}
               PROVE  tempTail'[p] = tailOfQueue'
    BY DEF AtTail
  <2>1. isLastBuffer[p]
    BY <1>8 DEF pc
  <2>2. Alone(p)
    BY <1>9 DEF Alone
  <2> QED
    BY <1>1, <1>3, <1>11, <2>1, <2>2 DEF AtTail
<1>25. \A q \in Producers : p # q /\ ppc'[p] \in Seeking /\ ppc[q] \in Seeking =>
         location'[p] # location[q]
  BY <1>8, <1>10
<1>26. sent'[p] # 0 /\ tail <= tail'
  BY <1>1, <1>9, InvFacts DEF IInv, ProducerInv
<1>27. \A q \in Producers \ {p} :
         /\ ppc'[q] = ppc[q] /\ location'[q] = location[q] /\ tempTail'[q] = tempTail[q]
         /\ sent'[q] = sent[q]
  BY <1>3, <1>8, <1>9
<1> QED
  BY ONLY IInv, p \in Producers, <1>7, <1>9, <1>18, <1>20, <1>21, <1>22, <1>23, <1>24, <1>25, <1>26,
     <1>27, ProducerStep

\* All steps of enqueue().
LEMMA EnqueueStepKeeps ==
  ASSUME IInv, RoomLeft, NEW p \in Producers, EnqueueStep(p)
  PROVE  IInv'
BY LoadTailKeeps, CheckTailKeeps, LinkKeeps, SwingTailKeeps, WalkBackKeeps, WriteKeeps, LinkAheadKeeps
DEF EnqueueStep

\* A step that changes nothing the invariant speaks of.
LEMMA IdleStep ==
  ASSUME IInv, UNCHANGED <<heap, queueVars, producerVars, cpc, temp, scan,
                           flagMoveToNewBuffer, flagBufferAllHandled>>
  PROVE  IInv'
<1>1. TypeInv'
  BY DEF IInv, TypeInv, queueVars, producerVars
<1>2. Chain' = Chain /\ Unwritten' = Unwritten
  BY DEF Chain, Unwritten, queueVars, producerVars
<1>3. HeapInv(heap, headOfQueue, tailOfQueue, garbageListHead, Chain, tail, Unwritten)'
  BY <1>2 DEF IInv, queueVars
<1>4. \A q \in Producers : AtTail(q)'
  BY DEF IInv, ProducerInv, AtTail, Alone, queueVars, producerVars
<1>5. ProducerInv(heap, Chain, tailOfQueue, tail)'
  BY <1>2, <1>4 DEF IInv, ProducerInv, queueVars, producerVars
<1>6. ConsumerInv(heap, headOfQueue, Chain, cpc, temp, scan,
                  flagMoveToNewBuffer, flagBufferAllHandled)'
  BY <1>2 DEF IInv, queueVars
<1> QED
  BY <1>1, <1>3, <1>5, <1>6 DEF IInv

-----------------------------------------------------------------------------
(* dequeue()                                                               *)

\* headOfQueue->head++ over a slot that is not EMPTY.
LEMMA HeadAdvances ==
  ASSUME NEW h, NEW hd, NEW last, NEW gh, NEW C, NEW n, NEW U, U \subseteq Nat,
         HeapInv(h, hd, last, gh, C, n, U), h[hd].head < BufferSize,
         h[hd].slots[h[hd].head].isSet # "EMPTY",
         NEW g, g = Advanced(h, hd)
  PROVE  HeapInv(g, hd, last, gh, C, n, U) /\ SameShape(h, g)
<1>1. /\ HeapType(h) /\ hd \in DOMAIN h /\ C \subseteq DOMAIN h
      /\ \A c \in DOMAIN h : Lo(h, c) \in Nat
      /\ h[hd].head \in Nat
  <2>1. /\ HeapType(h) /\ hd \in DOMAIN h /\ C \subseteq DOMAIN h
        /\ \A c \in DOMAIN h : Lo(h, c) \in Nat
        /\ BufferSize \in Nat
    BY ChainFacts DEF HeapInv
  <2> QED
    BY <2>1, HeapFacts
<1>2. /\ SameShape(h, g)
      /\ g[hd].head = h[hd].head + 1
      /\ \A c \in DOMAIN h : c # hd => g[c].head = h[c].head
      /\ \A c \in DOMAIN h : g[c].slots = h[c].slots
  BY <1>1, HeadFields
<1>3. SlotInv(h, hd, last, C, U)
  BY DEF HeapInv
<1>4. ASSUME NEW b \in C, NEW l \in U, Holds(h, b, l)
      PROVE  g[b].slots[l - Lo(h, b)].isSet = "EMPTY" /\ g[b].head <= l - Lo(h, b)
  <2>1. h[b].slots[l - Lo(h, b)].isSet = "EMPTY" /\ h[b].head <= l - Lo(h, b)
    BY <1>3, <1>4 DEF SlotInv
  <2>2. b \in DOMAIN h /\ Lo(h, b) \in Nat /\ l \in Nat
    BY <1>1
  <2>3. CASE b = hd
    <3>1. l - Lo(h, b) # h[hd].head
      BY <2>1, <2>3
    <3>2. h[hd].head <= l - Lo(h, b)
      BY <2>1, <2>3
    <3>3. h[hd].head + 1 <= l - Lo(h, b)
      BY ONLY <1>1, <2>2, <3>1, <3>2
    <3> QED
      BY ONLY <1>2, <2>1, <2>2, <2>3, <3>3
  <2>4. CASE b # hd
    BY ONLY <1>2, <2>1, <2>2, <2>4
  <2> QED
    BY <2>3, <2>4
<1>5. \A b \in C : b # hd => g[b].head = 0
  BY ONLY <1>1, <1>2, <1>3 DEF SlotInv
<1>6. \A b \in C, i \in Slots : Pos(h, b) > Pos(h, last) => g[b].slots[i].isSet = "EMPTY"
  BY ONLY <1>1, <1>2, <1>3 DEF SlotInv
<1> QED
  BY ONLY HeapInv(h, hd, last, gh, C, n, U), <1>2, <1>4, <1>5, <1>6, HeapInvSlots

Markable(h, hd, last, gh, C, n, U, b, i) ==
  /\ U \subseteq Nat
  /\ HeapInv(h, hd, last, gh, C, n, U)
  /\ b \in C /\ i \in Slots
  /\ h[b].slots[i].isSet # "EMPTY"

IsMarked(h, g, b, i) ==
  /\ SameShape(h, g)
  /\ \A c \in DOMAIN h : g[c].head = h[c].head
  /\ g[b].slots[i].isSet = "HANDLED"

\* The slot of the item that was taken out of turn is marked.
LEMMA HandledMarks ==
  ASSUME NEW h, NEW hd, NEW last, NEW gh, NEW C, NEW n, NEW U, NEW b, NEW i,
         Markable(h, hd, last, gh, C, n, U, b, i), NEW g, g = Marked(h, b, i)
  PROVE  HeapInv(g, hd, last, gh, C, n, U) /\ IsMarked(h, g, b, i)
<1>0. /\ U \subseteq Nat /\ HeapInv(h, hd, last, gh, C, n, U) /\ b \in C /\ i \in Slots
      /\ h[b].slots[i].isSet # "EMPTY"
  BY DEF Markable
<1>1. /\ HeapType(h) /\ b \in DOMAIN h /\ C \subseteq DOMAIN h
      /\ \A c \in DOMAIN h : Lo(h, c) \in Nat /\ Hi(h, c) = Lo(h, c) + BufferSize
      /\ BufferSize \in Nat
  BY <1>0, ChainFacts DEF HeapInv
<1>2. /\ SameShape(h, g)
      /\ \A c \in DOMAIN h : g[c].head = h[c].head
      /\ \A c \in DOMAIN h, j \in Slots :
           g[c].slots[j].isSet = IF c = b /\ j = i THEN "HANDLED" ELSE h[c].slots[j].isSet
  BY ONLY <1>0, <1>1, g = Marked(h, b, i), HandledFields
<1>3. SlotInv(h, hd, last, C, U)
  BY <1>0 DEF HeapInv
<1>4. ASSUME NEW c \in C, NEW l \in U, Holds(h, c, l)
      PROVE  g[c].slots[l - Lo(h, c)].isSet = "EMPTY" /\ g[c].head <= l - Lo(h, c)
  <2>1. h[c].slots[l - Lo(h, c)].isSet = "EMPTY" /\ h[c].head <= l - Lo(h, c)
    BY <1>3, <1>4 DEF SlotInv
  <2>2. c \in DOMAIN h /\ Lo(h, c) \in Nat /\ l \in Nat /\ Hi(h, c) = Lo(h, c) + BufferSize
    BY <1>0, <1>1
  <2>3. l - Lo(h, c) \in Slots
    BY ONLY <1>1, <1>4, <2>2 DEF Holds, Slots
  <2>4. ~(c = b /\ l - Lo(h, c) = i)
    BY <1>0, <2>1
  <2> QED
    BY ONLY <1>2, <2>1, <2>2, <2>3, <2>4
<1>5. \A c \in C : c # hd => g[c].head = 0
  BY ONLY <1>1, <1>2, <1>3 DEF SlotInv
<1>6. ASSUME NEW c \in C, NEW j \in Slots, Pos(h, c) > Pos(h, last)
      PROVE  g[c].slots[j].isSet = "EMPTY"
  <2>1. h[c].slots[j].isSet = "EMPTY"
    BY <1>3, <1>6 DEF SlotInv
  <2>2. ~(c = b /\ j = i) /\ c \in DOMAIN h
    BY <1>0, <1>1, <2>1
  <2> QED
    BY ONLY <1>2, <2>1, <2>2, j \in Slots
<1>7. g[b].slots[i].isSet = "HANDLED"
  BY ONLY <1>0, <1>1, <1>2
<1>8. HeapInv(g, hd, last, gh, C, n, U)
  <2>1. HeapInv(h, hd, last, gh, C, n, U) /\ SameShape(h, g) /\ U \subseteq U
    BY ONLY <1>0, <1>2
  <2> QED
    BY ONLY <2>1, <1>4, <1>5, <1>6, HeapInvSlots
<1> QED
  BY ONLY <1>2, <1>7, <1>8 DEF IsMarked

\* The consumer leaves buffers of C it has used up, and the others as they are.
Slides(h, g, C, D) ==
  /\ DOMAIN g = DOMAIN h
  /\ D \subseteq C
  /\ \A c \in DOMAIN h :
       Pos(g, c) = Pos(h, c) /\ g[c].head = h[c].head /\ g[c].slots = h[c].slots /\ g[c].next = h[c].next
  /\ \A c \in C \ D : h[c].head >= BufferSize

\* moveToNextBuffer() leaves the first buffer only when it is used up and not the
\* last, and deletes it with the garbage before the next one.
LEMMA MoveKeeps ==
  ASSUME NEW h, MoveToNextBuffer(h), Unwritten \subseteq Nat,
         HeapInv(h, headOfQueue, tailOfQueue, garbageListHead, Chain, tail, Unwritten)
  PROVE  \E D :
           /\ HeapInv(heap', headOfQueue', tailOfQueue, garbageListHead', D, tail, Unwritten)
           /\ Evolves(h, Chain, tailOfQueue, heap', D, tailOfQueue)
           /\ heap'[tailOfQueue].next = h[tailOfQueue].next
           /\ CanMove(h) => heap'[headOfQueue'].head < BufferSize
           /\ Slides(h, heap', Chain, D)
<1> DEFINE hd == headOfQueue
           next == h[hd].next
           position == h[next].positionInQueue
           K == Outdated(h, position)
           kept == FirstKept(h, position)
<1>1. /\ HeapType(h) /\ hd \in DOMAIN h /\ tailOfQueue \in DOMAIN h
      /\ \A b \in DOMAIN h : Pos(h, b) \in Nat
      /\ BufferSize \in Nat /\ BufferSize >= 2
  BY ChainFacts DEF HeapInv
<1>2. h[hd].head \in Nat
  BY <1>1, HeapFacts
<1>3. CASE ~(h[hd].head >= BufferSize /\ CanMove(h))
  <2>1. heap' = h /\ headOfQueue' = hd /\ garbageListHead' = garbageListHead
    BY <1>3 DEF MoveToNextBuffer
  <2>2. Evolves(h, Chain, tailOfQueue, heap', Chain, tailOfQueue)
    BY <1>1, <2>1 DEF Evolves
  <2>3. CanMove(h) => heap'[headOfQueue'].head < BufferSize
    BY <1>1, <1>2, <1>3, <2>1
  <2>4. Slides(h, heap', Chain, Chain)
    BY <2>1 DEF Slides
  <2> QED
    BY <2>1, <2>2, <2>3, <2>4
<1>4. CASE h[hd].head >= BufferSize /\ CanMove(h)
  <2>1. /\ heap' = [b \in DOMAIN h |->
                      IF b \in K \cup {hd} THEN [h[b] EXCEPT !.memory = "deleted"] ELSE h[b]]
        /\ garbageListHead' = kept
        /\ headOfQueue' = next
    BY <1>4 DEF MoveToNextBuffer
  <2>2. hd # tailOfQueue /\ next # Null
    BY <1>4 DEF CanMove
  <2>3. Moved(h, heap', hd, K)
    <3> HIDE DEF K, hd
    <3> QED
      BY ONLY <1>1, <2>1, MoveFields
  <2>4. PICK G \in SUBSET DOMAIN h, r \in [Nat -> Nat] : Garbage(h, garbageListHead, Chain, G, r)
    BY DEF HeapInv, GarbageInv
  <2>5. garbageListHead \in 0 .. Len(h)
    BY DEF HeapInv
  <2> DEFINE old == Before(h, position)
  <2>6. old \subseteq DOMAIN h
    BY DEF Before
  <2>7. Leaves(h, G, Passed(h, garbageListHead, old), Cut(h, garbageListHead, old))
    <3> HIDE DEF old
    <3> QED
      BY ONLY <1>1, <2>4, <2>5, <2>6, GarbageCut
  <2>8. K = Passed(h, garbageListHead, old) /\ kept = Cut(h, garbageListHead, old)
    BY DEF Outdated, FirstKept, Cut, Passed
  <2>9. \A c \in K : Pos(h, c) < Pos(h, next)
    BY DEF Outdated, Before, Pos
  <2> HIDE DEF K, kept, position, old
  <2>10. Discards(h, hd, tailOfQueue, garbageListHead, Chain, K, kept)
    BY ONLY <1>4, <2>2, <2>4, <2>7, <2>8, <2>9 DEF Discards
  <2>11. /\ HeapInv(heap', next, tailOfQueue, kept, Chain \ {hd}, tail, Unwritten)
         /\ Known(h, Chain) \subseteq Known(heap', Chain \ {hd})
         /\ h[next].head = 0
    BY ONLY HeapInv(h, headOfQueue, tailOfQueue, garbageListHead, Chain, tail, Unwritten),
       Unwritten \subseteq Nat, <2>3, <2>10, HeapInvMovesOn
  <2>12. /\ DOMAIN heap' = DOMAIN h
         /\ \A c \in DOMAIN h : Pos(heap', c) = Pos(h, c) /\ heap'[c].head = h[c].head
                                /\ heap'[c].next = h[c].next
    BY ONLY <2>3 DEF Moved
  <2>13. Evolves(h, Chain, tailOfQueue, heap', Chain \ {hd}, tailOfQueue)
    <3>1. Pos(h, tailOfQueue) <= Pos(heap', tailOfQueue)
      BY ONLY <1>1, <2>12
    <3> QED
      BY ONLY <2>11, <2>12, <3>1 DEF Evolves
  <2>14. next \in DOMAIN h
    BY <2>11, <2>12, ChainFacts
  <2>15. heap'[headOfQueue'].head < BufferSize
    BY ONLY <1>1, <2>1, <2>11, <2>12, <2>14
  <2>16. HeapInv(heap', headOfQueue', tailOfQueue, garbageListHead', Chain \ {hd}, tail, Unwritten)
    BY ONLY <2>1, <2>11
  <2>17. heap'[tailOfQueue].next = h[tailOfQueue].next
    BY ONLY <1>1, <2>12
  <2>18. Slides(h, heap', Chain, Chain \ {hd})
    <3>1. \A c \in DOMAIN h : heap'[c].slots = h[c].slots
      BY ONLY <2>3 DEF Moved
    <3>2. h[hd].head >= BufferSize
      BY <1>4
    <3> HIDE DEF hd
    <3> QED
      BY ONLY <2>12, <3>1, <3>2 DEF Slides
  <2> HIDE DEF hd
  <2> QED
    BY ONLY <2>13, <2>15, <2>16, <2>17, <2>18
<1> QED
  BY <1>3, <1>4

\* Outside dequeue() there is nothing to say.
LEMMA IdleConsumer ==
  ASSUME NEW h, NEW hd, NEW C, NEW t, NEW s, NEW moved, NEW handled, ~moved
  PROVE  /\ ConsumerInv(h, hd, C, "idle", t, s, moved, handled)
         /\ ConsumerInv(h, hd, C, "leave", t, s, moved, handled)
BY DEF ConsumerInv, InDequeue, Scanning

\* What Return leaves alone.
LEMMA ReturnFacts ==
  ASSUME IInv, Return
  PROVE  /\ TypeInv' /\ UNCHANGED <<tailOfQueue, tail, producerVars>>
         /\ cpc' = "idle" /\ ~flagMoveToNewBuffer'
         /\ \A h, hd, C : ConsumerInv(h, hd, C, cpc', temp', scan', flagMoveToNewBuffer', flagBufferAllHandled')
<1>1. NoPlace \in Place
  BY DEF NoPlace, Place, Null
<1> QED
  BY <1>1, IdleConsumer DEF Return, IInv, TypeInv, producerVars

LEMMA ContinueFacts ==
  ASSUME IInv, NEW pc \in InDequeue, Continue(pc), temp' \in Place, scan' \in Place,
         flagMoveToNewBuffer' \in BOOLEAN, flagBufferAllHandled' \in BOOLEAN
  PROVE  TypeInv' /\ UNCHANGED <<tailOfQueue, tail, producerVars>> /\ cpc' = pc
BY DEF Continue, IInv, TypeInv, producerVars

\* Steps that move neither the consumer's places nor a producer keep the types.
LEMMA SameTypes ==
  ASSUME IInv, UNCHANGED scanVars
  PROVE  /\ temp' \in Place /\ scan' \in Place
         /\ flagMoveToNewBuffer' \in BOOLEAN /\ flagBufferAllHandled' \in BOOLEAN
         /\ cpc \notin Scanning => ~flagMoveToNewBuffer'
BY DEF scanVars, IInv, TypeInv, ConsumerInv

\* Steps of the consumer that leave the buffers alone.
LEMMA ConsumerStill ==
  ASSUME IInv, TypeInv', UNCHANGED <<heap, headOfQueue, garbageListHead>>,
         UNCHANGED <<tailOfQueue, tail, producerVars>>,
         ConsumerInv(heap, headOfQueue, Chain, cpc', temp', scan',
                     flagMoveToNewBuffer', flagBufferAllHandled')
  PROVE  IInv'
<1>1. HeapInv(heap', headOfQueue', tailOfQueue, garbageListHead', Chain, tail, Unwritten)
  BY InvFacts
<1>2. Evolves(heap, Chain, tailOfQueue, heap', Chain, tailOfQueue)
  BY InvFacts DEF Evolves
<1>3. ConsumerInv(heap', headOfQueue', Chain, cpc', temp', scan',
                  flagMoveToNewBuffer', flagBufferAllHandled')
  OBVIOUS
<1>4. heap'[tailOfQueue].next = heap[tailOfQueue].next
  OBVIOUS
<1> QED
  BY ONLY IInv, TypeInv', UNCHANGED <<tailOfQueue, tail, producerVars>>, <1>1, <1>2, <1>3, <1>4, ConsumerStep

\* Steps that end in moveToNextBuffer().
LEMMA ConsumerMoves ==
  ASSUME IInv, TypeInv', NEW h, SameShape(heap, h), MoveToNextBuffer(h),
         HeapInv(h, headOfQueue, tailOfQueue, garbageListHead, Chain, tail, Unwritten),
         UNCHANGED <<tailOfQueue, tail, producerVars>>,
         cpc' \in {"idle", "leave", "skip"}, cpc' = "skip" => CanMove(h), ~flagMoveToNewBuffer'
  PROVE  IInv'
<1>1. Unwritten \subseteq Nat /\ tailOfQueue \in DOMAIN heap
  BY InvFacts
<1>2. PICK D :
        /\ HeapInv(heap', headOfQueue', tailOfQueue, garbageListHead', D, tail, Unwritten)
        /\ Evolves(h, Chain, tailOfQueue, heap', D, tailOfQueue)
        /\ heap'[tailOfQueue].next = h[tailOfQueue].next
        /\ CanMove(h) => heap'[headOfQueue'].head < BufferSize
  BY ONLY <1>1, MoveToNextBuffer(h), MoveKeeps,
     HeapInv(h, headOfQueue, tailOfQueue, garbageListHead, Chain, tail, Unwritten)
<1>3. /\ DOMAIN h = DOMAIN heap
      /\ \A b \in DOMAIN heap : Pos(h, b) = Pos(heap, b) /\ h[b].memory = heap[b].memory
                                /\ h[b].next = heap[b].next
  BY DEF SameShape
<1>4. Evolves(heap, Chain, tailOfQueue, heap', D, tailOfQueue)
  <2>1. Known(h, Chain) = Known(heap, Chain)
    BY ONLY <1>3 DEF Known
  <2> QED
    BY ONLY <1>1, <1>2, <1>3, <2>1 DEF Evolves
<1>5. heap'[tailOfQueue].next = heap[tailOfQueue].next
  BY ONLY <1>1, <1>2, <1>3
<1>6. ConsumerInv(heap', headOfQueue', D, cpc', temp', scan',
                  flagMoveToNewBuffer', flagBufferAllHandled')
  <2>1. CASE cpc' \in {"idle", "leave"}
    BY <2>1, IdleConsumer
  <2>2. CASE cpc' = "skip"
    <3>1. heap'[headOfQueue'].head < BufferSize
      BY <1>2, <2>2
    <3> QED
      BY ONLY <2>2, <3>1, ~flagMoveToNewBuffer' DEF ConsumerInv, Scanning
  <2> QED
    BY <2>1, <2>2
<1> QED
  BY ONLY IInv, TypeInv', UNCHANGED <<tailOfQueue, tail, producerVars>>, <1>2, <1>4, <1>5, <1>6, ConsumerStep

\* dequeue() is called.
LEMMA BeginDequeueKeeps ==
  ASSUME IInv, BeginDequeue
  PROVE  IInv'
<1>1. /\ UNCHANGED <<heap, headOfQueue, garbageListHead, temp, scan, flagMoveToNewBuffer,
                     flagBufferAllHandled>>
      /\ Continue("leave") /\ cpc = "idle"
  BY DEF BeginDequeue, ConsumerAt
<1>2. /\ temp' \in Place /\ scan' \in Place
      /\ flagMoveToNewBuffer' \in BOOLEAN /\ flagBufferAllHandled' \in BOOLEAN
  BY <1>1 DEF IInv, TypeInv
<1>3. "leave" \in InDequeue
  BY DEF InDequeue
<1>4. TypeInv' /\ UNCHANGED <<tailOfQueue, tail, producerVars>> /\ cpc' = "leave"
  BY <1>1, <1>2, <1>3, ContinueFacts
<1>5. ConsumerInv(heap, headOfQueue, Chain, cpc', temp', scan',
                  flagMoveToNewBuffer', flagBufferAllHandled')
  <2>1. ~flagMoveToNewBuffer'
    BY <1>1 DEF IInv, ConsumerInv, Scanning
  <2> QED
    BY <1>4, <2>1, IdleConsumer
<1> QED
  BY ONLY IInv, <1>1, <1>4, <1>5, ConsumerStill

\* Nothing changes the shape of an unchanged heap.
LEMMA SameHeap ==
  ASSUME IInv
  PROVE  SameShape(heap, heap)
BY InvFacts DEF SameShape

\* while (headOfQueue->head >= bufferSize).
LEMMA LeaveBufferKeeps ==
  ASSUME IInv, LeaveBuffer
  PROVE  IInv'
<1>1. MoveToNextBuffer(heap) /\ SameShape(heap, heap)
      /\ HeapInv(heap, headOfQueue, tailOfQueue, garbageListHead, Chain, tail, Unwritten)
  BY InvFacts, SameHeap DEF LeaveBuffer
<1>2. CASE CanMove(heap)
  <2> DEFINE pc == IF heap[headOfQueue].head >= BufferSize THEN "leave" ELSE "skip"
  <2>1. Continue(pc) /\ UNCHANGED scanVars
    BY <1>2 DEF LeaveBuffer
  <2>2. pc \in InDequeue /\ pc \in {"idle", "leave", "skip"}
    BY DEF InDequeue
  <2> HIDE DEF pc
  <2>3. /\ TypeInv' /\ UNCHANGED <<tailOfQueue, tail, producerVars>> /\ cpc' = pc
        /\ ~flagMoveToNewBuffer'
    BY <2>1, <2>2, SameTypes, ContinueFacts DEF LeaveBuffer, ConsumerAt, Scanning
  <2> QED
    BY ONLY IInv, <1>1, <1>2, <2>2, <2>3, ConsumerMoves
<1>3. CASE ~CanMove(heap)
  <2>1. Return
    BY <1>3 DEF LeaveBuffer, ReturnFalse
  <2>2. TypeInv' /\ UNCHANGED <<tailOfQueue, tail, producerVars>> /\ cpc' = "idle" /\ ~flagMoveToNewBuffer'
    BY <2>1, ReturnFacts
  <2> QED
    BY ONLY IInv, <1>1, <2>2, ConsumerMoves
<1> QED
  BY <1>2, <1>3

\* In the steps after the first loop, head is within its buffer.
LEMMA FrontFacts ==
  ASSUME IInv, cpc \in InDequeue \ {"leave"}
  PROVE  /\ heap[headOfQueue].head < BufferSize /\ heap[headOfQueue].head \in Slots
         /\ heap[headOfQueue].head \in Nat
         /\ Front(heap) \in Place /\ Front(heap).buffer = headOfQueue
         /\ Front(heap).at = heap[headOfQueue].head
<1>1. heap[headOfQueue].head < BufferSize
  BY DEF IInv, ConsumerInv
<1>2. heap[headOfQueue].head \in 0 .. BufferSize /\ headOfQueue \in Nat /\ BufferSize \in Nat
  BY InvFacts, HeapFacts, BufferSizeAssumption
<1> QED
  BY <1>1, <1>2 DEF Slots, Front, Place

\* head moves over a slot that is not EMPTY, and on to the next buffer if that
\* was the last slot.
LEMMA AdvanceFacts ==
  ASSUME IInv, cpc \in InDequeue \ {"leave"}, SlotAt(Front(heap)).isSet # "EMPTY"
  PROVE  /\ SameShape(heap, HeadAdvanced(heap))
         /\ HeapInv(HeadAdvanced(heap), headOfQueue, tailOfQueue, garbageListHead, Chain, tail, Unwritten)
<1>1. heap[headOfQueue].head < BufferSize /\ heap[headOfQueue].slots[heap[headOfQueue].head].isSet # "EMPTY"
  BY FrontFacts DEF SlotAt
<1>2. HeadAdvanced(heap) = Advanced(heap, headOfQueue)
  BY DEF HeadAdvanced, Advanced
<1>3. HeapInv(heap, headOfQueue, tailOfQueue, garbageListHead, Chain, tail, Unwritten)
      /\ Unwritten \subseteq Nat
  BY InvFacts
<1> QED
  BY ONLY <1>1, <1>2, <1>3, HeadAdvances

\* while (n->isSet == HANDLED).
LEMMA SkipHandledKeeps ==
  ASSUME IInv, SkipHandled
  PROVE  IInv'
<1>1. cpc = "skip" /\ cpc \in InDequeue \ {"leave"} /\ cpc \notin Scanning
  BY DEF SkipHandled, ConsumerAt, InDequeue, Scanning
<1>2. CASE SlotAt(Front(heap)).isSet = "HANDLED"
  <2>1. /\ SameShape(heap, HeadAdvanced(heap))
        /\ HeapInv(HeadAdvanced(heap), headOfQueue, tailOfQueue, garbageListHead, Chain, tail, Unwritten)
    BY <1>1, <1>2, AdvanceFacts
  <2>2. MoveToNextBuffer(HeadAdvanced(heap))
    BY <1>2 DEF SkipHandled
  <2>3. CASE CanMove(HeadAdvanced(heap))
    <3>1. Continue("skip") /\ UNCHANGED scanVars
      BY <1>2, <2>3 DEF SkipHandled
    <3>2. TypeInv' /\ UNCHANGED <<tailOfQueue, tail, producerVars>> /\ cpc' = "skip" /\ ~flagMoveToNewBuffer'
      BY <1>1, <3>1, SameTypes, ContinueFacts
    <3> QED
      BY ONLY IInv, <2>1, <2>2, <2>3, <3>2, ConsumerMoves
  <2>4. CASE ~CanMove(HeadAdvanced(heap))
    <3>1. Return
      BY <1>2, <2>4 DEF SkipHandled, ReturnFalse
    <3>2. TypeInv' /\ UNCHANGED <<tailOfQueue, tail, producerVars>> /\ cpc' = "idle" /\ ~flagMoveToNewBuffer'
      BY <3>1, ReturnFacts
    <3> QED
      BY ONLY IInv, <2>1, <2>2, <3>2, ConsumerMoves
  <2> QED
    BY <2>3, <2>4
<1>3. CASE SlotAt(Front(heap)).isSet # "HANDLED"
  <2>1. Continue("lastBuffer") /\ UNCHANGED <<heap, headOfQueue, garbageListHead>> /\ UNCHANGED scanVars
    BY <1>3 DEF SkipHandled
  <2>2. "lastBuffer" \in InDequeue
    BY DEF InDequeue
  <2>3. TypeInv' /\ UNCHANGED <<tailOfQueue, tail, producerVars>> /\ cpc' = "lastBuffer" /\ ~flagMoveToNewBuffer'
    BY <1>1, <2>1, <2>2, SameTypes, ContinueFacts
  <2>4. ConsumerInv(heap, headOfQueue, Chain, cpc', temp', scan',
                    flagMoveToNewBuffer', flagBufferAllHandled')
    BY <1>1, <2>3, FrontFacts DEF ConsumerInv, Scanning
  <2> QED
    BY ONLY IInv, <2>1, <2>3, <2>4, ConsumerStill
<1> QED
  BY <1>2, <1>3

\* Steps to a state before the scan.
LEMMA StillBeforeScan ==
  ASSUME IInv, cpc \in InDequeue \ {"leave"}, cpc \notin Scanning, NEW pc \in {"first", "empty", "second"},
         Continue(pc), UNCHANGED <<heap, headOfQueue, garbageListHead>>, UNCHANGED scanVars
  PROVE  IInv'
<1>1. pc \in InDequeue
  BY DEF InDequeue
<1>2. TypeInv' /\ UNCHANGED <<tailOfQueue, tail, producerVars>> /\ cpc' = pc /\ ~flagMoveToNewBuffer'
  BY <1>1, SameTypes, ContinueFacts
<1>3. ConsumerInv(heap, headOfQueue, Chain, cpc', temp', scan',
                  flagMoveToNewBuffer', flagBufferAllHandled')
  BY <1>2, FrontFacts DEF ConsumerInv, Scanning
<1> QED
  BY ONLY IInv, UNCHANGED <<heap, headOfQueue, garbageListHead>>, <1>2, <1>3, ConsumerStill

\* dequeue() returns false.
LEMMA ReturnKeeps ==
  ASSUME IInv, Return, UNCHANGED <<heap, headOfQueue, garbageListHead>>
  PROVE  IInv'
<1>1. /\ TypeInv' /\ UNCHANGED <<tailOfQueue, tail, producerVars>>
      /\ ConsumerInv(heap, headOfQueue, Chain, cpc', temp', scan', flagMoveToNewBuffer', flagBufferAllHandled')
  BY ReturnFacts
<1> QED
  BY ONLY IInv, UNCHANGED <<heap, headOfQueue, garbageListHead>>, <1>1, ConsumerStill

\* headOfQueue == tailOfQueue.load().
LEMMA CheckLastBufferKeeps ==
  ASSUME IInv, CheckLastBuffer
  PROVE  IInv'
BY StillBeforeScan DEF CheckLastBuffer, ConsumerAt, InDequeue, Scanning

\* head == tail.load() % bufferSize.
LEMMA CheckEmptyKeeps ==
  ASSUME IInv, CheckEmpty
  PROVE  IInv'
BY StillBeforeScan, ReturnKeeps DEF CheckEmpty, ConsumerAt, InDequeue, Scanning, ReturnFalse

\* The first slot is SET: its item is returned.
LEMMA TakeFirstKeeps ==
  ASSUME IInv, TakeFirst
  PROVE  IInv'
<1>1. cpc \in InDequeue \ {"leave"} /\ cpc \notin Scanning
  BY DEF TakeFirst, ConsumerAt, InDequeue, Scanning
<1>2. CASE SlotAt(Front(heap)).isSet = "SET"
  <2>1. /\ SameShape(heap, HeadAdvanced(heap))
        /\ HeapInv(HeadAdvanced(heap), headOfQueue, tailOfQueue, garbageListHead, Chain, tail, Unwritten)
    BY <1>1, <1>2, AdvanceFacts
  <2>2. MoveToNextBuffer(HeadAdvanced(heap)) /\ Return
    BY <1>2 DEF TakeFirst, ReturnItem
  <2>3. TypeInv' /\ UNCHANGED <<tailOfQueue, tail, producerVars>> /\ cpc' = "idle" /\ ~flagMoveToNewBuffer'
    BY <2>2, ReturnFacts
  <2> QED
    BY ONLY IInv, <2>1, <2>2, <2>3, ConsumerMoves
<1>3. CASE SlotAt(Front(heap)).isSet # "SET"
  BY <1>1, <1>3, StillBeforeScan DEF TakeFirst
<1> QED
  BY <1>2, <1>3

\* A buffer after the first is not the first, and its head is at its start.
LEMMA NextFacts ==
  ASSUME IInv, NEW b \in Chain, heap[b].next # Null
  PROVE  /\ heap[b].next \in Chain /\ heap[b].next # headOfQueue /\ heap[b].next \in Nat
         /\ heap[heap[b].next].head = 0
<1>1. heap[b].next \in Chain /\ Pos(heap, b) < Pos(heap, heap[b].next)
      /\ Pos(heap, headOfQueue) <= Pos(heap, b)
  BY InvFacts DEF Linked
<1>2. b \in DOMAIN heap /\ heap[b].next \in DOMAIN heap /\ headOfQueue \in DOMAIN heap
      /\ \A c \in DOMAIN heap : c \in Nat
  BY <1>1, InvFacts, HeapFacts
<1>3. Pos(heap, b) \in Nat /\ Pos(heap, heap[b].next) \in Nat /\ Pos(heap, headOfQueue) \in Nat
  BY <1>2, InvFacts
<1>4. heap[b].next # headOfQueue
  BY ONLY <1>1, <1>3
<1>5. heap[heap[b].next].head = 0
  BY <1>1, <1>4 DEF IInv, HeapInv, SlotInv
<1> QED
  BY <1>1, <1>2, <1>4, <1>5

\* What the scan looks at is on the list.
LEMMA ScanFacts ==
  ASSUME IInv, cpc \in Scanning
  PROVE  /\ temp \in Place /\ temp.buffer \in Chain /\ temp.buffer \in DOMAIN heap
         /\ temp.buffer \in Nat /\ temp.at \in Nat
         /\ scan \in Place /\ scan.buffer \in Nat /\ scan.at \in Nat
         /\ cpc \in InDequeue \ {"leave"}
<1>1. temp \in Place /\ scan \in Place /\ temp.buffer \in Chain
  BY DEF IInv, TypeInv, ConsumerInv
<1> QED
  BY <1>1, InvFacts DEF Place, InDequeue, Scanning

\* The scan begins at the first slot.
LEMMA StartScanKeeps ==
  ASSUME IInv, StartScan
  PROVE  IInv'
<1>1. cpc = "second" /\ cpc \in InDequeue \ {"leave"}
      /\ UNCHANGED <<heap, headOfQueue, garbageListHead>>
  BY DEF StartScan, ConsumerAt, InDequeue
<1>2. CASE SlotAt(Front(heap)).isSet = "EMPTY"
  <2>1. /\ Continue("scan") /\ temp' = Front(heap)
        /\ UNCHANGED <<scan, flagMoveToNewBuffer, flagBufferAllHandled>>
    BY <1>2 DEF StartScan
  <2>2. /\ heap[headOfQueue].head < BufferSize /\ heap[headOfQueue].head \in Nat
        /\ temp' \in Place /\ temp'.buffer = headOfQueue /\ temp'.at = heap[headOfQueue].head
    BY <1>1, <2>1, FrontFacts
  <2>3. "scan" \in InDequeue
    BY DEF InDequeue, Scanning
  <2>4. scan' \in Place /\ flagMoveToNewBuffer' \in BOOLEAN /\ flagBufferAllHandled' \in BOOLEAN
    BY <2>1 DEF IInv, TypeInv
  <2>5. TypeInv' /\ UNCHANGED <<tailOfQueue, tail, producerVars>> /\ cpc' = "scan"
    BY <2>1, <2>2, <2>3, <2>4, ContinueFacts
  <2>6. headOfQueue \in Chain
    BY InvFacts
  <2>7. ~flagMoveToNewBuffer'
    BY <1>1, <2>1 DEF IInv, ConsumerInv, Scanning
  <2>8. ConsumerInv(heap, headOfQueue, Chain, cpc', temp', scan',
                    flagMoveToNewBuffer', flagBufferAllHandled')
    BY ONLY <2>2, <2>5, <2>6, <2>7, BufferSizeAssumption DEF ConsumerInv, InDequeue, Scanning, Slots
  <2> QED
    BY ONLY IInv, <1>1, <2>5, <2>8, ConsumerStill
<1>3. CASE SlotAt(Front(heap)).isSet # "EMPTY"
  BY <1>1, <1>3, ReturnKeeps DEF StartScan, ReturnFalse
<1> QED
  BY <1>2, <1>3

\* The scan looks at a slot.
LEMMA ScanSlotKeeps ==
  ASSUME IInv, ScanSlot
  PROVE  IInv'
<1>1. cpc = "scan" /\ cpc \in Scanning /\ UNCHANGED <<heap, headOfQueue, garbageListHead>>
  BY DEF ScanSlot, ConsumerAt, Scanning
<1>2. /\ temp \in Place /\ temp.buffer \in Chain /\ temp.buffer \in DOMAIN heap
      /\ temp.buffer \in Nat /\ temp.at \in Nat /\ scan \in Place
      /\ cpc \in InDequeue \ {"leave"}
  BY <1>1, ScanFacts
<1>3. /\ heap[headOfQueue].head < BufferSize
      /\ flagMoveToNewBuffer => temp.buffer # headOfQueue
      /\ flagBufferAllHandled =>
           \A i \in Slots : heap[temp.buffer].head <= i /\ i < temp.at =>
             heap[temp.buffer].slots[i].isSet = "HANDLED"
      /\ temp.at < BufferSize
  BY <1>1, <1>2 DEF IInv, ConsumerInv
<1>4. /\ flagMoveToNewBuffer \in BOOLEAN /\ flagBufferAllHandled \in BOOLEAN
  BY DEF IInv, TypeInv
<1>5. CASE SlotAt(temp).isSet = "SET"
  <2>1. /\ scan' = Front(heap) /\ Continue("rescan")
        /\ UNCHANGED <<temp, flagMoveToNewBuffer, flagBufferAllHandled>>
    BY <1>5 DEF ScanSlot
  <2>2. "rescan" \in InDequeue
    BY DEF InDequeue, Scanning
  <2>3. scan' \in Place /\ scan'.buffer = headOfQueue
    BY <1>2, <2>1, FrontFacts
  <2>4. TypeInv' /\ UNCHANGED <<tailOfQueue, tail, producerVars>> /\ cpc' = "rescan"
    BY <1>2, <1>4, <2>1, <2>2, <2>3, ContinueFacts
  <2>5. headOfQueue \in Chain /\ Pos(heap, headOfQueue) <= Pos(heap, temp.buffer)
    BY <1>2, InvFacts DEF Linked
  <2>6. heap[temp.buffer].slots[temp.at].isSet = "SET"
    BY <1>5 DEF SlotAt
  <2>7. ConsumerInv(heap, headOfQueue, Chain, cpc', temp', scan',
                    flagMoveToNewBuffer', flagBufferAllHandled')
    BY ONLY <1>2, <1>3, <2>1, <2>3, <2>4, <2>5, <2>6 DEF ConsumerInv, Scanning
  <2> QED
    BY ONLY IInv, <1>1, <2>4, <2>7, ConsumerStill
<1>6. CASE SlotAt(temp).isSet # "SET"
  <2> DEFINE pc == IF temp.at + 1 >= BufferSize THEN "scanEnd" ELSE "scan"
  <2>1. /\ temp' = [temp EXCEPT !.at = @ + 1] /\ Continue(pc)
        /\ flagBufferAllHandled' = (flagBufferAllHandled /\ SlotAt(temp).isSet = "HANDLED")
        /\ UNCHANGED <<scan, flagMoveToNewBuffer>>
    BY <1>6 DEF ScanSlot
  <2>2. pc \in InDequeue /\ pc \in {"scan", "scanEnd"}
    BY DEF InDequeue, Scanning
  <2>3. temp' \in Place /\ temp'.buffer = temp.buffer /\ temp'.at = temp.at + 1
    BY <1>2, <2>1 DEF Place
  <2>4. /\ pc = "scan" => temp'.at < BufferSize
        /\ pc = "scanEnd" => temp'.at = BufferSize
    BY <1>2, <1>3, <2>3, BufferSizeAssumption
  <2> HIDE DEF pc
  <2>5. flagBufferAllHandled' \in BOOLEAN
    BY <2>1
  <2>6. TypeInv' /\ UNCHANGED <<tailOfQueue, tail, producerVars>> /\ cpc' = pc
    BY <1>2, <1>4, <2>1, <2>2, <2>3, <2>5, ContinueFacts
  <2>7. ASSUME flagBufferAllHandled', NEW i \in Slots, heap[temp.buffer].head <= i, i < temp.at + 1
        PROVE  heap[temp.buffer].slots[i].isSet = "HANDLED"
    <3>1. flagBufferAllHandled /\ heap[temp.buffer].slots[temp.at].isSet = "HANDLED"
      BY <2>1, <2>7 DEF SlotAt
    <3>2. i < temp.at \/ i = temp.at
      BY <1>2, <2>7, BufferSizeAssumption DEF Slots
    <3> QED
      BY <1>3, <2>7, <3>1, <3>2
  <2>8. ConsumerInv(heap, headOfQueue, Chain, cpc', temp', scan',
                    flagMoveToNewBuffer', flagBufferAllHandled')
    BY ONLY <1>2, <1>3, <2>1, <2>2, <2>3, <2>4, <2>6, <2>7 DEF ConsumerInv, Scanning
  <2> QED
    BY ONLY IInv, <1>1, <2>6, <2>8, ConsumerStill
<1> QED
  BY <1>5, <1>6

\* The scan goes on in buffer b.
LEMMA ScanBufferFacts ==
  ASSUME IInv, NEW b \in Chain, b \in Nat, b # headOfQueue, heap[b].head = 0, ScanBuffer(b)
  PROVE  /\ TypeInv' /\ UNCHANGED <<tailOfQueue, tail, producerVars>>
         /\ cpc' = "scan" /\ temp' = [buffer |-> b, at |-> 0]
<1>1. Continue("scan") /\ temp' = [buffer |-> b, at |-> 0] /\ scan' = scan
      /\ flagBufferAllHandled' = TRUE /\ flagMoveToNewBuffer' = TRUE
  BY DEF ScanBuffer
<1>2. "scan" \in InDequeue /\ temp' \in Place /\ scan' \in Place
  BY <1>1 DEF InDequeue, Scanning, Place, IInv, TypeInv
<1> QED
  BY <1>1, <1>2, ContinueFacts

\* The scan goes on in the next buffer.
LEMMA ScanNextBufferKeeps ==
  ASSUME IInv, ScanNextBuffer
  PROVE  IInv'
<1>1. cpc = "scanEnd" /\ cpc \in Scanning /\ UNCHANGED <<heap, headOfQueue, garbageListHead>>
  BY DEF ScanNextBuffer, ConsumerAt, Scanning
<1>2. temp.buffer \in Chain /\ cpc \in InDequeue \ {"leave"}
  BY <1>1, ScanFacts
<1>3. CASE heap[temp.buffer].next = Null
  BY <1>1, <1>3, ReturnKeeps DEF ScanNextBuffer, ReturnFalse
<1>4. CASE heap[temp.buffer].next # Null
  <2> DEFINE b == heap[temp.buffer].next
  <2>1. b \in Chain /\ b # headOfQueue /\ b \in Nat /\ heap[b].head = 0
    BY <1>2, <1>4, NextFacts
  <2>2. ScanBuffer(b)
    BY <1>4 DEF ScanNextBuffer
  <2> HIDE DEF b
  <2>3. /\ TypeInv' /\ UNCHANGED <<tailOfQueue, tail, producerVars>>
        /\ cpc' = "scan" /\ temp' = [buffer |-> b, at |-> 0]
    BY <2>1, <2>2, ScanBufferFacts
  <2>4. heap[headOfQueue].head < BufferSize
    BY <1>2, FrontFacts
  <2>5. ConsumerInv(heap, headOfQueue, Chain, cpc', temp', scan',
                    flagMoveToNewBuffer', flagBufferAllHandled')
    BY ONLY <2>1, <2>3, <2>4, BufferSizeAssumption DEF ConsumerInv, Scanning, Slots
  <2> QED
    BY ONLY IInv, <1>1, <2>3, <2>5, ConsumerStill
<1> QED
  BY <1>3, <1>4

\* fold(): the buffer it takes out has no EMPTY slot, is not the first and not
\* tailOfQueue.
LEMMA FoldKeeps ==
  ASSUME IInv, Fold
  PROVE  /\ IInv'
         /\ \/ UNCHANGED heap
            \/ /\ Folded(heap, heap', temp.buffer, garbageListHead)
               /\ Chain' = Chain \ {temp.buffer}
               /\ heap'[tailOfQueue].next = heap[tailOfQueue].next
<1> DEFINE b == temp.buffer
           next == heap[b].next
           prev == heap[b].prev
<1>1. /\ cpc = "scanEnd" /\ cpc \in Scanning /\ headOfQueue' = headOfQueue
      /\ flagBufferAllHandled /\ flagMoveToNewBuffer
  BY DEF Fold, ConsumerAt, Scanning
<1>2. b \in Chain /\ b \in DOMAIN heap /\ cpc \in InDequeue \ {"leave"}
  BY <1>1, ScanFacts
<1>3. CASE b = tailOfQueue \/ next = Null
  <2>1. Return /\ UNCHANGED <<heap, headOfQueue, garbageListHead>>
    BY <1>1, <1>3 DEF Fold, ReturnFalse
  <2> QED
    BY ONLY IInv, <2>1, ReturnKeeps
<1>4. CASE ~(b = tailOfQueue \/ next = Null)
  <2>1. /\ heap' = [heap EXCEPT ![next].prev = prev, ![prev].next = next,
                                ![b].next = garbageListHead, ![b].memory = "folded"]
        /\ garbageListHead' = b
        /\ ScanBuffer(next)
    BY <1>4 DEF Fold, GarbageLink, AfterFold
  <2>2. next \in Chain /\ next # headOfQueue /\ next \in Nat /\ heap[next].head = 0
    BY <1>2, <1>4, NextFacts
  <2>3. b # headOfQueue /\ heap[b].head = 0
    <3>1. b # headOfQueue
      BY <1>1 DEF IInv, ConsumerInv
    <3> QED
      BY <1>2, <3>1 DEF IInv, HeapInv, SlotInv
  <2>4. \A i \in Slots : heap[b].slots[i].isSet # "EMPTY"
    <3>1. temp.at = BufferSize /\ \A i \in Slots : heap[b].head <= i /\ i < temp.at =>
            heap[b].slots[i].isSet = "HANDLED"
      BY <1>1 DEF IInv, ConsumerInv
    <3>2. \A i \in Slots : 0 <= i /\ i < BufferSize
      BY BufferSizeAssumption DEF Slots
    <3> QED
      BY <2>3, <3>1, <3>2
  <2>5. /\ prev \in Chain /\ heap[prev].next = b /\ Pos(heap, prev) < Pos(heap, b)
        /\ Pos(heap, b) < Pos(heap, next)
    <3>1. prev \in Chain /\ heap[prev].next = b
      BY <1>2, <2>3, InvFacts DEF Linked
    <3>2. b # Null
      BY <1>2, InvFacts, HeapFacts DEF Null
    <3> QED
      BY <1>2, <1>4, <3>1, <3>2, InvFacts DEF Linked
  <2>6. /\ prev \in DOMAIN heap /\ next \in DOMAIN heap /\ prev # b /\ next # b /\ prev # next
    <3>1. prev \in DOMAIN heap /\ next \in DOMAIN heap
      BY <2>2, <2>5, InvFacts
    <3>2. Pos(heap, prev) \in Nat /\ Pos(heap, b) \in Nat /\ Pos(heap, next) \in Nat
      BY <1>2, <3>1, InvFacts
    <3> QED
      BY ONLY <2>5, <3>1, <3>2
  <2>7. HeapType(heap) /\ garbageListHead \in 0 .. Len(heap) /\ Unwritten \subseteq Nat
        /\ HeapInv(heap, headOfQueue, tailOfQueue, garbageListHead, Chain, tail, Unwritten)
        /\ tailOfQueue \in DOMAIN heap /\ headOfQueue \in Chain
        /\ \A c \in DOMAIN heap : Pos(heap, c) \in Nat
    BY InvFacts DEF HeapInv
  <2>8. Folded(heap, heap', b, garbageListHead)
    <3>1. heap[b].prev = prev /\ heap[b].next = next
      OBVIOUS
    <3>2. heap' = Unlinked(heap, b, prev, next, garbageListHead)
      BY <2>1 DEF Unlinked
    <3> HIDE DEF b, next, prev
    <3> QED
      BY ONLY <1>2, <2>6, <2>7, <3>1, <3>2, FoldFields
  <2>9. /\ HeapInv(heap', headOfQueue, tailOfQueue, b, Chain \ {b}, tail, Unwritten)
        /\ Known(heap, Chain) \subseteq Known(heap', Chain \ {b})
        /\ heap'[tailOfQueue].next = heap[tailOfQueue].next
    <3>1. b # tailOfQueue /\ heap[b].next # Null
      BY <1>4
    <3>2. Folds(heap, heap', headOfQueue, tailOfQueue, garbageListHead, Chain, tail, Unwritten, b)
      BY ONLY <1>2, <2>3, <2>4, <2>7, <2>8, <3>1 DEF Folds
    <3> HIDE DEF b, next, prev
    <3>3. /\ HeapInv(heap', headOfQueue, tailOfQueue, b, Chain \ {b}, tail, Unwritten)
          /\ Known(heap, Chain) \subseteq Known(heap', Chain \ {b})
          /\ SameNext(heap, heap', tailOfQueue)
      BY ONLY <3>2, HeapInvFolds
    <3> QED
      BY ONLY <3>3 DEF SameNext
  <2>10. /\ DOMAIN heap' = DOMAIN heap
         /\ \A c \in DOMAIN heap : Pos(heap', c) = Pos(heap, c) /\ heap'[c].head = heap[c].head
                                   /\ heap'[c].slots = heap[c].slots
    BY ONLY <2>8 DEF Folded
  <2>11. Evolves(heap, Chain, tailOfQueue, heap', Chain \ {b}, tailOfQueue)
    <3>1. Pos(heap, tailOfQueue) <= Pos(heap', tailOfQueue)
      BY ONLY <2>7, <2>10
    <3> QED
      BY ONLY <2>9, <2>10, <3>1 DEF Evolves
  <2>12. /\ TypeInv' /\ UNCHANGED <<tailOfQueue, tail, producerVars>>
         /\ cpc' = "scan" /\ temp' = [buffer |-> next, at |-> 0]
    <3> HIDE DEF next
    <3> QED
      BY <2>1, <2>2, ScanBufferFacts
  <2>13. ConsumerInv(heap', headOfQueue', Chain \ {b}, cpc', temp', scan',
                     flagMoveToNewBuffer', flagBufferAllHandled')
    <3>1. heap[headOfQueue].head < BufferSize
      BY <1>2, FrontFacts
    <3>2. heap'[headOfQueue].head < BufferSize /\ headOfQueue' = headOfQueue
      BY <1>1, <2>7, <2>10, <3>1, InvFacts
    <3>3. next \in Chain \ {b} /\ heap'[next].head = 0
      BY <2>2, <2>6, <2>10
    <3> HIDE DEF b, next
    <3> QED
      BY ONLY <2>2, <2>12, <3>2, <3>3, BufferSizeAssumption DEF ConsumerInv, Scanning, Slots
  <2>14. HeapInv(heap', headOfQueue', tailOfQueue, garbageListHead', Chain \ {b}, tail, Unwritten)
    BY <1>1, <2>1, <2>9
  <2>15. IInv' /\ Chain' = Chain \ {b}
    <3> HIDE DEF b, next, prev
    <3> QED
      BY ONLY IInv, <2>9, <2>11, <2>12, <2>13, <2>14, ConsumerStep
  <2> QED
    BY <2>8, <2>9, <2>15
<1> QED
  BY <1>3, <1>4

\* The scan from the head again, up to what was found.
LEMMA ReScanKeeps ==
  ASSUME IInv, ReScan
  PROVE  IInv'
<1>1. /\ cpc = "rescan" /\ cpc \in Scanning
      /\ UNCHANGED <<heap, headOfQueue, garbageListHead>>
      /\ UNCHANGED <<flagMoveToNewBuffer, flagBufferAllHandled>>
  BY DEF ReScan, ConsumerAt, Scanning
<1>2. /\ temp \in Place /\ temp.buffer \in Chain /\ temp.buffer \in DOMAIN heap
      /\ temp.buffer \in Nat /\ temp.at \in Nat /\ scan \in Place /\ scan.buffer \in Nat /\ scan.at \in Nat
      /\ cpc \in InDequeue \ {"leave"}
  BY <1>1, ScanFacts
<1>3. /\ heap[headOfQueue].head < BufferSize
      /\ temp.at < BufferSize /\ heap[temp.buffer].slots[temp.at].isSet = "SET"
      /\ scan.buffer \in Chain /\ Pos(heap, scan.buffer) <= Pos(heap, temp.buffer)
  BY <1>1, <1>2 DEF IInv, ConsumerInv
<1>4. /\ flagMoveToNewBuffer' \in BOOLEAN /\ flagBufferAllHandled' \in BOOLEAN
  BY <1>1 DEF IInv, TypeInv
<1>5. /\ Front(heap) \in Place /\ Front(heap).buffer = headOfQueue /\ headOfQueue \in Chain
      /\ \A c \in Chain : Pos(heap, headOfQueue) <= Pos(heap, c)
  BY <1>2, FrontFacts, InvFacts DEF Linked
<1>6. "rescan" \in InDequeue /\ "take" \in InDequeue
  BY DEF InDequeue, Scanning
<1>7. CASE /\ scan.buffer = temp.buffer /\ scan.at >= temp.at
           /\ Continue("take")
           /\ UNCHANGED <<temp, scan>>
  <2>1. TypeInv' /\ UNCHANGED <<tailOfQueue, tail, producerVars>> /\ cpc' = "take"
    BY <1>2, <1>4, <1>6, <1>7, ContinueFacts
  <2>2. ConsumerInv(heap, headOfQueue, Chain, cpc', temp', scan',
                    flagMoveToNewBuffer', flagBufferAllHandled')
    BY ONLY <1>2, <1>3, <1>7, <2>1 DEF ConsumerInv, Scanning
  <2> QED
    BY ONLY IInv, <1>1, <2>1, <2>2, ConsumerStill
<1>8. ASSUME Continue("rescan"), temp' \in Place, scan' \in Place,
             temp'.buffer \in Chain, temp'.at < BufferSize,
             heap[temp'.buffer].slots[temp'.at].isSet = "SET",
             scan'.buffer \in Chain, Pos(heap, scan'.buffer) <= Pos(heap, temp'.buffer)
      PROVE  IInv'
  <2>1. TypeInv' /\ UNCHANGED <<tailOfQueue, tail, producerVars>> /\ cpc' = "rescan"
    BY <1>4, <1>6, <1>8, ContinueFacts
  <2>2. ConsumerInv(heap, headOfQueue, Chain, cpc', temp', scan',
                    flagMoveToNewBuffer', flagBufferAllHandled')
    BY ONLY <1>3, <1>8, <2>1 DEF ConsumerInv, Scanning
  <2> QED
    BY ONLY IInv, <1>1, <2>1, <2>2, ConsumerStill
<1>9. CASE /\ scan.buffer # temp.buffer \/ scan.at < temp.at
           /\ Continue("rescan")
           /\ scan.at >= BufferSize
           /\ scan' = [buffer |-> heap[scan.buffer].next, at |-> heap[heap[scan.buffer].next].head]
           /\ UNCHANGED temp
  <2>1. scan.buffer # temp.buffer
    BY <1>2, <1>3, <1>9, BufferSizeAssumption
  <2>2. Pos(heap, scan.buffer) < Pos(heap, temp.buffer)
    <3>1. Pos(heap, scan.buffer) # Pos(heap, temp.buffer)
      BY <1>2, <1>3, <2>1, InvFacts DEF Linked
    <3>2. Pos(heap, scan.buffer) \in Nat /\ Pos(heap, temp.buffer) \in Nat
      BY <1>2, <1>3, InvFacts
    <3> QED
      BY ONLY <1>3, <3>1, <3>2
  <2>3. heap[scan.buffer].next # Null /\ Pos(heap, heap[scan.buffer].next) <= Pos(heap, temp.buffer)
    BY <1>2, <1>3, <2>2, InvFacts DEF Linked
  <2>4. /\ heap[scan.buffer].next \in Chain /\ heap[scan.buffer].next \in Nat
        /\ heap[heap[scan.buffer].next].head = 0
    BY <1>3, <2>3, NextFacts
  <2>5. scan' \in Place /\ scan'.buffer = heap[scan.buffer].next
    BY <1>9, <2>4 DEF Place
  <2> QED
    BY ONLY <1>2, <1>3, <1>8, <1>9, <2>3, <2>4, <2>5
<1>10. CASE /\ Continue("rescan") /\ scan.at < BufferSize /\ SlotAt(scan).isSet = "SET"
            /\ temp' = scan /\ scan' = Front(heap)
  <2>1. heap[scan.buffer].slots[scan.at].isSet = "SET"
    BY <1>10 DEF SlotAt
  <2> QED
    BY ONLY <1>2, <1>3, <1>5, <1>8, <1>10, <2>1
<1>11. CASE /\ Continue("rescan") /\ scan' = [scan EXCEPT !.at = @ + 1] /\ UNCHANGED temp
  <2>1. scan' \in Place /\ scan'.buffer = scan.buffer
    BY <1>2, <1>11 DEF Place
  <2> QED
    BY ONLY <1>2, <1>3, <1>8, <1>11, <2>1
<1> QED
  BY <1>7, <1>9, <1>10, <1>11 DEF ReScan

\* What was found is returned, and its slot HANDLED.
LEMMA TakeFoundKeeps ==
  ASSUME IInv, TakeFound
  PROVE  IInv'
<1> DEFINE h == Marked(heap, temp.buffer, temp.at)
<1>1. cpc = "take" /\ cpc \in Scanning /\ Return
  BY DEF TakeFound, ConsumerAt, Scanning, ReturnItem
<1>2. /\ temp \in Place /\ temp.buffer \in Chain /\ temp.buffer \in DOMAIN heap /\ temp.at \in Nat
      /\ cpc \in InDequeue \ {"leave"}
  BY <1>1, ScanFacts
<1>3. temp.at < BufferSize /\ heap[temp.buffer].slots[temp.at].isSet = "SET"
  BY <1>1 DEF IInv, ConsumerInv
<1>4. temp.at \in Slots
  BY <1>2, <1>3, BufferSizeAssumption DEF Slots
<1>5. /\ HeapInv(heap, headOfQueue, tailOfQueue, garbageListHead, Chain, tail, Unwritten)
      /\ Unwritten \subseteq Nat /\ headOfQueue \in DOMAIN heap /\ tailOfQueue \in DOMAIN heap
  BY InvFacts
<1>6. /\ TypeInv' /\ UNCHANGED <<tailOfQueue, tail, producerVars>>
      /\ cpc' = "idle" /\ ~flagMoveToNewBuffer'
      /\ \A g, hd, C : ConsumerInv(g, hd, C, cpc', temp', scan', flagMoveToNewBuffer', flagBufferAllHandled')
  BY <1>1, ReturnFacts
<1>7. IF temp = Front(heap)
      THEN MoveToNextBuffer(HeadAdvanced(h))
      ELSE heap' = h /\ UNCHANGED <<garbageListHead, headOfQueue>>
  BY DEF TakeFound, Marked
<1>8. h = Marked(heap, temp.buffer, temp.at)
  OBVIOUS
<1> HIDE DEF h
<1>9. /\ HeapInv(h, headOfQueue, tailOfQueue, garbageListHead, Chain, tail, Unwritten)
      /\ SameShape(heap, h)
      /\ \A c \in DOMAIN heap : h[c].head = heap[c].head
      /\ h[temp.buffer].slots[temp.at].isSet = "HANDLED"
  <2>1. heap[temp.buffer].slots[temp.at].isSet # "EMPTY"
    BY <1>3
  <2>2. Markable(heap, headOfQueue, tailOfQueue, garbageListHead, Chain, tail, Unwritten,
                 temp.buffer, temp.at)
    BY ONLY <1>2, <1>4, <1>5, <2>1 DEF Markable
  <2>3. /\ HeapInv(h, headOfQueue, tailOfQueue, garbageListHead, Chain, tail, Unwritten)
        /\ IsMarked(heap, h, temp.buffer, temp.at)
    BY ONLY <1>8, <2>2, HandledMarks
  <2> QED
    BY ONLY <2>3 DEF IsMarked
<1>10. CASE temp = Front(heap)
  <2>1. /\ temp.buffer = headOfQueue /\ temp.at = heap[headOfQueue].head
        /\ heap[headOfQueue].head < BufferSize
    BY <1>2, <1>10, FrontFacts
  <2>2. h[headOfQueue].head < BufferSize /\ h[headOfQueue].slots[h[headOfQueue].head].isSet # "EMPTY"
    BY ONLY <1>5, <1>9, <2>1
  <2>3. HeadAdvanced(h) = Advanced(h, headOfQueue)
    BY DEF HeadAdvanced, Advanced
  <2>4. /\ HeapInv(HeadAdvanced(h), headOfQueue, tailOfQueue, garbageListHead, Chain, tail, Unwritten)
        /\ SameShape(h, HeadAdvanced(h))
    BY ONLY <1>5, <1>9, <2>2, <2>3, HeadAdvances
  <2>5. SameShape(heap, HeadAdvanced(h))
    BY ONLY <1>9, <2>4 DEF SameShape
  <2>6. MoveToNextBuffer(HeadAdvanced(h))
    BY <1>7, <1>10
  <2> QED
    BY ONLY IInv, <1>6, <2>4, <2>5, <2>6, ConsumerMoves
<1>11. CASE temp # Front(heap)
  <2>1. heap' = h /\ UNCHANGED <<garbageListHead, headOfQueue>>
    BY <1>7, <1>11
  <2>2. HeapInv(heap', headOfQueue', tailOfQueue, garbageListHead', Chain, tail, Unwritten)
    BY <1>9, <2>1
  <2>3. /\ DOMAIN heap' = DOMAIN heap
        /\ \A c \in DOMAIN heap : Pos(heap', c) = Pos(heap, c) /\ heap'[c].memory = heap[c].memory
                                  /\ heap'[c].next = heap[c].next
    BY ONLY <1>9, <2>1 DEF SameShape
  <2>4. Evolves(heap, Chain, tailOfQueue, heap', Chain, tailOfQueue)
    <3>1. Pos(heap, tailOfQueue) \in Nat
      BY InvFacts
    <3>2. Pos(heap, tailOfQueue) <= Pos(heap', tailOfQueue)
      BY ONLY <1>5, <2>3, <3>1
    <3> QED
      BY ONLY <2>3, <3>2 DEF Evolves, Known
  <2>5. heap'[tailOfQueue].next = heap[tailOfQueue].next
    BY ONLY <1>5, <2>3
  <2>6. ConsumerInv(heap', headOfQueue', Chain, cpc', temp', scan', flagMoveToNewBuffer', flagBufferAllHandled')
    BY <1>6
  <2> QED
    BY ONLY IInv, <1>6, <2>2, <2>4, <2>5, <2>6, ConsumerStep
<1> QED
  BY <1>10, <1>11

\* All steps of dequeue().
LEMMA DequeueStepKeeps ==
  ASSUME IInv, DequeueStep
  PROVE  IInv'
BY BeginDequeueKeeps, LeaveBufferKeeps, SkipHandledKeeps, CheckLastBufferKeeps, CheckEmptyKeeps,
   TakeFirstKeeps, StartScanKeeps, ScanSlotKeeps, FoldKeeps, ScanNextBufferKeeps, ReScanKeeps,
   TakeFoundKeeps
DEF DequeueStep

-----------------------------------------------------------------------------
(* The number of claims: a sum over the producers.                         *)

\* MapThenSumSet, as Sum.
LEMMA ClaimsIsSum == Claims = Sum(sent, Producers)
BY Zenon DEF Claims, MapThenSumSet, MapThenFoldSet, Sum, SumOver, Pick

-----------------------------------------------------------------------------
(* The invariant, and what it implies.                                     *)

\* tail counts the claims.
Counted == tail = Claims

\* The inductive invariant.
Inv == IInv /\ Counted

\* The heap at the beginning is one empty buffer.
LEMMA FirstBuffer ==
  ASSUME NEW h, h = <<NewBuffer(Null, 1)>>
  PROVE  /\ HeapType(h) /\ Len(h) = 1 /\ DOMAIN h = {1}
         /\ Pos(h, 1) = 1 /\ h[1].head = 0 /\ h[1].prev = Null /\ h[1].next = Null
         /\ h[1].memory = "live"
         /\ \A i \in Slots : h[1].slots[i].isSet = "EMPTY"
<1> DEFINE f == NewBuffer(Null, 1)
<1>1. /\ f.positionInQueue = 1 /\ f.head = 0 /\ f.prev = Null /\ f.next = Null /\ f.memory = "live"
      /\ \A i \in Slots : f.slots[i].isSet = "EMPTY"
  BY DEF NewBuffer
<1>2. f \in BufferType
  <2>1. 0 \in 0 .. BufferSize
    BY TimesFacts
  <2>2. [i \in Slots |-> [isSet |-> "EMPTY", data |-> <<>>]] \in [Slots -> SlotType]
    BY DEF SlotType, States, Data
  <2> QED
    BY <2>1, <2>2 DEF NewBuffer, BufferType, Null
<1> HIDE DEF f
<1>3. h = <<f>>
  BY DEF f
<1>4. h \in Seq(BufferType) /\ Len(h) = 1 /\ DOMAIN h = 1 .. 1 /\ h[1] = f
  BY <1>2, <1>3
<1>5. DOMAIN h = {1}
  BY <1>4
<1> QED
  BY <1>1, <1>4, <1>5 DEF HeapType, Pos, Null

\* The invariant holds at the beginning.
LEMMA InitInv ==
  ASSUME Init
  PROVE  Inv
<1>1. /\ HeapType(heap) /\ Len(heap) = 1 /\ DOMAIN heap = {1}
      /\ Pos(heap, 1) = 1 /\ heap[1].head = 0 /\ heap[1].prev = Null /\ heap[1].next = Null
      /\ heap[1].memory = "live"
      /\ \A i \in Slots : heap[1].slots[i].isSet = "EMPTY"
  BY FirstBuffer DEF Init
<1>2. /\ headOfQueue = 1 /\ tailOfQueue = 1 /\ tail = 0 /\ garbageListHead = Null
      /\ \A p \in Producers : ppc[p] = "idle" /\ sent[p] = 0
      /\ cpc = "idle" /\ flagMoveToNewBuffer = FALSE
  BY DEF Init
<1>3. TypeInv
  BY DEF Init, TypeInv, NoPlace, Place, Null
<1>4. Linked(heap, 1, {1})
  BY <1>1 DEF Linked
<1>5. Chain = {1}
  BY <1>1, <1>2, <1>4, ReachIsChain DEF Chain
<1>6. Lo(heap, 1) = 0 /\ Unwritten \subseteq Nat
  BY <1>1, BufferSizeAssumption DEF Lo, Times, Unwritten
<1>7. Back(heap, 1, {1}, Unwritten)
  BY <1>1 DEF Back
<1>8. Bounded(heap, 1, 0)
  BY <1>1 DEF Bounded
<1>9. SlotInv(heap, 1, 1, {1}, Unwritten)
  <2>1. \A l \in Unwritten : Lo(heap, 1) <= l
    BY <1>6
  <2>2. ASSUME NEW l \in Unwritten, Holds(heap, 1, l)
        PROVE  heap[1].slots[l - Lo(heap, 1)].isSet = "EMPTY" /\ heap[1].head <= l - Lo(heap, 1)
    <3>1. l \in Nat /\ l - Lo(heap, 1) = l
      BY <1>6
    <3>2. l \in Slots
      <4>1. Hi(heap, 1) = BufferSize
        BY <1>1, BufferSizeAssumption DEF Hi, Times
      <4> QED
        BY <2>2, <3>1, <4>1, BufferSizeAssumption DEF Holds, Slots
    <3> QED
      BY <1>1, <3>1, <3>2
  <2> QED
    BY <1>1, <2>1, <2>2 DEF SlotInv
<1>10. GarbageInv(heap, Null, {1})
  <2>1. [i \in Nat |-> 0] \in [Nat -> Nat]
    OBVIOUS
  <2>2. Garbage(heap, Null, {1}, {}, [i \in Nat |-> 0])
    BY DEF Garbage
  <2> QED
    BY <2>1, <2>2 DEF GarbageInv
<1>11. HeapInv(heap, headOfQueue, tailOfQueue, garbageListHead, Chain, tail, Unwritten)
  BY <1>1, <1>2, <1>4, <1>5, <1>7, <1>8, <1>9, <1>10 DEF HeapInv, Null
<1>12. ProducerInv(heap, Chain, tailOfQueue, tail)
  BY <1>2 DEF ProducerInv, Seated, Swinging, AtTail, InEnqueue, Seeking
<1>13. ConsumerInv(heap, headOfQueue, Chain, cpc, temp, scan, flagMoveToNewBuffer, flagBufferAllHandled)
  BY <1>2, IdleConsumer
<1>14. Counted
  <2>1. sent \in [Producers -> Nat]
    BY <1>3 DEF TypeInv
  <2>2. Sum(sent, Producers) = 0
    BY <1>2, <2>1, ProducersAssumption, SumOfNothing
  <2> QED
    BY <1>2, <2>2, ClaimsIsSum DEF Counted
<1> QED
  BY <1>3, <1>11, <1>12, <1>13, <1>14 DEF Inv, IInv

\* Only claims count.
LEMMA ClaimsStay ==
  ASSUME Counted, UNCHANGED <<sent, tail>>
  PROVE  Counted'
<1>1. Claims' = Sum(sent', Producers)
  BY Zenon DEF Claims, MapThenSumSet, MapThenFoldSet, Sum, SumOver, Pick
<1>2. Claims' = Claims
  BY <1>1, ClaimsIsSum
<1> QED
  BY <1>2 DEF Counted

\* As long as no index is about to wrap around, every step keeps the invariant.
LEMMA NextKeepsInv ==
  ASSUME Inv, RoomLeft, [Next]_vars
  PROVE  Inv'
<1>1. CASE UNCHANGED vars
  <2>1. UNCHANGED <<heap, queueVars, producerVars, cpc, temp, scan,
                    flagMoveToNewBuffer, flagBufferAllHandled>>
    BY <1>1 DEF vars, consumerVars
  <2>2. UNCHANGED <<sent, tail>>
    BY <1>1 DEF vars, queueVars, producerVars
  <2> QED
    BY <2>1, <2>2, IdleStep, ClaimsStay DEF Inv
<1>2. ASSUME NEW p \in Producers, Claim(p)
      PROVE  Inv'
  <2>1. IInv' /\ tail' = tail + 1 /\ sent' = [sent EXCEPT ![p] = @ + 1]
    BY <1>2, ClaimKeeps DEF Inv
  <2>2. sent \in [Producers -> Nat]
    BY DEF Inv, IInv, TypeInv
  <2>3. /\ sent' \in [Producers -> Nat] /\ sent'[p] = sent[p] + 1
        /\ \A q \in Producers \ {p} : sent'[q] = sent[q]
    BY <2>1, <2>2
  <2>4. Sum(sent', Producers) = Sum(sent, Producers) + 1
    BY <2>2, <2>3, ProducersAssumption, SumGrows
  <2>5. Claims' = Sum(sent', Producers)
    BY Zenon DEF Claims, MapThenSumSet, MapThenFoldSet, Sum, SumOver, Pick
  <2>6. Claims' = Claims + 1
    BY <2>4, <2>5, ClaimsIsSum
  <2>7. tail = Claims
    BY DEF Inv, Counted
  <2>8. Counted'
    BY <2>1, <2>6, <2>7 DEF Counted
  <2> QED
    BY <2>1, <2>8 DEF Inv
<1>3. ASSUME NEW p \in Producers, EnqueueStep(p)
      PROVE  Inv'
  <2>1. IInv'
    BY <1>3, EnqueueStepKeeps DEF Inv
  <2>2. UNCHANGED <<sent, tail>>
    BY <1>3 DEF EnqueueStep, LoadTail, CheckTail, Link, LinkAhead, LinkBuffer, SwingTail, WalkBack, Write,
       Goto
  <2> QED
    BY <2>1, <2>2, ClaimsStay DEF Inv
<1>4. ASSUME NEW p \in Producers, Crash(p)
      PROVE  Inv'
  <2>1. UNCHANGED <<heap, queueVars, producerVars, cpc, temp, scan,
                    flagMoveToNewBuffer, flagBufferAllHandled>>
    BY <1>4 DEF Crash, consumerVars
  <2>2. UNCHANGED <<sent, tail>>
    BY <1>4 DEF Crash, queueVars, producerVars
  <2> QED
    BY <2>1, <2>2, IdleStep, ClaimsStay DEF Inv
<1>5. CASE DequeueStep
  <2>1. IInv'
    BY <1>5, DequeueStepKeeps DEF Inv
  <2>2. UNCHANGED <<sent, tail>>
    BY <1>5 DEF DequeueStep, BeginDequeue, LeaveBuffer, SkipHandled, CheckLastBuffer, CheckEmpty, TakeFirst,
       StartScan, ScanSlot, Fold, ScanNextBuffer, ReScan, TakeFound, Continue, ReturnFalse, ReturnItem,
       Return, ScanBuffer, producerVars
  <2> QED
    BY <2>1, <2>2, ClaimsStay DEF Inv
<1> QED
  BY <1>1, <1>2, <1>3, <1>4, <1>5 DEF Next

\* The invariant implies the properties.
LEMMA InvImpliesChainIntact ==
  ASSUME IInv
  PROVE  ChainIntact
<1>1. From(headOfQueue) = Chain
  BY DEF From, Chain, Reach
<1>2. Linked(heap, headOfQueue, Chain) /\ tailOfQueue \in Chain
  BY InvFacts
<1>3. \A b \in Chain : heap[b].memory = "live"
  BY <1>2 DEF Linked
<1>4. ASSUME NEW b \in Chain, heap[b].next # Null
      PROVE  /\ heap[heap[b].next].prev = b
             /\ heap[heap[b].next].positionInQueue > heap[b].positionInQueue
  <2>1. /\ heap[b].next \in Chain /\ heap[heap[b].next].prev = b
        /\ Pos(heap, b) < Pos(heap, heap[b].next)
    BY <1>2, <1>4 DEF Linked
  <2>2. Pos(heap, b) \in Nat /\ Pos(heap, heap[b].next) \in Nat
    BY <2>1, InvFacts
  <2> QED
    BY <2>1, <2>2 DEF Pos
<1> QED
  BY ONLY <1>1, <1>2, <1>3, <1>4 DEF ChainIntact

LEMMA InvImpliesBuffersBounded ==
  ASSUME Inv
  PROVE  BuffersBounded
<1> SUFFICES ASSUME NEW b \in DOMAIN heap
             PROVE  Pos(heap, b) <= (IF Claims = 0 THEN 1 ELSE ((Claims - 1) \div BufferSize) + 2)
  BY DEF BuffersBounded, Pos
<1>1. Claims = tail /\ tail \in Nat /\ Pos(heap, b) \in Nat /\ Pos(heap, b) >= 1
  BY InvFacts DEF Inv, Counted
<1>2. BufferSize \in Nat /\ BufferSize >= 2
  BY BufferSizeAssumption
<1> DEFINE m == Pos(heap, b) - 2
<1>3. CASE Pos(heap, b) = 1
  <2>1. CASE tail = 0
    BY <1>1, <1>3, <2>1
  <2>2. CASE tail # 0
    <3>1. (tail - 1) \div BufferSize \in Nat
      BY <1>1, <1>2, <2>2
    <3> QED
      BY ONLY <1>1, <1>3, <2>2, <3>1
  <2> QED
    BY <2>1, <2>2
<1>4. CASE Pos(heap, b) > 1
  <2>1. Times(m) < tail
    BY <1>4 DEF Inv, IInv, HeapInv, Bounded
  <2>2. m \in Nat /\ Pos(heap, b) = m + 2
    BY <1>1, <1>4
  <2> HIDE DEF m
  <2>3. Times(m) \in Nat /\ tail # 0
    BY <1>1, <2>1, <2>2, TimesFacts
  <2> DEFINE q == (tail - 1) \div BufferSize
  <2>4. q \in Nat /\ tail - 1 < Times(q) + BufferSize
    <3>1. tail - 1 \in Nat
      BY <1>1, <2>3
    <3>2. ASSUME NEW x \in Nat
          PROVE  x \div BufferSize \in Nat /\ x < Times(x \div BufferSize) + BufferSize
      BY <1>2 DEF Times
    <3> QED
      BY <3>1, <3>2
  <2> HIDE DEF q
  <2>5. m <= q
    <3> SUFFICES ASSUME q < m PROVE FALSE
      BY <2>2, <2>4
    <3>1. Times(q) + BufferSize <= Times(m) /\ Times(q) \in Nat
      BY <2>2, <2>4, TimesFacts
    <3> QED
      BY <1>1, <1>2, <2>1, <2>3, <2>4, <3>1
  <2> QED
    BY <1>1, <2>2, <2>3, <2>4, <2>5 DEF q
<1> QED
  BY <1>1, <1>3, <1>4

LEMMA InvImpliesWriterFindsItsSlot ==
  ASSUME IInv, RoomLeft
  PROVE  WriterFindsItsSlot
<1>1. From(headOfQueue) = Chain
  BY DEF From, Chain, Reach
<1> QED
  BY <1>1, WriterFacts DEF WriterFindsItsSlot

LEMMA InvImpliesFreedMemorySafe ==
  ASSUME IInv, RoomLeft
  PROVE  FreedMemorySafe
<1>1. GarbageSeparate
  <2>1. From(headOfQueue) = Chain /\ From(garbageListHead) = Reach(heap, garbageListHead)
    BY DEF From, Chain, Reach
  <2>2. HeapType(heap) /\ garbageListHead \in 0 .. Len(heap)
    BY DEF IInv, HeapInv
  <2>3. PICK G \in SUBSET DOMAIN heap, r \in [Nat -> Nat] : Garbage(heap, garbageListHead, Chain, G, r)
    BY DEF IInv, HeapInv, GarbageInv
  <2>4. /\ G \subseteq DOMAIN heap /\ garbageListHead \in G \cup {Null}
        /\ \A g \in G : heap[g].memory # "deleted" /\ g \notin Chain /\ heap[g].next \in G \cup {Null}
    BY <2>3 DEF Garbage
  <2>5. Reach(heap, garbageListHead) \subseteq G
    BY <2>2, <2>4, ReachWithin
  <2> QED
    BY <2>1, <2>4, <2>5 DEF GarbageSeparate
<1>2. WalkOverGarbageSafe
  <2> SUFFICES ASSUME NEW p \in Producers, ppc[p] = "walk", heap[tempTail[p]].memory = "deleted"
               PROVE  FALSE
    BY DEF WalkOverGarbageSafe
  <2>1. tempTail[p] \in DOMAIN heap /\ location[p] < Hi(heap, tempTail[p]) /\ location[p] \in Nat
    BY SeatFacts DEF InEnqueue, Seated
  <2>2. location[p] \in Unwritten
    BY SeekerIsUnwritten DEF IInv, Seeking
  <2>3. Pos(heap, tempTail[p]) < Pos(heap, headOfQueue) /\ Lo(heap, headOfQueue) <= location[p]
    BY <2>1, <2>2 DEF IInv, HeapInv, SlotInv
  <2>4. /\ Hi(heap, tempTail[p]) <= Lo(heap, headOfQueue)
        /\ Hi(heap, tempTail[p]) \in Nat /\ Lo(heap, headOfQueue) \in Nat
    BY <2>1, <2>3, InvFacts, ChainFacts
  <2> QED
    BY <2>1, <2>3, <2>4
<1>3. LoneProducerSafe
  <2> SUFFICES ASSUME NEW p \in Producers, Alone(p), Dangling(p)
               PROVE  FALSE
    BY DEF LoneProducerSafe, Alone
  <2>1. \A b \in Chain : heap[b].memory = "live"
    BY InvFacts DEF Linked
  <2>2. CASE ppc[p] \in {"check", "link", "linkAhead"}
    <3>1. tempTail[p] \in Chain
      BY <2>2, SeatFacts, InvFacts DEF AtTail
    <3> QED
      BY <2>1, <2>2, <3>1 DEF Dangling
  <2>3. CASE ppc[p] = "walk"
    BY <1>2, <2>3 DEF Dangling, WalkOverGarbageSafe
  <2>4. CASE ppc[p] = "write"
    <3>1. tempTail[p] \in Chain
      BY <2>4, WriterFacts
    <3> QED
      BY <2>1, <2>4, <3>1 DEF Dangling
  <2> QED
    BY <2>2, <2>3, <2>4 DEF Dangling
<1> QED
  BY <1>1, <1>2, <1>3 DEF FreedMemorySafe

\* The invariant holds as long as there is room.
LEMMA InvAlways == Spec /\ []RoomLeft => []Inv
<1>1. Init => Inv
  BY InitInv
<1>2. Inv /\ RoomLeft /\ [Next]_vars => Inv'
  BY NextKeepsInv
<1> QED
  BY <1>1, <1>2, PTL DEF Spec

\* The list that producers and the consumer walk is never torn: from headOfQueue
\* on it is doubly linked, in the order of the positions, and reaches tailOfQueue,
\* whatever enqueue() links ahead and fold() unlinks meanwhile; and there are no
\* more buffers than the claims need.
THEOREM ChainAlwaysSound == Spec /\ []RoomLeft => []ChainSound
<1>1. Inv => ChainSound
  BY InvImpliesChainIntact, InvImpliesBuffersBounded DEF Inv, ChainSound
<1> QED
  BY <1>1, InvAlways, PTL

\* A producer that has walked back and is about to write has a buffer of the list
\* that holds its location, and the slot there is still EMPTY: no item is lost
\* because another producer or fold() was faster.
THEOREM WritersAlwaysFindTheirSlot == Spec /\ []RoomLeft => []WriterFindsItsSlot
<1>1. Inv /\ RoomLeft => WriterFindsItsSlot
  BY InvImpliesWriterFindsItsSlot DEF Inv
<1> QED
  BY <1>1, InvAlways, PTL

\* The garbage list never shares a buffer with the queue and holds nothing that
\* was deleted, a producer that walks back over folded buffers never comes to one
\* that was deleted, and a producer that is the only one never follows a pointer
\* to freed memory at all.
THEOREM FreedMemoryAlwaysSafe == Spec /\ []RoomLeft => []FreedMemorySafe
<1>1. Inv /\ RoomLeft => FreedMemorySafe
  BY InvImpliesFreedMemorySafe DEF Inv
<1> QED
  BY <1>1, InvAlways, PTL

-----------------------------------------------------------------------------
(* Where the items are.                                                    *)

\* A place is a buffer and a slot of it; it stands for a location.  The consumer
\* has still to return what is in the places that are filled.
Places(C) == [buffer : C, at : Slots]
Loc(h, x) == Lo(h, x.buffer) + x.at
StateAt(h, x) == h[x.buffer].slots[x.at].isSet
ItemAt(h, x) == h[x.buffer].slots[x.at].data
Filled(h, C) == {x \in Places(C) : h[x.buffer].head <= x.at /\ StateAt(h, x) = "SET"}

\* Items that have a location but are in no slot yet.
Arriving == {Item(p) : p \in {q \in Producers : ppc[q] \in Seeking}}

\* L tells the location that each item was given: what waits to be returned is on
\* its way to that location or there, and nothing else is; an item that has to
\* come out before another one is there already, at a location before it.
Located(h, C, L) ==
  /\ \A x \in Filled(h, C) : ItemAt(h, x) \in DOMAIN pending /\ L[ItemAt(h, x)] = Loc(h, x)
  /\ \A p \in Producers : ppc[p] \in Seeking =>
       Item(p) \in DOMAIN pending /\ L[Item(p)] = location[p]
  /\ \A i \in DOMAIN pending : i \in Arriving \/ \E x \in Filled(h, C) : ItemAt(h, x) = i
  /\ \A i \in DOMAIN pending : \A j \in pending[i] :
       j \in DOMAIN pending /\ j \notin Arriving /\ L[j] < L[i]

LocatedInv == \E L \in [Producers \X Nat -> Nat] : Located(heap, Chain, L)

\* Items are numbered by the claims of their producers.
SentInv ==
  /\ \A p \in Producers : sent[p] <= Quota[p]
  /\ \A i \in DOMAIN pending : \E p \in Producers : \E n \in 1 .. sent[p] : i = <<p, n>>

\* No claimed location is skipped: an EMPTY slot was not written to.
EmptyInv(h, C, U) == \A x \in Places(C) : StateAt(h, x) = "EMPTY" => Loc(h, x) \in U

\* The next buffer is linked in time: what was written is no further than
\* tailOfQueue, and when the last but one slot of tailOfQueue is written, its
\* writer, or who was faster, is about to link the next buffer and to move
\* tailOfQueue there.
AheadInv(h, last, U) ==
  /\ \A l \in Nat : l \notin U => l < Hi(h, last)
  /\ \A p \in Producers :
       /\ ppc[p] \in {"load", "check", "link", "swing"} => isLastBuffer[p]
       /\ ppc[p] \in {"walk", "write"} /\ ~isLastBuffer[p] => Pos(h, tempTail[p]) < Pos(h, last)
  /\ h[last].next # Null =>
       \E p \in Producers : ppc[p] \in {"swing", "swingAhead"} /\ tempTail[p] = last
  /\ Hi(h, last) - 2 \notin U =>
       h[last].next # Null \/ \E p \in Producers : ppc[p] = "linkAhead" /\ tempTail[p] = last

\* w tells what goes before an item: what goes before the item found at t is not
\* before s.
NoneBefore(h, C, w, t, s) ==
  \A y \in Filled(h, C) : ItemAt(h, y) \in w[ItemAt(h, t)] => Loc(h, s) <= Loc(h, y)

\* What the consumer knows of the slots it has looked at.
LookInv(h, hd, C, w, pc, t, s) ==
  /\ pc \in {"lastBuffer", "empty", "first", "second"} =>
       h[hd].slots[h[hd].head].isSet # "HANDLED"
  /\ pc \in Scanning => h[t.buffer].head <= t.at
  /\ pc = "rescan" => h[s.buffer].head <= s.at /\ NoneBefore(h, C, w, t, s)
  /\ pc = "take" => NoneBefore(h, C, w, t, t)

\* A dequeue during which no enqueue was open overlooks nothing.
CalmInv(h, hd, last, pc) ==
  calm =>
    /\ \A p \in Producers : ppc[p] = "idle"
    /\ pc = "empty" => hd = last
    /\ pc = "second" => h[hd].slots[h[hd].head].isSet = "EMPTY"
    /\ pc \in Scanning => DOMAIN pending = {}

PromiseInv ==
  /\ LocatedInv
  /\ SentInv
  /\ EmptyInv(heap, Chain, Unwritten)
  /\ AheadInv(heap, tailOfQueue, Unwritten)
  /\ LookInv(heap, headOfQueue, Chain, pending, cpc, temp, scan)
  /\ CalmInv(heap, headOfQueue, tailOfQueue, cpc)

-----------------------------------------------------------------------------
(* Places and their locations.                                             *)

\* Different places have different locations.
LEMMA PlaceFacts ==
  ASSUME IInv, NEW x \in Places(Chain)
  PROVE  /\ x.buffer \in Chain /\ x.buffer \in DOMAIN heap /\ x.at \in Slots /\ x.at \in Nat
         /\ x.at < BufferSize /\ BufferSize \in Nat
         /\ x = [buffer |-> x.buffer, at |-> x.at]
         /\ Lo(heap, x.buffer) \in Nat /\ Hi(heap, x.buffer) \in Nat
         /\ Hi(heap, x.buffer) = Lo(heap, x.buffer) + BufferSize
         /\ Loc(heap, x) \in Nat /\ Holds(heap, x.buffer, Loc(heap, x))
         /\ Loc(heap, x) - Lo(heap, x.buffer) = x.at
         /\ Lo(heap, x.buffer) <= Loc(heap, x) /\ Loc(heap, x) < Hi(heap, x.buffer)
<1>1. x.buffer \in Chain /\ x.at \in Slots /\ x = [buffer |-> x.buffer, at |-> x.at]
  BY DEF Places
<1>2. BufferSize \in Nat /\ x.at \in Nat /\ x.at < BufferSize
  BY <1>1, BufferSizeAssumption DEF Slots
<1>3. x.buffer \in DOMAIN heap
  BY <1>1, InvFacts
<1>4. /\ Lo(heap, x.buffer) \in Nat /\ Hi(heap, x.buffer) \in Nat
      /\ Hi(heap, x.buffer) = Lo(heap, x.buffer) + BufferSize
  BY <1>3, InvFacts, ChainFacts
<1>5. /\ Loc(heap, x) \in Nat /\ Loc(heap, x) - Lo(heap, x.buffer) = x.at
      /\ Lo(heap, x.buffer) <= Loc(heap, x) /\ Loc(heap, x) < Hi(heap, x.buffer)
  BY <1>2, <1>4 DEF Loc
<1> QED
  BY <1>1, <1>2, <1>3, <1>4, <1>5 DEF Holds

\* Buffers of the list hold locations in their order.
LEMMA BufferOrder ==
  ASSUME IInv, NEW b \in Chain, NEW c \in Chain
  PROVE  /\ b = c \/ Pos(heap, b) < Pos(heap, c) \/ Pos(heap, c) < Pos(heap, b)
         /\ Pos(heap, b) < Pos(heap, c) => Hi(heap, b) <= Lo(heap, c)
         /\ Lo(heap, b) \in Nat /\ Hi(heap, b) \in Nat /\ Lo(heap, c) \in Nat /\ Hi(heap, c) \in Nat
         /\ Hi(heap, b) = Lo(heap, b) + BufferSize /\ Hi(heap, c) = Lo(heap, c) + BufferSize
         /\ BufferSize \in Nat /\ BufferSize >= 2
<1>1. b \in DOMAIN heap /\ c \in DOMAIN heap /\ BufferSize \in Nat /\ BufferSize >= 2
  BY InvFacts, BufferSizeAssumption
<1>2. Pos(heap, b) \in Nat /\ Pos(heap, c) \in Nat
  BY <1>1, InvFacts
<1>3. Pos(heap, b) = Pos(heap, c) => b = c
  BY InvFacts DEF Linked
<1>4. /\ Lo(heap, b) \in Nat /\ Hi(heap, b) \in Nat /\ Lo(heap, c) \in Nat /\ Hi(heap, c) \in Nat
      /\ Hi(heap, b) = Lo(heap, b) + BufferSize /\ Hi(heap, c) = Lo(heap, c) + BufferSize
      /\ Pos(heap, b) < Pos(heap, c) => Hi(heap, b) <= Lo(heap, c)
  BY <1>1, InvFacts, ChainFacts
<1> QED
  BY <1>1, <1>2, <1>3, <1>4

LEMMA PlacesApart ==
  ASSUME IInv, NEW x \in Places(Chain), NEW y \in Places(Chain), Loc(heap, x) = Loc(heap, y)
  PROVE  x = y
<1>1. x.buffer = y.buffer
  BY PlaceFacts, BufferOrder
<1>2. x.at = y.at
  BY <1>1, PlaceFacts
<1> QED
  BY <1>1, <1>2, PlaceFacts

\* What is filled was written to.
LEMMA FilledFacts ==
  ASSUME IInv, NEW x \in Filled(heap, Chain)
  PROVE  /\ x \in Places(Chain) /\ heap[x.buffer].head <= x.at /\ StateAt(heap, x) = "SET"
         /\ Loc(heap, x) \in Nat /\ Loc(heap, x) \notin Unwritten /\ Loc(heap, x) < tail
         /\ Pos(heap, x.buffer) <= Pos(heap, tailOfQueue)
         /\ Pos(heap, headOfQueue) <= Pos(heap, x.buffer)
<1>1. x \in Places(Chain) /\ heap[x.buffer].head <= x.at /\ StateAt(heap, x) = "SET"
  BY DEF Filled
<1>2. SlotInv(heap, headOfQueue, tailOfQueue, Chain, Unwritten) /\ tail \in Nat
  BY InvFacts DEF HeapInv
<1>3. Loc(heap, x) \notin Unwritten
  BY <1>1, <1>2, PlaceFacts DEF SlotInv, StateAt
<1>4. Loc(heap, x) < tail
  BY <1>1, <1>2, <1>3, PlaceFacts DEF Unwritten
<1>5. Pos(heap, x.buffer) \in Nat /\ Pos(heap, tailOfQueue) \in Nat
  BY <1>1, PlaceFacts, InvFacts
<1>6. ~(Pos(heap, x.buffer) > Pos(heap, tailOfQueue))
  BY <1>1, <1>2, PlaceFacts DEF SlotInv, StateAt
<1>7. Pos(heap, headOfQueue) <= Pos(heap, x.buffer)
  BY <1>1, PlaceFacts, InvFacts DEF Linked
<1>8. Loc(heap, x) \in Nat
  BY <1>1, PlaceFacts
<1> QED
  BY <1>1, <1>3, <1>4, <1>5, <1>6, <1>7, <1>8

\* The types of what the consumer returns.
LEMMA ItemFacts ==
  ASSUME IInv, SentInv
  PROVE  /\ DOMAIN pending \subseteq Producers \X Nat
         /\ \A p \in Producers : Item(p) \in Producers \X Nat
         /\ \A p, q \in Producers : Item(p) = Item(q) => p = q
         /\ sent \in [Producers -> Nat]
<1>1. sent \in [Producers -> Nat]
  BY DEF IInv, TypeInv
<1>2. ASSUME NEW i \in DOMAIN pending PROVE i \in Producers \X Nat
  BY <1>1, <1>2 DEF SentInv
<1> QED
  BY <1>1, <1>2 DEF Item

-----------------------------------------------------------------------------
(* Steps that fill no place.                                               *)

\* From heap h with list C to g with D, the places in X are no longer filled.
Serves(h, g, C, D, X) ==
  /\ Filled(g, D) = Filled(h, C) \ X
  /\ \A x \in Filled(g, D) : ItemAt(g, x) = ItemAt(h, x) /\ Loc(g, x) = Loc(h, x)

Returned(h, X) == {ItemAt(h, x) : x \in X}

\* What is no longer filled is no longer waiting.
Delivers(X) ==
  /\ DOMAIN pending' = DOMAIN pending \ Returned(heap, X)
  /\ \A i \in DOMAIN pending' : pending'[i] = pending[i] \ Returned(heap, X)

\* The same producers have locations to write to.
SameSeekers ==
  UNCHANGED <<sent, location>> /\ \A p \in Producers : ppc'[p] \in Seeking <=> ppc[p] \in Seeking

LEMMA ServesItems ==
  ASSUME IInv, SentInv, LocatedInv, NEW X \in SUBSET Filled(heap, Chain),
         Serves(heap, heap', Chain, Chain', X), SameSeekers, Delivers(X)
  PROVE  LocatedInv' /\ SentInv'
<1> DEFINE G == Returned(heap, X)
<1>1. PICK L \in [Producers \X Nat -> Nat] : Located(heap, Chain, L)
  BY DEF LocatedInv
<1>2. /\ Filled(heap', Chain') = Filled(heap, Chain) \ X
      /\ \A x \in Filled(heap', Chain') : ItemAt(heap', x) = ItemAt(heap, x) /\ Loc(heap', x) = Loc(heap, x)
  BY DEF Serves
<1>3. DOMAIN pending' = DOMAIN pending \ G /\ \A i \in DOMAIN pending' : pending'[i] = pending[i] \ G
  BY DEF Delivers
<1>4. \A p \in Producers : Item(p)' = Item(p)
  BY DEF Item, SameSeekers
<1>5. Arriving' = Arriving
  BY <1>4 DEF Arriving, SameSeekers
<1>6. ASSUME NEW x \in Filled(heap, Chain) \ X
      PROVE  ItemAt(heap, x) \notin G
  <2> SUFFICES ASSUME NEW y \in X, ItemAt(heap, x) = ItemAt(heap, y) PROVE FALSE
    BY DEF Returned
  <2>1. Loc(heap, x) = Loc(heap, y)
    BY <1>1 DEF Located
  <2>2. x = y
    BY <2>1, FilledFacts, PlacesApart
  <2> QED
    BY <1>6, <2>2
<1>7. ASSUME NEW p \in Producers, ppc[p] \in Seeking
      PROVE  Item(p) \notin G
  <2> SUFFICES ASSUME NEW y \in X, Item(p) = ItemAt(heap, y) PROVE FALSE
    BY DEF Returned
  <2>1. Loc(heap, y) = location[p]
    BY <1>1, <1>7 DEF Located
  <2>2. Loc(heap, y) \notin Unwritten
    BY FilledFacts
  <2> QED
    BY <1>7, <2>1, <2>2, SeekerIsUnwritten DEF IInv
<1> HIDE DEF G
<1>8. \A x \in Filled(heap', Chain') :
        ItemAt(heap', x) \in DOMAIN pending' /\ L[ItemAt(heap', x)] = Loc(heap', x)
  BY <1>1, <1>2, <1>3, <1>6 DEF Located
<1>9. \A p \in Producers : ppc'[p] \in Seeking =>
        Item(p)' \in DOMAIN pending' /\ L[Item(p)'] = location'[p]
  BY <1>1, <1>3, <1>4, <1>7 DEF Located, SameSeekers
<1>10. ASSUME NEW i \in DOMAIN pending', i \notin Arriving'
       PROVE  \E x \in Filled(heap', Chain') : ItemAt(heap', x) = i
  <2>1. i \in DOMAIN pending /\ i \notin G /\ i \notin Arriving
    BY <1>3, <1>5, <1>10
  <2>2. PICK x \in Filled(heap, Chain) : ItemAt(heap, x) = i
    BY <1>1, <2>1 DEF Located
  <2>3. x \notin X
    BY <2>1, <2>2 DEF G, Returned
  <2> QED
    BY <1>2, <2>2, <2>3
<1>11. \A i \in DOMAIN pending' : \A j \in pending'[i] :
         j \in DOMAIN pending' /\ j \notin Arriving' /\ L[j] < L[i]
  BY <1>1, <1>3, <1>5 DEF Located
<1>12. Located(heap, Chain, L)'
  BY <1>8, <1>9, <1>10, <1>11 DEF Located
<1>13. LocatedInv'
  BY <1>12 DEF LocatedInv
<1>14. SentInv'
  BY <1>3 DEF SentInv, SameSeekers
<1> QED
  BY <1>13, <1>14

\* What the consumer leaves EMPTY was EMPTY before.
Empties(h, g, C, D) ==
  \A x \in Places(D) : StateAt(g, x) = "EMPTY" =>
    x \in Places(C) /\ StateAt(h, x) = "EMPTY" /\ Loc(g, x) = Loc(h, x)

LEMMA EmptiesKeeps ==
  ASSUME NEW h, NEW g, NEW C, NEW D, NEW U, EmptyInv(h, C, U), Empties(h, g, C, D)
  PROVE  EmptyInv(g, D, U)
BY DEF EmptyInv, Empties

\* A step of the consumer does not change what the producers are about to do.
LEMMA AheadStays ==
  ASSUME IInv, AheadInv(heap, tailOfQueue, Unwritten), UNCHANGED <<tailOfQueue, tail, producerVars>>,
         \A b \in DOMAIN heap : Pos(heap', b) = Pos(heap, b),
         heap'[tailOfQueue].next = heap[tailOfQueue].next
  PROVE  AheadInv(heap, tailOfQueue, Unwritten)' /\ Unwritten' = Unwritten
<1>1. /\ tailOfQueue' = tailOfQueue /\ tail' = tail
      /\ ppc' = ppc /\ location' = location /\ tempTail' = tempTail /\ isLastBuffer' = isLastBuffer
  BY DEF producerVars
<1>2. Unwritten' = Unwritten
  BY <1>1 DEF Unwritten
<1>3. tailOfQueue \in DOMAIN heap
  BY InvFacts
<1>4. Hi(heap', tailOfQueue) = Hi(heap, tailOfQueue)
  BY <1>3 DEF Hi
<1>5. ASSUME NEW p \in Producers, ppc[p] \in {"walk", "write"}
      PROVE  Pos(heap', tempTail[p]) = Pos(heap, tempTail[p])
  BY <1>5, SeatFacts DEF InEnqueue
<1> QED
  BY <1>1, <1>2, <1>3, <1>4, <1>5 DEF AheadInv

-----------------------------------------------------------------------------
(* Steps of enqueue().                                                     *)

\* What was found and not yet taken is filled.
LEMMA FoundFacts ==
  ASSUME IInv, LookInv(heap, headOfQueue, Chain, pending, cpc, temp, scan), cpc \in {"rescan", "take"}
  PROVE  temp \in Filled(heap, Chain)
<1>1. temp \in Place /\ temp.buffer \in Chain /\ temp.at \in Nat
  BY ScanFacts DEF Scanning
<1>2. temp.at < BufferSize /\ heap[temp.buffer].slots[temp.at].isSet = "SET"
  BY DEF IInv, ConsumerInv
<1>3. temp.at \in Slots
  BY <1>1, <1>2, BufferSizeAssumption DEF Slots
<1>4. temp \in Places(Chain)
  BY <1>1, <1>3 DEF Places, Place
<1>5. heap[temp.buffer].head <= temp.at
  BY DEF LookInv, Scanning
<1> QED
  BY <1>2, <1>4, <1>5 DEF Filled, StateAt

\* While the consumer is between two steps, producers fill places and nothing else.
FillsOnly ==
  /\ UNCHANGED <<headOfQueue, cpc, temp, scan>>
  /\ Chain \subseteq Chain'
  /\ \A b \in DOMAIN heap : Pos(heap', b) = Pos(heap, b) /\ heap'[b].head = heap[b].head
  /\ \A x \in Places(Chain) :
       /\ StateAt(heap', x) = "HANDLED" => StateAt(heap, x) = "HANDLED"
       /\ StateAt(heap, x) = "SET" => ItemAt(heap', x) = ItemAt(heap, x)
  /\ \A y \in Filled(heap', Chain') : y \in Filled(heap, Chain) \/ ItemAt(heap', y) \in Arriving
  /\ \A i \in DOMAIN pending : pending'[i] = pending[i]

LEMMA LookStays ==
  ASSUME IInv, LocatedInv, LookInv(heap, headOfQueue, Chain, pending, cpc, temp, scan), FillsOnly
  PROVE  LookInv(heap, headOfQueue, Chain, pending, cpc, temp, scan)'
<1>1. /\ headOfQueue' = headOfQueue /\ cpc' = cpc /\ temp' = temp /\ scan' = scan
      /\ \A b \in DOMAIN heap : Pos(heap', b) = Pos(heap, b) /\ heap'[b].head = heap[b].head
      /\ headOfQueue \in Chain /\ headOfQueue \in DOMAIN heap
  BY InvFacts DEF FillsOnly
<1>2. ASSUME cpc \in {"lastBuffer", "empty", "first", "second"}
      PROVE  heap'[headOfQueue].slots[heap[headOfQueue].head].isSet # "HANDLED"
  <2> DEFINE x == [buffer |-> headOfQueue, at |-> heap[headOfQueue].head]
  <2>1. heap[headOfQueue].head \in Slots
    BY <1>2, FrontFacts DEF InDequeue
  <2>2. x \in Places(Chain)
    BY <1>1, <2>1 DEF Places
  <2>3. StateAt(heap, x) # "HANDLED"
    BY <1>2 DEF LookInv, StateAt
  <2>4. StateAt(heap', x) # "HANDLED"
    BY <2>2, <2>3 DEF FillsOnly
  <2> QED
    BY <2>4 DEF StateAt
<1>3. ASSUME cpc \in Scanning
      PROVE  heap'[temp.buffer].head <= temp.at
  BY <1>1, <1>3, ScanFacts DEF LookInv
<1>4. ASSUME cpc \in {"rescan", "take"}, NEW s, s.buffer \in Chain, NoneBefore(heap, Chain, pending, temp, s)
      PROVE  NoneBefore(heap', Chain', pending', temp, s)
  <2> SUFFICES ASSUME NEW y \in Filled(heap', Chain'), ItemAt(heap', y) \in pending'[ItemAt(heap', temp)]
               PROVE  Loc(heap', s) <= Loc(heap', y)
    BY DEF NoneBefore
  <2>1. temp \in Filled(heap, Chain)
    BY <1>4, FoundFacts
  <2>2. ItemAt(heap', temp) = ItemAt(heap, temp)
    BY <2>1, FilledFacts DEF FillsOnly
  <2>3. PICK L \in [Producers \X Nat -> Nat] : Located(heap, Chain, L)
    BY DEF LocatedInv
  <2>4. ItemAt(heap, temp) \in DOMAIN pending
    BY <2>1, <2>3 DEF Located
  <2>5. ItemAt(heap', y) \in pending[ItemAt(heap, temp)]
    BY <2>2, <2>4 DEF FillsOnly
  <2>6. ItemAt(heap', y) \notin Arriving
    BY <2>3, <2>4, <2>5 DEF Located
  <2>7. y \in Filled(heap, Chain)
    BY <2>6 DEF FillsOnly
  <2>8. y \in Places(Chain) /\ y.buffer \in DOMAIN heap /\ ItemAt(heap', y) = ItemAt(heap, y)
    BY <2>7, FilledFacts, PlaceFacts DEF FillsOnly
  <2>9. Loc(heap, s) <= Loc(heap, y)
    BY <1>4, <2>5, <2>7, <2>8 DEF NoneBefore
  <2>10. s.buffer \in DOMAIN heap
    BY <1>4, InvFacts
  <2> QED
    BY <1>1, <2>8, <2>9, <2>10 DEF Loc, Lo
<1>5. ASSUME cpc = "rescan"
      PROVE  heap'[scan.buffer].head <= scan.at /\ NoneBefore(heap', Chain', pending', temp, scan)
  <2>1. scan.buffer \in Chain
    BY <1>5 DEF IInv, ConsumerInv
  <2>2. scan.buffer \in DOMAIN heap
    BY <2>1, InvFacts
  <2> QED
    BY <1>1, <1>4, <1>5, <2>1, <2>2 DEF LookInv
<1>6. ASSUME cpc = "take"
      PROVE  NoneBefore(heap', Chain', pending', temp, temp)
  <2>1. temp.buffer \in Chain
    BY <1>6, ScanFacts DEF Scanning
  <2> QED
    BY <1>4, <1>6, <2>1 DEF LookInv
<1> QED
  BY <1>1, <1>2, <1>3, <1>5, <1>6 DEF LookInv

\* The other producers stay where they are.
Others(p) ==
  \A q \in Producers \ {p} :
    ppc'[q] = ppc[q] /\ location'[q] = location[q] /\ tempTail'[q] = tempTail[q]
    /\ isLastBuffer'[q] = isLastBuffer[q]

\* What AheadInv says of p alone.
OwnAhead(p) ==
  /\ ppc'[p] \in {"load", "check", "link", "swing"} => isLastBuffer'[p]
  /\ ppc'[p] \in {"walk", "write"} /\ ~isLastBuffer'[p] => Pos(heap', tempTail'[p]) < Pos(heap', tailOfQueue')

\* A step of p that leaves tailOfQueue where it is.
AheadStep(p) ==
  LET last == tailOfQueue
      next == heap[last].next # Null
      nextNow == heap'[last].next # Null
  IN /\ Others(p)
     /\ tailOfQueue' = tailOfQueue
     /\ \A b \in DOMAIN heap : Pos(heap', b) = Pos(heap, b)
     /\ OwnAhead(p)
     /\ \A l \in Unwritten : l \in Unwritten' \/ l < Hi(heap, last)
     /\ next => nextNow
     /\ nextNow => next \/ (ppc'[p] \in {"swing", "swingAhead"} /\ tempTail'[p] = last)
     /\ ppc[p] \notin {"swing", "swingAhead"}
     /\ ppc[p] = "linkAhead" /\ tempTail[p] = last => nextNow
     /\ Hi(heap, last) - 2 \in Unwritten \ Unwritten' =>
          nextNow \/ (ppc'[p] = "linkAhead" /\ tempTail'[p] = last)

LEMMA AheadSteps ==
  ASSUME IInv, AheadInv(heap, tailOfQueue, Unwritten), NEW p \in Producers, AheadStep(p)
  PROVE  AheadInv(heap, tailOfQueue, Unwritten)'
<1> DEFINE last == tailOfQueue
<1>1. last \in DOMAIN heap /\ Hi(heap', last) = Hi(heap, last) /\ tailOfQueue' = last
  BY InvFacts DEF AheadStep, Hi
<1>2. \A l \in Nat : l \notin Unwritten' => l < Hi(heap', last)
  BY <1>1 DEF AheadInv, AheadStep
<1>3. ASSUME NEW q \in Producers
      PROVE  /\ ppc'[q] \in {"load", "check", "link", "swing"} => isLastBuffer'[q]
             /\ ppc'[q] \in {"walk", "write"} /\ ~isLastBuffer'[q] =>
                  Pos(heap', tempTail'[q]) < Pos(heap', last)
  <2>1. CASE q = p
    BY <1>1, <2>1 DEF AheadStep, OwnAhead
  <2>2. CASE q # p
    <3>1. ppc[q] \in {"walk", "write"} => tempTail[q] \in DOMAIN heap
      BY SeatFacts DEF InEnqueue
    <3> QED
      BY <1>1, <2>2, <3>1 DEF AheadStep, AheadInv, Others
  <2> QED
    BY <2>1, <2>2
<1>4. ASSUME heap'[last].next # Null
      PROVE  \E q \in Producers : ppc'[q] \in {"swing", "swingAhead"} /\ tempTail'[q] = last
  <2>1. CASE heap[last].next # Null
    <3>1. PICK q \in Producers : ppc[q] \in {"swing", "swingAhead"} /\ tempTail[q] = last
      BY <2>1 DEF AheadInv
    <3>2. q # p
      BY <3>1 DEF AheadStep
    <3> QED
      BY <3>1, <3>2 DEF AheadStep, Others
  <2>2. CASE heap[last].next = Null
    BY <1>4, <2>2 DEF AheadStep
  <2> QED
    BY <2>1, <2>2
<1>5. ASSUME Hi(heap', last) - 2 \notin Unwritten', heap'[last].next = Null
      PROVE  \E q \in Producers : ppc'[q] = "linkAhead" /\ tempTail'[q] = last
  <2>1. CASE Hi(heap, last) - 2 \in Unwritten
    BY <1>1, <1>5, <2>1 DEF AheadStep
  <2>2. CASE Hi(heap, last) - 2 \notin Unwritten
    <3>1. heap[last].next = Null
      BY <1>5 DEF AheadStep
    <3>2. PICK q \in Producers : ppc[q] = "linkAhead" /\ tempTail[q] = last
      BY <2>2, <3>1 DEF AheadInv
    <3>3. q # p
      BY <1>5, <3>2 DEF AheadStep
    <3> QED
      BY <3>2, <3>3 DEF AheadStep, Others
  <2> QED
    BY <2>1, <2>2
<1> QED
  BY <1>1, <1>2, <1>3, <1>4, <1>5 DEF AheadInv

\* What p links has only EMPTY slots, for locations after all that were written.
LEMMA LinkFills ==
  ASSUME IInv, AheadInv(heap, tailOfQueue, Unwritten), NEW p \in Producers,
         ppc[p] \in {"link", "linkAhead"}, Linking(p)
  PROVE  /\ \A b \in DOMAIN heap : Pos(heap', b) = Pos(heap, b) /\ heap'[b].head = heap[b].head
                                   /\ heap'[b].slots = heap[b].slots
         /\ Chain \subseteq Chain'
         /\ Filled(heap', Chain') = Filled(heap, Chain)
         /\ EmptyInv(heap, Chain, Unwritten) => EmptyInv(heap', Chain', Unwritten)
<1> DEFINE b == tempTail[p]
           new == Len(heap) + 1
<1>1. /\ Extended(heap, heap', b) /\ heap[b].next = Null
      /\ Chain' = IF b \in Chain THEN Chain \cup {new} ELSE Chain
  BY DEF Linking, Grown
<1>2. /\ \A c \in DOMAIN heap : Pos(heap', c) = Pos(heap, c) /\ heap'[c].head = heap[c].head
                                /\ heap'[c].slots = heap[c].slots
      /\ Pos(heap', new) = Pos(heap, b) + 1
      /\ \A i \in Slots : heap'[new].slots[i].isSet = "EMPTY"
  BY <1>1 DEF Extended
<1>3. Chain \subseteq Chain' /\ Chain \subseteq DOMAIN heap
  BY <1>1, InvFacts
<1>4. ASSUME NEW x \in Places(Chain)
      PROVE  /\ x \in Places(Chain') /\ x.buffer \in DOMAIN heap
             /\ StateAt(heap', x) = StateAt(heap, x) /\ Loc(heap', x) = Loc(heap, x)
             /\ heap'[x.buffer].head = heap[x.buffer].head
  <2>1. x.buffer \in Chain
    BY DEF Places
  <2> QED
    BY <1>2, <1>3, <2>1 DEF Places, StateAt, Loc, Lo
<1>5. ASSUME NEW x \in Places(Chain'), x \notin Places(Chain)
      PROVE  x.buffer = new /\ b \in Chain /\ StateAt(heap', x) = "EMPTY" /\ x.at \in Slots
  <2>1. x.buffer \in Chain' /\ x.at \in Slots /\ x.buffer \notin Chain
    BY <1>5 DEF Places
  <2> HIDE DEF b, new
  <2> QED
    BY ONLY <1>1, <1>2, <2>1 DEF StateAt
<1>6. Filled(heap', Chain') = Filled(heap, Chain)
  BY ONLY <1>4, <1>5 DEF Filled
<1>7. ASSUME EmptyInv(heap, Chain, Unwritten), NEW x \in Places(Chain'), StateAt(heap', x) = "EMPTY"
      PROVE  Loc(heap', x) \in Unwritten
  <2>1. CASE x \in Places(Chain)
    BY <1>4, <1>7, <2>1 DEF EmptyInv
  <2>2. CASE x \notin Places(Chain)
    <3>1. x.buffer = new /\ b \in Chain /\ x.at \in Slots
      BY <1>5, <2>2
    <3>2. b = tailOfQueue
      <4>1. Pos(heap, b) <= Pos(heap, tailOfQueue)
        BY SeatFacts DEF Seated, InEnqueue
      <4>2. Pos(heap, b) \in Nat /\ Pos(heap, tailOfQueue) \in Nat /\ tailOfQueue \in Chain
        BY <1>3, <3>1, InvFacts
      <4>3. ~(Pos(heap, b) < Pos(heap, tailOfQueue))
        BY <1>1, <3>1, <4>2, InvFacts DEF Linked
      <4>4. Pos(heap, b) = Pos(heap, tailOfQueue)
        BY <4>1, <4>2, <4>3
      <4> QED
        BY <3>1, <4>2, <4>4, InvFacts DEF Linked
    <3>3. Lo(heap', new) = Hi(heap, b)
      <4>1. Pos(heap, b) \in Nat
        BY <1>3, <3>1, InvFacts
      <4>2. Pos(heap', new) - 1 = Pos(heap, b)
        BY <1>2, <4>1
      <4> QED
        BY <4>2 DEF Lo, Hi
    <3>4. x.at \in Nat /\ Hi(heap, b) \in Nat
      BY <3>1, BufferOrder, BufferSizeAssumption DEF Slots
    <3>5. Loc(heap', x) = Hi(heap, b) + x.at
      BY <3>1, <3>3 DEF Loc
    <3> HIDE DEF b
    <3>6. Loc(heap', x) \in Nat /\ ~(Loc(heap', x) < Hi(heap, tailOfQueue))
      BY <3>2, <3>4, <3>5
    <3> QED
      BY <3>6 DEF AheadInv
  <2> QED
    BY <2>1, <2>2
<1> QED
  BY <1>2, <1>3, <1>6, <1>7 DEF EmptyInv

\* A step of enqueue() that claims no location and fills no place.
LEMMA QuietStep ==
  ASSUME IInv, PromiseInv, NEW p \in Producers, ppc[p] # "idle",
         UNCHANGED <<headOfQueue, consumerVars, pending, tail>>, SameSeekers,
         UNCHANGED heap \/ (Linking(p) /\ ppc[p] \in {"link", "linkAhead"}),
         AheadInv(heap, tailOfQueue, Unwritten)'
  PROVE  PromiseInv'
<1>1. Unwritten' = Unwritten
  BY DEF SameSeekers, Unwritten
<1>2. /\ \A b \in DOMAIN heap : Pos(heap', b) = Pos(heap, b) /\ heap'[b].head = heap[b].head
                                /\ heap'[b].slots = heap[b].slots
      /\ Chain \subseteq Chain'
      /\ Filled(heap', Chain') = Filled(heap, Chain)
      /\ EmptyInv(heap', Chain', Unwritten)
  <2>1. CASE UNCHANGED heap
    <3>1. Chain' = Chain
      BY <2>1 DEF Chain
    <3> QED
      BY <2>1, <3>1 DEF PromiseInv
  <2>2. CASE Linking(p) /\ ppc[p] \in {"link", "linkAhead"}
    BY <2>2, LinkFills DEF PromiseInv
  <2> QED
    BY <2>1, <2>2
<1>3. \A x \in Places(Chain) :
        StateAt(heap', x) = StateAt(heap, x) /\ ItemAt(heap', x) = ItemAt(heap, x) /\ Loc(heap', x) = Loc(heap, x)
  BY <1>2, PlaceFacts DEF StateAt, ItemAt, Loc, Lo
<1>4. \A x \in Filled(heap, Chain) : x \in Places(Chain)
  BY DEF Filled
<1>5. Serves(heap, heap', Chain, Chain', {})
  BY <1>2, <1>3, <1>4 DEF Serves
<1>6. Delivers({})
  BY DEF Delivers, Returned
<1>7. LocatedInv' /\ SentInv'
  BY <1>5, <1>6, ServesItems DEF PromiseInv
<1>8. FillsOnly
  BY <1>2, <1>3, <1>4 DEF FillsOnly, consumerVars
<1>9. LookInv(heap, headOfQueue, Chain, pending, cpc, temp, scan)'
  BY <1>8, LookStays DEF PromiseInv
<1>10. ~calm'
  BY DEF PromiseInv, CalmInv, consumerVars
<1>11. CalmInv(heap, headOfQueue, tailOfQueue, cpc)'
  BY <1>10 DEF CalmInv
<1>12. EmptyInv(heap, Chain, Unwritten)'
  BY <1>1, <1>2
<1> QED
  BY <1>7, <1>9, <1>11, <1>12 DEF PromiseInv

\* p goes on at pc.
LEMMA GotoFacts ==
  ASSUME IInv, NEW p \in Producers, NEW pc, Goto(p, pc)
  PROVE  /\ ppc'[p] = pc /\ \A q \in Producers \ {p} : ppc'[q] = ppc[q]
         /\ UNCHANGED <<sent, location, tail, headOfQueue, consumerVars, pending>>
         /\ (pc \in Seeking <=> ppc[p] \in Seeking) => SameSeekers /\ Unwritten' = Unwritten
<1>1. /\ ppc'[p] = pc /\ \A q \in Producers \ {p} : ppc'[q] = ppc[q]
      /\ UNCHANGED <<sent, location, tail, headOfQueue, consumerVars, pending>>
  BY DEF Goto, IInv, TypeInv
<1>2. (pc \in Seeking <=> ppc[p] \in Seeking) => SameSeekers
  BY <1>1 DEF SameSeekers
<1>3. SameSeekers => Unwritten' = Unwritten
  BY <1>1 DEF SameSeekers, Unwritten
<1> QED
  BY <1>1, <1>2, <1>3

\* The steps on the way to a slot leave the buffers alone.
LEMMA LoadTailPromise ==
  ASSUME IInv, PromiseInv, NEW p \in Producers, LoadTail(p)
  PROVE  PromiseInv'
<1>1. /\ ppc[p] = "load" /\ Goto(p, "check")
      /\ tempTail' = [tempTail EXCEPT ![p] = tailOfQueue]
      /\ UNCHANGED <<heap, tailOfQueue, newBuffer, isLastBuffer>>
  BY DEF LoadTail, At
<1>2. "check" \in Seeking /\ "load" \in Seeking
  BY DEF Seeking
<1>3. /\ ppc'[p] = "check" /\ \A q \in Producers \ {p} : ppc'[q] = ppc[q]
      /\ UNCHANGED <<sent, location, tail, headOfQueue, consumerVars, pending>>
      /\ SameSeekers /\ Unwritten' = Unwritten
  BY <1>1, <1>2, GotoFacts
<1>4. \A q \in Producers \ {p} : tempTail'[q] = tempTail[q]
  BY <1>1 DEF IInv, TypeInv
<1>5. AheadInv(heap, tailOfQueue, Unwritten)
  BY DEF PromiseInv
<1>6. AheadStep(p)
  BY <1>1, <1>3, <1>4, <1>5 DEF AheadStep, Others, OwnAhead, AheadInv
<1>7. AheadInv(heap, tailOfQueue, Unwritten)'
  BY <1>5, <1>6, AheadSteps
<1> QED
  BY <1>1, <1>3, <1>7, QuietStep

LEMMA CheckTailPromise ==
  ASSUME IInv, PromiseInv, NEW p \in Producers, CheckTail(p)
  PROVE  PromiseInv'
<1> DEFINE pc == IF location[p] < End(tempTail[p]) THEN "walk"
                 ELSE IF heap[tempTail[p]].next = Null THEN "link" ELSE "load"
<1>1. /\ ppc[p] = "check" /\ Goto(p, pc)
      /\ UNCHANGED <<heap, tailOfQueue, tempTail, newBuffer, isLastBuffer>>
  BY DEF CheckTail, At
<1>2. pc \in Seeking /\ "check" \in Seeking /\ pc \in {"walk", "link", "load"}
  BY DEF Seeking
<1> HIDE DEF pc
<1>3. /\ ppc'[p] = pc /\ \A q \in Producers \ {p} : ppc'[q] = ppc[q]
      /\ UNCHANGED <<sent, location, tail, headOfQueue, consumerVars, pending>>
      /\ SameSeekers /\ Unwritten' = Unwritten
  BY <1>1, <1>2, GotoFacts
<1>4. AheadInv(heap, tailOfQueue, Unwritten)
  BY DEF PromiseInv
<1>5. AheadStep(p)
  BY <1>1, <1>2, <1>3, <1>4 DEF AheadStep, Others, OwnAhead, AheadInv
<1>6. AheadInv(heap, tailOfQueue, Unwritten)'
  BY <1>4, <1>5, AheadSteps
<1> QED
  BY <1>1, <1>3, <1>6, QuietStep

LEMMA WalkBackPromise ==
  ASSUME IInv, RoomLeft, PromiseInv, NEW p \in Producers, WalkBack(p)
  PROVE  PromiseInv'
<1> DEFINE b == tempTail[p]
           x == heap[b].prev
           pc == IF location[p] < Begin(b) THEN "walk" ELSE "write"
<1>1. /\ ppc[p] = "walk" /\ Goto(p, pc)
      /\ UNCHANGED <<heap, tailOfQueue, newBuffer>>
      /\ \/ location[p] < Begin(b) /\ tempTail' = [tempTail EXCEPT ![p] = x]
            /\ isLastBuffer' = [isLastBuffer EXCEPT ![p] = FALSE]
         \/ UNCHANGED <<tempTail, isLastBuffer>>
  BY DEF WalkBack, At
<1>2. pc \in Seeking /\ "walk" \in Seeking /\ pc \in {"walk", "write"}
  BY DEF Seeking
<1> HIDE DEF pc
<1>3. /\ ppc'[p] = pc /\ \A q \in Producers \ {p} : ppc'[q] = ppc[q]
      /\ UNCHANGED <<sent, location, tail, headOfQueue, consumerVars, pending>>
      /\ SameSeekers /\ Unwritten' = Unwritten
  BY <1>1, <1>2, GotoFacts
<1>4. AheadInv(heap, tailOfQueue, Unwritten)
  BY DEF PromiseInv
<1>5. \A q \in Producers \ {p} : tempTail'[q] = tempTail[q] /\ isLastBuffer'[q] = isLastBuffer[q]
  BY <1>1 DEF IInv, TypeInv
<1>6. ~isLastBuffer'[p] => Pos(heap, tempTail'[p]) < Pos(heap, tailOfQueue)
  <2>1. CASE UNCHANGED <<tempTail, isLastBuffer>>
    BY <1>1, <1>4, <2>1 DEF AheadInv
  <2>2. CASE location[p] < Begin(b) /\ tempTail' = [tempTail EXCEPT ![p] = x]
    <3>1. /\ b \in DOMAIN heap /\ location[p] \in Nat /\ Pos(heap, b) <= Pos(heap, tailOfQueue)
          /\ location[p] \in Unwritten
      BY <1>1, <1>2, SeatFacts, SeekerIsUnwritten DEF Seated, InEnqueue, IInv
    <3>2. Begin(b) = Lo(heap, b) /\ Lo(heap, b) \in Nat
      BY <3>1, NoWrap, InvFacts, ChainFacts
    <3>3. Lo(heap, headOfQueue) <= location[p]
      BY <3>1 DEF IInv, HeapInv, SlotInv
    <3>4. Pos(heap, b) > Pos(heap, headOfQueue)
      <4>1. /\ Pos(heap, b) \in Nat /\ Pos(heap, headOfQueue) \in Nat
            /\ Lo(heap, headOfQueue) \in Nat
            /\ Pos(heap, b) <= Pos(heap, headOfQueue) => Lo(heap, b) <= Lo(heap, headOfQueue)
        BY <3>1, InvFacts, ChainFacts
      <4> QED
        BY <2>2, <3>1, <3>2, <3>3, <4>1
    <3>5. x \in Known(heap, Chain) /\ Pos(heap, x) < Pos(heap, b)
      BY <3>1, <3>4 DEF IInv, HeapInv, Back
    <3>6. x \in DOMAIN heap
      BY <3>5 DEF Known
    <3>7. Pos(heap, x) \in Nat /\ Pos(heap, b) \in Nat /\ Pos(heap, tailOfQueue) \in Nat
      BY <3>1, <3>6, InvFacts
    <3>8. tempTail'[p] = x
      BY <2>2 DEF IInv, TypeInv
    <3> QED
      BY <3>1, <3>5, <3>7, <3>8
  <2> QED
    BY <1>1, <2>1, <2>2
<1>7. AheadStep(p)
  BY <1>1, <1>2, <1>3, <1>4, <1>5, <1>6 DEF AheadStep, Others, OwnAhead
<1>8. AheadInv(heap, tailOfQueue, Unwritten)'
  BY <1>4, <1>7, AheadSteps
<1> QED
  BY <1>1, <1>3, <1>8, QuietStep

\* The first compare-and-swap, in the loop and ahead of need.
LEMMA LinkPromise ==
  ASSUME IInv, PromiseInv, NEW p \in Producers, Link(p) \/ LinkAhead(p)
  PROVE  PromiseInv'
<1> DEFINE b == tempTail[p]
           last == tailOfQueue
<1>1. /\ ppc[p] \in {"link", "linkAhead"}
      /\ UNCHANGED <<tailOfQueue, tempTail, isLastBuffer>>
      /\ heap[b].next # Null => UNCHANGED heap
      /\ heap[b].next = Null => Linking(p)
  BY LinkKeeps, LinkAheadKeeps DEF Link, LinkAhead, At
<1>2. PICK pc \in {"swing", "swingAhead", "load", "idle"} :
        /\ Goto(p, pc)
        /\ heap[b].next = Null => pc = IF ppc[p] = "link" THEN "swing" ELSE "swingAhead"
        /\ heap[b].next # Null => pc = IF ppc[p] = "link" THEN "load" ELSE "idle"
  BY DEF Link, LinkAhead, LinkBuffer, At
<1>3. pc \in Seeking <=> ppc[p] \in Seeking
  BY <1>1, <1>2 DEF Seeking
<1>4. /\ ppc'[p] = pc /\ \A q \in Producers \ {p} : ppc'[q] = ppc[q]
      /\ UNCHANGED <<sent, location, tail, headOfQueue, consumerVars, pending>>
      /\ SameSeekers /\ Unwritten' = Unwritten
  BY <1>2, <1>3, GotoFacts
<1>5. AheadInv(heap, tailOfQueue, Unwritten)
  BY DEF PromiseInv
<1>6. /\ \A c \in DOMAIN heap : Pos(heap', c) = Pos(heap, c)
      /\ heap'[last].next # Null <=> (heap[last].next # Null \/ b = last)
  <2>1. last \in DOMAIN heap /\ Len(heap) + 1 # Null
    BY InvFacts, HeapFacts DEF Null
  <2>2. CASE heap[b].next # Null
    BY <1>1, <2>2
  <2>3. CASE heap[b].next = Null
    <3>1. \A c \in DOMAIN heap : Pos(heap', c) = Pos(heap, c)
                                 /\ heap'[c].next = IF c = b THEN Len(heap) + 1 ELSE heap[c].next
      BY <1>1, <2>3 DEF Linking, Extended
    <3> QED
      BY <2>1, <2>3, <3>1
  <2> QED
    BY <2>2, <2>3
<1>7. OwnAhead(p)
  BY <1>1, <1>2, <1>4, <1>5 DEF OwnAhead, AheadInv
<1>8. AheadStep(p)
  <2>1. heap'[last].next # Null =>
          heap[last].next # Null \/ (ppc'[p] \in {"swing", "swingAhead"} /\ tempTail'[p] = last)
    BY <1>1, <1>2, <1>4, <1>6
  <2> QED
    BY <1>1, <1>4, <1>6, <1>7, <2>1 DEF AheadStep, Others
<1>9. AheadInv(heap, tailOfQueue, Unwritten)'
  BY <1>5, <1>8, AheadSteps
<1>10. ppc[p] # "idle" /\ (UNCHANGED heap \/ (Linking(p) /\ ppc[p] \in {"link", "linkAhead"}))
  BY <1>1
<1> QED
  BY <1>4, <1>9, <1>10, QuietStep

\* The second compare-and-swap.
LEMMA SwingTailPromise ==
  ASSUME IInv, PromiseInv, NEW p \in Producers, SwingTail(p)
  PROVE  PromiseInv'
<1> DEFINE pc == IF ppc[p] = "swing" THEN "load" ELSE "idle"
           last == tailOfQueue
<1>1. /\ ppc[p] \in {"swing", "swingAhead"} /\ Goto(p, pc)
      /\ UNCHANGED <<heap, tempTail, isLastBuffer>>
      /\ tailOfQueue' = IF last = tempTail[p] THEN newBuffer[p] ELSE last
  BY DEF SwingTail, At
<1>2. pc \in Seeking <=> ppc[p] \in Seeking
  BY <1>1 DEF Seeking
<1>3. pc \in {"load", "idle"} /\ (pc = "load" => ppc[p] = "swing")
  BY <1>1
<1> HIDE DEF pc
<1>4. /\ ppc'[p] = pc /\ \A q \in Producers \ {p} : ppc'[q] = ppc[q]
      /\ UNCHANGED <<sent, location, tail, headOfQueue, consumerVars, pending>>
      /\ SameSeekers /\ Unwritten' = Unwritten
  BY <1>1, <1>2, GotoFacts
<1>5. AheadInv(heap, last, Unwritten)
  BY DEF PromiseInv
<1>6. CASE last # tempTail[p]
  <2>1. tailOfQueue' = last
    BY <1>1, <1>6
  <2>2. \A q \in Producers : ppc[q] \in {"swing", "swingAhead", "linkAhead"} /\ tempTail[q] = last =>
          ppc'[q] = ppc[q]
    BY <1>4, <1>6
  <2>3. \A q \in Producers :
          ppc'[q] \in {"load", "check", "link", "swing", "walk", "write"} =>
            ppc[q] = ppc'[q] \/ (ppc[q] = "swing" /\ ppc'[q] = "load")
    BY <1>3, <1>4
  <2>4. AheadInv(heap, tailOfQueue, Unwritten)'
    BY <1>1, <1>4, <1>5, <2>1, <2>2, <2>3 DEF AheadInv
  <2> QED
    BY <1>1, <1>4, <2>4, QuietStep
<1>7. CASE last = tempTail[p]
  <2> DEFINE new == newBuffer[p]
  <2>1. new # Null /\ heap[last].next = new /\ tailOfQueue' = new
    BY <1>1, <1>7 DEF IInv, ProducerInv, Swinging
  <2>2. last \in Chain /\ new \in Chain /\ Pos(heap, last) < Pos(heap, new)
    BY <2>1, InvFacts DEF Linked
  <2>3. Hi(heap, last) <= Lo(heap, new) /\ Hi(heap, last) \in Nat /\ Lo(heap, new) \in Nat
        /\ Hi(heap, new) = Lo(heap, new) + BufferSize /\ BufferSize \in Nat /\ BufferSize >= 2
    BY <2>2, BufferOrder
  <2>4. heap[new].next = Null
    <3> SUFFICES ASSUME heap[new].next # Null PROVE FALSE
      OBVIOUS
    <3>1. heap[new].next \in Chain /\ Pos(heap, new) < Pos(heap, heap[new].next)
      BY <2>2, InvFacts DEF Linked
    <3>2. Chain \subseteq DOMAIN heap
      BY InvFacts
    <3>3. /\ Pos(heap, new) \in Nat /\ Pos(heap, heap[new].next) \in Nat /\ Pos(heap, last) \in Nat
      BY <2>2, <3>1, <3>2, InvFacts
    <3>4. Pos(heap, heap[new].next) <= Pos(heap, last) + 1
      BY <3>1, <3>2 DEF IInv, HeapInv, Bounded
    <3> QED
      BY <2>2, <3>1, <3>3, <3>4
  <2> HIDE DEF new
  <2>5. \A l \in Nat : l \notin Unwritten => l < Hi(heap, new)
    BY <1>5, <2>3 DEF AheadInv
  <2>6. Hi(heap, new) - 2 \in Unwritten
    <3>1. Hi(heap, new) - 2 \in Nat /\ ~(Hi(heap, new) - 2 < Hi(heap, last))
      BY <2>3
    <3> QED
      BY <1>5, <3>1 DEF AheadInv
  <2>7. ASSUME NEW q \in Producers
        PROVE  /\ ppc'[q] \in {"load", "check", "link", "swing"} => isLastBuffer[q]
               /\ ppc'[q] \in {"walk", "write"} /\ ~isLastBuffer[q] =>
                    Pos(heap, tempTail[q]) < Pos(heap, new)
    <3>1. ppc'[q] \in {"load", "check", "link", "swing"} => ppc[q] \in {"load", "check", "link", "swing"}
      BY <1>3, <1>4
    <3>2. ppc'[q] \in {"walk", "write"} => ppc[q] = ppc'[q]
      BY <1>3, <1>4
    <3>3. ppc[q] \in {"walk", "write"} => Pos(heap, tempTail[q]) \in Nat
      BY SeatFacts, InvFacts DEF InEnqueue
    <3>4. Pos(heap, last) \in Nat /\ Pos(heap, new) \in Nat
      BY <2>2, InvFacts
    <3> QED
      BY <1>5, <2>2, <3>1, <3>2, <3>3, <3>4 DEF AheadInv
  <2>8. AheadInv(heap, tailOfQueue, Unwritten)'
    BY <1>1, <1>4, <2>1, <2>4, <2>5, <2>6, <2>7 DEF AheadInv
  <2> QED
    BY <1>1, <1>4, <2>8, QuietStep
<1> QED
  BY <1>6, <1>7

\* The item is in its place now.
LEMMA WritePromise ==
  ASSUME IInv, RoomLeft, PromiseInv, NEW p \in Producers, Write(p)
  PROVE  PromiseInv'
<1> DEFINE b == tempTail[p]
           i == Slot(p)
           x == [buffer |-> b, at |-> i]
           v == [isSet |-> "SET", data |-> Item(p)]
           pc == IF i = BufferSize - 2 /\ isLastBuffer[p] THEN "linkAhead" ELSE "idle"
           last == tailOfQueue
<1>1. ppc[p] = "write" /\ ppc[p] \in Seeking /\ Chain' = Chain
  BY WriteKeeps DEF Write, At, Seeking
<1>2. /\ b \in Chain /\ i \in Slots /\ i = location[p] - Lo(heap, b) /\ heap[b].slots[i].isSet = "EMPTY"
      /\ Holds(heap, b, location[p]) /\ b \in DOMAIN heap /\ location[p] \in Nat
      /\ Lo(heap, b) \in Nat /\ HeapType(heap) /\ i \in Nat
  BY <1>1, WriterFacts, InvFacts, SeatFacts, BufferOrder, BufferSizeAssumption DEF Slots
<1>3. /\ heap' = Written(heap, b, i, v)
      /\ Goto(p, pc) /\ UNCHANGED <<tailOfQueue, tempTail, newBuffer, isLastBuffer>>
  BY <1>2 DEF Write, Written
<1>4. v \in SlotType /\ x.buffer = b /\ x.at = i /\ x \in Places(Chain)
  <2>1. Item(p) \in Producers \X Nat
    BY ItemFacts DEF PromiseInv
  <2> QED
    BY <1>2, <2>1 DEF SlotType, States, Data, Places
<1>5. pc \in {"linkAhead", "idle"} /\ pc \notin Seeking
      /\ (i = BufferSize - 2 /\ isLastBuffer[p] => pc = "linkAhead")
  BY DEF Seeking
<1>6. Loc(heap, x) = location[p] /\ v.isSet = "SET" /\ v.data = Item(p)
  BY <1>2 DEF Loc
<1> HIDE DEF v, pc, b, i, x
<1>7. /\ SameShape(heap, heap')
      /\ \A c \in DOMAIN heap : heap'[c].head = heap[c].head
      /\ \A c \in DOMAIN heap, j \in Slots :
           heap'[c].slots[j] = IF c = b /\ j = i THEN v ELSE heap[c].slots[j]
  <2>1. HeapType(heap) /\ b \in DOMAIN heap /\ i \in Slots /\ v \in SlotType
        /\ heap' = Written(heap, b, i, v)
    BY <1>2, <1>3, <1>4
  <2> QED
    BY ONLY <2>1, WriteFields
<1>8. /\ ppc'[p] = pc /\ \A q \in Producers \ {p} : ppc'[q] = ppc[q]
      /\ UNCHANGED <<sent, location, tail, headOfQueue, consumerVars, pending>>
  BY <1>3, GotoFacts
<1>9. \A c \in DOMAIN heap : Pos(heap', c) = Pos(heap, c) /\ heap'[c].next = heap[c].next
  BY <1>7 DEF SameShape
<1>10. ASSUME NEW y \in Places(Chain)
       PROVE  /\ y.buffer \in DOMAIN heap /\ Loc(heap', y) = Loc(heap, y)
              /\ heap'[y.buffer].head = heap[y.buffer].head
              /\ y = x => StateAt(heap', y) = "SET" /\ ItemAt(heap', y) = Item(p)
                          /\ StateAt(heap, y) = "EMPTY"
              /\ y # x => StateAt(heap', y) = StateAt(heap, y) /\ ItemAt(heap', y) = ItemAt(heap, y)
  <2>1. y.buffer \in DOMAIN heap /\ y.at \in Slots /\ y = [buffer |-> y.buffer, at |-> y.at]
    BY PlaceFacts
  <2>2. y = x <=> y.buffer = b /\ y.at = i
    BY <1>4, <2>1 DEF x
  <2>3. heap'[y.buffer].slots[y.at] = IF y = x THEN v ELSE heap[y.buffer].slots[y.at]
    BY <1>7, <2>1, <2>2
  <2> QED
    BY <1>2, <1>6, <1>7, <1>9, <2>1, <2>2, <2>3 DEF Loc, Lo, StateAt, ItemAt
<1>11. SlotInv(heap, headOfQueue, last, Chain, Unwritten) /\ location[p] \in Unwritten
  BY <1>1, SeekerIsUnwritten DEF IInv, HeapInv
<1>12. heap[x.buffer].head <= x.at
  BY <1>2, <1>4, <1>11 DEF SlotInv
<1>13. Filled(heap', Chain') = Filled(heap, Chain) \cup {x} /\ x \notin Filled(heap, Chain)
  BY <1>1, <1>4, <1>10, <1>12 DEF Filled
<1>14. \A l \in Unwritten : l = location[p] \/ l \in Unwritten'
  BY <1>8 DEF Unwritten
<1>15. \A q \in Producers : Item(q)' = Item(q)
  BY <1>8 DEF Item
<1>16. Arriving = Arriving' \cup {Item(p)} /\ Item(p) \in Arriving
  BY <1>1, <1>5, <1>8, <1>15 DEF Arriving
<1>17. LocatedInv'
  <2>1. PICK L \in [Producers \X Nat -> Nat] : Located(heap, Chain, L)
    BY DEF PromiseInv, LocatedInv
  <2>2. Item(p) \in DOMAIN pending /\ L[Item(p)] = location[p]
    BY <1>1, <2>1 DEF Located
  <2>3. ASSUME NEW y \in Filled(heap', Chain')
        PROVE  ItemAt(heap', y) \in DOMAIN pending' /\ L[ItemAt(heap', y)] = Loc(heap', y)
    <3>1. y \in Places(Chain) /\ (y # x => y \in Filled(heap, Chain))
      BY <1>1, <1>13, <2>3 DEF Filled
    <3> QED
      BY <1>6, <1>8, <1>10, <2>1, <2>2, <3>1 DEF Located
  <2>4. \A q \in Producers : ppc'[q] \in Seeking => Item(q)' \in DOMAIN pending' /\ L[Item(q)'] = location'[q]
    BY <1>5, <1>8, <1>15, <2>1 DEF Located
  <2>5. ASSUME NEW j \in DOMAIN pending', j \notin Arriving'
        PROVE  \E y \in Filled(heap', Chain') : ItemAt(heap', y) = j
    <3>1. CASE j = Item(p)
      BY <1>4, <1>10, <1>13, <3>1
    <3>2. CASE j # Item(p)
      <4>1. j \in DOMAIN pending /\ j \notin Arriving
        BY <1>8, <1>16, <2>5, <3>2
      <4>2. PICK y \in Filled(heap, Chain) : ItemAt(heap, y) = j
        BY <2>1, <4>1 DEF Located
      <4>3. y \in Places(Chain) /\ y # x
        BY <1>13 DEF Filled
      <4> QED
        BY <1>10, <1>13, <4>2, <4>3
    <3> QED
      BY <3>1, <3>2
  <2>6. \A k \in DOMAIN pending' : \A j \in pending'[k] :
          j \in DOMAIN pending' /\ j \notin Arriving' /\ L[j] < L[k]
    BY <1>8, <1>16, <2>1 DEF Located
  <2>7. Located(heap, Chain, L)'
    BY <2>3, <2>4, <2>5, <2>6 DEF Located
  <2> QED
    BY <2>7 DEF LocatedInv
<1>18. SentInv'
  BY <1>8 DEF PromiseInv, SentInv
<1>19. EmptyInv(heap, Chain, Unwritten)'
  <2> SUFFICES ASSUME NEW y \in Places(Chain), StateAt(heap', y) = "EMPTY" PROVE Loc(heap', y) \in Unwritten'
    BY <1>1 DEF EmptyInv
  <2>1. y # x /\ StateAt(heap, y) = "EMPTY" /\ Loc(heap', y) = Loc(heap, y)
    BY <1>10
  <2>2. Loc(heap, y) \in Unwritten
    BY <2>1 DEF PromiseInv, EmptyInv
  <2>3. Loc(heap, y) # location[p]
    BY <1>4, <1>6, <2>1, PlacesApart
  <2> QED
    BY <1>14, <2>1, <2>2, <2>3
<1>20. AheadInv(heap, last, Unwritten)
  BY DEF PromiseInv
<1>21. AheadInv(heap, tailOfQueue, Unwritten)'
  <2>1. OwnAhead(p)
    BY <1>5, <1>8 DEF OwnAhead
  <2>2. last \in Chain /\ last \in DOMAIN heap /\ Pos(heap, b) <= Pos(heap, last)
        /\ Pos(heap, b) \in Nat /\ Pos(heap, last) \in Nat
    BY <1>1, <1>2, SeatFacts, InvFacts DEF Seated, InEnqueue, b
  <2>3. /\ Lo(heap, last) \in Nat /\ Hi(heap, last) = Lo(heap, last) + BufferSize
        /\ Hi(heap, b) = Lo(heap, b) + BufferSize
        /\ b = last \/ Hi(heap, b) <= Lo(heap, last)
        /\ BufferSize \in Nat /\ BufferSize >= 2
    BY <1>2, <2>2, BufferOrder
  <2>4. location[p] < Hi(heap, last) /\ Lo(heap, b) <= location[p] /\ location[p] < Hi(heap, b)
    BY <1>2, <2>3 DEF Holds
  <2>5. \A l \in Unwritten : l \in Unwritten' \/ l < Hi(heap, last)
    BY <1>14, <2>4
  <2>6. ASSUME Hi(heap, last) - 2 \in Unwritten \ Unwritten'
        PROVE  ppc'[p] = "linkAhead" /\ tempTail'[p] = last
    <3>1. location[p] = Hi(heap, last) - 2
      BY <1>14, <2>6
    <3>2. b = last
      BY <1>2, <2>3, <2>4, <3>1
    <3>3. isLastBuffer[p]
      BY <1>1, <1>20, <2>2, <3>2 DEF AheadInv, b
    <3>4. i = BufferSize - 2
      BY <1>2, <2>3, <3>1, <3>2
    <3> QED
      BY <1>3, <1>5, <1>8, <3>2, <3>3, <3>4 DEF b
  <2>7. AheadStep(p)
    BY <1>1, <1>3, <1>8, <1>9, <2>1, <2>2, <2>5, <2>6 DEF AheadStep, Others
  <2> QED
    BY <1>20, <2>7, AheadSteps
<1>22. FillsOnly
  <2>1. UNCHANGED <<headOfQueue, cpc, temp, scan>>
    BY <1>8 DEF consumerVars
  <2>2. \A y \in Filled(heap', Chain') : y \in Filled(heap, Chain) \/ ItemAt(heap', y) \in Arriving
    BY <1>4, <1>10, <1>13, <1>16
  <2>3. ASSUME NEW y \in Places(Chain)
        PROVE  /\ StateAt(heap', y) = "HANDLED" => StateAt(heap, y) = "HANDLED"
               /\ StateAt(heap, y) = "SET" => ItemAt(heap', y) = ItemAt(heap, y)
    BY <1>10
  <2> QED
    BY <1>1, <1>7, <1>8, <1>9, <2>1, <2>2, <2>3 DEF FillsOnly
<1>23. LookInv(heap, headOfQueue, Chain, pending, cpc, temp, scan)'
  BY <1>22, LookStays DEF PromiseInv
<1>24. ~calm'
  BY <1>1, <1>8 DEF PromiseInv, CalmInv, consumerVars
<1>25. CalmInv(heap, headOfQueue, tailOfQueue, cpc)'
  BY <1>24 DEF CalmInv
<1> QED
  BY <1>17, <1>18, <1>19, <1>21, <1>23, <1>25 DEF PromiseInv

\* A new item gets the next location.
LEMMA ClaimPromise ==
  ASSUME IInv, RoomLeft, PromiseInv, NEW p \in Producers, Claim(p)
  PROVE  PromiseInv'
<1> DEFINE new == <<p, sent[p] + 1>>
<1>1. /\ ppc[p] = "idle" /\ sent[p] < Quota[p] /\ ~calm'
      /\ UNCHANGED <<heap, headOfQueue, tailOfQueue, tempTail, cpc, temp, scan>>
      /\ location' = [location EXCEPT ![p] = tail]
      /\ isLastBuffer' = [isLastBuffer EXCEPT ![p] = TRUE]
      /\ ppc' = [ppc EXCEPT ![p] = "load"]
      /\ sent' = [sent EXCEPT ![p] = @ + 1]
      /\ tail' = tail + 1
  BY ClaimKeeps DEF Claim, At
<1>2. /\ ppc'[p] = "load" /\ location'[p] = tail /\ sent'[p] = sent[p] + 1 /\ isLastBuffer'[p]
      /\ \A q \in Producers \ {p} :
           /\ ppc'[q] = ppc[q] /\ location'[q] = location[q] /\ sent'[q] = sent[q]
           /\ isLastBuffer'[q] = isLastBuffer[q]
      /\ sent \in [Producers -> Nat] /\ tail \in Nat
  BY <1>1 DEF IInv, TypeInv
<1>3. /\ DOMAIN pending' = DOMAIN pending \cup {new}
      /\ pending'[new] = DOMAIN pending \ Open
      /\ \A i \in DOMAIN pending : i # new => pending'[i] = pending[i]
  BY <1>2 DEF Claim
<1>4. new \notin DOMAIN pending
  <2> SUFFICES ASSUME NEW q \in Producers, NEW n \in 1 .. sent[q], new = <<q, n>> PROVE FALSE
    BY DEF PromiseInv, SentInv
  <2> QED
    BY <1>2
<1>5. Chain' = Chain
  BY <1>1 DEF Chain
<1>6. Unwritten' = Unwritten
  <2>1. "load" \in Seeking /\ "idle" \notin Seeking
    BY DEF Seeking
  <2>2. ASSUME NEW l \in Nat PROVE l \in Unwritten <=> l \in Unwritten'
    <3>1. l >= tail <=> l = tail \/ l >= tail'
      BY <1>1, <1>2
    <3>2. CASE l = tail
      BY <1>1, <1>2, <2>1, <3>1, <3>2 DEF Unwritten
    <3>3. CASE l # tail
      BY <1>1, <1>2, <2>1, <3>1, <3>3 DEF Unwritten
    <3> QED
      BY <3>2, <3>3
  <2> QED
    BY <2>2 DEF Unwritten
<1>7. Item(p)' = new /\ \A q \in Producers \ {p} : Item(q)' = Item(q)
  BY <1>2 DEF Item
<1>8. Arriving' = Arriving \cup {new} /\ Arriving \subseteq Open
  <2>1. "load" \in Seeking /\ "idle" \notin Seeking
    BY DEF Seeking
  <2> HIDE DEF new
  <2>2. Arriving' \subseteq Arriving \cup {new}
    BY <1>2, <1>7 DEF Arriving
  <2>3. new \in Arriving'
    BY <1>2, <1>7, <2>1 DEF Arriving
  <2>4. Arriving \subseteq Arriving'
    <3> SUFFICES ASSUME NEW q \in Producers, ppc[q] \in Seeking PROVE Item(q) \in Arriving'
      BY DEF Arriving
    <3>1. q # p
      BY <1>1, <2>1
    <3> QED
      BY <1>2, <1>7, <3>1 DEF Arriving
  <2> QED
    BY <2>1, <2>2, <2>3, <2>4 DEF Arriving, Open
<1> HIDE DEF new
<1>9. LocatedInv'
  <2>1. PICK L \in [Producers \X Nat -> Nat] : Located(heap, Chain, L)
    BY DEF PromiseInv, LocatedInv
  <2>2. new \in Producers \X Nat
    BY <1>2 DEF new
  <2>3. \A i \in DOMAIN pending : i \in Producers \X Nat /\ i # new
    BY <1>4, ItemFacts DEF PromiseInv
  <2>4. PICK M \in [Producers \X Nat -> Nat] : M[new] = tail /\ \A i \in DOMAIN pending : M[i] = L[i]
    <3>1. [L EXCEPT ![new] = tail] \in [Producers \X Nat -> Nat]
      BY <1>2
    <3>2. \A i \in DOMAIN pending : [L EXCEPT ![new] = tail][i] = L[i]
      BY <2>3
    <3>3. [L EXCEPT ![new] = tail][new] = tail
      BY <2>2
    <3> QED
      BY <3>1, <3>2, <3>3
  <2>5. \A x \in Filled(heap, Chain) : ItemAt(heap, x) \in DOMAIN pending' /\ M[ItemAt(heap, x)] = Loc(heap, x)
    BY <1>3, <2>1, <2>4 DEF Located
  <2>6. ASSUME NEW q \in Producers, ppc'[q] \in Seeking
        PROVE  Item(q)' \in DOMAIN pending' /\ M[Item(q)'] = location'[q]
    <3>1. CASE q = p
      BY <1>2, <1>3, <1>7, <2>4, <3>1
    <3>2. CASE q # p
      BY <1>2, <1>3, <1>7, <2>1, <2>4, <2>6, <3>2 DEF Located
    <3> QED
      BY <3>1, <3>2
  <2>7. \A i \in DOMAIN pending' : i \in Arriving' \/ \E x \in Filled(heap, Chain) : ItemAt(heap, x) = i
    BY <1>3, <1>8, <2>1 DEF Located
  <2>8. ASSUME NEW i \in DOMAIN pending', NEW j \in pending'[i]
        PROVE  j \in DOMAIN pending' /\ j \notin Arriving' /\ M[j] < M[i]
    <3>1. CASE i = new
      <4>1. j \in DOMAIN pending /\ j \notin Arriving /\ j \notin Arriving'
        BY <1>3, <1>4, <1>8, <2>8, <3>1
      <4>2. PICK x \in Filled(heap, Chain) : ItemAt(heap, x) = j
        BY <2>1, <4>1 DEF Located
      <4>3. M[j] < tail
        BY <2>5, <4>2, FilledFacts
      <4> QED
        BY <1>3, <2>4, <3>1, <4>1, <4>3
    <3>2. CASE i # new
      <4>1. i \in DOMAIN pending /\ j \in pending[i]
        BY <1>3, <2>8, <3>2
      <4>2. j \in DOMAIN pending /\ j \notin Arriving /\ L[j] < L[i]
        BY <2>1, <4>1 DEF Located
      <4> QED
        BY <1>3, <1>8, <2>3, <2>4, <4>1, <4>2
    <3> QED
      BY <3>1, <3>2
  <2>9. Located(heap, Chain, M)'
    BY <1>1, <1>5, <2>5, <2>6, <2>7, <2>8 DEF Located
  <2> QED
    BY <2>9 DEF LocatedInv
<1>10. SentInv'
  <2>1. \A q \in Producers : sent'[q] <= Quota[q] /\ sent[q] <= sent'[q]
    BY <1>1, <1>2, QuotaAssumption DEF PromiseInv, SentInv
  <2>2. ASSUME NEW i \in DOMAIN pending' PROVE \E q \in Producers : \E n \in 1 .. sent'[q] : i = <<q, n>>
    <3>1. CASE i = new
      <4>1. sent[p] + 1 \in 1 .. sent'[p]
        BY <1>2
      <4> QED
        BY <3>1, <4>1 DEF new
    <3>2. CASE i # new
      <4>1. PICK q \in Producers : \E n \in 1 .. sent[q] : i = <<q, n>>
        BY <1>3, <2>2, <3>2 DEF PromiseInv, SentInv
      <4>2. sent'[q] \in Nat /\ sent[q] \in Nat /\ sent[q] <= sent'[q]
        BY <1>2, <2>1
      <4> QED
        BY <4>1, <4>2
    <3> QED
      BY <3>1, <3>2
  <2> QED
    BY <2>1, <2>2 DEF SentInv
<1>11. EmptyInv(heap, Chain, Unwritten)'
  BY <1>1, <1>5, <1>6 DEF PromiseInv, EmptyInv
<1>12. AheadInv(heap, tailOfQueue, Unwritten)
  BY DEF PromiseInv
<1>13. AheadStep(p)
  BY <1>1, <1>2, <1>6 DEF AheadStep, Others, OwnAhead
<1>14. AheadInv(heap, tailOfQueue, Unwritten)'
  BY <1>12, <1>13, AheadSteps
<1>15. FillsOnly
  BY <1>1, <1>3, <1>4, <1>5 DEF FillsOnly
<1>16. LookInv(heap, headOfQueue, Chain, pending, cpc, temp, scan)'
  BY <1>15, LookStays DEF PromiseInv
<1>17. CalmInv(heap, headOfQueue, tailOfQueue, cpc)'
  BY <1>1 DEF CalmInv
<1> QED
  BY <1>9, <1>10, <1>11, <1>14, <1>16, <1>17 DEF PromiseInv

\* A step that changes nothing the promise speaks of.
LEMMA IdlePromise ==
  ASSUME PromiseInv, UNCHANGED <<heap, headOfQueue, tailOfQueue, tail, producerVars,
                                 cpc, temp, scan, calm, pending>>
  PROVE  PromiseInv'
<1>1. /\ heap' = heap /\ headOfQueue' = headOfQueue /\ tailOfQueue' = tailOfQueue /\ tail' = tail
      /\ sent' = sent /\ ppc' = ppc /\ location' = location /\ tempTail' = tempTail
      /\ isLastBuffer' = isLastBuffer /\ cpc' = cpc /\ temp' = temp /\ scan' = scan
      /\ calm' = calm /\ pending' = pending
  BY DEF producerVars
<1>2. Chain' = Chain /\ Unwritten' = Unwritten
  BY <1>1 DEF Chain, Unwritten
<1>3. Arriving' = Arriving /\ \A p \in Producers : Item(p)' = Item(p)
  BY <1>1 DEF Arriving, Item
<1>4. LocatedInv'
  <2>1. PICK L \in [Producers \X Nat -> Nat] : Located(heap, Chain, L)
    BY DEF PromiseInv, LocatedInv
  <2>2. Located(heap, Chain, L)'
    BY <1>1, <1>2, <1>3, <2>1 DEF Located
  <2> QED
    BY <2>2 DEF LocatedInv
<1>5. SentInv' /\ EmptyInv(heap, Chain, Unwritten)'
  BY <1>1, <1>2 DEF PromiseInv, SentInv
<1>6. AheadInv(heap, tailOfQueue, Unwritten)'
  BY <1>1, <1>2 DEF PromiseInv, AheadInv
<1>7. LookInv(heap, headOfQueue, Chain, pending, cpc, temp, scan)'
  BY <1>1, <1>2 DEF PromiseInv
<1>8. CalmInv(heap, headOfQueue, tailOfQueue, cpc)'
  BY <1>1 DEF PromiseInv, CalmInv
<1> QED
  BY <1>4, <1>5, <1>6, <1>7, <1>8 DEF PromiseInv

-----------------------------------------------------------------------------
(* Steps of dequeue().                                                     *)

\* dequeue() returns what is in X, or goes on with X = {}.
LEMMA ConsumerPromise ==
  ASSUME IInv, PromiseInv, UNCHANGED <<tailOfQueue, tail, producerVars>>,
         \A b \in DOMAIN heap : Pos(heap', b) = Pos(heap, b),
         heap'[tailOfQueue].next = heap[tailOfQueue].next,
         NEW X \in SUBSET Filled(heap, Chain), Serves(heap, heap', Chain, Chain', X), Delivers(X),
         Empties(heap, heap', Chain, Chain'),
         LookInv(heap, headOfQueue, Chain, pending, cpc, temp, scan)',
         CalmInv(heap, headOfQueue, tailOfQueue, cpc)'
  PROVE  PromiseInv'
<1>1. SameSeekers
  BY DEF SameSeekers, producerVars
<1>2. LocatedInv' /\ SentInv'
  BY <1>1, ServesItems DEF PromiseInv
<1>3. AheadInv(heap, tailOfQueue, Unwritten)' /\ Unwritten' = Unwritten
  BY AheadStays DEF PromiseInv
<1>4. EmptyInv(heap', Chain', Unwritten)
  BY EmptiesKeeps DEF PromiseInv
<1>5. EmptyInv(heap, Chain, Unwritten)'
  BY <1>3, <1>4
<1> QED
  BY <1>2, <1>3, <1>5 DEF PromiseInv

\* The buffers stay as they are, and nothing is returned.
LEMMA QuietConsumer ==
  ASSUME IInv, PromiseInv, UNCHANGED <<heap, headOfQueue, tailOfQueue, tail, producerVars, pending>>,
         LookInv(heap, headOfQueue, Chain, pending, cpc', temp', scan'),
         calm' => CalmInv(heap, headOfQueue, tailOfQueue, cpc)'
  PROVE  PromiseInv'
<1>1. Chain' = Chain
  BY DEF Chain
<1>2. Serves(heap, heap', Chain, Chain', {}) /\ Empties(heap, heap', Chain, Chain')
  BY <1>1 DEF Serves, Empties
<1>3. Delivers({})
  BY DEF Delivers, Returned
<1>4. LookInv(heap, headOfQueue, Chain, pending, cpc, temp, scan)'
  BY <1>1
<1>5. CalmInv(heap, headOfQueue, tailOfQueue, cpc)'
  BY DEF CalmInv
<1> QED
  BY <1>2, <1>3, <1>4, <1>5, ConsumerPromise

\* Outside dequeue() nothing is known of the slots.
LEMMA IdleLook ==
  ASSUME NEW h, NEW hd, NEW C, NEW w, NEW pc \in {"idle", "leave", "skip"}, NEW t, NEW s
  PROVE  LookInv(h, hd, C, w, pc, t, s)
BY DEF LookInv, Scanning

\* From heap to h, the places in X are emptied out or passed by.
Takes(h, X) ==
  /\ SameShape(heap, h)
  /\ \A x \in Places(Chain) :
       /\ x \in Filled(h, Chain) <=> x \in Filled(heap, Chain) /\ x \notin X
       /\ StateAt(h, x) = "EMPTY" => StateAt(heap, x) = "EMPTY"
       /\ ItemAt(h, x) = ItemAt(heap, x)

LEMMA TakesFacts ==
  ASSUME IInv, NEW h, NEW X, Takes(h, X), NEW g, NEW D, Slides(h, g, Chain, D)
  PROVE  /\ \A b \in DOMAIN heap : Pos(g, b) = Pos(heap, b) /\ g[b].next = heap[b].next
         /\ Serves(heap, g, Chain, D, X)
         /\ Empties(heap, g, Chain, D)
<1>1. /\ DOMAIN h = DOMAIN heap /\ HeapType(h)
      /\ \A b \in DOMAIN heap : Pos(h, b) = Pos(heap, b) /\ h[b].next = heap[b].next
  BY DEF Takes, SameShape
<1>2. \A b \in DOMAIN heap : /\ Pos(g, b) = Pos(h, b) /\ g[b].next = h[b].next
                             /\ g[b].head = h[b].head /\ g[b].slots = h[b].slots
  BY <1>1 DEF Slides
<1>3. D \subseteq Chain /\ Chain \subseteq DOMAIN heap /\ Places(D) \subseteq Places(Chain)
  BY InvFacts DEF Slides, Places
<1>4. ASSUME NEW x \in Places(Chain)
      PROVE  /\ x.buffer \in DOMAIN heap /\ x.buffer \in Chain /\ x.at \in Slots
             /\ StateAt(g, x) = StateAt(h, x) /\ ItemAt(g, x) = ItemAt(h, x) /\ Loc(g, x) = Loc(heap, x)
             /\ g[x.buffer].head = h[x.buffer].head
             /\ x \in Places(D) <=> x.buffer \in D
  <2>1. x.buffer \in Chain /\ x.buffer \in DOMAIN heap /\ x.at \in Slots /\ x = [buffer |-> x.buffer, at |-> x.at]
    BY PlaceFacts
  <2> QED
    BY <1>1, <1>2, <2>1 DEF StateAt, ItemAt, Loc, Lo, Places
<1>5. ASSUME NEW x \in Filled(h, Chain)
      PROVE  x \in Places(D)
  <2>1. x \in Places(Chain) /\ h[x.buffer].head <= x.at
    BY DEF Filled
  <2>2. x.at \in Nat /\ x.at < BufferSize /\ BufferSize \in Nat /\ x.buffer \in Chain /\ x.buffer \in DOMAIN heap
    BY <2>1, PlaceFacts
  <2>3. h[x.buffer].head \in Nat
    BY <1>1, <2>2, HeapFacts
  <2>4. x.buffer \in D
    BY <2>1, <2>2, <2>3 DEF Slides
  <2> QED
    BY <1>4, <2>1, <2>4
<1>6. Filled(g, D) = Filled(h, Chain)
  BY <1>3, <1>4, <1>5 DEF Filled
<1>7. Filled(h, Chain) = Filled(heap, Chain) \ X
  BY DEF Takes, Filled
<1>8. Serves(heap, g, Chain, D, X)
  <2>1. \A x \in Filled(g, D) : x \in Places(Chain)
    BY <1>3 DEF Filled
  <2> QED
    BY <1>4, <1>6, <1>7, <2>1 DEF Serves, Takes
<1>9. Empties(heap, g, Chain, D)
  BY <1>3, <1>4 DEF Empties, Takes
<1> QED
  BY <1>1, <1>2, <1>8, <1>9

\* A step that ends in moveToNextBuffer().
LEMMA MovePromise ==
  ASSUME IInv, PromiseInv, NEW X \in SUBSET Filled(heap, Chain), NEW h, Takes(h, X), MoveToNextBuffer(h),
         HeapInv(h, headOfQueue, tailOfQueue, garbageListHead, Chain, tail, Unwritten),
         UNCHANGED <<tailOfQueue, tail, producerVars>>, Delivers(X),
         cpc' \in {"idle", "leave", "skip"},
         calm' => CalmInv(heap, headOfQueue, tailOfQueue, cpc)'
  PROVE  PromiseInv'
<1>1. Unwritten \subseteq Nat /\ tailOfQueue \in DOMAIN heap
  BY InvFacts
<1>2. PICK D :
        /\ HeapInv(heap', headOfQueue', tailOfQueue, garbageListHead', D, tail, Unwritten)
        /\ Slides(h, heap', Chain, D)
  BY ONLY <1>1, MoveToNextBuffer(h), MoveKeeps,
     HeapInv(h, headOfQueue, tailOfQueue, garbageListHead, Chain, tail, Unwritten)
<1>3. Chain' = D
  <2>1. Reach(heap', headOfQueue') = D
    BY <1>2, ReachIsChain DEF HeapInv
  <2> QED
    BY <2>1 DEF Chain
<1>4. /\ \A b \in DOMAIN heap : Pos(heap', b) = Pos(heap, b) /\ heap'[b].next = heap[b].next
      /\ Serves(heap, heap', Chain, Chain', X)
      /\ Empties(heap, heap', Chain, Chain')
  BY <1>2, <1>3, TakesFacts
<1>5. LookInv(heap, headOfQueue, Chain, pending, cpc, temp, scan)'
  BY IdleLook
<1>6. CalmInv(heap, headOfQueue, tailOfQueue, cpc)'
  BY DEF CalmInv
<1> QED
  BY <1>1, <1>4, <1>5, <1>6, ConsumerPromise

LEMMA TakesNothing ==
  ASSUME IInv
  PROVE  Takes(heap, {})
BY SameHeap DEF Takes

\* The first slot comes before all that is filled.
LEMMA FrontPlace ==
  ASSUME IInv, cpc \in InDequeue \ {"leave"}
  PROVE  /\ Front(heap) \in Places(Chain)
         /\ Front(heap).buffer = headOfQueue /\ Front(heap).at = heap[headOfQueue].head
         /\ StateAt(heap, Front(heap)) = SlotAt(Front(heap)).isSet
         /\ ItemAt(heap, Front(heap)) = SlotAt(Front(heap)).data
         /\ SlotAt(Front(heap)).isSet \in States
         /\ SlotAt(Front(heap)).isSet = "SET" => Front(heap) \in Filled(heap, Chain)
         /\ \A y \in Filled(heap, Chain) : Loc(heap, Front(heap)) <= Loc(heap, y)
<1> DEFINE f == Front(heap)
<1>1. /\ f \in Place /\ f.buffer = headOfQueue /\ f.at = heap[headOfQueue].head /\ f.at \in Slots
      /\ headOfQueue \in Chain /\ headOfQueue \in DOMAIN heap
  BY FrontFacts, InvFacts
<1>2. f \in Places(Chain)
  BY <1>1 DEF Front, Places
<1>3. StateAt(heap, f) = SlotAt(f).isSet /\ ItemAt(heap, f) = SlotAt(f).data
  BY DEF StateAt, ItemAt, SlotAt
<1>4. SlotAt(f).isSet \in States
  <2>1. heap[headOfQueue].slots \in [Slots -> SlotType]
    BY <1>1, InvFacts, HeapFacts
  <2>2. heap[headOfQueue].slots[f.at] \in SlotType
    BY <1>1, <2>1
  <2> QED
    BY <1>1, <2>2 DEF SlotAt, SlotType
<1> HIDE DEF f
<1>5. SlotAt(f).isSet = "SET" => f \in Filled(heap, Chain)
  <2>1. heap[headOfQueue].head \in Nat
    BY FrontFacts
  <2> QED
    BY <1>1, <1>2, <1>3, <2>1 DEF Filled
<1>6. ASSUME NEW y \in Filled(heap, Chain)
      PROVE  Loc(heap, f) <= Loc(heap, y)
  <2>1. y \in Places(Chain) /\ heap[y.buffer].head <= y.at
    BY DEF Filled
  <2>2. y.buffer = headOfQueue \/ Pos(heap, headOfQueue) < Pos(heap, y.buffer)
    <3>1. Pos(heap, headOfQueue) <= Pos(heap, y.buffer) /\ y.buffer \in Chain
      BY <2>1, PlaceFacts, InvFacts DEF Linked
    <3>2. Pos(heap, headOfQueue) \in Nat /\ Pos(heap, y.buffer) \in Nat
      BY <2>1, PlaceFacts, InvFacts
    <3> QED
      BY <1>1, <3>1, <3>2, BufferOrder
  <2>3. CASE y.buffer = headOfQueue
    <3>1. /\ Lo(heap, headOfQueue) \in Nat /\ y.at \in Nat /\ f.at \in Nat
          /\ f.at <= y.at
      BY <1>1, <1>2, <2>1, <2>3, PlaceFacts
    <3> QED
      BY <1>1, <2>3, <3>1 DEF Loc
  <2>4. CASE Pos(heap, headOfQueue) < Pos(heap, y.buffer)
    <3>1. Hi(heap, headOfQueue) <= Lo(heap, y.buffer)
      BY <1>1, <2>1, <2>4, PlaceFacts, BufferOrder
    <3>2. /\ Loc(heap, f) \in Nat /\ Loc(heap, f) < Hi(heap, headOfQueue) /\ Hi(heap, headOfQueue) \in Nat
      BY <1>1, <1>2, PlaceFacts
    <3>3. Loc(heap, y) \in Nat /\ Lo(heap, y.buffer) <= Loc(heap, y) /\ Lo(heap, y.buffer) \in Nat
      BY <2>1, PlaceFacts
    <3> QED
      BY <3>1, <3>2, <3>3
  <2> QED
    BY <2>2, <2>3, <2>4
<1> QED
  BY <1>1, <1>2, <1>3, <1>4, <1>5, <1>6 DEF f

\* head++ passes the first slot.
LEMMA TakesFront ==
  ASSUME IInv, cpc \in InDequeue \ {"leave"}, SlotAt(Front(heap)).isSet # "EMPTY"
  PROVE  /\ SlotAt(Front(heap)).isSet = "SET" => Takes(HeadAdvanced(heap), {Front(heap)})
         /\ SlotAt(Front(heap)).isSet = "HANDLED" => Takes(HeadAdvanced(heap), {})
<1> DEFINE f == Front(heap)
           h == HeadAdvanced(heap)
           hd == headOfQueue
<1>1. /\ hd \in Chain /\ hd \in DOMAIN heap /\ HeapType(heap) /\ heap[hd].head < BufferSize
      /\ heap[hd].head \in Nat
  BY InvFacts, FrontFacts
<1>2. h = Advanced(heap, hd)
  BY DEF HeadAdvanced, Advanced
<1> HIDE DEF h
<1>3. /\ SameShape(heap, h)
      /\ h[hd].head = heap[hd].head + 1
      /\ \A c \in DOMAIN heap : c # hd => h[c].head = heap[c].head
      /\ \A c \in DOMAIN heap : h[c].slots = heap[c].slots
  BY ONLY <1>1, <1>2, HeadFields
<1>4. f \in Places(Chain) /\ f.buffer = hd /\ f.at = heap[hd].head /\ StateAt(heap, f) = SlotAt(f).isSet
  BY FrontPlace
<1> HIDE DEF f
<1>5. ASSUME NEW x \in Places(Chain)
      PROVE  /\ StateAt(h, x) = StateAt(heap, x) /\ ItemAt(h, x) = ItemAt(heap, x)
             /\ h[x.buffer].head <= x.at <=> heap[x.buffer].head <= x.at /\ x # f
  <2>1. x.buffer \in DOMAIN heap /\ x.at \in Nat /\ x = [buffer |-> x.buffer, at |-> x.at]
    BY PlaceFacts
  <2>2. StateAt(h, x) = StateAt(heap, x) /\ ItemAt(h, x) = ItemAt(heap, x)
    BY <1>3, <2>1 DEF StateAt, ItemAt
  <2>3. x = f <=> x.buffer = hd /\ x.at = heap[hd].head
    BY <1>4, <2>1, PlaceFacts
  <2>4. h[x.buffer].head <= x.at <=> heap[x.buffer].head <= x.at /\ x # f
    BY <1>1, <1>3, <2>1, <2>3
  <2> QED
    BY <2>2, <2>4
<1>6. SlotAt(f).isSet = "SET" => Takes(h, {f})
  BY <1>3, <1>5 DEF Takes, Filled
<1>7. SlotAt(f).isSet = "HANDLED" => Takes(h, {})
  BY <1>3, <1>4, <1>5 DEF Takes, Filled
<1> QED
  BY <1>6, <1>7 DEF f, h

\* The last buffer is used up.
LEMMA NoneLeft ==
  ASSUME IInv, NEW h, NEW X, Takes(h, X), ~CanMove(h)
  PROVE  Filled(heap, Chain) \subseteq X
<1> SUFFICES ASSUME NEW x \in Filled(heap, Chain), x \notin X PROVE FALSE
  OBVIOUS
<1> DEFINE hd == headOfQueue
<1>1. h[hd].head >= BufferSize /\ (hd = tailOfQueue \/ h[hd].next = Null)
  BY DEF CanMove
<1>2. /\ DOMAIN h = DOMAIN heap /\ HeapType(h)
      /\ \A b \in DOMAIN heap : h[b].next = heap[b].next
  BY DEF Takes, SameShape
<1>3. /\ hd \in Chain /\ tailOfQueue \in Chain /\ hd \in DOMAIN heap
      /\ Linked(heap, hd, Chain) /\ \A b \in DOMAIN heap : Pos(heap, b) \in Nat
  BY InvFacts
<1>4. /\ x \in Places(Chain) /\ Pos(heap, x.buffer) <= Pos(heap, tailOfQueue)
      /\ Pos(heap, hd) <= Pos(heap, x.buffer)
  BY FilledFacts
<1>5. x.buffer \in Chain /\ x.buffer \in DOMAIN heap /\ x.at \in Nat /\ x.at < BufferSize /\ BufferSize \in Nat
  BY <1>4, PlaceFacts
<1>6. hd = tailOfQueue
  <2>1. heap[hd].next = Null => ~(Pos(heap, hd) < Pos(heap, tailOfQueue))
    BY <1>3 DEF Linked
  <2>2. Pos(heap, hd) <= Pos(heap, tailOfQueue)
    BY <1>3 DEF Linked
  <2>3. tailOfQueue \in DOMAIN heap
    BY InvFacts
  <2> QED
    BY <1>1, <1>2, <1>3, <2>1, <2>2, <2>3, BufferOrder
<1>7. x.buffer = hd
  <2>1. Pos(heap, x.buffer) = Pos(heap, hd)
    BY <1>3, <1>4, <1>5, <1>6
  <2> QED
    BY <1>3, <1>5, <2>1 DEF Linked
<1>8. x \in Filled(h, Chain)
  BY <1>4 DEF Takes
<1>9. h[hd].head <= x.at
  BY <1>7, <1>8 DEF Filled
<1>10. h[hd].head \in Nat
  BY <1>2, <1>3, HeapFacts
<1> QED
  BY <1>1, <1>5, <1>9, <1>10

\* No enqueue is open: what is not claimed yet is all that was not written to, and
\* tailOfQueue has room for it.
LEMMA CalmFacts ==
  ASSUME IInv, PromiseInv, calm
  PROVE  /\ \A l \in Unwritten : tail <= l
         /\ Filled(heap, Chain) = {} => DOMAIN pending = {}
         /\ tail < Hi(heap, tailOfQueue)
<1>1. \A p \in Producers : ppc[p] = "idle"
  BY DEF PromiseInv, CalmInv
<1>2. \A p \in Producers : ppc[p] \notin Seeking
  BY <1>1 DEF Seeking
<1>3. \A l \in Unwritten : tail <= l
  BY <1>2, InvFacts DEF Unwritten
<1>4. Arriving = {}
  BY <1>2 DEF Arriving
<1>5. Filled(heap, Chain) = {} => DOMAIN pending = {}
  BY <1>4 DEF PromiseInv, LocatedInv, Located
<1>6. AheadInv(heap, tailOfQueue, Unwritten)
  BY DEF PromiseInv
<1>7. heap[tailOfQueue].next = Null
  BY <1>1, <1>6 DEF AheadInv
<1>8. Hi(heap, tailOfQueue) - 2 \in Unwritten
  BY <1>1, <1>6, <1>7 DEF AheadInv
<1>9. tail <= Hi(heap, tailOfQueue) - 2
  BY <1>3, <1>8
<1>10. tail \in Nat /\ Hi(heap, tailOfQueue) \in Nat
  BY InvFacts, BufferOrder
<1> QED
  BY <1>3, <1>5, <1>9, <1>10

\* dequeue() returns false only if no item is waiting, unless an enqueue was open.
ReportsTruth == ReturnFalse /\ calm => DOMAIN pending = {}

LEMMA BeginDequeuePromise ==
  ASSUME IInv, PromiseInv, BeginDequeue
  PROVE  PromiseInv'
<1>1. /\ UNCHANGED <<heap, headOfQueue, tailOfQueue, tail, producerVars, pending>>
      /\ cpc' = "leave" /\ calm' = (Open = {})
  BY DEF BeginDequeue, Continue
<1>2. LookInv(heap, headOfQueue, Chain, pending, cpc', temp', scan')
  BY <1>1, IdleLook
<1>3. calm' => \A p \in Producers : ppc'[p] = "idle"
  BY <1>1 DEF Open, producerVars
<1>4. "leave" \notin Scanning
  BY DEF Scanning
<1>5. CalmInv(heap, headOfQueue, tailOfQueue, cpc)'
  BY <1>1, <1>3, <1>4 DEF CalmInv
<1> QED
  BY <1>1, <1>2, <1>5, QuietConsumer

\* A step of dequeue() that goes on at pc.
LEMMA GoesOn ==
  ASSUME PromiseInv, NEW pc, pc # "idle", Continue(pc), calm' = calm
  PROVE  /\ UNCHANGED <<tailOfQueue, tail, producerVars, pending>> /\ cpc' = pc
         /\ calm' => \A p \in Producers : ppc'[p] = "idle"
         /\ ~ReturnFalse
         /\ Delivers({})
<1>1. UNCHANGED <<tailOfQueue, tail, producerVars, pending>> /\ cpc' = pc
  BY DEF Continue
<1>2. calm' => \A p \in Producers : ppc'[p] = "idle"
  BY <1>1 DEF PromiseInv, CalmInv, producerVars
<1>3. ~ReturnFalse
  BY <1>1 DEF ReturnFalse, Return
<1>4. Delivers({})
  BY <1>1 DEF Delivers, Returned
<1> QED
  BY <1>1, <1>2, <1>3, <1>4

LEMMA Returns ==
  ASSUME Return
  PROVE  /\ UNCHANGED <<tailOfQueue, tail, producerVars>> /\ cpc' = "idle" /\ ~calm'
         /\ UNCHANGED pending => Delivers({})
BY DEF Return, Delivers, Returned

\* headOfQueue leaves what is used up; dequeue() gives up when that was the last.
LEMMA LeaveBufferPromise ==
  ASSUME IInv, PromiseInv, LeaveBuffer
  PROVE  PromiseInv' /\ ReportsTruth
<1>1. /\ MoveToNextBuffer(heap) /\ Takes(heap, {})
      /\ HeapInv(heap, headOfQueue, tailOfQueue, garbageListHead, Chain, tail, Unwritten)
  BY InvFacts, TakesNothing DEF LeaveBuffer
<1>2. CASE CanMove(heap)
  <2> DEFINE pc == IF heap[headOfQueue].head >= BufferSize THEN "leave" ELSE "skip"
  <2>1. Continue(pc) /\ calm' = calm /\ pc \in {"leave", "skip"} /\ pc # "idle" /\ pc \notin Scanning
    BY <1>2 DEF LeaveBuffer, scanVars, Scanning
  <2> HIDE DEF pc
  <2>2. /\ UNCHANGED <<tailOfQueue, tail, producerVars>> /\ cpc' = pc
        /\ calm' => \A p \in Producers : ppc'[p] = "idle"
        /\ ~ReturnFalse /\ Delivers({})
    BY <2>1, GoesOn
  <2>3. CalmInv(heap, headOfQueue, tailOfQueue, cpc)'
    BY <2>1, <2>2 DEF CalmInv
  <2>4. PromiseInv'
    BY <1>1, <2>1, <2>2, <2>3, MovePromise
  <2> QED
    BY <2>2, <2>4 DEF ReportsTruth
<1>3. CASE ~CanMove(heap)
  <2>1. Return /\ UNCHANGED pending
    BY <1>3 DEF LeaveBuffer, ReturnFalse
  <2>2. UNCHANGED <<tailOfQueue, tail, producerVars>> /\ cpc' = "idle" /\ ~calm' /\ Delivers({})
    BY <2>1, Returns
  <2>3. PromiseInv'
    BY <1>1, <2>2, MovePromise
  <2>4. Filled(heap, Chain) = {}
    BY <1>1, <1>3, NoneLeft
  <2> QED
    BY <2>3, <2>4, CalmFacts DEF ReportsTruth
<1> QED
  BY <1>2, <1>3

\* Slots that were taken out of turn are skipped.
LEMMA SkipHandledPromise ==
  ASSUME IInv, PromiseInv, SkipHandled
  PROVE  PromiseInv' /\ ReportsTruth
<1> DEFINE h == HeadAdvanced(heap)
<1>1. cpc = "skip" /\ cpc \in InDequeue \ {"leave"}
  BY DEF SkipHandled, ConsumerAt, InDequeue
<1>2. CASE SlotAt(Front(heap)).isSet = "HANDLED"
  <2>1. /\ Takes(h, {}) /\ MoveToNextBuffer(h)
        /\ HeapInv(h, headOfQueue, tailOfQueue, garbageListHead, Chain, tail, Unwritten)
    BY <1>1, <1>2, TakesFront, AdvanceFacts DEF SkipHandled
  <2>2. CASE CanMove(h)
    <3>1. Continue("skip") /\ calm' = calm /\ "skip" \notin Scanning
      BY <1>2, <2>2 DEF SkipHandled, scanVars, Scanning
    <3>2. /\ UNCHANGED <<tailOfQueue, tail, producerVars>> /\ cpc' = "skip"
          /\ calm' => \A p \in Producers : ppc'[p] = "idle"
          /\ ~ReturnFalse /\ Delivers({})
      BY <3>1, GoesOn
    <3>3. CalmInv(heap, headOfQueue, tailOfQueue, cpc)'
      BY <3>1, <3>2 DEF CalmInv
    <3> HIDE DEF h
    <3>4. PromiseInv'
      BY <2>1, <3>2, <3>3, MovePromise
    <3> QED
      BY <3>2, <3>4 DEF ReportsTruth
  <2>3. CASE ~CanMove(h)
    <3>1. Return /\ UNCHANGED pending
      BY <1>2, <2>3 DEF SkipHandled, ReturnFalse
    <3>2. UNCHANGED <<tailOfQueue, tail, producerVars>> /\ cpc' = "idle" /\ ~calm' /\ Delivers({})
      BY <3>1, Returns
    <3> HIDE DEF h
    <3>3. PromiseInv'
      BY <2>1, <3>2, MovePromise
    <3>4. Filled(heap, Chain) = {}
      BY <2>1, <2>3, NoneLeft
    <3> QED
      BY <3>3, <3>4, CalmFacts DEF ReportsTruth
  <2> QED
    BY <2>2, <2>3
<1>3. CASE SlotAt(Front(heap)).isSet # "HANDLED"
  <2>1. /\ Continue("lastBuffer") /\ UNCHANGED <<heap, headOfQueue, temp, scan, calm>>
    BY <1>3 DEF SkipHandled, scanVars
  <2>2. /\ UNCHANGED <<tailOfQueue, tail, producerVars, pending>> /\ cpc' = "lastBuffer"
        /\ calm' => \A p \in Producers : ppc'[p] = "idle"
        /\ ~ReturnFalse
    BY <2>1, GoesOn
  <2>3. LookInv(heap, headOfQueue, Chain, pending, cpc', temp', scan')
    BY <1>1, <1>3, <2>2 DEF LookInv, Scanning, SlotAt, Front
  <2>4. CalmInv(heap, headOfQueue, tailOfQueue, cpc)'
    BY <2>2 DEF CalmInv, Scanning
  <2>5. PromiseInv'
    BY <2>1, <2>2, <2>3, <2>4, QuietConsumer
  <2> QED
    BY <2>2, <2>5 DEF ReportsTruth
<1> QED
  BY <1>2, <1>3

\* Only the tail of the last buffer can tell that the queue is empty.
LEMMA CheckLastBufferPromise ==
  ASSUME IInv, PromiseInv, CheckLastBuffer
  PROVE  PromiseInv' /\ ReportsTruth
<1> DEFINE pc == IF headOfQueue = tailOfQueue THEN "empty" ELSE "first"
<1>1. /\ Continue(pc) /\ UNCHANGED <<heap, headOfQueue, temp, scan, calm>> /\ cpc = "lastBuffer"
  BY DEF CheckLastBuffer, scanVars, ConsumerAt
<1>2. /\ pc # "idle" /\ pc \notin Scanning /\ pc \in {"empty", "first"}
      /\ pc = "empty" => headOfQueue = tailOfQueue
  BY DEF Scanning
<1> HIDE DEF pc
<1>3. /\ UNCHANGED <<tailOfQueue, tail, producerVars, pending>> /\ cpc' = pc
      /\ calm' => \A p \in Producers : ppc'[p] = "idle"
      /\ ~ReturnFalse
  BY <1>1, <1>2, GoesOn
<1>4. LookInv(heap, headOfQueue, Chain, pending, cpc', temp', scan')
  BY <1>1, <1>2, <1>3 DEF PromiseInv, LookInv
<1>5. CalmInv(heap, headOfQueue, tailOfQueue, cpc)'
  BY <1>1, <1>2, <1>3 DEF CalmInv
<1>6. PromiseInv'
  BY <1>1, <1>3, <1>4, <1>5, QuietConsumer
<1> QED
  BY <1>3, <1>6 DEF ReportsTruth

\* Where a location is in its buffer.
LEMMA ModuloFacts ==
  ASSUME NEW k \in Nat, NEW r \in Slots
  PROVE  (Times(k) + r) % BufferSize = r
<1>1. BufferSize \in Nat /\ BufferSize >= 2 /\ r \in Nat /\ r < BufferSize
  BY BufferSizeAssumption DEF Slots
<1> DEFINE x == Times(k) + r
           q == x \div BufferSize
           m == x % BufferSize
<1>2. x \in Nat /\ Times(k) \in Nat
  <2>1. Times(k) \in Nat
    BY TimesFacts
  <2> QED
    BY <1>1, <2>1
<1>3. q \in Nat /\ m \in Nat /\ m < BufferSize /\ x = Times(q) + m
  <2>1. ASSUME NEW y \in Nat
        PROVE  /\ y \div BufferSize \in Nat /\ y % BufferSize \in Nat /\ y % BufferSize < BufferSize
               /\ y = Times(y \div BufferSize) + (y % BufferSize)
    BY <1>1 DEF Times
  <2> HIDE DEF x
  <2> QED
    BY <1>2, <2>1
<1>4. x = Times(k) + r
  OBVIOUS
<1> HIDE DEF x, q, m
<1>5. q = k
  <2>1. Times(q) \in Nat
    BY <1>3, TimesFacts
  <2>2. CASE q < k
    BY <1>1, <1>2, <1>3, <1>4, <2>1, <2>2, TimesFacts
  <2>3. CASE k < q
    BY <1>1, <1>2, <1>3, <1>4, <2>1, <2>3, TimesFacts
  <2> QED
    BY <1>3, <2>2, <2>3
<1>6. m = r
  BY <1>1, <1>2, <1>3, <1>4, <1>5
<1> QED
  BY <1>6 DEF m, x

\* headOfQueue is the last buffer and its head is where the next item goes.
LEMMA CheckEmptyPromise ==
  ASSUME IInv, PromiseInv, CheckEmpty
  PROVE  PromiseInv' /\ ReportsTruth
<1>1. /\ UNCHANGED <<heap, headOfQueue>> /\ cpc = "empty" /\ cpc \in InDequeue \ {"leave"}
  BY DEF CheckEmpty, ConsumerAt, InDequeue
<1>2. CASE heap[headOfQueue].head = tail % BufferSize
  <2>1. Return /\ UNCHANGED pending
    BY <1>2 DEF CheckEmpty, ReturnFalse
  <2>2. UNCHANGED <<tailOfQueue, tail, producerVars>> /\ cpc' = "idle" /\ ~calm'
    BY <2>1, Returns
  <2>3. LookInv(heap, headOfQueue, Chain, pending, cpc', temp', scan')
    BY <2>2, IdleLook
  <2>4. PromiseInv'
    BY <1>1, <2>1, <2>2, <2>3, QuietConsumer
  <2>5. ASSUME calm PROVE Filled(heap, Chain) = {}
    <3> SUFFICES ASSUME NEW x \in Filled(heap, Chain) PROVE FALSE
      OBVIOUS
    <3> DEFINE hd == headOfQueue
    <3>1. hd = tailOfQueue
      BY <1>1, <2>5 DEF PromiseInv, CalmInv
    <3>2. /\ x \in Places(Chain) /\ heap[x.buffer].head <= x.at /\ Loc(heap, x) < tail
          /\ Pos(heap, x.buffer) = Pos(heap, hd) /\ tail < Hi(heap, hd)
      <4>1. /\ x \in Places(Chain) /\ heap[x.buffer].head <= x.at /\ Loc(heap, x) < tail
            /\ Pos(heap, x.buffer) <= Pos(heap, hd) /\ Pos(heap, hd) <= Pos(heap, x.buffer)
        BY <3>1, FilledFacts
      <4>2. Pos(heap, x.buffer) \in Nat /\ Pos(heap, hd) \in Nat
        BY <4>1, PlaceFacts, InvFacts
      <4> QED
        BY <2>5, <3>1, <4>1, <4>2, CalmFacts
    <3>3. x.buffer = hd
      BY <3>2, PlaceFacts, InvFacts DEF Linked
    <3>4. /\ x.at \in Nat /\ Lo(heap, hd) \in Nat /\ Hi(heap, hd) = Lo(heap, hd) + BufferSize
          /\ BufferSize \in Nat /\ tail \in Nat /\ Loc(heap, x) = Lo(heap, hd) + x.at
      BY <3>2, <3>3, PlaceFacts, InvFacts DEF Loc
    <3> DEFINE r == tail - Lo(heap, hd)
    <3>5. r \in Slots /\ x.at < r /\ r \in Nat
      BY <3>2, <3>4 DEF Slots
    <3>6. Pos(heap, hd) - 1 \in Nat
      BY InvFacts
    <3>7. tail = Times(Pos(heap, hd) - 1) + r
      BY <3>4 DEF Lo
    <3> HIDE DEF r
    <3>8. tail % BufferSize = r
      BY <3>5, <3>6, <3>7, ModuloFacts
    <3> QED
      BY <1>2, <3>2, <3>3, <3>4, <3>5, <3>8
  <2> QED
    BY <2>4, <2>5, CalmFacts DEF ReportsTruth
<1>3. CASE heap[headOfQueue].head # tail % BufferSize
  <2>1. Continue("first") /\ UNCHANGED <<temp, scan, calm>>
    BY <1>3 DEF CheckEmpty, scanVars
  <2>2. /\ UNCHANGED <<tailOfQueue, tail, producerVars, pending>> /\ cpc' = "first"
        /\ calm' => \A p \in Producers : ppc'[p] = "idle"
        /\ ~ReturnFalse
    BY <2>1, GoesOn
  <2>3. LookInv(heap, headOfQueue, Chain, pending, cpc', temp', scan')
    BY <1>1, <2>1, <2>2 DEF PromiseInv, LookInv, Scanning
  <2>4. CalmInv(heap, headOfQueue, tailOfQueue, cpc)'
    BY <2>2 DEF CalmInv, Scanning
  <2>5. PromiseInv'
    BY <1>1, <2>1, <2>2, <2>3, <2>4, QuietConsumer
  <2> QED
    BY <2>2, <2>5 DEF ReportsTruth
<1> QED
  BY <1>2, <1>3

\* i can go out: what was to go first is out already.
IsNext(i) == i \in DOMAIN pending /\ pending[i] = {}

\* A filled place with nothing at an earlier location that has to go first.
LEMMA NextItem ==
  ASSUME IInv, PromiseInv, NEW x \in Filled(heap, Chain), NoneBefore(heap, Chain, pending, x, x)
  PROVE  IsNext(ItemAt(heap, x))
<1> DEFINE i == ItemAt(heap, x)
<1>1. PICK L \in [Producers \X Nat -> Nat] : Located(heap, Chain, L)
  BY DEF PromiseInv, LocatedInv
<1>2. i \in DOMAIN pending /\ L[i] = Loc(heap, x) /\ Loc(heap, x) \in Nat
  BY <1>1, FilledFacts DEF Located
<1>3. ASSUME NEW j \in pending[i] PROVE FALSE
  <2>1. j \in DOMAIN pending /\ j \notin Arriving /\ L[j] < L[i]
    BY <1>1, <1>2 DEF Located
  <2>2. PICK y \in Filled(heap, Chain) : ItemAt(heap, y) = j
    BY <1>1, <2>1 DEF Located
  <2>3. L[j] = Loc(heap, y) /\ Loc(heap, y) \in Nat
    BY <1>1, <2>2, FilledFacts DEF Located
  <2>4. Loc(heap, x) <= Loc(heap, y)
    BY <1>3, <2>2 DEF NoneBefore
  <2> QED
    BY <1>2, <2>1, <2>3, <2>4
<1> QED
  BY <1>2, <1>3 DEF IsNext

\* ReturnItem takes one item from those that wait.
LEMMA ReturnedItem ==
  ASSUME NEW x, ReturnItem(ItemAt(heap, x))
  PROVE  Delivers({x})
BY DEF ReturnItem, Delivers, Returned

\* What is in the first slot goes out.
LEMMA TakeFirstPromise ==
  ASSUME IInv, PromiseInv, TakeFirst
  PROVE  /\ PromiseInv'
         /\ cpc' = "idle" =>
              IsNext(SlotAt(Front(heap)).data) /\ ReturnItem(SlotAt(Front(heap)).data)
<1> DEFINE f == Front(heap)
           h == HeadAdvanced(heap)
<1>1. cpc = "first" /\ cpc \in InDequeue \ {"leave"}
  BY DEF TakeFirst, ConsumerAt, InDequeue
<1>2. /\ StateAt(heap, f) = SlotAt(f).isSet /\ ItemAt(heap, f) = SlotAt(f).data
      /\ SlotAt(f).isSet \in States
      /\ SlotAt(f).isSet = "SET" => f \in Filled(heap, Chain)
      /\ \A y \in Filled(heap, Chain) : Loc(heap, f) <= Loc(heap, y)
      /\ f.buffer = headOfQueue /\ f.at = heap[headOfQueue].head
  BY <1>1, FrontPlace
<1>3. CASE SlotAt(f).isSet = "SET"
  <2>1. ReturnItem(SlotAt(f).data) /\ MoveToNextBuffer(h) /\ Return
    BY <1>3 DEF TakeFirst, ReturnItem
  <2>2. /\ Takes(h, {f})
        /\ HeapInv(h, headOfQueue, tailOfQueue, garbageListHead, Chain, tail, Unwritten)
    BY <1>1, <1>3, TakesFront, AdvanceFacts
  <2> HIDE DEF f, h
  <2>3. f \in Filled(heap, Chain) /\ {f} \in SUBSET Filled(heap, Chain)
    BY <1>2, <1>3
  <2>4. Delivers({f})
    BY <1>2, <2>1, ReturnedItem
  <2>5. UNCHANGED <<tailOfQueue, tail, producerVars>> /\ cpc' = "idle" /\ ~calm'
    BY <2>1, Returns
  <2>6. PromiseInv'
    BY <2>1, <2>2, <2>3, <2>4, <2>5, MovePromise
  <2>7. NoneBefore(heap, Chain, pending, f, f)
    BY <1>2 DEF NoneBefore
  <2>8. IsNext(SlotAt(f).data)
    BY <1>2, <2>3, <2>7, NextItem
  <2> QED
    BY <2>1, <2>6, <2>8 DEF f
<1>4. CASE SlotAt(f).isSet # "SET"
  <2>1. Continue("second") /\ UNCHANGED <<heap, headOfQueue, temp, scan, calm>>
    BY <1>4 DEF TakeFirst, scanVars
  <2>2. /\ UNCHANGED <<tailOfQueue, tail, producerVars, pending>> /\ cpc' = "second"
        /\ calm' => \A p \in Producers : ppc'[p] = "idle"
    BY <2>1, GoesOn
  <2>3. LookInv(heap, headOfQueue, Chain, pending, cpc', temp', scan')
    BY <1>1, <2>1, <2>2 DEF PromiseInv, LookInv, Scanning
  <2>4. heap[headOfQueue].slots[heap[headOfQueue].head].isSet = "EMPTY"
    <3>1. heap[headOfQueue].slots[heap[headOfQueue].head].isSet # "HANDLED"
      BY <1>1 DEF PromiseInv, LookInv
    <3> QED
      BY <1>2, <1>4, <3>1 DEF SlotAt, States
  <2>5. CalmInv(heap, headOfQueue, tailOfQueue, cpc)'
    BY <2>1, <2>2, <2>4 DEF CalmInv, Scanning
  <2>6. PromiseInv'
    BY <2>1, <2>2, <2>3, <2>5, QuietConsumer
  <2> QED
    BY <2>2, <2>6
<1> QED
  BY <1>3, <1>4

\* The first slot is EMPTY: if no enqueue is open, nothing was written after it.
LEMMA StartScanPromise ==
  ASSUME IInv, PromiseInv, StartScan
  PROVE  PromiseInv' /\ ReportsTruth
<1> DEFINE f == Front(heap)
<1>1. cpc = "second" /\ cpc \in InDequeue \ {"leave"} /\ UNCHANGED <<heap, headOfQueue>>
  BY DEF StartScan, ConsumerAt, InDequeue
<1>2. /\ StateAt(heap, f) = SlotAt(f).isSet /\ f \in Places(Chain)
      /\ \A y \in Filled(heap, Chain) : Loc(heap, f) <= Loc(heap, y)
      /\ f.buffer = headOfQueue /\ f.at = heap[headOfQueue].head /\ f.at \in Nat
  BY <1>1, FrontPlace, FrontFacts
<1>3. CASE SlotAt(f).isSet = "EMPTY"
  <2>1. Continue("scan") /\ temp' = f /\ scan' = scan /\ calm' = calm
    BY <1>3 DEF StartScan
  <2>2. /\ UNCHANGED <<tailOfQueue, tail, producerVars, pending>> /\ cpc' = "scan"
        /\ calm' => \A p \in Producers : ppc'[p] = "idle"
        /\ ~ReturnFalse
    BY <2>1, GoesOn
  <2>3. LookInv(heap, headOfQueue, Chain, pending, cpc', temp', scan')
    <3> HIDE DEF f
    <3>1. heap[temp'.buffer].head <= temp'.at
      BY <1>2, <2>1
    <3> QED
      BY <2>2, <3>1 DEF LookInv
  <2>4. ASSUME calm PROVE DOMAIN pending = {}
    <3> HIDE DEF f
    <3>1. Loc(heap, f) \in Unwritten
      BY <1>2, <1>3 DEF PromiseInv, EmptyInv
    <3>2. tail <= Loc(heap, f)
      BY <2>4, <3>1, CalmFacts
    <3>3. ASSUME NEW y \in Filled(heap, Chain) PROVE FALSE
      <4>1. Loc(heap, y) < tail /\ Loc(heap, y) \in Nat /\ tail \in Nat /\ Loc(heap, f) \in Nat
        BY <1>2, FilledFacts, PlaceFacts, InvFacts
      <4>2. Loc(heap, f) <= Loc(heap, y)
        BY <1>2
      <4> QED
        BY <3>2, <4>1, <4>2
    <3> QED
      BY <2>4, <3>3, CalmFacts
  <2>5. CalmInv(heap, headOfQueue, tailOfQueue, cpc)'
    BY <2>1, <2>2, <2>4 DEF CalmInv
  <2>6. PromiseInv'
    BY <1>1, <2>2, <2>3, <2>5, QuietConsumer
  <2> QED
    BY <2>2, <2>6 DEF ReportsTruth
<1>4. CASE SlotAt(f).isSet # "EMPTY"
  <2>1. Return /\ UNCHANGED pending
    BY <1>4 DEF StartScan, ReturnFalse
  <2>2. UNCHANGED <<tailOfQueue, tail, producerVars>> /\ cpc' = "idle" /\ ~calm'
    BY <2>1, Returns
  <2>3. LookInv(heap, headOfQueue, Chain, pending, cpc', temp', scan')
    BY <2>2, IdleLook
  <2>4. PromiseInv'
    BY <1>1, <2>1, <2>2, <2>3, QuietConsumer
  <2>5. ~calm
    BY <1>1, <1>2, <1>4 DEF PromiseInv, CalmInv, StateAt
  <2> QED
    BY <2>4, <2>5 DEF ReportsTruth
<1> QED
  BY <1>3, <1>4

\* The scan goes on: if no enqueue was open, there was nothing to be found.
LEMMA ScanGoesOn ==
  ASSUME PromiseInv, cpc \in Scanning, NEW pc \in Scanning, Continue(pc), calm' = calm
  PROVE  /\ UNCHANGED <<tailOfQueue, tail, producerVars, pending>> /\ cpc' = pc
         /\ ~ReturnFalse
         /\ Delivers({})
         /\ CalmInv(heap, headOfQueue, tailOfQueue, cpc)'
<1>1. pc # "idle" /\ pc # "empty" /\ pc # "second"
  BY DEF Scanning
<1>2. /\ UNCHANGED <<tailOfQueue, tail, producerVars, pending>> /\ cpc' = pc
      /\ calm' => \A p \in Producers : ppc'[p] = "idle"
      /\ ~ReturnFalse
      /\ Delivers({})
  BY <1>1, GoesOn
<1>3. calm => DOMAIN pending = {}
  BY DEF PromiseInv, CalmInv
<1>4. CalmInv(heap, headOfQueue, tailOfQueue, cpc)'
  BY <1>1, <1>2, <1>3 DEF CalmInv
<1> QED
  BY <1>2, <1>4

\* It ends without an item.
LEMMA ScanReturns ==
  ASSUME IInv, PromiseInv, cpc \in Scanning, ReturnFalse, UNCHANGED <<heap, headOfQueue>>
  PROVE  PromiseInv' /\ ReportsTruth
<1>1. Return /\ UNCHANGED pending
  BY DEF ReturnFalse
<1>2. UNCHANGED <<tailOfQueue, tail, producerVars>> /\ cpc' = "idle" /\ ~calm'
  BY <1>1, Returns
<1>3. LookInv(heap, headOfQueue, Chain, pending, cpc', temp', scan')
  BY <1>2, IdleLook
<1>4. PromiseInv'
  BY <1>1, <1>2, <1>3, QuietConsumer
<1>5. calm => DOMAIN pending = {}
  BY DEF PromiseInv, CalmInv
<1> QED
  BY <1>4, <1>5 DEF ReportsTruth

\* The first item found is looked at again from the first slot on.
LEMMA ScanSlotPromise ==
  ASSUME IInv, PromiseInv, ScanSlot
  PROVE  PromiseInv' /\ ~ReturnFalse
<1>1. /\ cpc = "scan" /\ cpc \in Scanning /\ UNCHANGED <<heap, headOfQueue>> /\ calm' = calm
      /\ {"scan", "scanEnd", "rescan", "take"} \subseteq Scanning
  BY DEF ScanSlot, ConsumerAt, Scanning
<1>2. /\ temp \in Place /\ temp.buffer \in Chain /\ temp.buffer \in DOMAIN heap /\ temp.at \in Nat
      /\ cpc \in InDequeue \ {"leave"} /\ heap[temp.buffer].head <= temp.at
      /\ heap[temp.buffer].head \in Nat
  <2>1. heap[temp.buffer].head \in 0 .. BufferSize
    BY <1>1, ScanFacts, InvFacts, HeapFacts
  <2> QED
    BY <1>1, <2>1, ScanFacts DEF PromiseInv, LookInv
<1>3. CASE SlotAt(temp).isSet = "SET"
  <2>1. scan' = Front(heap) /\ Continue("rescan") /\ temp' = temp
    BY <1>3 DEF ScanSlot
  <2>2. /\ UNCHANGED <<tailOfQueue, tail, producerVars, pending>> /\ cpc' = "rescan" /\ ~ReturnFalse
        /\ CalmInv(heap, headOfQueue, tailOfQueue, cpc)'
    BY <1>1, <2>1, ScanGoesOn
  <2>3. /\ Front(heap).buffer = headOfQueue /\ Front(heap).at = heap[headOfQueue].head
        /\ Front(heap).at \in Nat
        /\ \A y \in Filled(heap, Chain) : Loc(heap, Front(heap)) <= Loc(heap, y)
    BY <1>2, FrontPlace, FrontFacts
  <2>4. LookInv(heap, headOfQueue, Chain, pending, cpc', temp', scan')
    BY <1>1, <1>2, <2>1, <2>2, <2>3 DEF LookInv, NoneBefore
  <2>5. PromiseInv'
    BY <1>1, <2>2, <2>4, QuietConsumer
  <2> QED
    BY <2>2, <2>5
<1>4. CASE SlotAt(temp).isSet # "SET"
  <2> DEFINE pc == IF temp.at + 1 >= BufferSize THEN "scanEnd" ELSE "scan"
  <2>1. temp' = [temp EXCEPT !.at = @ + 1] /\ Continue(pc)
    BY <1>4 DEF ScanSlot
  <2>2. pc \in Scanning /\ pc \in {"scan", "scanEnd"}
    BY <1>1
  <2> HIDE DEF pc
  <2>3. /\ UNCHANGED <<tailOfQueue, tail, producerVars, pending>> /\ cpc' = pc /\ ~ReturnFalse
        /\ CalmInv(heap, headOfQueue, tailOfQueue, cpc)'
    BY <1>1, <2>1, <2>2, ScanGoesOn
  <2>4. temp'.buffer = temp.buffer /\ temp'.at = temp.at + 1
    BY <1>2, <2>1 DEF Place
  <2>5. LookInv(heap, headOfQueue, Chain, pending, cpc', temp', scan')
    BY <1>2, <2>2, <2>3, <2>4 DEF LookInv
  <2>6. PromiseInv'
    BY <1>1, <2>3, <2>5, QuietConsumer
  <2> QED
    BY <2>3, <2>6
<1> QED
  BY <1>3, <1>4

\* Scan() goes on in the next buffer.
LEMMA ScanNextBufferPromise ==
  ASSUME IInv, PromiseInv, ScanNextBuffer
  PROVE  PromiseInv' /\ ReportsTruth
<1>1. cpc \in Scanning /\ UNCHANGED <<heap, headOfQueue>> /\ "scan" \in Scanning
  BY DEF ScanNextBuffer, ConsumerAt, Scanning
<1> DEFINE b == heap[temp.buffer].next
<1>2. CASE b = Null
  BY <1>1, <1>2, ScanReturns DEF ScanNextBuffer
<1>3. CASE b # Null
  <2>1. Continue("scan") /\ calm' = calm /\ temp' = [buffer |-> b, at |-> heap[b].head]
    BY <1>3 DEF ScanNextBuffer, ScanBuffer
  <2>2. b \in Chain /\ heap[b].head = 0
    BY <1>1, <1>3, ScanFacts, NextFacts
  <2> HIDE DEF b
  <2>3. /\ UNCHANGED <<tailOfQueue, tail, producerVars, pending>> /\ cpc' = "scan" /\ ~ReturnFalse
        /\ CalmInv(heap, headOfQueue, tailOfQueue, cpc)'
    BY <1>1, <2>1, ScanGoesOn
  <2>4. LookInv(heap, headOfQueue, Chain, pending, cpc', temp', scan')
    BY <2>1, <2>2, <2>3 DEF LookInv
  <2>5. PromiseInv'
    BY <1>1, <2>3, <2>4, QuietConsumer
  <2> QED
    BY <2>3, <2>5 DEF ReportsTruth
<1> QED
  BY <1>2, <1>3

\* fold(): there is no item in what it takes out of the list.
LEMMA FoldPromise ==
  ASSUME IInv, PromiseInv, Fold
  PROVE  PromiseInv' /\ ReportsTruth
<1> DEFINE b == temp.buffer
           next == heap[b].next
<1>1. /\ cpc = "scanEnd" /\ cpc \in Scanning /\ headOfQueue' = headOfQueue /\ "scan" \in Scanning
      /\ flagBufferAllHandled /\ flagMoveToNewBuffer
  BY DEF Fold, ConsumerAt, Scanning
<1>2. CASE b = tailOfQueue \/ next = Null
  <2>1. ReturnFalse /\ UNCHANGED heap
    BY <1>2 DEF Fold
  <2> QED
    BY <1>1, <2>1, ScanReturns
<1>3. CASE ~(b = tailOfQueue \/ next = Null)
  <2>1. Continue("scan") /\ calm' = calm /\ temp' = [buffer |-> next, at |-> heap[next].head]
    BY <1>3 DEF Fold, ScanBuffer
  <2>2. /\ UNCHANGED <<tailOfQueue, tail, producerVars, pending>> /\ cpc' = "scan" /\ ~ReturnFalse
        /\ CalmInv(heap, headOfQueue, tailOfQueue, cpc)' /\ Delivers({})
    BY <1>1, <2>1, ScanGoesOn
  <2>3. /\ Chain \subseteq DOMAIN heap /\ b \in Chain /\ tailOfQueue \in DOMAIN heap /\ b # headOfQueue
        /\ next \in Chain /\ heap[next].head = 0 /\ heap[b].head = 0
    BY <1>1, <1>3, ScanFacts, NextFacts, InvFacts DEF IInv, ConsumerInv, HeapInv, SlotInv
  <2>4. \A i \in Slots : heap[b].slots[i].isSet = "HANDLED"
    <3>1. temp.at = BufferSize /\ BufferSize \in Nat
      BY <1>1, BufferSizeAssumption DEF IInv, ConsumerInv
    <3>2. \A i \in Slots : heap[b].head <= i /\ i < temp.at
      BY <2>3, <3>1 DEF Slots
    <3> QED
      BY <1>1, <3>2 DEF IInv, ConsumerInv
  <2> DEFINE D == IF UNCHANGED heap THEN {} ELSE {b}
  <2>5. /\ heap'[tailOfQueue].next = heap[tailOfQueue].next
        /\ Chain' = Chain \ D
        /\ \A c \in DOMAIN heap : Pos(heap', c) = Pos(heap, c) /\ heap'[c].head = heap[c].head
                                  /\ heap'[c].slots = heap[c].slots
    <3>1. CASE UNCHANGED heap
      BY <1>1, <3>1 DEF Chain
    <3>2. CASE ~UNCHANGED heap
      <4>1. /\ Folded(heap, heap', b, garbageListHead)
            /\ Chain' = Chain \ {b} /\ heap'[tailOfQueue].next = heap[tailOfQueue].next
        BY <3>2, FoldKeeps
      <4> QED
        BY <3>2, <4>1 DEF Folded
    <3> QED
      BY <3>1, <3>2
  <2>6. D \subseteq {b}
    OBVIOUS
  <2> HIDE DEF D, b, next
  <2>7. ASSUME NEW x \in Places(Chain)
        PROVE  /\ StateAt(heap', x) = StateAt(heap, x) /\ ItemAt(heap', x) = ItemAt(heap, x)
               /\ Loc(heap', x) = Loc(heap, x) /\ heap'[x.buffer].head = heap[x.buffer].head
               /\ x \in Places(Chain') <=> x.buffer \notin D
               /\ x.buffer = b => StateAt(heap, x) = "HANDLED"
    <3>1. x.buffer \in Chain /\ x.buffer \in DOMAIN heap /\ x.at \in Slots /\ x = [buffer |-> x.buffer, at |-> x.at]
      BY PlaceFacts
    <3> QED
      BY <2>4, <2>5, <3>1 DEF StateAt, ItemAt, Loc, Lo, Places
  <2>8. Places(Chain') \subseteq Places(Chain)
    BY <2>5 DEF Places
  <2>9. Filled(heap', Chain') = Filled(heap, Chain)
    BY <2>6, <2>7, <2>8 DEF Filled
  <2>10. Serves(heap, heap', Chain, Chain', {})
    <3>1. \A x \in Filled(heap, Chain) : x \in Places(Chain)
      BY DEF Filled
    <3> QED
      BY <2>7, <2>9, <3>1 DEF Serves
  <2>11. Empties(heap, heap', Chain, Chain')
    BY <2>7, <2>8 DEF Empties
  <2>12. heap'[temp'.buffer].head <= temp'.at
    BY <2>1, <2>3, <2>5
  <2>13. LookInv(heap, headOfQueue, Chain, pending, cpc, temp, scan)'
    BY <2>2, <2>12 DEF LookInv
  <2>14. PromiseInv'
    BY <2>2, <2>5, <2>10, <2>11, <2>13, ConsumerPromise
  <2> QED
    BY <2>2, <2>14 DEF ReportsTruth
<1> QED
  BY <1>2, <1>3

\* What goes before the item found is not before the slots looked at again.
LEMMA ReScanPromise ==
  ASSUME IInv, PromiseInv, ReScan
  PROVE  PromiseInv' /\ ~ReturnFalse
<1>1. /\ cpc = "rescan" /\ cpc \in Scanning /\ UNCHANGED <<heap, headOfQueue>> /\ calm' = calm
      /\ "rescan" \in Scanning /\ "take" \in Scanning
  BY DEF ReScan, ConsumerAt, Scanning
<1>2. /\ temp \in Place /\ temp.buffer \in Chain /\ temp.buffer \in DOMAIN heap /\ temp.at \in Nat
      /\ scan \in Place /\ scan.at \in Nat
      /\ cpc \in InDequeue \ {"leave"} /\ heap[temp.buffer].head <= temp.at
      /\ heap[scan.buffer].head <= scan.at /\ NoneBefore(heap, Chain, pending, temp, scan)
  BY <1>1, ScanFacts DEF PromiseInv, LookInv
<1>3. /\ temp.at < BufferSize
      /\ scan.buffer \in Chain /\ Pos(heap, scan.buffer) <= Pos(heap, temp.buffer)
      /\ scan.buffer \in DOMAIN heap
  BY <1>1, InvFacts DEF IInv, ConsumerInv
<1>4. /\ Lo(heap, scan.buffer) \in Nat /\ Hi(heap, scan.buffer) = Lo(heap, scan.buffer) + BufferSize
      /\ BufferSize \in Nat /\ BufferSize >= 2
      /\ Loc(heap, scan) = Lo(heap, scan.buffer) + scan.at /\ Loc(heap, scan) \in Nat
      /\ heap[scan.buffer].head \in Nat
  <2>1. heap[scan.buffer].head \in 0 .. BufferSize
    BY <1>3, InvFacts, HeapFacts
  <2> QED
    BY <1>2, <1>3, <2>1, BufferOrder DEF Loc
<1>5. \A y \in Filled(heap, Chain) : Loc(heap, y) \in Nat
  BY FilledFacts
<1>6. CASE /\ scan.buffer = temp.buffer /\ scan.at >= temp.at
           /\ Continue("take")
           /\ UNCHANGED <<temp, scan>>
  <2>1. /\ UNCHANGED <<tailOfQueue, tail, producerVars, pending>> /\ cpc' = "take" /\ ~ReturnFalse
        /\ CalmInv(heap, headOfQueue, tailOfQueue, cpc)'
    BY <1>1, <1>6, ScanGoesOn
  <2>2. Loc(heap, temp) <= Loc(heap, scan) /\ Loc(heap, temp) \in Nat
    BY <1>2, <1>4, <1>6 DEF Loc
  <2>3. NoneBefore(heap, Chain, pending, temp, temp)
    BY <1>2, <1>4, <1>5, <2>2 DEF NoneBefore
  <2>4. LookInv(heap, headOfQueue, Chain, pending, cpc', temp', scan')
    BY <1>2, <1>6, <2>1, <2>3 DEF LookInv
  <2>5. PromiseInv'
    BY <1>1, <2>1, <2>4, QuietConsumer
  <2> QED
    BY <2>1, <2>5
<1>7. ASSUME Continue("rescan"), heap[temp'.buffer].head <= temp'.at, heap[scan'.buffer].head <= scan'.at,
             NoneBefore(heap, Chain, pending, temp', scan')
      PROVE  PromiseInv' /\ ~ReturnFalse
  <2>1. /\ UNCHANGED <<tailOfQueue, tail, producerVars, pending>> /\ cpc' = "rescan" /\ ~ReturnFalse
        /\ CalmInv(heap, headOfQueue, tailOfQueue, cpc)'
    BY <1>1, <1>7, ScanGoesOn
  <2>2. LookInv(heap, headOfQueue, Chain, pending, cpc', temp', scan')
    BY <1>7, <2>1 DEF LookInv
  <2>3. PromiseInv'
    BY <1>1, <2>1, <2>2, QuietConsumer
  <2> QED
    BY <2>1, <2>3
<1>8. CASE /\ scan.buffer # temp.buffer \/ scan.at < temp.at
           /\ Continue("rescan")
           /\ scan.at >= BufferSize
           /\ scan' = [buffer |-> heap[scan.buffer].next, at |-> heap[heap[scan.buffer].next].head]
           /\ UNCHANGED temp
  <2> DEFINE b == heap[scan.buffer].next
  <2>1. Pos(heap, scan.buffer) < Pos(heap, temp.buffer)
    <3>1. scan.buffer # temp.buffer
      BY <1>2, <1>3, <1>4, <1>8
    <3>2. Pos(heap, scan.buffer) \in Nat /\ Pos(heap, temp.buffer) \in Nat
      BY <1>2, <1>3, InvFacts
    <3> QED
      BY <1>2, <1>3, <3>1, <3>2, BufferOrder
  <2>2. /\ b \in Chain /\ heap[b].head = 0
        /\ \A c \in Chain : Pos(heap, scan.buffer) < Pos(heap, c) => Pos(heap, b) <= Pos(heap, c)
    <3>1. b # Null
      BY <1>2, <1>3, <2>1, InvFacts DEF Linked
    <3> QED
      BY <1>3, <3>1, NextFacts, InvFacts DEF Linked
  <2>3. scan'.buffer = b /\ scan'.at = 0
    BY <1>8, <2>2
  <2> HIDE DEF b
  <2>4. ASSUME NEW y \in Filled(heap, Chain), ItemAt(heap, y) \in pending[ItemAt(heap, temp)]
        PROVE  Loc(heap, scan') <= Loc(heap, y)
    <3>1. Loc(heap, scan) <= Loc(heap, y)
      BY <1>2, <2>4 DEF NoneBefore
    <3>2. /\ y \in Places(Chain) /\ y.buffer \in Chain /\ Loc(heap, y) < Hi(heap, y.buffer)
          /\ Lo(heap, y.buffer) <= Loc(heap, y) /\ Loc(heap, y) \in Nat
      BY FilledFacts, PlaceFacts
    <3>3. Hi(heap, scan.buffer) <= Loc(heap, y)
      BY <1>2, <1>4, <1>8, <3>1, <3>2
    <3>4. Pos(heap, scan.buffer) < Pos(heap, y.buffer)
      <4>1. Hi(heap, scan.buffer) < Hi(heap, y.buffer) /\ Hi(heap, y.buffer) \in Nat
            /\ Lo(heap, scan.buffer) \in Nat /\ Hi(heap, scan.buffer) \in Nat
        BY <1>3, <1>4, <3>2, <3>3, BufferOrder
      <4>2. scan.buffer # y.buffer
        BY <4>1
      <4>3. Pos(heap, y.buffer) < Pos(heap, scan.buffer) => Hi(heap, y.buffer) <= Lo(heap, scan.buffer)
        BY <1>3, <3>2, BufferOrder
      <4>4. ~(Pos(heap, y.buffer) < Pos(heap, scan.buffer))
        BY <1>4, <4>1, <4>3
      <4> QED
        BY <1>3, <3>2, <4>2, <4>4, BufferOrder
    <3>5. Lo(heap, b) <= Lo(heap, y.buffer)
      <4>1. Pos(heap, b) <= Pos(heap, y.buffer)
        BY <2>2, <3>2, <3>4
      <4>2. b \in DOMAIN heap /\ y.buffer \in DOMAIN heap
        BY <2>2, <3>2, InvFacts
      <4> QED
        BY <4>1, <4>2, InvFacts, ChainFacts
    <3>6. Lo(heap, b) \in Nat /\ Lo(heap, y.buffer) \in Nat
      BY <2>2, <3>2, BufferOrder
    <3>7. Loc(heap, scan') = Lo(heap, b)
      BY <2>3, <3>6 DEF Loc
    <3> QED
      BY <3>2, <3>5, <3>6, <3>7
  <2>5. NoneBefore(heap, Chain, pending, temp', scan')
    BY <1>8, <2>4 DEF NoneBefore
  <2>6. heap[temp'.buffer].head <= temp'.at /\ heap[scan'.buffer].head <= scan'.at
    BY <1>2, <1>8, <2>2, <2>3
  <2> QED
    BY <1>7, <1>8, <2>5, <2>6
<1>9. CASE /\ Continue("rescan") /\ scan.at < BufferSize /\ SlotAt(scan).isSet = "SET"
           /\ temp' = scan /\ scan' = Front(heap)
  <2>1. /\ Front(heap).buffer = headOfQueue /\ Front(heap).at = heap[headOfQueue].head
        /\ Front(heap).at \in Nat
        /\ \A y \in Filled(heap, Chain) : Loc(heap, Front(heap)) <= Loc(heap, y)
    BY <1>2, FrontPlace, FrontFacts
  <2>2. NoneBefore(heap, Chain, pending, temp', scan')
    BY <1>9, <2>1 DEF NoneBefore
  <2> QED
    BY <1>2, <1>7, <1>9, <2>1, <2>2
<1>10. CASE /\ Continue("rescan") /\ scan.at < BufferSize /\ SlotAt(scan).isSet # "SET"
            /\ scan' = [scan EXCEPT !.at = @ + 1] /\ UNCHANGED temp
  <2>1. scan'.buffer = scan.buffer /\ scan'.at = scan.at + 1
    BY <1>2, <1>10 DEF Place
  <2>2. scan \in Places(Chain)
    BY <1>2, <1>3, <1>4, <1>10 DEF Places, Place, Slots
  <2>3. ASSUME NEW y \in Filled(heap, Chain), ItemAt(heap, y) \in pending[ItemAt(heap, temp)]
        PROVE  Loc(heap, scan') <= Loc(heap, y)
    <3>1. Loc(heap, scan) <= Loc(heap, y)
      BY <1>2, <2>3 DEF NoneBefore
    <3>2. Loc(heap, scan) # Loc(heap, y)
      <4>1. y \in Places(Chain) /\ StateAt(heap, y) = "SET"
        BY DEF Filled
      <4>2. y # scan
        BY <1>10, <4>1 DEF StateAt, SlotAt
      <4> QED
        BY <2>2, <4>1, <4>2, PlacesApart
    <3>3. Loc(heap, scan') = Loc(heap, scan) + 1
      BY <1>2, <1>4, <2>1 DEF Loc
    <3> QED
      BY <1>4, <1>5, <3>1, <3>2, <3>3
  <2>4. NoneBefore(heap, Chain, pending, temp', scan')
    BY <1>10, <2>3 DEF NoneBefore
  <2>5. heap[temp'.buffer].head <= temp'.at /\ heap[scan'.buffer].head <= scan'.at
    BY <1>2, <1>4, <1>10, <2>1
  <2> QED
    BY <1>7, <1>10, <2>4, <2>5
<1> QED
  BY <1>6, <1>8, <1>9, <1>10 DEF ReScan

\* What was found goes out.
LEMMA TakeFoundPromise ==
  ASSUME IInv, PromiseInv, TakeFound
  PROVE  PromiseInv' /\ IsNext(SlotAt(temp).data) /\ ReturnItem(SlotAt(temp).data)
<1> DEFINE b == temp.buffer
           i == temp.at
           h == Marked(heap, b, i)
           hd == headOfQueue
<1>1. cpc = "take" /\ cpc \in Scanning /\ ReturnItem(SlotAt(temp).data) /\ Return
  BY DEF TakeFound, ConsumerAt, Scanning, ReturnItem
<1>2. /\ temp \in Filled(heap, Chain) /\ NoneBefore(heap, Chain, pending, temp, temp)
      /\ cpc \in InDequeue \ {"leave"} /\ b \in Chain /\ b \in DOMAIN heap
  BY <1>1, FoundFacts, ScanFacts DEF PromiseInv, LookInv
<1>3. /\ temp \in Places(Chain) /\ i \in Slots /\ i \in Nat /\ StateAt(heap, temp) = "SET"
      /\ temp = [buffer |-> b, at |-> i] /\ heap[b].head <= i
  BY <1>2, FilledFacts, PlaceFacts
<1>4. /\ HeapType(heap) /\ hd \in DOMAIN heap /\ hd \in Chain
      /\ HeapInv(heap, hd, tailOfQueue, garbageListHead, Chain, tail, Unwritten)
      /\ Unwritten \subseteq Nat
  BY InvFacts
<1>5. ItemAt(heap, temp) = SlotAt(temp).data
  BY DEF ItemAt, SlotAt
<1>6. IsNext(SlotAt(temp).data) /\ Delivers({temp})
  BY <1>1, <1>2, <1>5, NextItem, ReturnedItem
<1>7. UNCHANGED <<tailOfQueue, tail, producerVars>> /\ cpc' = "idle" /\ ~calm'
  BY <1>1, Returns
<1>8. IF temp = Front(heap)
      THEN MoveToNextBuffer(HeadAdvanced(h))
      ELSE heap' = h /\ UNCHANGED <<garbageListHead, headOfQueue>>
  BY DEF TakeFound, Marked
<1>9. h = Marked(heap, b, i)
  OBVIOUS
<1> HIDE DEF h, b, i
<1>10. /\ SameShape(heap, h)
       /\ \A c \in DOMAIN heap : h[c].head = heap[c].head
       /\ \A c \in DOMAIN heap, j \in Slots :
            h[c].slots[j].isSet = IF c = b /\ j = i THEN "HANDLED" ELSE heap[c].slots[j].isSet
       /\ \A c \in DOMAIN heap, j \in Slots : h[c].slots[j].data = heap[c].slots[j].data
  <2>1. HeapType(heap) /\ b \in DOMAIN heap /\ i \in Slots /\ h = Marked(heap, b, i)
    BY <1>2, <1>3, <1>4, <1>9
  <2> QED
    BY ONLY <2>1, HandledFields
<1>11. HeapInv(h, hd, tailOfQueue, garbageListHead, Chain, tail, Unwritten)
  <2>1. heap[b].slots[i].isSet # "EMPTY"
    BY <1>3 DEF StateAt, b, i
  <2>2. Markable(heap, hd, tailOfQueue, garbageListHead, Chain, tail, Unwritten, b, i)
    BY ONLY <1>2, <1>3, <1>4, <2>1 DEF Markable
  <2> QED
    BY ONLY <1>9, <2>2, HandledMarks
<1>12. ASSUME NEW x \in Places(Chain)
       PROVE  /\ x.buffer \in DOMAIN heap /\ x.at \in Slots /\ x.at \in Nat
              /\ h[x.buffer].head = heap[x.buffer].head /\ ItemAt(h, x) = ItemAt(heap, x)
              /\ StateAt(h, x) = IF x = temp THEN "HANDLED" ELSE StateAt(heap, x)
  <2>1. x.buffer \in DOMAIN heap /\ x.at \in Slots /\ x.at \in Nat /\ x = [buffer |-> x.buffer, at |-> x.at]
    BY PlaceFacts
  <2>2. x = temp <=> x.buffer = b /\ x.at = i
    BY <1>3, <2>1 DEF b, i
  <2> QED
    BY <1>10, <2>1, <2>2 DEF StateAt, ItemAt
<1>13. Takes(h, {temp})
  BY <1>10, <1>12 DEF Takes, Filled
<1>14. CASE temp = Front(heap)
  <2> DEFINE g == HeadAdvanced(h)
  <2>1. /\ temp.buffer = hd /\ temp.at = heap[hd].head /\ heap[hd].head < BufferSize
        /\ heap[hd].head \in Nat
    BY <1>2, <1>14, FrontPlace, FrontFacts
  <2>2. h[hd].head < BufferSize /\ h[hd].slots[h[hd].head].isSet # "EMPTY"
    BY <1>3, <1>4, <1>10, <2>1 DEF b, i
  <2>3. g = Advanced(h, hd)
    BY DEF HeadAdvanced, Advanced
  <2> HIDE DEF g
  <2>4. HeapInv(g, hd, tailOfQueue, garbageListHead, Chain, tail, Unwritten)
    BY ONLY <1>4, <1>11, <2>2, <2>3, HeadAdvances
  <2>5. HeapType(h) /\ DOMAIN h = DOMAIN heap
    BY <1>10 DEF SameShape
  <2>6. /\ SameShape(h, g)
        /\ g[hd].head = h[hd].head + 1
        /\ \A c \in DOMAIN h : c # hd => g[c].head = h[c].head
        /\ \A c \in DOMAIN h : g[c].slots = h[c].slots
    BY ONLY <1>4, <2>2, <2>3, <2>5, HeadFields
  <2>7. SameShape(heap, g)
    BY ONLY <1>10, <2>6 DEF SameShape
  <2>8. ASSUME NEW x \in Places(Chain)
        PROVE  /\ x \in Filled(g, Chain) <=> x \in Filled(heap, Chain) /\ x \notin {temp}
               /\ StateAt(g, x) = "EMPTY" => StateAt(heap, x) = "EMPTY"
               /\ ItemAt(g, x) = ItemAt(heap, x)
    <3>1. /\ StateAt(g, x) = IF x = temp THEN "HANDLED" ELSE StateAt(heap, x)
          /\ ItemAt(g, x) = ItemAt(heap, x)
      BY <1>12, <2>5, <2>6 DEF StateAt, ItemAt
    <3>2. x # temp => (g[x.buffer].head <= x.at <=> heap[x.buffer].head <= x.at)
      <4>1. x = temp <=> (x.buffer = temp.buffer /\ x.at = temp.at)
        BY <1>3, PlaceFacts DEF b, i
      <4>2. x.buffer \in DOMAIN heap /\ x.buffer \in DOMAIN h /\ x.at \in Nat
            /\ h[x.buffer].head = heap[x.buffer].head
        BY <1>12, <2>5
      <4>3. CASE x.buffer = hd
        <5>1. g[x.buffer].head = heap[hd].head + 1
          BY <1>4, <1>10, <2>6, <4>3
        <5>2. x # temp => x.at # heap[hd].head
          BY <2>1, <4>1, <4>3
        <5> QED
          BY <2>1, <4>2, <4>3, <5>1, <5>2
      <4>4. CASE x.buffer # hd
        BY <2>6, <4>2, <4>4
      <4> QED
        BY <4>3, <4>4
    <3> QED
      BY <3>1, <3>2 DEF Filled
  <2>9. Takes(g, {temp})
    BY <2>7, <2>8 DEF Takes
  <2>10. MoveToNextBuffer(g) /\ {temp} \in SUBSET Filled(heap, Chain)
    BY <1>2, <1>8, <1>14 DEF g
  <2>11. PromiseInv'
    BY <1>6, <1>7, <2>4, <2>9, <2>10, MovePromise
  <2> QED
    BY <1>1, <1>6, <2>11
<1>15. CASE temp # Front(heap)
  <2>1. heap' = h /\ headOfQueue' = hd
    BY <1>8, <1>15
  <2>2. Chain' = Chain
    <3>1. Reach(h, hd) = Chain
      BY <1>11, ReachIsChain DEF HeapInv
    <3> QED
      BY <2>1, <3>1 DEF Chain
  <2>3. Slides(h, heap', Chain, Chain')
    BY <2>1, <2>2 DEF Slides
  <2>4. /\ \A c \in DOMAIN heap : Pos(heap', c) = Pos(heap, c) /\ heap'[c].next = heap[c].next
        /\ Serves(heap, heap', Chain, Chain', {temp})
        /\ Empties(heap, heap', Chain, Chain')
    BY <1>13, <2>3, TakesFacts
  <2>5. LookInv(heap, headOfQueue, Chain, pending, cpc, temp, scan)'
    BY <1>7, IdleLook
  <2>6. CalmInv(heap, headOfQueue, tailOfQueue, cpc)'
    BY <1>7 DEF CalmInv
  <2>7. {temp} \in SUBSET Filled(heap, Chain) /\ tailOfQueue \in DOMAIN heap
    BY <1>2, InvFacts
  <2>8. PromiseInv'
    BY <1>6, <1>7, <2>4, <2>5, <2>6, <2>7, ConsumerPromise
  <2> QED
    BY <1>1, <1>6, <2>8
<1> QED
  BY <1>14, <1>15

-----------------------------------------------------------------------------
(* Every step.                                                             *)

\* An empty queue keeps every promise.
LEMMA InitPromise ==
  ASSUME Init
  PROVE  PromiseInv
<1>1. IInv
  BY InitInv DEF Inv
<1>2. /\ HeapType(heap) /\ Pos(heap, 1) = 1 /\ heap[1].next = Null
      /\ \A i \in Slots : heap[1].slots[i].isSet = "EMPTY"
  BY FirstBuffer DEF Init
<1>3. /\ tailOfQueue = 1 /\ tail = 0 /\ cpc = "idle" /\ ~calm
      /\ \A p \in Producers : ppc[p] = "idle" /\ sent[p] = 0
  BY DEF Init
<1>4. DOMAIN pending = {}
  BY DEF Init
<1>5. Chain = {1}
  <2>1. HeapType(heap) /\ headOfQueue = 1 /\ Linked(heap, headOfQueue, {1})
    <3>1. heap[1].memory = "live" /\ heap[1].prev = Null /\ DOMAIN heap = {1}
      BY FirstBuffer DEF Init
    <3> QED
      BY <1>2, <3>1 DEF Linked, Init
  <2> QED
    BY <2>1, ReachIsChain DEF Chain
<1>6. \A x \in Places(Chain) : StateAt(heap, x) = "EMPTY"
  BY <1>2, <1>5 DEF Places, StateAt
<1>7. Filled(heap, Chain) = {}
  BY <1>6 DEF Filled
<1>8. Unwritten = Nat
  BY <1>3 DEF Unwritten, Seeking
<1>9. LocatedInv
  <2>1. [x \in Producers \X Nat |-> 0] \in [Producers \X Nat -> Nat]
    OBVIOUS
  <2>2. Located(heap, Chain, [x \in Producers \X Nat |-> 0])
    BY <1>3, <1>4, <1>7 DEF Located, Seeking
  <2> QED
    BY <2>1, <2>2 DEF LocatedInv
<1>10. SentInv
  <2>1. \A p \in Producers : Quota[p] \in Nat
    BY QuotaAssumption
  <2> QED
    BY <1>3, <1>4, <2>1 DEF SentInv
<1>11. EmptyInv(heap, Chain, Unwritten)
  <2>1. \A x \in Places(Chain) : Loc(heap, x) \in Nat
    BY <1>1, PlaceFacts
  <2> QED
    BY <1>8, <2>1 DEF EmptyInv
<1>12. AheadInv(heap, tailOfQueue, Unwritten)
  <2>1. Hi(heap, 1) - 2 \in Nat
    BY <1>2, BufferSizeAssumption DEF Hi, Times
  <2> QED
    BY <1>2, <1>3, <1>8, <2>1 DEF AheadInv
<1>13. LookInv(heap, headOfQueue, Chain, pending, cpc, temp, scan)
  BY <1>3, IdleLook
<1>14. CalmInv(heap, headOfQueue, tailOfQueue, cpc)
  BY <1>3 DEF CalmInv
<1> QED
  BY <1>9, <1>10, <1>11, <1>12, <1>13, <1>14 DEF PromiseInv

LEMMA EnqueueStepPromise ==
  ASSUME IInv, RoomLeft, PromiseInv, NEW p \in Producers, EnqueueStep(p)
  PROVE  PromiseInv'
BY LoadTailPromise, CheckTailPromise, LinkPromise, SwingTailPromise, WalkBackPromise, WritePromise
   DEF EnqueueStep

\* Between its call and its return, dequeue() keeps what it knows; where it
\* reports an empty queue, it tells the truth.
LEMMA DequeueStepPromise ==
  ASSUME IInv, PromiseInv, DequeueStep
  PROVE  PromiseInv'
BY BeginDequeuePromise, LeaveBufferPromise, SkipHandledPromise, CheckLastBufferPromise, CheckEmptyPromise,
   TakeFirstPromise, StartScanPromise, ScanSlotPromise, FoldPromise, ScanNextBufferPromise, ReScanPromise,
   TakeFoundPromise DEF DequeueStep

LEMMA NextKeepsPromise ==
  ASSUME IInv, RoomLeft, PromiseInv, [Next]_vars
  PROVE  PromiseInv'
<1>1. CASE UNCHANGED vars
  <2>1. UNCHANGED <<heap, headOfQueue, tailOfQueue, tail, producerVars, cpc, temp, scan, calm, pending>>
    BY <1>1 DEF vars, queueVars, consumerVars
  <2> QED
    BY <2>1, IdlePromise
<1>2. ASSUME NEW p \in Producers, Crash(p)
      PROVE  PromiseInv'
  <2>1. UNCHANGED <<heap, headOfQueue, tailOfQueue, tail, producerVars, cpc, temp, scan, calm, pending>>
    BY <1>2 DEF Crash, queueVars, consumerVars
  <2> QED
    BY <2>1, IdlePromise
<1> QED
  BY <1>1, <1>2, ClaimPromise, EnqueueStepPromise, DequeueStepPromise DEF Next

-----------------------------------------------------------------------------
(* Every step is one that MessageQueue allows, or none for it.             *)

\* How far the dequeue under way is, for MessageQueue.
Phase == IF cpc = "idle" THEN "idle" ELSE IF calm THEN "calm" ELSE "disturbed"

\* The items of open enqueues are items, and no two are the same.
LEMMA OpenFacts ==
  ASSUME IInv, SentInv
  PROVE  /\ Open \subseteq Items
         /\ DOMAIN pending \subseteq Items
         /\ \A p, q \in Producers : Item(p) = Item(q) => p = q
<1>1. sent \in [Producers -> Nat] /\ \A p \in Producers : Quota[p] \in Nat /\ sent[p] <= Quota[p]
  BY QuotaAssumption DEF IInv, TypeInv, SentInv
<1>2. \A p \in Producers : sent[p] = 0 => ppc[p] = "idle"
  BY DEF IInv, ProducerInv
<1>3. ASSUME NEW p \in Producers, NEW n \in 1 .. sent[p]
      PROVE  <<p, n>> \in Items
  <2>1. n \in 1 .. Quota[p]
    BY <1>1, <1>3
  <2>2. <<p, n>> \in {p} \X (1 .. Quota[p])
    BY <2>1
  <2> QED
    BY <2>2 DEF Items
<1>4. Open \subseteq Items
  <2> SUFFICES ASSUME NEW p \in Producers, ppc[p] # "idle" PROVE Item(p) \in Items
    BY DEF Open
  <2>1. sent[p] \in 1 .. sent[p]
    BY <1>1, <1>2
  <2> QED
    BY <1>3, <2>1 DEF Item
<1>5. DOMAIN pending \subseteq Items
  BY <1>3 DEF SentInv
<1>6. \A p, q \in Producers : Item(p) = Item(q) => p = q
  BY DEF Item
<1> QED
  BY <1>4, <1>5, <1>6

\* tail.fetch_add opens an enqueue.
LEMMA ClaimOpens ==
  ASSUME IInv, PromiseInv, NEW p \in Producers, Claim(p)
  PROVE  Abstract!Next
<1> DEFINE new == <<p, sent[p] + 1>>
<1>1. sent \in [Producers -> Nat] /\ ppc \in [Producers -> InEnqueue \cup {"idle"}]
      /\ Quota[p] \in Nat
  BY QuotaAssumption DEF IInv, TypeInv
<1>2. /\ ppc[p] = "idle" /\ sent[p] < Quota[p] /\ sent' = [sent EXCEPT ![p] = @ + 1]
      /\ ppc' = [ppc EXCEPT ![p] = "load"] /\ ~calm' /\ cpc' = cpc
  BY DEF Claim, At
<1>3. /\ sent'[p] = sent[p] + 1 /\ \A q \in Producers \ {p} : sent'[q] = sent[q]
      /\ ppc'[p] = "load" /\ \A q \in Producers \ {p} : ppc'[q] = ppc[q]
  BY <1>1, <1>2
<1>4. new \in Items
  <2>1. sent[p] + 1 \in 1 .. Quota[p]
    BY <1>1, <1>2
  <2>2. new \in {p} \X (1 .. Quota[p])
    BY <2>1
  <2> QED
    BY <2>2 DEF Items
<1>5. pending' = [j \in DOMAIN pending \cup {new} |->
                    IF j = new THEN DOMAIN pending \ Open ELSE pending[j]]
  BY <1>3 DEF Claim
<1>6. new \notin DOMAIN pending
  BY <1>1 DEF PromiseInv, SentInv
<1>7. new \notin Open
  BY <1>1, <1>2 DEF Open, Item
<1>8. Open' = Open \cup {new}
  <2>1. \A q \in Producers : Item(q)' = IF q = p THEN new ELSE Item(q)
    BY <1>3 DEF Item
  <2>2. \A q \in Producers : ppc'[q] # "idle" <=> q = p \/ ppc[q] # "idle"
    BY <1>3
  <2>3. ASSUME NEW i \in Open' PROVE i \in Open \cup {new}
    <3>1. PICK q \in Producers : ppc'[q] # "idle" /\ i = Item(q)'
      BY <2>3 DEF Open
    <3> QED
      BY <2>1, <2>2, <3>1 DEF Open
  <2>4. ASSUME NEW i \in Open PROVE i \in Open'
    <3>1. PICK q \in Producers : ppc[q] # "idle" /\ i = Item(q)
      BY <2>4 DEF Open
    <3>2. q # p
      BY <1>2, <3>1
    <3>3. ppc'[q] # "idle" /\ i = Item(q)'
      BY <2>1, <2>2, <3>1, <3>2
    <3> QED
      BY <3>3 DEF Open
  <2>5. new \in Open'
    <3>1. ppc'[p] # "idle" /\ new = Item(p)'
      BY <2>1, <2>2
    <3> QED
      BY <3>1 DEF Open
  <2> QED
    BY <2>3, <2>4, <2>5
<1> HIDE DEF new
<1>9. Phase' = IF Phase = "calm" THEN "disturbed" ELSE Phase
  BY <1>2 DEF Phase
<1>10. Abstract!BeginEnqueue(new)
  BY <1>5, <1>6, <1>7, <1>8, <1>9 DEF Abstract!BeginEnqueue, Phase
<1> QED
  BY <1>4, <1>10 DEF Abstract!Next

\* An enqueue is open until it returns.
LEMMA EnqueueStepCloses ==
  ASSUME IInv, PromiseInv, NEW p \in Producers, EnqueueStep(p)
  PROVE  [Abstract!Next]_(Abstract!vars)
<1>1. PICK pc : Goto(p, pc)
  BY DEF EnqueueStep, LoadTail, CheckTail, Link, LinkAhead, LinkBuffer, SwingTail, WalkBack, Write
<1>2. /\ ppc'[p] = pc /\ \A q \in Producers \ {p} : ppc'[q] = ppc[q]
      /\ UNCHANGED <<sent, consumerVars, pending>>
  BY <1>1, GotoFacts
<1>3. ppc[p] # "idle"
  BY DEF EnqueueStep, LoadTail, CheckTail, Link, LinkAhead, SwingTail, WalkBack, Write, At
<1>4. \A q \in Producers : Item(q)' = Item(q)
  BY <1>2 DEF Item
<1>5. Phase' = Phase /\ pending' = pending
  BY <1>2 DEF Phase, consumerVars
<1>6. CASE pc # "idle"
  <2>1. \A q \in Producers : ppc'[q] # "idle" <=> ppc[q] # "idle"
    BY <1>2, <1>3, <1>6
  <2>2. Open' = Open
    BY <1>4, <2>1 DEF Open
  <2>3. UNCHANGED Abstract!vars
    BY <1>5, <2>2 DEF Abstract!vars, Phase
  <2> QED
    BY <2>3
<1>7. CASE pc = "idle"
  <2>1. \A q \in Producers : ppc'[q] # "idle" <=> q # p /\ ppc[q] # "idle"
    BY <1>2, <1>7
  <2>2. Item(p) \in Open /\ Item(p) \in Items /\ \A q \in Producers : Item(q) = Item(p) => q = p
    BY <1>3, OpenFacts DEF Open, PromiseInv
  <2>3. ASSUME NEW i \in Open' PROVE i \in Open \ {Item(p)}
    <3>1. PICK q \in Producers : ppc'[q] # "idle" /\ i = Item(q)'
      BY <2>3 DEF Open
    <3> QED
      BY <1>4, <2>1, <2>2, <3>1 DEF Open
  <2>4. ASSUME NEW i \in Open \ {Item(p)} PROVE i \in Open'
    <3>1. PICK q \in Producers : ppc[q] # "idle" /\ i = Item(q)
      BY <2>4 DEF Open
    <3>2. ppc'[q] # "idle" /\ i = Item(q)'
      BY <1>4, <2>1, <2>4, <3>1
    <3> QED
      BY <3>2 DEF Open
  <2>5. Open' = Open \ {Item(p)}
    BY <2>3, <2>4
  <2>6. Abstract!EndEnqueue(Item(p))
    BY <1>5, <2>2, <2>5 DEF Abstract!EndEnqueue, Phase
  <2> QED
    BY <2>2, <2>6 DEF Abstract!Next
<1> QED
  BY <1>6, <1>7

\* What the consumer does leaves enqueues open.
LEMMA OpenStays ==
  ASSUME UNCHANGED producerVars
  PROVE  Open' = Open
BY DEF Open, Item, producerVars

LEMMA GoesOnStutters ==
  ASSUME cpc # "idle", NEW pc \in InDequeue, Continue(pc), calm' = calm
  PROVE  UNCHANGED Abstract!vars
<1>1. Open' = Open /\ cpc' # "idle" /\ pending' = pending
  BY OpenStays DEF Continue, InDequeue, Scanning
<1> QED
  BY <1>1 DEF Abstract!vars

LEMMA FalseReports ==
  ASSUME cpc # "idle", ReturnFalse, ReportsTruth
  PROVE  Abstract!Next
<1>1. Open' = Open /\ cpc' = "idle" /\ pending' = pending
  BY OpenStays DEF ReturnFalse, Return
<1>2. calm => DOMAIN pending = {}
  BY DEF ReportsTruth
<1>3. Abstract!ReportEmpty
  BY <1>1, <1>2 DEF Abstract!ReportEmpty
<1> QED
  BY <1>3 DEF Abstract!Next

LEMMA ItemDelivers ==
  ASSUME IInv, SentInv, cpc # "idle", NEW i, IsNext(i), ReturnItem(i)
  PROVE  Abstract!Next
<1>1. Open' = Open /\ cpc' = "idle"
  BY OpenStays DEF ReturnItem, Return
<1>2. pending' = Abstract!Without(i)
  BY DEF ReturnItem, Abstract!Without
<1>3. Abstract!Deliver(i)
  BY <1>1, <1>2 DEF Abstract!Deliver, IsNext
<1>4. i \in Items
  BY OpenFacts DEF IsNext
<1> QED
  BY <1>3, <1>4 DEF Abstract!Next

\* A dequeue begins, goes on unseen, delivers what is next or reports an empty
\* queue, and that only when it may.
LEMMA DequeueStepShows ==
  ASSUME IInv, PromiseInv, DequeueStep
  PROVE  [Abstract!Next]_(Abstract!vars)
<1>1. {"leave", "skip", "empty", "first", "second", "scan", "scanEnd", "rescan", "take"} \subseteq InDequeue
  BY DEF InDequeue, Scanning
<1>2. SentInv
  BY DEF PromiseInv
<1>3. CASE BeginDequeue
  <2>1. cpc = "idle" /\ cpc' = "leave" /\ calm' = (Open = {}) /\ pending' = pending /\ Open' = Open
    BY <1>3, OpenStays DEF BeginDequeue, ConsumerAt, Continue
  <2>2. Abstract!BeginDequeue
    BY <2>1 DEF Abstract!BeginDequeue
  <2> QED
    BY <2>2 DEF Abstract!Next
<1>4. CASE LeaveBuffer
  <2>1. cpc # "idle" /\ ReportsTruth
    BY <1>4, LeaveBufferPromise DEF LeaveBuffer, ConsumerAt
  <2>2. ReturnFalse \/ ((Continue("leave") \/ Continue("skip")) /\ calm' = calm)
    BY <1>4 DEF LeaveBuffer, scanVars
  <2> QED
    BY <1>1, <2>1, <2>2, GoesOnStutters, FalseReports
<1>5. CASE SkipHandled
  <2>1. cpc # "idle" /\ ReportsTruth
    BY <1>5, SkipHandledPromise DEF SkipHandled, ConsumerAt
  <2>2. ReturnFalse \/ ((Continue("skip") \/ Continue("lastBuffer")) /\ calm' = calm)
    BY <1>5 DEF SkipHandled, scanVars
  <2>3. "lastBuffer" \in InDequeue
    BY DEF InDequeue
  <2> QED
    BY <1>1, <2>1, <2>2, <2>3, GoesOnStutters, FalseReports
<1>6. CASE CheckLastBuffer
  <2>1. cpc # "idle" /\ (Continue("empty") \/ Continue("first")) /\ calm' = calm
    BY <1>6 DEF CheckLastBuffer, ConsumerAt, scanVars
  <2> QED
    BY <1>1, <2>1, GoesOnStutters
<1>7. CASE CheckEmpty
  <2>1. cpc # "idle" /\ ReportsTruth
    BY <1>7, CheckEmptyPromise DEF CheckEmpty, ConsumerAt
  <2>2. ReturnFalse \/ (Continue("first") /\ calm' = calm)
    BY <1>7 DEF CheckEmpty, scanVars
  <2> QED
    BY <1>1, <2>1, <2>2, GoesOnStutters, FalseReports
<1>8. CASE TakeFirst
  <2> DEFINE i == SlotAt(Front(heap)).data
  <2>1. cpc # "idle" /\ (cpc' = "idle" => IsNext(i) /\ ReturnItem(i))
    BY <1>8, TakeFirstPromise DEF TakeFirst, ConsumerAt
  <2>2. cpc' = "idle" \/ (Continue("second") /\ calm' = calm)
    BY <1>8 DEF TakeFirst, ReturnItem, Return, scanVars
  <2> HIDE DEF i
  <2>3. CASE cpc' = "idle"
    BY <1>2, <2>1, <2>3, ItemDelivers
  <2> QED
    BY <1>1, <2>1, <2>2, <2>3, GoesOnStutters
<1>9. CASE StartScan
  <2>1. cpc # "idle" /\ ReportsTruth
    BY <1>9, StartScanPromise DEF StartScan, ConsumerAt
  <2>2. ReturnFalse \/ (Continue("scan") /\ calm' = calm)
    BY <1>9 DEF StartScan
  <2> QED
    BY <1>1, <2>1, <2>2, GoesOnStutters, FalseReports
<1>10. CASE ScanSlot
  <2>1. cpc # "idle" /\ calm' = calm
    BY <1>10 DEF ScanSlot, ConsumerAt
  <2>2. Continue("rescan") \/ Continue("scanEnd") \/ Continue("scan")
    BY <1>10 DEF ScanSlot
  <2> QED
    BY <1>1, <2>1, <2>2, GoesOnStutters
<1>11. CASE Fold
  <2>1. cpc # "idle" /\ ReportsTruth
    BY <1>11, FoldPromise DEF Fold, ConsumerAt
  <2>2. ReturnFalse \/ (Continue("scan") /\ calm' = calm)
    BY <1>11 DEF Fold, ScanBuffer
  <2> QED
    BY <1>1, <2>1, <2>2, GoesOnStutters, FalseReports
<1>12. CASE ScanNextBuffer
  <2>1. cpc # "idle" /\ ReportsTruth
    BY <1>12, ScanNextBufferPromise DEF ScanNextBuffer, ConsumerAt
  <2>2. ReturnFalse \/ (Continue("scan") /\ calm' = calm)
    BY <1>12 DEF ScanNextBuffer, ScanBuffer
  <2> QED
    BY <1>1, <2>1, <2>2, GoesOnStutters, FalseReports
<1>13. CASE ReScan
  <2>1. cpc # "idle" /\ calm' = calm /\ (Continue("take") \/ Continue("rescan"))
    BY <1>13 DEF ReScan, ConsumerAt
  <2> QED
    BY <1>1, <2>1, GoesOnStutters
<1>14. CASE TakeFound
  <2> DEFINE i == SlotAt(temp).data
  <2>1. cpc # "idle" /\ IsNext(i) /\ ReturnItem(i)
    BY <1>14, TakeFoundPromise DEF TakeFound, ConsumerAt
  <2> HIDE DEF i
  <2> QED
    BY <1>2, <2>1, ItemDelivers
<1> QED
  BY <1>3, <1>4, <1>5, <1>6, <1>7, <1>8, <1>9, <1>10, <1>11, <1>12, <1>13, <1>14 DEF DequeueStep

LEMMA NextImplementsNext ==
  ASSUME IInv, PromiseInv, [Next]_vars
  PROVE  [Abstract!Next]_(Abstract!vars)
<1>1. ASSUME UNCHANGED <<producerVars, cpc, calm, pending>>
      PROVE  UNCHANGED Abstract!vars
  <2>1. Open' = Open
    BY <1>1, OpenStays
  <2> QED
    BY <1>1, <2>1 DEF Abstract!vars
<1>2. CASE UNCHANGED vars
  BY <1>1, <1>2 DEF vars, consumerVars
<1>3. ASSUME NEW p \in Producers, Crash(p)
      PROVE  UNCHANGED Abstract!vars
  BY <1>1, <1>3 DEF Crash, consumerVars
<1> QED
  BY <1>2, <1>3, ClaimOpens, EnqueueStepCloses, DequeueStepShows DEF Next

LEMMA InitImplementsInit ==
  ASSUME Init
  PROVE  Abstract!Init
<1>1. Open = {} /\ pending = <<>> /\ cpc = "idle"
  BY DEF Init, Open
<1> QED
  BY <1>1 DEF Abstract!Init

\* The queue keeps what MessageQueue promises its users, as long as no index is
\* about to wrap around: nothing comes out twice or out of thin air, an item whose
\* enqueue() returned before another one's began comes out first, and dequeue()
\* returns false only if the queue is empty or an enqueue was open meanwhile;
\* whatever the producers and the consumer overtake each other in between.
THEOREM QueueImplementsMessageQueue == Spec /\ []RoomLeft => ImplementsMessageQueue
<1>1. Init => Abstract!Init /\ PromiseInv
  BY InitImplementsInit, InitPromise
<1>2. Inv /\ RoomLeft /\ PromiseInv /\ [Next]_vars => PromiseInv'
  BY NextKeepsPromise DEF Inv
<1>3. Inv /\ PromiseInv /\ [Next]_vars => [Abstract!Next]_(Abstract!vars)
  BY NextImplementsNext DEF Inv
<1>4. Spec /\ []RoomLeft => []Inv
  BY InvAlways
<1> QED
  BY <1>1, <1>2, <1>3, <1>4, PTL DEF Spec, ImplementsMessageQueue, Abstract!Spec

-----------------------------------------------------------------------------
(* When there is room.                                                     *)

\* Producers that keep to their quota.
WithinQuota == \A p \in Producers : sent[p] <= Quota[p]

LEMMA NextKeepsQuota ==
  ASSUME TypeInv, WithinQuota, [Next]_vars
  PROVE  WithinQuota'
<1>1. sent \in [Producers -> Nat] /\ Quota \in [Producers -> Nat]
  BY QuotaAssumption DEF TypeInv
<1>2. ASSUME NEW p \in Producers, Claim(p)
      PROVE  WithinQuota'
  <2>1. sent[p] < Quota[p] /\ sent' = [sent EXCEPT ![p] = @ + 1]
    BY <1>2 DEF Claim
  <2>2. sent'[p] = sent[p] + 1 /\ \A q \in Producers \ {p} : sent'[q] = sent[q]
    BY <1>1, <2>1
  <2>3. sent'[p] <= Quota[p]
    BY <1>1, <2>1, <2>2
  <2> QED
    BY <2>2, <2>3 DEF WithinQuota
<1>3. CASE sent' = sent
  BY <1>3 DEF WithinQuota
<1>4. ASSUME UNCHANGED vars \/ DequeueStep \/ \E p \in Producers : EnqueueStep(p) \/ Crash(p)
      PROVE  sent' = sent
  <2>1. UNCHANGED vars => sent' = sent
    BY DEF vars, producerVars
  <2>2. DequeueStep => sent' = sent
    BY DEF DequeueStep, BeginDequeue, LeaveBuffer, SkipHandled, CheckLastBuffer, CheckEmpty, TakeFirst,
       StartScan, ScanSlot, Fold, ScanNextBuffer, ReScan, TakeFound, Continue, ReturnFalse, ReturnItem,
       Return, ScanBuffer, producerVars
  <2>3. ASSUME NEW p \in Producers, EnqueueStep(p) \/ Crash(p) PROVE sent' = sent
    BY <2>3 DEF EnqueueStep, LoadTail, CheckTail, Link, LinkAhead, LinkBuffer, SwingTail, WalkBack, Write,
       Goto, Crash, producerVars
  <2> QED
    BY <1>4, <2>1, <2>2, <2>3
<1> QED
  BY <1>2, <1>3, <1>4 DEF Next

\* There is room, now and always, where all the items of all producers and two
\* buffers more have an index.
THEOREM RoomAlwaysLeft ==
  ASSUME Sum(Quota, Producers) + 2 * BufferSize <= IndexModulus
  PROVE  Spec => []RoomLeft
<1>1. Init => Inv /\ WithinQuota
  <2>1. Init => WithinQuota
    BY QuotaAssumption DEF Init, WithinQuota
  <2> QED
    BY <2>1, InitInv
<1>2. Inv /\ WithinQuota => RoomLeft
  <2> SUFFICES ASSUME Inv, WithinQuota PROVE RoomLeft
    OBVIOUS
  <2>1. sent \in [Producers -> Nat] /\ Quota \in [Producers -> Nat] /\ tail = Sum(sent, Producers)
    BY QuotaAssumption, ClaimsIsSum DEF Inv, IInv, TypeInv, Counted
  <2>2. tail <= Sum(Quota, Producers) /\ tail \in Nat /\ Sum(Quota, Producers) \in Nat
    BY <2>1, ProducersAssumption, SumBounded DEF WithinQuota
  <2> QED
    BY <2>2, BufferSizeAssumption, IndexModulusAssumption DEF RoomLeft
<1>3. Inv /\ WithinQuota /\ [Next]_vars => (Inv /\ WithinQuota)'
  BY <1>2, NextKeepsInv, NextKeepsQuota DEF Inv, IInv
<1> QED
  BY <1>1, <1>2, <1>3, PTL DEF Spec

=============================================================================
