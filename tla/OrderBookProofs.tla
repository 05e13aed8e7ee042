--------------------------- MODULE OrderBookProofs ---------------------------
(***************************************************************************)
(* Safety of the order book for every set of order ids, prices and         *)
(* quantities.                                                             *)
(***************************************************************************)
EXTENDS OrderBook, SequenceTheorems, TLAPS

\* RemoveAt shifts what follows the removed place down by one.
LEMMA RemoveAtFacts ==
  ASSUME NEW S, NEW list \in Seq(S), NEW i \in DOMAIN list
  PROVE  /\ RemoveAt(list, i) \in Seq(S)
         /\ Len(RemoveAt(list, i)) = Len(list) - 1
         /\ \A j \in 1 .. Len(list) - 1 :
              RemoveAt(list, i)[j] = IF j < i THEN list[j] ELSE list[j + 1]
<1> DEFINE front == SubSeq(list, 1, i - 1)
           back == SubSeq(list, i + 1, Len(list))
<1>0. i \in 1 .. Len(list) /\ Len(list) \in Nat
  OBVIOUS
<1>1. /\ front \in Seq(S)
      /\ Len(front) = i - 1
      /\ \A j \in 1 .. i - 1 : front[j] = list[j]
  BY <1>0
<1>2. /\ back \in Seq(S)
      /\ Len(back) = Len(list) - i
      /\ \A j \in 1 .. Len(list) - i : back[j] = list[i + j]
  BY <1>0
<1> DEFINE both == front \o back
<1>3. RemoveAt(list, i) = both
  BY DEF RemoveAt
<1> HIDE DEF front, back
<1>4. /\ both \in Seq(S)
      /\ Len(both) = Len(front) + Len(back)
      /\ \A j \in 1 .. Len(front) + Len(back) :
           both[j] = IF j <= Len(front) THEN front[j] ELSE back[j - Len(front)]
  BY <1>1, <1>2, ConcatProperties, Zenon
<1> HIDE DEF both
<1>5. ASSUME NEW j \in 1 .. Len(list) - 1
      PROVE  both[j] = IF j < i THEN list[j] ELSE list[j + 1]
  <2>0. j \in 1 .. Len(front) + Len(back)
    BY <1>0, <1>1, <1>2
  <2>1. CASE j < i
    BY <2>0, <2>1, <1>0, <1>1, <1>4
  <2>2. CASE ~(j < i)
    <3>1. /\ j - (i - 1) \in 1 .. Len(list) - i
          /\ i + (j - (i - 1)) = j + 1
      BY <2>2, <1>0
    <3>2. both[j] = back[j - (i - 1)]
      BY <2>0, <2>2, <1>0, <1>1, <1>4
    <3>3. back[j - (i - 1)] = list[i + (j - (i - 1))]
      BY <3>1, <1>2
    <3>4. QED
      BY <2>2, <3>1, <3>2, <3>3
  <2>3. QED
    BY <2>1, <2>2
<1>6. QED
  BY <1>0, <1>1, <1>2, <1>3, <1>4, <1>5

\* Storing a level's list changes that level only, and erases it when empty.
LEMMA PutLevelFacts ==
  ASSUME NEW side, NEW p, NEW list
  PROVE  /\ list = <<>> => DOMAIN PutLevel(side, p, list) = DOMAIN side \ {p}
         /\ list # <<>> => DOMAIN PutLevel(side, p, list) = DOMAIN side \cup {p}
         /\ \A q \in DOMAIN PutLevel(side, p, list) :
              PutLevel(side, p, list)[q] = IF q = p THEN list ELSE side[q]
         /\ PutLevel(side, p, list) =
              [q \in DOMAIN PutLevel(side, p, list) |-> IF q = p THEN list ELSE side[q]]
BY DEF PutLevel

\* Storing a list of resting orders back keeps the book's type and leaves no
\* empty level.
LEMMA PutLevelKeepsBook ==
  ASSUME BookTypeOK, NoEmptyLevel,
         NEW s \in Sides, NEW p \in Prices, NEW list \in Seq(Resting),
         book' = [book EXCEPT ![s] = PutLevel(@, p, list)]
  PROVE  BookTypeOK' /\ NoEmptyLevel'
<1>1. /\ book' = [t \in Sides |-> book'[t]]
      /\ book'[s] = PutLevel(book[s], p, list)
      /\ \A t \in Sides \ {s} : book'[t] = book[t]
  BY DEF BookTypeOK
<1>2. book[s] \in [DOMAIN book[s] -> Seq(Resting)] /\ DOMAIN book[s] \subseteq Prices
  BY DEF BookTypeOK, Levels
<1>3. /\ DOMAIN book'[s] \subseteq Prices
      /\ \A q \in DOMAIN book'[s] : book'[s][q] \in Seq(Resting) /\ book'[s][q] # <<>>
  <2>1. CASE list = <<>>
    <3>1. DOMAIN book'[s] = DOMAIN book[s] \ {p}
      BY <1>1, <2>1, PutLevelFacts
    <3>2. \A q \in DOMAIN book'[s] : book'[s][q] = book[s][q]
      BY <1>1, <3>1 DEF PutLevel
    <3>3. QED
      BY <1>2, <3>1, <3>2 DEF NoEmptyLevel, Levels
  <2>2. CASE list # <<>>
    <3>1. DOMAIN book'[s] = DOMAIN book[s] \cup {p}
      BY <1>1, <2>2, PutLevelFacts
    <3>2. \A q \in DOMAIN book'[s] : book'[s][q] = IF q = p THEN list ELSE book[s][q]
      BY <1>1 DEF PutLevel
    <3>3. QED
      BY <1>2, <2>2, <3>1, <3>2 DEF NoEmptyLevel, Levels
  <2>3. QED
    BY <2>1, <2>2
<1>4. book'[s] \in [DOMAIN book'[s] -> Seq(Resting)]
  BY <1>1, <1>3 DEF PutLevel
<1>5. QED
  BY <1>1, <1>3, <1>4 DEF BookTypeOK, NoEmptyLevel, Levels

-----------------------------------------------------------------------------
(* What an iteration of the matching loop does to the book                 *)

\* The traded quantity is positive and at most what the maker has.
LEMMA FillFacts ==
  ASSUME TypeOK, NoEmptyLevel, NEW p \in Prices, Fill(p)
  PROVE  LET s == Opposite(BookSide(incoming.side))
             level == book[s][p]
             qty == incoming'.filledQty - incoming.filledQty
             gone == qty = level[1].quantity
             list == IF gone THEN Tail(level) ELSE [level EXCEPT ![1].quantity = @ - qty]
         IN /\ incoming \in Matching
            /\ s \in Sides
            /\ p \in Levels(s)
            /\ level \in Seq(Resting)
            /\ level # <<>>
            /\ level[1] \in Resting
            /\ qty \in 1 .. level[1].quantity
            /\ list \in Seq(Resting)
            /\ book' = [book EXCEPT ![s] = PutLevel(@, p, list)]
            /\ orderIndex' = IF gone THEN DropOrder(orderIndex, level[1].orderId)
                                     ELSE orderIndex
            /\ incoming' \in Matching
            /\ incoming'.orderId = incoming.orderId
<1> DEFINE s == Opposite(BookSide(incoming.side))
           level == book[s][p]
           remaining == Left(incoming)
           qty == IF remaining < level[1].quantity THEN remaining ELSE level[1].quantity
           gone == qty = level[1].quantity
           list == IF gone THEN Tail(level) ELSE [level EXCEPT ![1].quantity = @ - qty]
           trade == [price |-> p, quantity |-> qty,
                     aggressorSide |-> incoming.side,
                     aggressorOrderId |-> incoming.orderId,
                     restingOrderId |-> level[1].orderId]
<1>1. incoming \in Matching
  BY DEF TypeOK, Fill
<1>2. s \in Sides /\ p \in Levels(s) /\ remaining \in Nat \ {0}
  BY <1>1 DEF Fill, IsBest, Sides, Opposite, BookSide, CanMatch, Left, Matching
<1>3. level \in Seq(Resting) /\ level # <<>>
  BY <1>2 DEF TypeOK, BookTypeOK, NoEmptyLevel, Levels
<1>4. level[1] \in Resting
  BY <1>3
<1>5. /\ level[1].quantity \in Nat \ {0}
      /\ level[1].orderId \in OrderIds
      /\ qty \in 1 .. level[1].quantity
  BY <1>2, <1>4 DEF Resting
<1>6. list \in Seq(Resting)
  <2>1. CASE gone
    BY <2>1, <1>3
  <2>2. CASE ~gone
    <3>1. level[1].quantity - qty \in Nat \ {0}
      BY <2>2, <1>5
    <3>2. [level[1] EXCEPT !.quantity = @ - qty] \in Resting
      BY <3>1, <1>4 DEF Resting
    <3>3. list = [level EXCEPT ![1] = [level[1] EXCEPT !.quantity = @ - qty]]
      BY <2>2, <1>3
    <3>4. QED
      BY <3>2, <3>3, <1>3
  <2>3. QED
    BY <2>1, <2>2
<1>7. trade \in Trade
  BY <1>1, <1>5 DEF Trade, Matching
<1>8. incoming' = [incoming EXCEPT !.filledQty = @ + qty,
                                   !.filledNotional = @ + qty * p,
                                   !.trades = Append(@, trade)]
  BY DEF Fill
<1>9. /\ incoming.filledQty + qty \in Nat
      /\ incoming.filledNotional + qty * p \in Int
  <2>1. qty \in Int /\ p \in Int
    BY <1>5, PricesAssumption
  <2>2. qty * p \in Int
    BY <2>1
  <2>3. incoming.filledNotional \in Int /\ incoming.filledQty \in Nat
    BY <1>1 DEF Matching
  <2>4. QED
    BY <1>5, <2>2, <2>3
<1>10. Append(incoming.trades, trade) \in Seq(Trade)
  BY <1>1, <1>7 DEF Matching
<1>11. incoming' \in Matching
  <2> HIDE DEF qty, trade
  <2> QED
    BY <1>1, <1>8, <1>9, <1>10 DEF Matching
<1>12. incoming'.filledQty - incoming.filledQty = qty /\ incoming'.orderId = incoming.orderId
  BY <1>1, <1>5, <1>8 DEF Matching
<1>13. /\ book' = [book EXCEPT ![s] = PutLevel(@, p, list)]
       /\ orderIndex' = IF gone THEN DropOrder(orderIndex, level[1].orderId) ELSE orderIndex
  BY DEF Fill
<1>14. QED
  BY <1>1, <1>2, <1>3, <1>4, <1>5, <1>6, <1>11, <1>12, <1>13
\* What is stored when the remainder of an order comes to rest.
LEMMA RestFacts ==
  ASSUME TypeOK, RestRemainder
  PROVE  LET s == BookSide(incoming.side)
             p == incoming.price
             o == [orderId |-> incoming.orderId, quantity |-> Left(incoming)]
             list == Append(LevelAt(book[s], p), o)
         IN /\ incoming \in Matching
            /\ s \in Sides
            /\ LevelAt(book[s], p) \in Seq(Resting)
            /\ o \in Resting
            /\ list \in Seq(Resting)
            /\ list # <<>>
            /\ book' = [book EXCEPT ![s] = PutLevel(@, p, list)]
            /\ orderIndex' = AddOrder(orderIndex, incoming.orderId,
                                      [side |-> s, price |-> p])
<1> DEFINE s == BookSide(incoming.side)
           p == incoming.price
           o == [orderId |-> incoming.orderId, quantity |-> Left(incoming)]
<1>1. incoming \in Matching
  BY DEF TypeOK, RestRemainder
<1>2. s \in Sides /\ p \in Prices
  BY <1>1 DEF Sides, BookSide, Matching
<1>3. o \in Resting
  BY <1>1 DEF RestRemainder, Resting, Left, Matching
<1>4. LevelAt(book[s], p) \in Seq(Resting)
  <2>1. CASE p \in DOMAIN book[s]
    BY <2>1, <1>2 DEF LevelAt, TypeOK, BookTypeOK, Levels
  <2>2. CASE p \notin DOMAIN book[s]
    BY <2>2 DEF LevelAt
  <2>3. QED
    BY <2>1, <2>2
<1>5. Append(LevelAt(book[s], p), o) \in Seq(Resting) \ {<<>>}
  BY <1>3, <1>4, AppendProperties
<1>6. /\ book' = [book EXCEPT ![s] = PutLevel(@, p, Append(LevelAt(book[s], p), o))]
      /\ orderIndex' = AddOrder(orderIndex, incoming.orderId, [side |-> s, price |-> p])
  BY <1>2 DEF RestRemainder, RestAt
<1>7. QED
  BY <1>1, <1>2, <1>3, <1>4, <1>5, <1>6

\* A cancel of an indexed order erases that order's entry: the index leads to
\* a level that exists and to a list that holds the order.
LEMMA CancelFacts ==
  ASSUME TypeOK, IndexExact, NEW id \in OrderIds, CancelResting(id)
  PROVE  LET s == orderIndex[id].side
             p == orderIndex[id].price
             level == book[s][p]
         IN /\ s \in Sides
            /\ p \in Levels(s)
            /\ level \in Seq(Resting)
            /\ \E i \in DOMAIN level :
                 /\ level[i].orderId = id
                 /\ RemoveAt(level, i) \in Seq(Resting)
                 /\ book' = [book EXCEPT ![s] = PutLevel(@, p, RemoveAt(level, i))]
            /\ orderIndex' = DropOrder(orderIndex, id)
<1> DEFINE s == orderIndex[id].side
           p == orderIndex[id].price
           level == book[s][p]
<1>1. id \in DOMAIN orderIndex
  BY DEF CancelResting
<1>2. orderIndex[id] \in OrderLocation
  BY <1>1 DEF TypeOK, IndexTypeOK
<1>3. s \in Sides /\ p \in Levels(s)
  BY <1>1, <1>2 DEF OrderLocation, IndexExact, IndexedRest
<1>4. level \in Seq(Resting)
  BY <1>3 DEF TypeOK, BookTypeOK, Levels
<1>5. PICK i \in DOMAIN level :
        /\ level[i].orderId = id
        /\ book' = [book EXCEPT ![s] = PutLevel(@, p, RemoveAt(level, i))]
  BY DEF CancelResting
<1>6. RemoveAt(level, i) \in Seq(Resting)
  BY <1>4, RemoveAtFacts
<1>7. orderIndex' = DropOrder(orderIndex, id)
  BY DEF CancelResting
<1>8. QED
  BY <1>3, <1>4, <1>5, <1>6, <1>7
-----------------------------------------------------------------------------
(* The index follows the lists                                             *)

\* Unlinking the i-th order of a level and its index entry keeps both exact.
LEMMA UnlinkKeepsIndex ==
  ASSUME BookTypeOK, IndexTypeOK, IndexExact,
         NEW s \in Sides, NEW p \in DOMAIN book[s], NEW i \in DOMAIN book[s][p],
         NEW list \in Seq(Resting),
         Len(list) = Len(book[s][p]) - 1,
         \A j \in 1 .. Len(book[s][p]) - 1 :
           list[j] = IF j < i THEN book[s][p][j] ELSE book[s][p][j + 1],
         book' = [book EXCEPT ![s] = PutLevel(@, p, list)],
         orderIndex' = DropOrder(orderIndex, book[s][p][i].orderId)
  PROVE  IndexExact'
<1> DEFINE level == book[s][p]
           gone == level[i].orderId
<1>1. /\ level \in Seq(Resting)
      /\ Len(level) \in Nat
      /\ DOMAIN level = 1 .. Len(level)
      /\ i \in 1 .. Len(level)
  BY DEF BookTypeOK, Levels
<1>2. /\ DOMAIN list = 1 .. Len(level) - 1
      /\ list # <<>> <=> Len(level) > 1
  BY <1>1
<1>3. /\ \A t \in Sides : \A q : t # s \/ q # p =>
           /\ q \in DOMAIN book'[t] <=> q \in DOMAIN book[t]
           /\ q \in DOMAIN book[t] => book'[t][q] = book[t][q]
      /\ p \in DOMAIN book'[s] <=> list # <<>>
      /\ list # <<>> => book'[s][p] = list
  BY DEF BookTypeOK, PutLevel, Levels
<1>4. /\ DOMAIN orderIndex' = DOMAIN orderIndex \ {gone}
      /\ \A id \in DOMAIN orderIndex \ {gone} : orderIndex'[id] = orderIndex[id]
  BY DEF DropOrder
<1>5. \A t \in Sides : \A q \in DOMAIN book[t] : \A k \in DOMAIN book[t][q] :
        /\ book[t][q][k].orderId \in DOMAIN orderIndex
        /\ orderIndex[book[t][q][k].orderId] = [side |-> t, price |-> q]
        /\ \A j \in DOMAIN book[t][q] :
             book[t][q][j].orderId = book[t][q][k].orderId => k = j
  BY DEF IndexExact, ListsIndexed, Levels
<1>6. \A t \in Sides : \A q \in DOMAIN book[t] : \A k \in DOMAIN book[t][q] :
        book[t][q][k].orderId = gone => t = s /\ q = p /\ k = i
  <2> SUFFICES ASSUME NEW t \in Sides, NEW q \in DOMAIN book[t], NEW k \in DOMAIN book[t][q],
                      book[t][q][k].orderId = gone
               PROVE  t = s /\ q = p /\ k = i
    OBVIOUS
  <2>1. [side |-> t, price |-> q] = [side |-> s, price |-> p]
    BY <1>5
  <2>2. t = s /\ q = p
    BY <2>1
  <2>3. QED
    BY <1>5, <2>2
<1>7. ListsIndexed'
  <2> SUFFICES ASSUME NEW t \in Sides, NEW q \in DOMAIN book'[t], NEW k \in DOMAIN book'[t][q]
               PROVE  LET id == book'[t][q][k].orderId
                      IN /\ id \in DOMAIN orderIndex'
                         /\ orderIndex'[id] = [side |-> t, price |-> q]
                         /\ \A j \in DOMAIN book'[t][q] : book'[t][q][j].orderId = id => k = j
    BY DEF ListsIndexed, Levels
  <2>1. CASE t # s \/ q # p
    <3>1. q \in DOMAIN book[t] /\ book'[t][q] = book[t][q]
      BY <1>3, <2>1
    <3>2. book[t][q][k].orderId # gone
      BY <1>6, <2>1, <3>1
    <3>3. QED
      BY <1>4, <1>5, <3>1, <3>2
  <2>2. CASE t = s /\ q = p
    <3>1. list # <<>> /\ book'[t][q] = list
      BY <1>3, <2>2
    <3>2. ASSUME NEW m \in DOMAIN list
          PROVE  \E n \in DOMAIN level : /\ list[m] = level[n] /\ n # i
                                         /\ n = IF m < i THEN m ELSE m + 1
      BY <1>1, <1>2
    <3>3. PICK n \in DOMAIN level : list[k] = level[n] /\ n # i /\ n = IF k < i THEN k ELSE k + 1
      BY <3>1, <3>2
    <3>4. level[n].orderId # gone
      BY <1>6, <3>3
    <3>5. /\ list[k].orderId \in DOMAIN orderIndex'
          /\ orderIndex'[list[k].orderId] = [side |-> t, price |-> q]
      BY <1>4, <1>5, <2>2, <3>3, <3>4
    <3>6. ASSUME NEW j \in DOMAIN list, list[j].orderId = list[k].orderId
          PROVE  k = j
      <4>1. PICK n2 \in DOMAIN level : list[j] = level[n2] /\ n2 = IF j < i THEN j ELSE j + 1
        BY <3>2
      <4>2. level[n2].orderId = level[n].orderId
        BY <3>3, <3>6, <4>1
      <4>2a. n2 = n
        BY <1>5, <4>2
      <4>3. QED
        BY <1>1, <1>2, <3>1, <3>3, <4>1, <4>2a
    <3>7. QED
      BY <3>1, <3>5, <3>6
  <2>3. QED
    BY <2>1, <2>2
<1>8. IndexedRest'
  <2> SUFFICES ASSUME NEW id \in DOMAIN orderIndex'
               PROVE  LET loc == orderIndex'[id]
                      IN /\ loc.price \in DOMAIN book'[loc.side]
                         /\ \E k \in DOMAIN book'[loc.side][loc.price] :
                              book'[loc.side][loc.price][k].orderId = id
    BY DEF IndexedRest, Levels
  <2> DEFINE loc == orderIndex[id]
  <2>1. id \in DOMAIN orderIndex /\ id # gone /\ orderIndex'[id] = loc
    BY <1>4
  <2>2. loc.side \in Sides
    BY <2>1 DEF IndexTypeOK, OrderLocation
  <2>3. /\ loc.price \in DOMAIN book[loc.side]
        /\ \E k \in DOMAIN book[loc.side][loc.price] :
             book[loc.side][loc.price][k].orderId = id
    BY <2>1 DEF IndexExact, IndexedRest, Levels
  <2>4. CASE loc.side # s \/ loc.price # p
    <3>1. /\ loc.price \in DOMAIN book'[loc.side]
          /\ book'[loc.side][loc.price] = book[loc.side][loc.price]
      BY <1>3, <2>2, <2>3, <2>4
    <3>2. QED
      BY <2>1, <2>3, <3>1
  <2>5. CASE loc.side = s /\ loc.price = p
    <3>1. PICK k \in DOMAIN level : level[k].orderId = id
      BY <2>3, <2>5
    <3>2. k # i
      BY <2>1, <3>1
    <3>3. \E m \in DOMAIN list : list[m] = level[k]
      <4>1. CASE k < i
        BY <4>1, <1>1, <1>2
      <4>2. CASE k > i
        <5>1. k - 1 \in DOMAIN list /\ ~(k - 1 < i) /\ (k - 1) + 1 = k
          BY <4>2, <1>1, <1>2
        <5>2. list[k - 1] = level[k]
          BY <5>1, <1>2
        <5>3. QED
          BY <5>1, <5>2
      <4>3. QED
        BY <4>1, <4>2, <3>2, <1>1
    <3>4. list # <<>>
      BY <3>3
    <3>5. p \in DOMAIN book'[s] /\ book'[s][p] = list
      BY <1>3, <3>4
    <3>6. QED
      BY <2>1, <2>5, <3>1, <3>3, <3>5
  <2>6. QED
    BY <2>4, <2>5
<1>9. QED
  BY <1>7, <1>8 DEF IndexExact

\* A step that keeps every list's order ids in place, and the index, keeps
\* both exact.
LEMMA SameIdsKeepIndex ==
  ASSUME BookTypeOK, IndexTypeOK, IndexExact,
         NEW s \in Sides, NEW p \in DOMAIN book[s], NEW list \in Seq(Resting),
         list # <<>>,
         DOMAIN list = DOMAIN book[s][p],
         \A j \in DOMAIN list : list[j].orderId = book[s][p][j].orderId,
         book' = [book EXCEPT ![s] = PutLevel(@, p, list)],
         orderIndex' = orderIndex
  PROVE  IndexExact'
<1>1. \A t \in Sides :
        /\ DOMAIN book'[t] = DOMAIN book[t]
        /\ \A q \in DOMAIN book[t] :
             /\ DOMAIN book'[t][q] = DOMAIN book[t][q]
             /\ \A k \in DOMAIN book[t][q] :
                  book'[t][q][k].orderId = book[t][q][k].orderId
  BY DEF BookTypeOK, PutLevel, Levels
<1>2. ListsIndexed'
  <2> SUFFICES ASSUME NEW t \in Sides, NEW q \in DOMAIN book'[t], NEW k \in DOMAIN book'[t][q]
               PROVE  LET id == book'[t][q][k].orderId
                      IN /\ id \in DOMAIN orderIndex'
                         /\ orderIndex'[id] = [side |-> t, price |-> q]
                         /\ \A j \in DOMAIN book'[t][q] : book'[t][q][j].orderId = id => k = j
    BY DEF ListsIndexed, Levels
  <2>1. q \in DOMAIN book[t] /\ k \in DOMAIN book[t][q]
    BY <1>1
  <2>2. /\ book[t][q][k].orderId \in DOMAIN orderIndex
        /\ orderIndex[book[t][q][k].orderId] = [side |-> t, price |-> q]
        /\ \A j \in DOMAIN book[t][q] :
             book[t][q][j].orderId = book[t][q][k].orderId => k = j
    BY <2>1 DEF IndexExact, ListsIndexed, Levels
  <2>3. QED
    BY <1>1, <2>1, <2>2
<1>3. IndexedRest'
  <2> SUFFICES ASSUME NEW id \in DOMAIN orderIndex
               PROVE  LET loc == orderIndex[id]
                      IN /\ loc.price \in DOMAIN book'[loc.side]
                         /\ \E k \in DOMAIN book'[loc.side][loc.price] :
                              book'[loc.side][loc.price][k].orderId = id
    BY DEF IndexedRest, Levels
  <2>1. orderIndex[id].side \in Sides
    BY DEF IndexTypeOK, OrderLocation
  <2>2. QED
    BY <1>1, <2>1 DEF IndexExact, IndexedRest, Levels
<1>4. QED
  BY <1>2, <1>3 DEF IndexExact

\* Appending an order that is not in the book, and indexing it, keeps both
\* exact.
LEMMA RestKeepsIndex ==
  ASSUME BookTypeOK, IndexTypeOK, IndexExact,
         NEW s \in Sides, NEW p \in Prices, NEW o \in Resting,
         o.orderId \notin DOMAIN orderIndex,
         book' = [book EXCEPT ![s] = PutLevel(@, p, Append(LevelAt(book[s], p), o))],
         orderIndex' = AddOrder(orderIndex, o.orderId, [side |-> s, price |-> p])
  PROVE  IndexExact'
<1> DEFINE old == LevelAt(book[s], p)
           list == Append(old, o)
<1>1. old \in Seq(Resting)
  BY DEF BookTypeOK, LevelAt, Levels
<1>2. /\ list \in Seq(Resting)
      /\ list # <<>>
      /\ Len(old) \in Nat
      /\ DOMAIN old = 1 .. Len(old)
      /\ DOMAIN list = 1 .. Len(old) + 1
      /\ \A j \in 1 .. Len(old) : list[j] = old[j]
      /\ list[Len(old) + 1] = o
  BY <1>1, AppendProperties
<1>3. /\ p \in DOMAIN book[s] => old = book[s][p]
      /\ p \notin DOMAIN book[s] => Len(old) = 0
  BY DEF LevelAt
<1>4. book' = [book EXCEPT ![s] = PutLevel(@, p, list)]
  OBVIOUS
<1> HIDE DEF list, old
<1>5. /\ \A t \in Sides : \A q : t # s \/ q # p =>
           /\ q \in DOMAIN book'[t] <=> q \in DOMAIN book[t]
           /\ q \in DOMAIN book[t] => book'[t][q] = book[t][q]
      /\ p \in DOMAIN book'[s]
      /\ book'[s][p] = list
  <2>1. /\ book'[s] = PutLevel(book[s], p, list)
        /\ \A t \in Sides : t # s => book'[t] = book[t]
    BY <1>4 DEF BookTypeOK
  <2>2. /\ DOMAIN PutLevel(book[s], p, list) = DOMAIN book[s] \cup {p}
        /\ PutLevel(book[s], p, list)[p] = list
        /\ \A q \in DOMAIN book[s] : q # p => PutLevel(book[s], p, list)[q] = book[s][q]
    BY <1>2 DEF PutLevel
  <2>3. QED
    BY <2>1, <2>2
<1>6. /\ DOMAIN orderIndex' = DOMAIN orderIndex \cup {o.orderId}
      /\ \A id \in DOMAIN orderIndex : orderIndex'[id] = orderIndex[id]
      /\ orderIndex'[o.orderId] = [side |-> s, price |-> p]
  BY DEF AddOrder
<1>7. \A t \in Sides : \A q \in DOMAIN book[t] : \A k \in DOMAIN book[t][q] :
        /\ book[t][q][k].orderId \in DOMAIN orderIndex
        /\ orderIndex[book[t][q][k].orderId] = [side |-> t, price |-> q]
        /\ \A j \in DOMAIN book[t][q] :
             book[t][q][j].orderId = book[t][q][k].orderId => k = j
  BY DEF IndexExact, ListsIndexed, Levels
<1>8. ListsIndexed'
  <2> SUFFICES ASSUME NEW t \in Sides, NEW q \in DOMAIN book'[t], NEW k \in DOMAIN book'[t][q]
               PROVE  LET id == book'[t][q][k].orderId
                      IN /\ id \in DOMAIN orderIndex'
                         /\ orderIndex'[id] = [side |-> t, price |-> q]
                         /\ \A j \in DOMAIN book'[t][q] : book'[t][q][j].orderId = id => k = j
    BY DEF ListsIndexed, Levels
  <2>1. CASE t # s \/ q # p
    <3>1. q \in DOMAIN book[t] /\ book'[t][q] = book[t][q]
      BY <1>5, <2>1
    <3>2. QED
      BY <1>6, <1>7, <3>1
  <2>2. CASE t = s /\ q = p
    <3>1. book'[t][q] = list
      BY <1>5, <2>2
    <3>2. \A j \in 1 .. Len(old) : /\ p \in DOMAIN book[s]
                                   /\ j \in DOMAIN book[s][p]
                                   /\ list[j] = book[s][p][j]
      BY <1>2, <1>3
    <3>3. \A j \in 1 .. Len(old) : /\ list[j].orderId \in DOMAIN orderIndex
                                   /\ orderIndex[list[j].orderId] = [side |-> s, price |-> p]
      BY <1>7, <3>2
    <3>4. \A i, j \in 1 .. Len(old) : list[i].orderId = list[j].orderId => i = j
      BY <1>7, <3>2
    <3>5. k \in 1 .. Len(old) \/ k = Len(old) + 1
      BY <1>2, <3>1
    <3>6. /\ list[k].orderId \in DOMAIN orderIndex'
          /\ orderIndex'[list[k].orderId] = [side |-> t, price |-> q]
      BY <1>2, <1>6, <2>2, <3>3, <3>5
    <3>7. ASSUME NEW j \in DOMAIN list, list[j].orderId = list[k].orderId
          PROVE  k = j
      <4>1. j \in 1 .. Len(old) \/ j = Len(old) + 1
        BY <1>2
      <4>2. QED
        BY <1>2, <3>3, <3>4, <3>5, <3>7, <4>1
    <3>8. QED
      BY <3>1, <3>6, <3>7
  <2>3. QED
    BY <2>1, <2>2
<1>9. IndexedRest'
  <2> SUFFICES ASSUME NEW id \in DOMAIN orderIndex'
               PROVE  LET loc == orderIndex'[id]
                      IN /\ loc.price \in DOMAIN book'[loc.side]
                         /\ \E k \in DOMAIN book'[loc.side][loc.price] :
                              book'[loc.side][loc.price][k].orderId = id
    BY DEF IndexedRest, Levels
  <2>1. CASE id = o.orderId
    <3>1. orderIndex'[id].side = s /\ orderIndex'[id].price = p
      BY <1>6, <2>1
    <3>2. Len(old) + 1 \in DOMAIN list /\ list[Len(old) + 1].orderId = id
      BY <1>2, <2>1
    <3>3. QED
      BY <1>5, <3>1, <3>2
  <2>2. CASE id # o.orderId
    <3> DEFINE loc == orderIndex[id]
    <3>1. id \in DOMAIN orderIndex /\ orderIndex'[id] = loc
      BY <1>6, <2>2
    <3>2. loc.side \in Sides
      BY <3>1 DEF IndexTypeOK, OrderLocation
    <3>3. /\ loc.price \in DOMAIN book[loc.side]
          /\ \E k \in DOMAIN book[loc.side][loc.price] :
               book[loc.side][loc.price][k].orderId = id
      BY <3>1 DEF IndexExact, IndexedRest, Levels
    <3>4. CASE loc.side # s \/ loc.price # p
      <4>1. /\ loc.price \in DOMAIN book'[loc.side]
            /\ book'[loc.side][loc.price] = book[loc.side][loc.price]
        BY <1>5, <3>2, <3>3, <3>4
      <4>2. QED
        BY <3>1, <3>3, <4>1
    <3>5. CASE loc.side = s /\ loc.price = p
      <4>1. \E k \in DOMAIN list : list[k].orderId = id
        BY <1>2, <1>3, <3>3, <3>5
      <4>2. QED
        BY <1>5, <3>1, <3>5, <4>1
    <3>6. QED
      BY <3>4, <3>5
  <2>3. QED
    BY <2>1, <2>2
<1>10. QED
  BY <1>8, <1>9 DEF IndexExact

-----------------------------------------------------------------------------
(* The inductive invariant                                                 *)

\* No part is inductive alone: the type of what cancel() stores back needs
\* IndexExact, which needs fresh ids; the loop reads the first order of a
\* level, which needs NoEmptyLevel.
IndInv ==
  /\ TypeOK
  /\ NoEmptyLevel
  /\ IndexExact
  /\ IdsFresh
  /\ BookUncrossed
  /\ ReplyTellsResting

\* The empty book of a new engine satisfies the inductive invariant.
LEMMA InitInd == Init => IndInv
<1> SUFFICES ASSUME Init PROVE IndInv
  OBVIOUS
<1>1. \A s \in Sides : book[s] = <<>> /\ Levels(s) = {}
  BY DEF Init, Levels
<1>2. DOMAIN orderIndex = {}
  BY DEF Init
<1>3. BookTypeOK
  BY <1>1 DEF Init, BookTypeOK, Levels
<1>4. IndexTypeOK
  BY DEF Init, IndexTypeOK
<1>5. result \in EngineResult
  BY DEF Init, EngineResult, Statuses
<1>6. TypeOK
  BY <1>3, <1>4, <1>5 DEF Init, TypeOK
<1>7. NoEmptyLevel /\ IndexExact /\ IdsFresh /\ BookUncrossed
  BY <1>1, <1>2 DEF Init, NoEmptyLevel, IndexExact, ListsIndexed, IndexedRest, IdsFresh,
                    BookUncrossed, Sides
<1>8. ReplyTellsResting
  BY <1>2 DEF Init, ReplyTellsResting
<1>9. QED
  BY <1>6, <1>7, <1>8 DEF IndInv

\* What a step that leaves the book and the index alone leaves true.
LEMMA BookUntouched ==
  ASSUME IndInv, UNCHANGED <<book, orderIndex>>
  PROVE  BookTypeOK' /\ IndexTypeOK' /\ NoEmptyLevel' /\ IndexExact' /\ BookUncrossed'
<1>1. book' = book /\ orderIndex' = orderIndex
  OBVIOUS
<1>2. BookTypeOK' /\ IndexTypeOK'
  BY <1>1 DEF IndInv, TypeOK, BookTypeOK, IndexTypeOK, Levels
<1>3. NoEmptyLevel' /\ BookUncrossed'
  BY <1>1 DEF IndInv, NoEmptyLevel, BookUncrossed, Levels
<1>4. ListsIndexed'
  <2> SUFFICES ASSUME NEW t \in Sides, NEW q \in DOMAIN book'[t], NEW k \in DOMAIN book'[t][q]
               PROVE  LET id == book'[t][q][k].orderId
                      IN /\ id \in DOMAIN orderIndex'
                         /\ orderIndex'[id] = [side |-> t, price |-> q]
                         /\ \A j \in DOMAIN book'[t][q] : book'[t][q][j].orderId = id => k = j
    BY DEF ListsIndexed, Levels
  <2>1. q \in DOMAIN book[t] /\ k \in DOMAIN book[t][q]
    BY <1>1
  <2>2. /\ book[t][q][k].orderId \in DOMAIN orderIndex
        /\ orderIndex[book[t][q][k].orderId] = [side |-> t, price |-> q]
        /\ \A j \in DOMAIN book[t][q] :
             book[t][q][j].orderId = book[t][q][k].orderId => k = j
    BY <2>1 DEF IndInv, IndexExact, ListsIndexed, Levels
  <2>3. QED
    BY <1>1, <2>2
<1>5. IndexedRest'
  BY <1>1 DEF IndInv, IndexExact, IndexedRest, Levels
<1>6. QED
  BY <1>2, <1>3, <1>4, <1>5 DEF IndexExact

\* Entering the matching loop keeps it: the id is fresh and the book untouched.
LEMMA SubmitInd ==
  ASSUME IndInv, NEW id \in OrderIds, NEW side \in RequestSides, NEW type \in OrderTypes,
         NEW price \in Prices, NEW quantity \in Quantities,
         Submit(id, side, type, price, quantity)
  PROVE  IndInv'
<1>1. UNCHANGED <<book, orderIndex, result, trades>>
  BY DEF Submit
<1>2. incoming' \in Matching
  BY QuantitiesAssumption DEF Submit, Matching
<1>3. TypeOK'
  BY <1>1, <1>2, BookUntouched DEF IndInv, TypeOK, Submit
<1>4. IdsFresh'
  BY <1>1, <1>2 DEF IndInv, IdsFresh, Submit
<1>5. ReplyTellsResting'
  BY <1>1 DEF IndInv, ReplyTellsResting, Submit
<1>6. QED
  BY <1>1, <1>3, <1>4, <1>5, BookUntouched DEF IndInv

\* The reply of a finished submission is well typed.
LEMMA FinishFacts ==
  ASSUME TypeOK, incoming \in Matching, NEW status \in Statuses, Finish(status)
  PROVE  /\ result' \in EngineResult
         /\ result'.orderId = incoming.orderId
         /\ result'.status = status
         /\ trades' \in Seq(Trade)
         /\ incoming' = NoOrder
         /\ used' = used
BY DEF Finish, EngineResult, Matching

\* A submission that ends without resting keeps it.
LEMMA CompleteInd ==
  ASSUME IndInv, CompleteFilled \/ RejectMarket
  PROVE  IndInv'
<1>1. PICK status \in {"FILLED", "REJECTED"} : Finish(status)
  BY DEF CompleteFilled, RejectMarket
<1>2. UNCHANGED <<book, orderIndex>> /\ incoming # NoOrder /\ incoming \in Matching
  BY DEF CompleteFilled, RejectMarket, IndInv, TypeOK
<1>3. /\ result' \in EngineResult
      /\ result'.orderId = incoming.orderId
      /\ result'.status = status
      /\ trades' \in Seq(Trade)
      /\ incoming' = NoOrder
      /\ used' = used
  BY <1>1, <1>2, FinishFacts DEF IndInv, Statuses
<1>4. TypeOK'
  BY <1>2, <1>3, BookUntouched DEF IndInv, TypeOK
<1>5. IdsFresh' /\ ReplyTellsResting'
  BY <1>2, <1>3 DEF IndInv, IdsFresh, ReplyTellsResting
<1>6. QED
  BY <1>2, <1>4, <1>5, BookUntouched DEF IndInv

\* A cancel that finds nothing keeps it.
LEMMA CancelUnknownInd ==
  ASSUME IndInv, NEW id \in OrderIds, CancelUnknown(id)
  PROVE  IndInv'
<1>1. UNCHANGED <<book, orderIndex, incoming, used>>
  BY DEF CancelUnknown
<1>2. result' \in EngineResult /\ trades' = <<>>
  BY DEF CancelUnknown, CancelResult, EngineResult, Statuses
<1>3. TypeOK'
  BY <1>1, <1>2, BookUntouched DEF IndInv, TypeOK
<1>4. IdsFresh' /\ ReplyTellsResting'
  BY <1>1 DEF IndInv, IdsFresh, ReplyTellsResting, CancelUnknown, CancelResult
<1>5. QED
  BY <1>1, <1>3, <1>4, BookUntouched DEF IndInv

\* Levels that only go away cannot cross the book.
LEMMA FewerLevelsUncrossed ==
  ASSUME BookTypeOK, BookUncrossed,
         NEW s \in Sides, NEW p \in DOMAIN book[s], NEW list,
         book' = [book EXCEPT ![s] = PutLevel(@, p, list)]
  PROVE  BookUncrossed'
<1>1. \A t \in Sides : DOMAIN book'[t] \subseteq DOMAIN book[t]
  BY DEF BookTypeOK, PutLevel, Levels
<1>2. QED
  BY <1>1 DEF BookUncrossed, Levels, Sides

\* Taking an order out of the index keeps its type.
LEMMA DropOrderFacts ==
  ASSUME IndexTypeOK, NEW id, orderIndex' = DropOrder(orderIndex, id)
  PROVE  IndexTypeOK' /\ DOMAIN orderIndex' = DOMAIN orderIndex \ {id}
BY DEF IndexTypeOK, DropOrder

\* One iteration of the matching loop keeps it.
LEMMA FillInd ==
  ASSUME IndInv, NEW p \in Prices, Fill(p)
  PROVE  IndInv'
<1> DEFINE s == Opposite(BookSide(incoming.side))
           level == book[s][p]
           qty == incoming'.filledQty - incoming.filledQty
           gone == qty = level[1].quantity
           list == IF gone THEN Tail(level) ELSE [level EXCEPT ![1].quantity = @ - qty]
<1>0. TypeOK /\ NoEmptyLevel /\ BookTypeOK /\ IndexTypeOK /\ IndexExact /\ BookUncrossed
  BY DEF IndInv, TypeOK
<1>1. /\ incoming \in Matching
      /\ s \in Sides
      /\ p \in DOMAIN book[s]
      /\ level \in Seq(Resting)
      /\ level # <<>>
      /\ level[1] \in Resting
      /\ qty \in 1 .. level[1].quantity
      /\ list \in Seq(Resting)
      /\ book' = [book EXCEPT ![s] = PutLevel(@, p, list)]
      /\ orderIndex' = IF gone THEN DropOrder(orderIndex, level[1].orderId)
                               ELSE orderIndex
      /\ incoming' \in Matching
      /\ incoming'.orderId = incoming.orderId
  BY <1>0, FillFacts DEF Levels
<1>2. UNCHANGED <<used, result, trades>> /\ incoming # NoOrder
  BY DEF Fill
<1> HIDE DEF s, qty
<1>3. BookTypeOK' /\ NoEmptyLevel'
  BY <1>0, <1>1, PutLevelKeepsBook
<1>4. IndexTypeOK' /\ DOMAIN orderIndex' \subseteq DOMAIN orderIndex
  <2>1. CASE gone
    <3>1. orderIndex' = DropOrder(orderIndex, level[1].orderId)
      BY <1>1, <2>1
    <3>2. QED
      BY <1>0, <3>1, DropOrderFacts
  <2>2. CASE ~gone
    <3>1. orderIndex' = orderIndex
      BY <1>1, <2>2
    <3>2. QED
      BY <1>0, <3>1 DEF IndexTypeOK
  <2>3. QED
    BY <2>1, <2>2
<1>5. IndexExact'
  <2>1. CASE gone
    <3>1. /\ 1 \in DOMAIN level
          /\ Len(Tail(level)) = Len(level) - 1
          /\ \A j \in 1 .. Len(level) - 1 :
               Tail(level)[j] = IF j < 1 THEN level[j] ELSE level[j + 1]
      BY <1>1
    <3>2. orderIndex' = DropOrder(orderIndex, level[1].orderId) /\ list = Tail(level)
      BY <1>1, <2>1
    <3> HIDE DEF list
    <3>3. QED
      BY <1>0, <1>1, <3>1, <3>2, UnlinkKeepsIndex
  <2>2. CASE ~gone
    <3>1. /\ list # <<>>
          /\ DOMAIN list = DOMAIN level
          /\ \A j \in DOMAIN list : list[j].orderId = level[j].orderId
      BY <1>1, <2>2 DEF Resting
    <3>2. orderIndex' = orderIndex
      BY <1>1, <2>2
    <3> HIDE DEF list, gone
    <3>3. QED
      BY <1>0, <1>1, <3>1, <3>2, SameIdsKeepIndex
  <2>3. QED
    BY <2>1, <2>2
<1>6. BookUncrossed'
  <2> HIDE DEF list
  <2> QED
    BY <1>0, <1>1, FewerLevelsUncrossed
<1>7. TypeOK'
  BY <1>0, <1>1, <1>2, <1>3, <1>4 DEF TypeOK
<1>8. IdsFresh'
  BY <1>1, <1>2, <1>4 DEF IndInv, IdsFresh
<1>9. incoming' # NoOrder
  BY <1>1, NoOrderAssumption
<1>10. QED
  BY <1>3, <1>5, <1>6, <1>7, <1>8, <1>9 DEF IndInv, ReplyTellsResting

\* restBid and restAsk keep it: what is left no longer crosses.
LEMMA RestInd ==
  ASSUME IndInv, RestRemainder
  PROVE  IndInv'
<1> DEFINE s == BookSide(incoming.side)
           p == incoming.price
           o == [orderId |-> incoming.orderId, quantity |-> Left(incoming)]
           old == LevelAt(book[s], p)
           list == Append(old, o)
<1>0. TypeOK /\ NoEmptyLevel /\ BookTypeOK /\ IndexTypeOK /\ IndexExact /\ BookUncrossed
  BY DEF IndInv, TypeOK
<1>1. /\ incoming \in Matching
      /\ s \in Sides
      /\ o \in Resting
      /\ list \in Seq(Resting)
      /\ list # <<>>
      /\ book' = [book EXCEPT ![s] = PutLevel(@, p, list)]
      /\ orderIndex' = AddOrder(orderIndex, incoming.orderId, [side |-> s, price |-> p])
  BY <1>0, RestFacts
<1>2. /\ p \in Prices /\ p \in Int
      /\ incoming.orderId \in OrderIds
      /\ incoming # NoOrder
      /\ incoming.orderId \in used \ DOMAIN orderIndex
  BY <1>1, PricesAssumption DEF RestRemainder, IndInv, IdsFresh, Matching
<1>3. \E status \in {"QUEUED", "PARTIAL"} : Finish(status)
  BY DEF RestRemainder
<1>4. /\ result' \in EngineResult
      /\ result'.orderId = incoming.orderId
      /\ result'.status \in {"QUEUED", "PARTIAL"}
      /\ trades' \in Seq(Trade)
      /\ incoming' = NoOrder
      /\ used' = used
  BY <1>0, <1>1, <1>3, FinishFacts DEF Statuses
<1>5. BookTypeOK' /\ NoEmptyLevel'
  <2> HIDE DEF list, s, p
  <2> QED
    BY <1>0, <1>1, <1>2, PutLevelKeepsBook
<1>6. /\ DOMAIN orderIndex' = DOMAIN orderIndex \cup {incoming.orderId}
      /\ IndexTypeOK'
  <2>1. [side |-> s, price |-> p] \in OrderLocation
    BY <1>1, <1>2 DEF OrderLocation
  <2>2. QED
    BY <1>0, <1>1, <1>2, <2>1 DEF IndexTypeOK, AddOrder
<1>7. IndexExact'
  <2>1. o.orderId \notin DOMAIN orderIndex
    BY <1>2
  <2>2. orderIndex' = AddOrder(orderIndex, o.orderId, [side |-> s, price |-> p])
    BY <1>1
  <2> HIDE DEF o, s, p
  <2>3. QED
    BY <1>0, <1>1, <1>2, <2>1, <2>2, RestKeepsIndex
<1>8. BookUncrossed'
  <2>1. \A t \in Sides : DOMAIN book[t] \subseteq Int
    BY <1>0, PricesAssumption DEF BookTypeOK, Levels
  <2>2. \A q \in DOMAIN book[Opposite(s)] : ~Crosses(incoming, q)
    BY DEF RestRemainder, CanMatch, Levels
  <2>3. \A q \in DOMAIN book[Opposite(s)] : IF s = "BID" THEN p < q ELSE q < p
    <3> SUFFICES ASSUME NEW q \in DOMAIN book[Opposite(s)]
                 PROVE  IF s = "BID" THEN p < q ELSE q < p
      OBVIOUS
    <3>1. q \in Int
      BY <1>1, <2>1 DEF Opposite, Sides
    <3>2. QED
      BY <1>2, <2>2, <3>1 DEF Crosses
  <2>4. \A t \in Sides : DOMAIN book'[t] = IF t = s THEN DOMAIN book[t] \cup {p} ELSE DOMAIN book[t]
    <3> HIDE DEF list, s, p
    <3> QED
      BY <1>0, <1>1 DEF BookTypeOK, PutLevel, Levels
  <2>5. \A b \in DOMAIN book["BID"], a \in DOMAIN book["ASK"] : b < a
    BY <1>0 DEF BookUncrossed, Levels
  <2>6. \A b \in DOMAIN book'["BID"], a \in DOMAIN book'["ASK"] : b < a
    <3> HIDE DEF list, s, p
    <3>1. CASE s = "BID"
      BY <2>3, <2>4, <2>5, <3>1 DEF Opposite, Sides
    <3>2. CASE s = "ASK"
      BY <2>3, <2>4, <2>5, <3>2 DEF Opposite, Sides
    <3>3. QED
      BY <1>1, <3>1, <3>2 DEF Sides
  <2>7. QED
    BY <2>6 DEF BookUncrossed, Levels
<1>9. TypeOK'
  BY <1>0, <1>4, <1>5, <1>6 DEF TypeOK
<1>10. IdsFresh' /\ ReplyTellsResting'
  BY <1>2, <1>4, <1>6 DEF IndInv, IdsFresh, ReplyTellsResting
<1>11. QED
  BY <1>5, <1>7, <1>8, <1>9, <1>10 DEF IndInv

\* A cancel that finds its order keeps it.
LEMMA CancelRestingInd ==
  ASSUME IndInv, NEW id \in OrderIds, CancelResting(id)
  PROVE  IndInv'
<1> DEFINE s == orderIndex[id].side
           p == orderIndex[id].price
           level == book[s][p]
<1>0. TypeOK /\ NoEmptyLevel /\ BookTypeOK /\ IndexTypeOK /\ IndexExact /\ BookUncrossed
  BY DEF IndInv, TypeOK
<1>1. /\ s \in Sides
      /\ p \in DOMAIN book[s]
      /\ level \in Seq(Resting)
      /\ \E i \in DOMAIN level :
           /\ level[i].orderId = id
           /\ RemoveAt(level, i) \in Seq(Resting)
           /\ book' = [book EXCEPT ![s] = PutLevel(@, p, RemoveAt(level, i))]
      /\ orderIndex' = DropOrder(orderIndex, id)
  BY <1>0, CancelFacts DEF Levels
<1>2. PICK i \in DOMAIN level :
        /\ level[i].orderId = id
        /\ RemoveAt(level, i) \in Seq(Resting)
        /\ book' = [book EXCEPT ![s] = PutLevel(@, p, RemoveAt(level, i))]
  BY <1>1
<1>3. /\ UNCHANGED <<incoming, used>> /\ incoming = NoOrder
      /\ result' \in EngineResult /\ result'.orderId = id
      /\ result'.status \notin {"QUEUED", "PARTIAL"}
      /\ trades' = <<>>
  BY DEF CancelResting, CancelResult, EngineResult, Statuses
<1>4. p \in Prices
  BY <1>0, <1>1 DEF BookTypeOK, Levels
<1>5. IndexTypeOK' /\ DOMAIN orderIndex' = DOMAIN orderIndex \ {id}
  BY <1>0, <1>1, DropOrderFacts
<1> DEFINE list == RemoveAt(level, i)
<1>6. /\ Len(list) = Len(level) - 1
      /\ \A j \in 1 .. Len(level) - 1 : list[j] = IF j < i THEN level[j] ELSE level[j + 1]
  <2>1. level \in Seq(Resting)
    BY <1>1
  <2> HIDE DEF level
  <2>2. QED
    BY <2>1, RemoveAtFacts, Zenon
<1>7. list \in Seq(Resting) /\ book' = [book EXCEPT ![s] = PutLevel(@, p, list)]
  BY <1>2
<1> HIDE DEF list, s, p
<1>8. BookTypeOK' /\ NoEmptyLevel'
  BY <1>0, <1>1, <1>4, <1>7, PutLevelKeepsBook
<1>9. IndexExact'
  BY <1>0, <1>1, <1>2, <1>6, <1>7, UnlinkKeepsIndex
<1>10. BookUncrossed'
  BY <1>0, <1>1, <1>7, FewerLevelsUncrossed
<1>11. TypeOK'
  BY <1>0, <1>3, <1>5, <1>8 DEF TypeOK
<1>12. IdsFresh' /\ ReplyTellsResting'
  BY <1>3, <1>5 DEF IndInv, IdsFresh, ReplyTellsResting
<1>13. QED
  BY <1>8, <1>9, <1>10, <1>11, <1>12 DEF IndInv

-----------------------------------------------------------------------------
(* The theorems                                                            *)

\* Every step of the engine keeps the inductive invariant.
LEMMA NextInd == IndInv /\ [Next]_vars => IndInv'
<1> SUFFICES ASSUME IndInv, [Next]_vars PROVE IndInv'
  OBVIOUS
<1>1. ASSUME NEW id \in OrderIds, NEW side \in RequestSides, NEW type \in OrderTypes,
             NEW price \in Prices, NEW quantity \in Quantities,
             Submit(id, side, type, price, quantity)
      PROVE  IndInv'
  BY <1>1, SubmitInd
<1>2. ASSUME NEW p \in Prices, Fill(p) PROVE IndInv'
  BY <1>2, FillInd
<1>3. CASE CompleteFilled \/ RejectMarket
  BY <1>3, CompleteInd
<1>4. CASE RestRemainder
  BY <1>4, RestInd
<1>5. ASSUME NEW id \in OrderIds, CancelUnknown(id) PROVE IndInv'
  BY <1>5, CancelUnknownInd
<1>6. ASSUME NEW id \in OrderIds, CancelResting(id) PROVE IndInv'
  BY <1>6, CancelRestingInd
<1>7. CASE UNCHANGED vars
  <2>1. UNCHANGED <<book, orderIndex, incoming, used, result, trades>>
    BY <1>7 DEF vars
  <2>2. TypeOK'
    BY <2>1, BookUntouched DEF IndInv, TypeOK
  <2>3. IdsFresh' /\ ReplyTellsResting'
    BY <2>1 DEF IndInv, IdsFresh, ReplyTellsResting
  <2>4. QED
    BY <2>1, <2>2, <2>3, BookUntouched DEF IndInv
<1>8. QED
  BY <1>1, <1>2, <1>3, <1>4, <1>5, <1>6, <1>7 DEF Next, MatchStep

\* The inductive invariant holds in every reachable state.
THEOREM Invariance == Spec => []IndInv
BY InitInd, NextInd, PTL DEF Spec

\* The book, the index, the locals of the matching loop and the reply keep
\* their types; resting and traded quantities stay positive.
THEOREM TypeCorrect == Spec => []TypeOK
<1>1. IndInv => TypeOK
  BY DEF IndInv
<1>2. QED
  BY <1>1, Invariance, PTL

\* submitBid and submitAsk never leave the book crossed, whatever the prices,
\* sides and types of the orders.
THEOREM NeverCrossed == Spec => []BookUncrossed
<1>1. IndInv => BookUncrossed
  BY DEF IndInv
<1>2. QED
  BY <1>1, Invariance, PTL

\* _orderIndex and the price levels agree in every reachable state, so the
\* iterator cancel() erases through is always valid.
THEOREM IndexAlwaysExact == Spec => []IndexExact
<1>1. IndInv => IndexExact
  BY DEF IndInv
<1>2. QED
  BY <1>1, Invariance, PTL

\* The maps never keep an empty level.
THEOREM NeverEmptyLevel == Spec => []NoEmptyLevel
<1>1. IndInv => NoEmptyLevel
  BY DEF IndInv
<1>2. QED
  BY <1>1, Invariance, PTL

\* A QUEUED or PARTIAL reply is given exactly to the orders that rest.
THEOREM ReplyCorrect == Spec => []ReplyTellsResting
<1>1. IndInv => ReplyTellsResting
  BY DEF IndInv
<1>2. QED
  BY <1>1, Invariance, PTL

\* Every operation that leaves the engine idle has published the top of the
\* book as it then is.
LEMMA TopOfBookStep ==
  ASSUME IndInv, TopOfBookCurrent, [Next]_vars
  PROVE  TopOfBookCurrent'
<1> SUFFICES ASSUME incoming' = NoOrder
             PROVE  topOfBook' = CurrentTopOfBook(book')
  BY DEF TopOfBookCurrent
<1>0. incoming' \notin Matching
  BY NoOrderAssumption
<1>1. ASSUME NEW id \in OrderIds, NEW side \in RequestSides, NEW type \in OrderTypes,
             NEW price \in Prices, NEW quantity \in Quantities,
             Submit(id, side, type, price, quantity)
      PROVE  FALSE
  BY <1>0, <1>1, QuantitiesAssumption DEF Submit, Matching
<1>2. ASSUME NEW p \in Prices, Fill(p) PROVE FALSE
  <2>1. TypeOK /\ NoEmptyLevel
    BY DEF IndInv
  <2>2. incoming' \in Matching
    BY <1>2, <2>1, FillFacts
  <2>3. QED
    BY <1>0, <2>2
<1>3. CASE CompleteFilled \/ RejectMarket \/ RestRemainder
  BY <1>3 DEF CompleteFilled, RejectMarket, RestRemainder, Finish
<1>4. ASSUME NEW id \in OrderIds, CancelUnknown(id)
      PROVE  topOfBook' = CurrentTopOfBook(book')
  BY <1>4 DEF CancelUnknown, TopOfBookCurrent
<1>5. ASSUME NEW id \in OrderIds, CancelResting(id)
      PROVE  topOfBook' = CurrentTopOfBook(book')
  BY <1>5 DEF CancelResting
<1>6. CASE UNCHANGED vars
  BY <1>6 DEF vars, TopOfBookCurrent
<1>7. QED
  BY <1>1, <1>2, <1>3, <1>4, <1>5, <1>6 DEF Next, MatchStep

\* Between operations the last TopOfBook event describes the book, for every
\* number of orders, levels and operations.
THEOREM TopOfBookAlwaysCurrent == Spec => []TopOfBookCurrent
<1>1. Init => TopOfBookCurrent
  BY DEF Init, TopOfBookCurrent
<1>2. QED
  BY <1>1, Invariance, TopOfBookStep, PTL DEF Spec

\* OrderIdGenerator's ids stay unique among the orders the engine holds.
THEOREM IdsAlwaysFresh == Spec => []IdsFresh
<1>1. IndInv => IdsFresh
  BY DEF IndInv
<1>2. QED
  BY <1>1, Invariance, PTL

\* A turn of the matching loop leaves less to fill: the quantity it trades is
\* positive and no more than what is left.
LEMMA FillProgress ==
  ASSUME TypeOK, NoEmptyLevel, NEW p \in Prices, Fill(p)
  PROVE  /\ incoming'.orderId = incoming.orderId
         /\ 0 <= Left(incoming')
         /\ Left(incoming') < Left(incoming)
<1> DEFINE s == Opposite(BookSide(incoming.side))
           maker == book[s][p][1]
           qty == IF Left(incoming) < maker.quantity THEN Left(incoming) ELSE maker.quantity
<1>1. incoming \in Matching
  BY DEF TypeOK, Fill
<1>2. maker \in Resting
  BY FillFacts
<1>3. maker.quantity \in Nat \ {0}
  BY <1>2 DEF Resting
<1>4. Left(incoming) \in Int /\ Left(incoming) > 0
  BY <1>1 DEF Fill, CanMatch, Left, Matching
<1> HIDE DEF maker
<1>5. qty \in Int /\ 0 < qty /\ qty <= Left(incoming)
  BY <1>3, <1>4
<1>6. /\ incoming'.orderId = incoming.orderId
      /\ incoming'.quantity = incoming.quantity
      /\ incoming'.filledQty = incoming.filledQty + qty
  BY <1>1 DEF Fill, Matching, maker
<1> HIDE DEF qty
<1>7. QED
  BY <1>1, <1>5, <1>6 DEF Left, Matching

\* The matching loop comes to an end, whatever the depth of the book.
THEOREM MatchingAlwaysProgresses == Spec => MatchingProgresses
<1> DEFINE Progress == incoming # NoOrder /\ incoming' # NoOrder =>
                         /\ incoming'.orderId = incoming.orderId
                         /\ 0 <= Left(incoming')
                         /\ Left(incoming') < Left(incoming)
<1>1. IndInv /\ [Next]_vars => [Progress]_vars
  <2> SUFFICES ASSUME IndInv, Next, incoming # NoOrder, incoming' # NoOrder
               PROVE  /\ incoming'.orderId = incoming.orderId
                      /\ 0 <= Left(incoming')
                      /\ Left(incoming') < Left(incoming)
    OBVIOUS
  <2>1. TypeOK /\ NoEmptyLevel
    BY DEF IndInv
  <2>2. PICK p \in Prices : Fill(p)
    BY DEF Next, MatchStep, Submit, CompleteFilled, RejectMarket, RestRemainder, Finish,
           CancelUnknown, CancelResting
  <2>3. QED
    BY <2>1, <2>2, FillProgress
<1>2. QED
  BY <1>1, Invariance, PTL DEF Spec, MatchingProgresses
-----------------------------------------------------------------------------
(* Which order rests with how much, for users of the book that account for  *)
(* quantities.                                                              *)

\* Order `id' rests with quantity q.
RestsWith(b, id, q) ==
  \E s \in Sides : \E p \in DOMAIN b[s] : \E i \in DOMAIN b[s][p] :
    b[s][p][i].orderId = id /\ b[s][p][i].quantity = q

\* An order in the index rests with one quantity, any other with none.
LEMMA RestsOnce ==
  ASSUME IndInv, NEW id
  PROVE  /\ id \in DOMAIN orderIndex => \E q \in Nat \ {0} : RestsWith(book, id, q)
         /\ \A q : RestsWith(book, id, q) => id \in DOMAIN orderIndex /\ q \in Nat \ {0}
         /\ \A q, r : RestsWith(book, id, q) /\ RestsWith(book, id, r) => q = r
<1>0. TypeOK /\ BookTypeOK /\ ListsIndexed /\ IndexedRest /\ IndexTypeOK
  BY DEF IndInv, TypeOK, IndexExact
<1>1. \A s \in Sides : \A p \in Levels(s) : \A i \in DOMAIN book[s][p] :
        /\ book[s][p][i].quantity \in Nat \ {0}
        /\ book[s][p][i].orderId \in DOMAIN orderIndex
        /\ orderIndex[book[s][p][i].orderId] = [side |-> s, price |-> p]
        /\ \A j \in DOMAIN book[s][p] : book[s][p][j].orderId = book[s][p][i].orderId => i = j
  <2> SUFFICES ASSUME NEW s \in Sides, NEW p \in Levels(s), NEW i \in DOMAIN book[s][p]
               PROVE  /\ book[s][p][i].quantity \in Nat \ {0}
                      /\ book[s][p][i].orderId \in DOMAIN orderIndex
                      /\ orderIndex[book[s][p][i].orderId] = [side |-> s, price |-> p]
                      /\ \A j \in DOMAIN book[s][p] : book[s][p][j].orderId = book[s][p][i].orderId => i = j
    OBVIOUS
  <2>1. book[s][p] \in Seq(Resting)
    BY <1>0 DEF BookTypeOK
  <2>2. book[s][p][i] \in Resting
    BY <2>1
  <2> QED
    BY <1>0, <2>2 DEF ListsIndexed, Resting
<1>2. id \in DOMAIN orderIndex => \E q \in Nat \ {0} : RestsWith(book, id, q)
  <2> SUFFICES ASSUME id \in DOMAIN orderIndex PROVE \E q \in Nat \ {0} : RestsWith(book, id, q)
    OBVIOUS
  <2> DEFINE s == orderIndex[id].side
             p == orderIndex[id].price
  <2>1. orderIndex[id] \in OrderLocation
    BY <1>0 DEF IndexTypeOK
  <2>2. s \in Sides /\ p \in Levels(s) /\ \E i \in DOMAIN book[s][p] : book[s][p][i].orderId = id
    BY <1>0, <2>1 DEF IndexedRest, OrderLocation
  <2> HIDE DEF s, p
  <2>3. PICK i \in DOMAIN book[s][p] : book[s][p][i].orderId = id
    BY <2>2
  <2>4. book[s][p][i].quantity \in Nat \ {0}
    BY <1>1, <2>2
  <2>5. RestsWith(book, id, book[s][p][i].quantity)
    BY <2>2, <2>3 DEF RestsWith, Levels
  <2> QED
    BY <2>4, <2>5
<1>3. ASSUME NEW q, RestsWith(book, id, q) PROVE id \in DOMAIN orderIndex /\ q \in Nat \ {0}
  <2>1. PICK s \in Sides : \E p \in Levels(s) : \E i \in DOMAIN book[s][p] :
          book[s][p][i].orderId = id /\ book[s][p][i].quantity = q
    BY <1>3 DEF RestsWith, Levels
  <2>2. PICK p \in Levels(s) : \E i \in DOMAIN book[s][p] :
          book[s][p][i].orderId = id /\ book[s][p][i].quantity = q
    BY <2>1
  <2>3. PICK i \in DOMAIN book[s][p] : book[s][p][i].orderId = id /\ book[s][p][i].quantity = q
    BY <2>2
  <2> QED
    BY <1>1, <2>3
<1>4. ASSUME NEW q, NEW r, RestsWith(book, id, q), RestsWith(book, id, r) PROVE q = r
  <2>1. PICK s \in Sides : \E p \in Levels(s) : \E i \in DOMAIN book[s][p] :
          book[s][p][i].orderId = id /\ book[s][p][i].quantity = q
    BY <1>4 DEF RestsWith, Levels
  <2>2. PICK p \in Levels(s) : \E i \in DOMAIN book[s][p] :
          book[s][p][i].orderId = id /\ book[s][p][i].quantity = q
    BY <2>1
  <2>3. PICK i \in DOMAIN book[s][p] : book[s][p][i].orderId = id /\ book[s][p][i].quantity = q
    BY <2>2
  <2>4. PICK t \in Sides : \E x \in Levels(t) : \E i1 \in DOMAIN book[t][x] :
          book[t][x][i1].orderId = id /\ book[t][x][i1].quantity = r
    BY <1>4 DEF RestsWith, Levels
  <2>5. PICK x \in Levels(t) : \E i1 \in DOMAIN book[t][x] :
          book[t][x][i1].orderId = id /\ book[t][x][i1].quantity = r
    BY <2>4
  <2>6. PICK j \in DOMAIN book[t][x] : book[t][x][j].orderId = id /\ book[t][x][j].quantity = r
    BY <2>5
  <2>7. orderIndex[id] = [side |-> s, price |-> p] /\ orderIndex[id] = [side |-> t, price |-> x]
    BY <1>1, <2>3, <2>6
  <2>8. s = t /\ p = x
    <3>1. orderIndex[id].side = s /\ orderIndex[id].price = p
      BY <2>7
    <3>2. orderIndex[id].side = t /\ orderIndex[id].price = x
      BY <2>7
    <3> QED
      BY <3>1, <3>2
  <2>9. i = j
    <3>1. j \in DOMAIN book[s][p] /\ book[s][p][j].orderId = book[s][p][i].orderId
      BY <2>3, <2>6, <2>8
    <3>2. \A k \in DOMAIN book[s][p] : book[s][p][k].orderId = book[s][p][i].orderId => i = k
      BY <1>1, <2>1, <2>2, <2>3
    <3> QED
      BY <3>1, <3>2
  <2> QED
    BY <2>3, <2>6, <2>8, <2>9
<1>5. \A q : RestsWith(book, id, q) => id \in DOMAIN orderIndex /\ q \in Nat \ {0}
  BY <1>3
<1> QED
  BY <1>2, <1>4, <1>5

\* Storing a level back keeps the orders that are in the new list, and those of
\* other levels.
LEMMA PutLevelRests ==
  ASSUME BookTypeOK, NEW s \in Sides, NEW p, NEW list,
         book' = [book EXCEPT ![s] = PutLevel(@, p, list)],
         list = <<>> => DOMAIN list = {},
         NEW id, NEW q, RestsWith(book, id, q),
         p \in Levels(s) =>
           \A i \in DOMAIN book[s][p] : book[s][p][i].orderId = id =>
             \E j \in DOMAIN list : list[j] = book[s][p][i]
  PROVE  RestsWith(book', id, q)
<1>1. PICK t \in Sides : \E x \in Levels(t) : \E i \in DOMAIN book[t][x] :
        book[t][x][i].orderId = id /\ book[t][x][i].quantity = q
  BY DEF RestsWith, Levels
<1>2. PICK x \in Levels(t) : \E i \in DOMAIN book[t][x] :
        book[t][x][i].orderId = id /\ book[t][x][i].quantity = q
  BY <1>1
<1>3. PICK i \in DOMAIN book[t][x] : book[t][x][i].orderId = id /\ book[t][x][i].quantity = q
  BY <1>2
<1>4. /\ book'[s] = PutLevel(book[s], p, list)
      /\ \A u \in Sides \ {s} : book'[u] = book[u]
  BY DEF BookTypeOK
<1>5. \E y \in DOMAIN book'[t] : \E j \in DOMAIN book'[t][y] :
        book'[t][y][j].orderId = id /\ book'[t][y][j].quantity = q
  <2>1. CASE t # s
    <3>1. book'[t] = book[t]
      BY <1>4, <2>1
    <3> QED
      BY <1>3, <3>1 DEF Levels
  <2>2. CASE t = s /\ x # p
    <3>1. x \in DOMAIN book'[t] /\ book'[t][x] = book[t][x]
      BY <1>4, <2>2, PutLevelFacts DEF Levels, PutLevel
    <3> QED
      BY <1>3, <3>1
  <2>3. CASE t = s /\ x = p
    <3>1. PICK j \in DOMAIN list : list[j] = book[t][x][i]
      BY <1>3, <2>3
    <3>2. list # <<>>
      BY <3>1
    <3>3. p \in DOMAIN book'[s] /\ book'[s][p] = list
      BY <1>4, <3>2 DEF PutLevel
    <3> QED
      BY <1>3, <2>3, <3>1, <3>3
  <2> QED
    BY <2>1, <2>2, <2>3
<1> QED
  BY <1>5 DEF RestsWith

\* A fill takes its quantity from an order that rests, and from no other.
LEMMA FillRests ==
  ASSUME IndInv, NEW p \in Prices, Fill(p)
  PROVE  \E m \in DOMAIN orderIndex, had, qty \in Nat \ {0} :
           /\ qty <= had /\ qty <= Left(incoming)
           /\ RestsWith(book, m, had)
           /\ qty = had => DOMAIN orderIndex' = DOMAIN orderIndex \ {m}
           /\ qty # had => DOMAIN orderIndex' = DOMAIN orderIndex /\ RestsWith(book', m, had - qty)
           /\ \A id, r : id # m /\ RestsWith(book, id, r) => RestsWith(book', id, r)
           /\ incoming'.filledQty = incoming.filledQty + qty
           /\ \E t \in Trade : /\ incoming'.trades = Append(incoming.trades, t)
                               /\ t.quantity = qty /\ t.aggressorOrderId = incoming.orderId
                               /\ t.restingOrderId = m
<1> DEFINE s == Opposite(BookSide(incoming.side))
           level == book[s][p]
           qty == incoming'.filledQty - incoming.filledQty
           gone == qty = level[1].quantity
           list == IF gone THEN Tail(level) ELSE [level EXCEPT ![1].quantity = @ - qty]
           m == level[1].orderId
           had == level[1].quantity
<1>0. TypeOK /\ NoEmptyLevel /\ BookTypeOK /\ IndexTypeOK /\ IndexExact /\ ListsIndexed
  BY DEF IndInv, TypeOK, IndexExact
<1>1. /\ incoming \in Matching
      /\ s \in Sides
      /\ p \in Levels(s)
      /\ level \in Seq(Resting)
      /\ level # <<>>
      /\ level[1] \in Resting
      /\ qty \in 1 .. level[1].quantity
      /\ list \in Seq(Resting)
      /\ book' = [book EXCEPT ![s] = PutLevel(@, p, list)]
      /\ orderIndex' = IF gone THEN DropOrder(orderIndex, level[1].orderId)
                               ELSE orderIndex
      /\ incoming' \in Matching
      /\ incoming'.orderId = incoming.orderId
  BY <1>0, FillFacts
<1>2. /\ had \in Nat \ {0} /\ qty \in Nat \ {0} /\ qty <= had /\ 1 \in DOMAIN level
  BY <1>1 DEF Resting
<1>3. /\ qty <= Left(incoming)
      /\ incoming'.filledQty = incoming.filledQty + qty
      /\ \E t \in Trade : /\ incoming'.trades = Append(incoming.trades, t)
                          /\ t.quantity = qty /\ t.aggressorOrderId = incoming.orderId
                          /\ t.restingOrderId = m
  <2> DEFINE remaining == Left(incoming)
             q == IF remaining < level[1].quantity THEN remaining ELSE level[1].quantity
             t == [price |-> p, quantity |-> q, aggressorSide |-> incoming.side,
                   aggressorOrderId |-> incoming.orderId, restingOrderId |-> m]
  <2>1. incoming' = [incoming EXCEPT !.filledQty = @ + q, !.filledNotional = @ + q * p,
                                     !.trades = Append(@, t)]
    BY DEF Fill
  <2>2. incoming.filledQty \in Nat /\ incoming.quantity \in Nat /\ remaining \in Int
    BY <1>1 DEF Matching, Left
  <2>3. q \in Int /\ q <= remaining
    BY <1>2, <2>2
  <2> HIDE DEF q, t
  <2>4. incoming'.filledQty = incoming.filledQty + q /\ incoming'.trades = Append(incoming.trades, t)
    BY <1>1, <2>1 DEF Matching
  <2>5. q = qty
    BY <2>2, <2>3, <2>4
  <2>6. t \in Trade /\ t.quantity = q /\ t.aggressorOrderId = incoming.orderId /\ t.restingOrderId = m
    BY <1>1, <1>2, <2>5 DEF t, Trade, Matching, Resting
  <2> QED
    BY <2>3, <2>4, <2>5, <2>6
<1>4. /\ \A i \in DOMAIN level : level[i].orderId = m => i = 1
      /\ m \in DOMAIN orderIndex
  <2> HIDE DEF s
  <2> QED
    BY <1>0, <1>1, <1>2 DEF ListsIndexed
<1>5. RestsWith(book, m, had)
  BY <1>1, <1>2 DEF RestsWith, Levels
<1>6. list = <<>> => DOMAIN list = {}
  OBVIOUS
<1>7. ASSUME NEW id, NEW r, id # m, RestsWith(book, id, r) PROVE RestsWith(book', id, r)
  <2>1. ASSUME NEW i \in DOMAIN level, level[i].orderId = id
        PROVE  \E j \in DOMAIN list : list[j] = level[i]
    <3>1. i # 1
      BY <1>7, <2>1
    <3>2. CASE gone
      <4>1. i - 1 \in DOMAIN Tail(level) /\ Tail(level)[i - 1] = level[i]
        <5>1. level \in Seq(Resting) /\ i \in DOMAIN level /\ i # 1
          BY <1>1, <3>1
        <5> HIDE DEF level
        <5> QED
          BY ONLY <5>1
      <4> QED
        BY <3>2, <4>1
    <3>3. CASE ~gone
      <4>1. i \in DOMAIN list /\ list[i] = level[i]
        BY <1>1, <2>1, <3>1, <3>3
      <4> QED
        BY <4>1
    <3> QED
      BY <3>2, <3>3
  <2> HIDE DEF list, s
  <2> QED
    BY <1>0, <1>1, <1>6, <1>7, <2>1, PutLevelRests
<1>8. gone => DOMAIN orderIndex' = DOMAIN orderIndex \ {m}
  BY <1>1 DEF DropOrder
<1>9. ASSUME ~gone PROVE DOMAIN orderIndex' = DOMAIN orderIndex /\ RestsWith(book', m, had - qty)
  <2>1. 1 \in DOMAIN list /\ list[1].orderId = m /\ list[1].quantity = had - qty
    BY <1>1, <1>2, <1>9
  <2> HIDE DEF list, s, qty
  <2>2. p \in DOMAIN book'[s] /\ book'[s][p] = list
    <3>1. book'[s] = PutLevel(book[s], p, list) /\ list # <<>>
      BY <1>0, <1>1, <2>1 DEF BookTypeOK
    <3> QED
      BY <3>1 DEF PutLevel
  <2>3. RestsWith(book', m, had - qty)
    BY <1>1, <2>1, <2>2 DEF RestsWith, Levels
  <2> QED
    BY <1>1, <1>9, <2>3
<1>10. /\ qty = had => DOMAIN orderIndex' = DOMAIN orderIndex \ {m}
       /\ qty # had => DOMAIN orderIndex' = DOMAIN orderIndex /\ RestsWith(book', m, had - qty)
       /\ \A id, r : id # m /\ RestsWith(book, id, r) => RestsWith(book', id, r)
  BY <1>7, <1>8, <1>9
<1> HIDE DEF qty, had, m, gone, list
<1> QED
  BY <1>2, <1>3, <1>4, <1>5, <1>10, Zenon

\* What is left of an order comes to rest; the others are as before.
LEMMA RemainderRests ==
  ASSUME IndInv, RestRemainder
  PROVE  /\ DOMAIN orderIndex' = DOMAIN orderIndex \cup {incoming.orderId}
         /\ RestsWith(book', incoming.orderId, Left(incoming))
         /\ \A id, r : RestsWith(book, id, r) => RestsWith(book', id, r)
<1> DEFINE s == BookSide(incoming.side)
           p == incoming.price
           o == [orderId |-> incoming.orderId, quantity |-> Left(incoming)]
           old == LevelAt(book[s], p)
           list == Append(old, o)
<1>0. TypeOK /\ BookTypeOK
  BY DEF IndInv, TypeOK
<1>1. /\ s \in Sides
      /\ old \in Seq(Resting)
      /\ o \in Resting
      /\ list # <<>>
      /\ book' = [book EXCEPT ![s] = PutLevel(@, p, list)]
      /\ orderIndex' = AddOrder(orderIndex, incoming.orderId, [side |-> s, price |-> p])
  BY <1>0, RestFacts
<1>2. o.orderId = incoming.orderId /\ o.quantity = Left(incoming)
  OBVIOUS
<1> HIDE DEF o
<1>3. /\ Len(old) + 1 \in DOMAIN list /\ list[Len(old) + 1] = o
      /\ \A i \in DOMAIN old : i \in DOMAIN list /\ list[i] = old[i]
  BY <1>1
<1>4. DOMAIN orderIndex' = DOMAIN orderIndex \cup {incoming.orderId}
  BY <1>1 DEF AddOrder
<1> HIDE DEF s, p
<1>5. p \in DOMAIN book'[s] /\ book'[s][p] = list
  <2>1. book'[s] = PutLevel(book[s], p, list)
    BY <1>0, <1>1 DEF BookTypeOK
  <2> QED
    BY <1>1, <2>1 DEF PutLevel
<1>6. RestsWith(book', incoming.orderId, Left(incoming))
  BY <1>1, <1>2, <1>3, <1>5 DEF RestsWith
<1>7. list = <<>> => DOMAIN list = {}
  BY <1>1
<1>8. p \in Levels(s) => old = book[s][p]
  BY DEF LevelAt, Levels
<1> HIDE DEF list, old
<1>9. book' = [book EXCEPT ![s] = PutLevel(@, p, list)]
  BY <1>1
<1>10. ASSUME NEW id, NEW r, RestsWith(book, id, r) PROVE RestsWith(book', id, r)
  <2>1. ASSUME p \in Levels(s), NEW i \in DOMAIN book[s][p], book[s][p][i].orderId = id
        PROVE  \E j \in DOMAIN list : list[j] = book[s][p][i]
    BY <1>3, <1>8, <2>1
  <2> QED
    <3>1. s \in Sides /\ BookTypeOK
      BY <1>0, <1>1
    <3>2. p \in Levels(s) => \A i \in DOMAIN book[s][p] : book[s][p][i].orderId = id =>
                               \E j \in DOMAIN list : list[j] = book[s][p][i]
      BY <2>1
    <3> QED
      BY ONLY <3>1, <1>7, <1>9, <1>10, <3>2, PutLevelRests, Zenon
<1> QED
  BY <1>4, <1>6, <1>10

\* A cancel takes its order out; the others are as before.
LEMMA CancelRests ==
  ASSUME IndInv, NEW id \in OrderIds, CancelResting(id)
  PROVE  /\ id \in DOMAIN orderIndex
         /\ DOMAIN orderIndex' = DOMAIN orderIndex \ {id}
         /\ \A m, r : m # id /\ RestsWith(book, m, r) => RestsWith(book', m, r)
<1> DEFINE s == orderIndex[id].side
           p == orderIndex[id].price
           level == book[s][p]
<1>0. TypeOK /\ BookTypeOK /\ IndexExact
  BY DEF IndInv, TypeOK
<1>1. /\ s \in Sides
      /\ p \in Levels(s)
      /\ level \in Seq(Resting)
      /\ orderIndex' = DropOrder(orderIndex, id)
  BY <1>0, CancelFacts
<1>2. PICK i \in DOMAIN level :
        /\ level[i].orderId = id
        /\ book' = [book EXCEPT ![s] = PutLevel(@, p, RemoveAt(level, i))]
  BY DEF CancelResting
<1> DEFINE list == RemoveAt(level, i)
<1>3. /\ list \in Seq(Resting) /\ Len(list) = Len(level) - 1
      /\ \A j \in 1 .. Len(level) - 1 : list[j] = IF j < i THEN level[j] ELSE level[j + 1]
  <2> HIDE DEF level
  <2> QED
    BY <1>1, RemoveAtFacts, Zenon
<1>4. book' = [book EXCEPT ![s] = PutLevel(@, p, list)] /\ (list = <<>> => DOMAIN list = {})
  BY <1>2
<1> HIDE DEF list
<1>5. ASSUME NEW m, NEW r, m # id, RestsWith(book, m, r) PROVE RestsWith(book', m, r)
  <2>1. ASSUME NEW k \in DOMAIN level, level[k].orderId = m
        PROVE  \E j \in DOMAIN list : list[j] = level[k]
    <3>1. k # i /\ i \in 1 .. Len(level) /\ k \in 1 .. Len(level) /\ Len(level) \in Nat
      BY <1>1, <1>2, <1>5, <2>1
    <3>2. DOMAIN list = 1 .. Len(level) - 1
      BY <1>3
    <3>3. CASE k < i
      <4>1. k \in 1 .. Len(level) - 1 /\ list[k] = level[k]
        BY <1>3, <3>1, <3>3
      <4> QED
        BY <3>2, <4>1
    <3>4. CASE i < k
      <4>1. k - 1 \in 1 .. Len(level) - 1 /\ ~(k - 1 < i) /\ (k - 1) + 1 = k
        BY <3>1, <3>4
      <4>2. list[k - 1] = level[(k - 1) + 1]
        BY <1>3, <4>1
      <4> QED
        BY <3>2, <4>1, <4>2
    <3> QED
      BY <3>1, <3>3, <3>4
  <2> HIDE DEF s, p
  <2> QED
    BY <1>0, <1>1, <1>4, <1>5, <2>1, PutLevelRests, Zenon
<1>6. DOMAIN orderIndex' = DOMAIN orderIndex \ {id} /\ id \in DOMAIN orderIndex
  BY <1>1 DEF DropOrder, CancelResting
<1> QED
  BY <1>5, <1>6
=============================================================================
