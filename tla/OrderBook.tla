------------------------------ MODULE OrderBook ------------------------------
(***************************************************************************)
(* The limit order book of the matching engine                             *)
(* (exchange/OrderProcessor/engine/orderBook.h, orderBook.cpp).            *)
(*                                                                         *)
(* A side of the book is a partial function from prices to lists: a price  *)
(* is in its domain exactly when the std::map has an entry for it, so an   *)
(* empty list left behind in the map is a state the model can be in.       *)
(* Prices are integers (ticks); quantities are positive, which the code    *)
(* takes from its clients without a check.                                 *)
(*                                                                         *)
(* The engine thread runs a submission to its end before it looks at the   *)
(* next message.  The model takes one step per iteration of the matching   *)
(* loop: `incoming' holds the local variables of submitBid or submitAsk    *)
(* while the loop runs, and no other operation can start meanwhile.        *)
(***************************************************************************)
EXTENDS Integers, Sequences, FiniteSets, SequencesExt

CONSTANTS OrderIds,    \* what OrderIdGenerator hands out
          Prices,      \* prices that orders carry
          Quantities,  \* quantities that orders carry
          NoOrder      \* not an order: the matching loop is not running

ASSUME PricesAssumption == Prices \subseteq Int
ASSUME QuantitiesAssumption == Quantities \subseteq Nat \ {0}

VARIABLES book,        \* _bids and _asks
          orderIndex,  \* _orderIndex: where each resting order is
          incoming,    \* the order being matched, with the loop's locals
          used,        \* order ids handed out so far
          result,      \* EngineResult of the last operation
          trades,      \* Trade events of the last operation
          topOfBook    \* the last TopOfBook event

vars == <<book, orderIndex, incoming, used, result, trades, topOfBook>>

Sides == {"BID", "ASK"}
RequestSides == Sides \cup {"SIDE_UNSPECIFIED"}
OrderTypes == {"MARKET", "LIMIT", "ORDER_TYPE_UNSPECIFIED"}
Statuses == {"ORDER_STATUS_UNSPECIFIED", "FILLED", "PARTIAL", "QUEUED", "REJECTED"}

Resting == [orderId : OrderIds, quantity : Nat \ {0}]
Trade == [price : Prices, quantity : Nat \ {0}, aggressorSide : RequestSides,
          aggressorOrderId : OrderIds, restingOrderId : OrderIds]
Matching == [orderId : OrderIds, side : RequestSides, type : OrderTypes,
             price : Prices, quantity : Nat \ {0}, filledQty : Nat,
             filledNotional : Int, trades : Seq(Trade)]
EngineResult == [orderId : OrderIds \cup {NoOrder}, status : Statuses,
                 filledQuantity : Nat, filledNotional : Int,
                 cancelSuccessful : BOOLEAN]
OrderLocation == [side : Sides, price : Prices]

ASSUME NoOrderAssumption == NoOrder \notin OrderIds /\ NoOrder \notin Matching

-----------------------------------------------------------------------------
(* Operators on the book                                                   *)

\* submit() sends everything that is not a BID to submitAsk.
BookSide(s) == IF s = "BID" THEN "BID" ELSE "ASK"
Opposite(s) == IF s = "BID" THEN "ASK" ELSE "BID"

Levels(s) == DOMAIN book[s]

\* The order of the two maps: std::greater for bids, std::less for asks.
Better(s, p, q) == IF s = "BID" THEN p > q ELSE p < q

\* p is the key of begin().
IsBest(s, p) == p \in Levels(s) /\ \A q \in Levels(s) : ~Better(s, q, p)

\* Store a level's list back, erasing the level when the list is empty.
PutLevel(side, p, list) ==
  [q \in (DOMAIN side \ {p}) \cup (IF list = <<>> THEN {} ELSE {p}) |->
     IF q = p THEN list ELSE side[q]]

LevelAt(side, p) == IF p \in DOMAIN side THEN side[p] ELSE <<>>

\* The index keeps orders that left the book: a mutant.
DropOrderNever(index, id) == index

DropOrder(index, id) == [i \in DOMAIN index \ {id} |-> index[i]]

\* Orders that rest are not entered: a mutant.
AddOrderNever(index, id, loc) == index

AddOrder(index, id, loc) ==
  [i \in DOMAIN index \cup {id} |-> IF i = id THEN loc ELSE index[i]]

LevelQuantity(list) ==
  LET sum[i \in 0 .. Len(list)] == IF i = 0 THEN 0 ELSE sum[i - 1] + list[i].quantity
  IN sum[Len(list)]

\* currentTopOfBook(): each side is absent (<<>>) or the best price with the
\* quantity resting there.
TopOfSide(side, s) ==
  IF DOMAIN side = {} THEN <<>>
  ELSE LET p == CHOOSE p \in DOMAIN side :
                  \A q \in DOMAIN side : ~Better(s, q, p)
       IN  <<p, LevelQuantity(side[p])>>

\* The event built from the book as it was before the operation: a mutant.
TopOfBookBefore(b) == [s \in Sides |-> TopOfSide(book[s], s)]

CurrentTopOfBook(b) == [s \in Sides |-> TopOfSide(b[s], s)]

\* The i-th price from begin(): the one with i - 1 better ones.
RankedPrice(side, s, i) ==
  CHOOSE p \in DOMAIN side : Cardinality({q \in DOMAIN side : Better(s, q, p)}) = i - 1

\* depth(): the best levels of each side, best first, at most `levels' of them.
Depth(b, levels) ==
  [s \in Sides |->
     LET n == Cardinality(DOMAIN b[s])
     IN [i \in 1 .. (IF n < levels THEN n ELSE levels) |->
           LET p == RankedPrice(b[s], s, i)
           IN [price |-> p, quantity |-> LevelQuantity(b[s][p]), orders |-> Len(b[s][p])]]]

-----------------------------------------------------------------------------
(* The matching loop                                                       *)

Left(o) == o.quantity - o.filledQty

\* Levels at exactly the limit price are not taken: a mutant.
CrossesStrictly(o, p) ==
  o.type = "LIMIT" => IF BookSide(o.side) = "BID" THEN p < o.price ELSE p > o.price

\* Only a LIMIT order looks at the price of the level it is about to take.
Crosses(o, p) ==
  o.type = "LIMIT" => IF BookSide(o.side) = "BID" THEN p <= o.price ELSE p >= o.price

\* The loop does not look at what is left: a mutant.
CanMatchForever(o) == \E p \in Levels(Opposite(BookSide(o.side))) : Crosses(o, p)

\* The loop goes on: something is left and the best opposite level crosses.
\* The best level crosses exactly when some level does.
CanMatch(o) ==
  Left(o) > 0 /\ \E p \in Levels(Opposite(BookSide(o.side))) : Crosses(o, p)

Init ==
  /\ book = [s \in Sides |-> <<>>]
  /\ orderIndex = <<>>
  /\ incoming = NoOrder
  /\ used = {}
  /\ result = [orderId |-> NoOrder, status |-> "ORDER_STATUS_UNSPECIFIED",
               filledQuantity |-> 0, filledNotional |-> 0, cancelSuccessful |-> FALSE]
  /\ trades = <<>>
  /\ topOfBook = CurrentTopOfBook(book)

\* submit() up to the loop, with a fresh id from OrderIdGenerator.
Submit(id, side, type, price, quantity) ==
  /\ incoming = NoOrder
  /\ id \notin used
  /\ incoming' = [orderId |-> id, side |-> side, type |-> type, price |-> price,
                  quantity |-> quantity, filledQty |-> 0, filledNotional |-> 0,
                  trades |-> <<>>]
  /\ used' = used \cup {id}
  /\ UNCHANGED <<book, orderIndex, result, trades, topOfBook>>

\* One iteration of the inner loop: trade with the first order of the best
\* opposite level, and unlink that order and its level when they are used up.
Fill(p) ==
  LET s == Opposite(BookSide(incoming.side))
      level == book[s][p]
      maker == level[1]
      remaining == Left(incoming)
      qty == IF remaining < maker.quantity THEN remaining ELSE maker.quantity
      gone == qty = maker.quantity
  IN /\ incoming # NoOrder
     /\ CanMatch(incoming)
     /\ IsBest(s, p)
     /\ book' = [book EXCEPT ![s] = PutLevel(@, p,
                   IF gone THEN Tail(level)
                           ELSE [level EXCEPT ![1].quantity = @ - qty])]
     /\ orderIndex' = IF gone THEN DropOrder(orderIndex, maker.orderId)
                              ELSE orderIndex
     /\ incoming' = [incoming EXCEPT
          !.filledQty = @ + qty,
          !.filledNotional = @ + qty * p,
          !.trades = Append(@, [price |-> p, quantity |-> qty,
                                aggressorSide |-> incoming.side,
                                aggressorOrderId |-> incoming.orderId,
                                restingOrderId |-> maker.orderId])]
     /\ UNCHANGED <<used, result, trades, topOfBook>>

\* What every submission does on its way out: reply, hand over the events.
Finish(status) ==
  /\ result' = [orderId |-> incoming.orderId, status |-> status,
                filledQuantity |-> incoming.filledQty,
                filledNotional |-> incoming.filledNotional,
                cancelSuccessful |-> FALSE]
  /\ trades' = incoming.trades
  /\ topOfBook' = CurrentTopOfBook(book')
  /\ incoming' = NoOrder
  /\ UNCHANGED used

\* filledQty == incomingQty.
CompleteFilled ==
  /\ incoming # NoOrder
  /\ Left(incoming) = 0
  /\ UNCHANGED <<book, orderIndex>>
  /\ Finish("FILLED")

\* A MARKET order that ran out of liquidity: what it executed stays executed.
RejectMarket ==
  /\ incoming # NoOrder
  /\ ~CanMatch(incoming)
  /\ Left(incoming) > 0
  /\ incoming.type = "MARKET"
  /\ UNCHANGED <<book, orderIndex>>
  /\ Finish("REJECTED")

\* restBid / restAsk with the order they insert at the front: a mutant.
RestAtFront(list, o) == <<o>> \o list

\* level.push_back(order).
RestAt(list, o) == Append(list, o)

\* restBid / restAsk: everything but a MARKET order rests its remainder.
RestRemainder ==
  LET s == BookSide(incoming.side)
      o == [orderId |-> incoming.orderId, quantity |-> Left(incoming)]
  IN /\ incoming # NoOrder
     /\ ~CanMatch(incoming)
     /\ Left(incoming) > 0
     /\ incoming.type # "MARKET"
     /\ book' = [book EXCEPT ![s] =
                   PutLevel(@, incoming.price, RestAt(LevelAt(@, incoming.price), o))]
     /\ orderIndex' = AddOrder(orderIndex, incoming.orderId,
                               [side |-> s, price |-> incoming.price])
     /\ Finish(IF incoming.filledQty = 0 THEN "QUEUED" ELSE "PARTIAL")

CancelResult(id, ok) ==
  [orderId |-> id, status |-> "ORDER_STATUS_UNSPECIFIED", filledQuantity |-> 0,
   filledNotional |-> 0, cancelSuccessful |-> ok]

\* cancel() of an order that is not resting: no event is published.
CancelUnknown(id) ==
  /\ incoming = NoOrder
  /\ id \notin DOMAIN orderIndex
  /\ result' = CancelResult(id, FALSE)
  /\ trades' = <<>>
  /\ UNCHANGED <<book, orderIndex, incoming, used, topOfBook>>

\* cancel() of a resting order: the iterator in the index is the list's entry
\* for that id.
CancelResting(id) ==
  /\ incoming = NoOrder
  /\ id \in DOMAIN orderIndex
  /\ LET loc == orderIndex[id]
         list == book[loc.side][loc.price]
     IN \E i \in DOMAIN list :
          /\ list[i].orderId = id
          /\ book' = [book EXCEPT ![loc.side] =
                        PutLevel(@, loc.price, RemoveAt(list, i))]
  /\ orderIndex' = DropOrder(orderIndex, id)
  /\ result' = CancelResult(id, TRUE)
  /\ trades' = <<>>
  /\ topOfBook' = CurrentTopOfBook(book')
  /\ UNCHANGED <<incoming, used>>

MatchStep ==
  \/ \E p \in Prices : Fill(p)
  \/ CompleteFilled
  \/ RejectMarket
  \/ RestRemainder

Next ==
  \/ \E id \in OrderIds, side \in RequestSides, type \in OrderTypes,
        price \in Prices, quantity \in Quantities :
       Submit(id, side, type, price, quantity)
  \/ MatchStep
  \/ \E id \in OrderIds : CancelUnknown(id) \/ CancelResting(id)

Spec == Init /\ [][Next]_vars

-----------------------------------------------------------------------------
(* Properties                                                              *)

BookTypeOK ==
  /\ book = [s \in Sides |-> book[s]]
  /\ \A s \in Sides : /\ Levels(s) \subseteq Prices
                      /\ book[s] \in [Levels(s) -> Seq(Resting)]

IndexTypeOK ==
  /\ DOMAIN orderIndex \subseteq OrderIds
  /\ orderIndex \in [DOMAIN orderIndex -> OrderLocation]

\* The variables hold what their declarations in orderBook.h say; the
\* quantities of resting orders and of trades are positive.
TypeOK ==
  /\ BookTypeOK
  /\ IndexTypeOK
  /\ incoming \in Matching \cup {NoOrder}
  /\ used \subseteq OrderIds
  /\ result \in EngineResult
  /\ trades \in Seq(Trade)

\* The book is never crossed, not even between two steps of the matching loop:
\* every resting bid is below every resting ask (the matching loops of
\* submitBid and submitAsk, and orders of unspecified type).
BookUncrossed ==
  \A b \in Levels("BID"), a \in Levels("ASK") : b < a

\* No empty level stays in the maps after fills and cancels: a price in the
\* map always has somebody resting there.
NoEmptyLevel ==
  \A s \in Sides : \A p \in Levels(s) : book[s][p] # <<>>

ListsIndexed ==
  \A s \in Sides : \A p \in Levels(s) : \A i \in DOMAIN book[s][p] :
    LET id == book[s][p][i].orderId
    IN /\ id \in DOMAIN orderIndex
       /\ orderIndex[id] = [side |-> s, price |-> p]
       /\ \A j \in DOMAIN book[s][p] : book[s][p][j].orderId = id => i = j

IndexedRest ==
  \A id \in DOMAIN orderIndex :
    LET loc == orderIndex[id]
    IN /\ loc.price \in Levels(loc.side)
       /\ \E i \in DOMAIN book[loc.side][loc.price] :
            book[loc.side][loc.price][i].orderId = id

\* _orderIndex and the lists never disagree: an order is in the index exactly
\* when it rests, at the place the index says, once.  A dangling iterator in
\* the index is what cancel() would erase through.
IndexExact == ListsIndexed /\ IndexedRest

\* The order being matched is not in the book yet: ids are never handed out
\* twice (OrderIdGenerator), which restBid and restAsk rely on when they
\* overwrite the index entry.
IdsFresh ==
  /\ DOMAIN orderIndex \subseteq used
  /\ incoming # NoOrder => incoming.orderId \in used \ DOMAIN orderIndex

\* The reply tells the client whether its order can still trade: right after a
\* submission the order is in the book exactly when the reply says QUEUED or
\* PARTIAL, and after a cancel, successful or not, it is not in the book.
ReplyTellsResting ==
  incoming = NoOrder =>
    (result.orderId \in DOMAIN orderIndex <=> result.status \in {"QUEUED", "PARTIAL"})

\* The last TopOfBook event describes the book as it is between operations:
\* no operation that changes the best prices forgets to publish it.
TopOfBookCurrent ==
  incoming = NoOrder => topOfBook = CurrentTopOfBook(book)

\* A submission comes to its reply: each turn of the matching loop leaves less to
\* fill than the turn before, and never less than nothing, until the operation
\* ends.  (That some step is possible as long as it has not is the absence of
\* deadlock.)
MatchingProgresses ==
  [][incoming # NoOrder /\ incoming' # NoOrder =>
       /\ incoming'.orderId = incoming.orderId
       /\ 0 <= Left(incoming')
       /\ Left(incoming') < Left(incoming)]_vars
=============================================================================
