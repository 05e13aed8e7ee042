-------------------------- MODULE PriceTimePriority --------------------------
(***************************************************************************)
(* What a price-time priority exchange promises, with no matching loop:    *)
(* each side of the book is one queue in order of priority, a submission   *)
(* is a single step, and what it trades with each resting order is given   *)
(* by the quantity standing ahead of that order.  OrderBook implements it. *)
(***************************************************************************)
EXTENDS Integers, Sequences, FiniteSets, SequencesExt

CONSTANTS OrderIds, Prices, Quantities, NoOrder

VARIABLES queue,   \* per side, the resting orders, first to trade first
          used,    \* order ids seen
          reply,   \* the answer to the last request
          trades   \* what the last request traded

vars == <<queue, used, reply, trades>>

Sides == {"BID", "ASK"}
RequestSides == Sides \cup {"SIDE_UNSPECIFIED"}
OrderTypes == {"MARKET", "LIMIT", "ORDER_TYPE_UNSPECIFIED"}

Own(side) == IF side = "BID" THEN "BID" ELSE "ASK"
Other(side) == IF side = "BID" THEN "ASK" ELSE "BID"

Acceptable(side, type, limit, p) ==
  type = "LIMIT" => IF side = "BID" THEN p <= limit ELSE p >= limit

TotalQuantity(orders) == FoldSeq(LAMBDA o, sum : o.quantity + sum, 0, orders)
Clamp(x, low, high) == IF x < low THEN low ELSE IF x > high THEN high ELSE x

\* What the i-th order in the queue gives to an order for `quantity': what is
\* still wanted when everybody ahead of it has given all they have.
Taken(orders, i, side, type, limit, quantity) ==
  IF Acceptable(side, type, limit, orders[i].price)
  THEN Clamp(quantity - TotalQuantity(SubSeq(orders, 1, i - 1)), 0, orders[i].quantity)
  ELSE 0

Present(orders) ==
  FoldLeft(LAMBDA kept, o : IF o.quantity > 0 THEN Append(kept, o) ELSE kept, <<>>, orders)

Without(orders, id) ==
  FoldLeft(LAMBDA kept, o : IF o.orderId # id THEN Append(kept, o) ELSE kept, <<>>, orders)

\* Behind every order of a better or an equal price.
Enqueue(orders, s, o) ==
  LET ahead == {i \in DOMAIN orders :
                  IF s = "BID" THEN orders[i].price >= o.price
                               ELSE orders[i].price <= o.price}
  IN InsertAt(orders, Cardinality(ahead) + 1, o)

Init ==
  /\ queue = [s \in Sides |-> <<>>]
  /\ used = {}
  /\ reply = [orderId |-> NoOrder, status |-> "ORDER_STATUS_UNSPECIFIED",
              filledQuantity |-> 0, filledNotional |-> 0, cancelSuccessful |-> FALSE]
  /\ trades = <<>>

Submit(id, side, type, price, quantity) ==
  LET own == Own(side)
      other == Other(own)
      makers == queue[other]
      taken == [i \in DOMAIN makers |-> Taken(makers, i, own, type, price, quantity)]
      fills == Present([i \in DOMAIN makers |->
                 [price |-> makers[i].price, quantity |-> taken[i],
                  aggressorSide |-> side, aggressorOrderId |-> id,
                  restingOrderId |-> makers[i].orderId]])
      left == Present([i \in DOMAIN makers |->
                 [makers[i] EXCEPT !.quantity = @ - taken[i]]])
      filled == TotalQuantity(fills)
      rests == filled < quantity /\ type # "MARKET"
  IN /\ id \notin used
     /\ used' = used \cup {id}
     /\ queue' = [queue EXCEPT
          ![other] = left,
          ![own] = IF rests
                   THEN Enqueue(@, own, [orderId |-> id, price |-> price,
                                         quantity |-> quantity - filled])
                   ELSE @]
     /\ trades' = fills
     /\ reply' = [orderId |-> id,
                  status |-> CASE filled = quantity -> "FILLED"
                               [] rests /\ filled = 0 -> "QUEUED"
                               [] rests /\ filled > 0 -> "PARTIAL"
                               [] OTHER -> "REJECTED",
                  filledQuantity |-> filled,
                  filledNotional |->
                    FoldSeq(LAMBDA t, sum : t.price * t.quantity + sum, 0, fills),
                  cancelSuccessful |-> FALSE]

Cancel(id) ==
  LET found == \E s \in Sides : \E i \in DOMAIN queue[s] : queue[s][i].orderId = id
  IN /\ queue' = [s \in Sides |-> Without(queue[s], id)]
     /\ reply' = [orderId |-> id, status |-> "ORDER_STATUS_UNSPECIFIED",
                  filledQuantity |-> 0, filledNotional |-> 0,
                  cancelSuccessful |-> found]
     /\ trades' = <<>>
     /\ UNCHANGED used

Next ==
  \/ \E id \in OrderIds, side \in RequestSides, type \in OrderTypes,
        price \in Prices, quantity \in Quantities :
       Submit(id, side, type, price, quantity)
  \/ \E id \in OrderIds : Cancel(id)

Spec == Init /\ [][Next]_vars
=============================================================================
