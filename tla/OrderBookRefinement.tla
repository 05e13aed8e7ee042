------------------------- MODULE OrderBookRefinement -------------------------
(***************************************************************************)
(* OrderBook implements PriceTimePriority: the matching loop, taken as a   *)
(* whole, is one step of the abstract exchange.  `settled' is a history    *)
(* variable, the book as the last finished operation left it.              *)
(***************************************************************************)
EXTENDS OrderBook

VARIABLE settled

HInit == Init /\ settled = book
HNext == Next /\ settled' = IF incoming' = NoOrder THEN book' ELSE settled
HSpec == HInit /\ [][HNext]_<<vars, settled>>

\* A side's lists one after the other, best price first.
PriorityOrder(side, s) ==
  FlattenSeq([k \in 1 .. Cardinality(DOMAIN side) |->
    LET p == SetToSortSeq(DOMAIN side, LAMBDA a, b : Better(s, a, b))[k]
    IN [i \in DOMAIN side[p] |-> [orderId |-> side[p][i].orderId, price |-> p,
                                  quantity |-> side[p][i].quantity]]])

Abstract == INSTANCE PriceTimePriority WITH
  queue <- [s \in Sides |-> PriorityOrder(settled[s], s)],
  used <- IF incoming = NoOrder THEN used ELSE used \ {incoming.orderId},
  reply <- result

\* Every submission and cancel has the effect, the trades and the reply that
\* price-time priority prescribes: the loop of submitBid and submitAsk never
\* trades out of turn, at the wrong price or for the wrong quantity, and a
\* partial fill keeps its place in line.
ImplementsPriceTimePriority == Abstract!Spec

Interchangeable == Permutations(OrderIds)
=============================================================================
