----------------------------- MODULE MCExchange -----------------------------
(* Small instances of Exchange. *)
EXTENDS Exchange

Order(side, type, price, quantity) ==
  [side |-> side, type |-> type, price |-> price, quantity |-> quantity]

\* A bid that can be hit twice, an ask that hits it or rests, and a MARKET order
\* that may find too little.
Mixed == {Order("BID", "LIMIT", 1, 2), Order("ASK", "LIMIT", 1, 1),
          Order("ASK", "MARKET", 1, 2)}

\* Two levels of bids and an ask that meets both.
Ladder == {Order("BID", "LIMIT", 1, 1), Order("BID", "LIMIT", 2, 1), Order("ASK", "LIMIT", 1, 1)}

=============================================================================
