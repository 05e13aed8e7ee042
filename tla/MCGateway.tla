----------------------------- MODULE MCGateway -----------------------------
(* Small instances of Gateway. *)
EXTENDS Gateway

Limit(node, side, price, quantity) ==
  [node |-> node, side |-> side, type |-> "LIMIT", price |-> price, quantity |-> quantity]

\* A bot and the user on the two sides, with partial fills.
BotAndUser == {Limit("bot", "ASK", 2, 2), Limit("human", "BID", 2, 1)}

\* Bots only, as they trade while no page is there.
Bots == {Limit("mm", "ASK", 2, 1), Limit("noise", "ASK", 2, 1), Limit("mm", "BID", 2, 1)}
=============================================================================
