------------------------------- MODULE Ticket -------------------------------
(***************************************************************************)
(* The trade ticket of the page (web/src/components/Terminal.tsx), the     *)
(* requests it makes through the feed (feed.ts) and what the gateway and   *)
(* the exchange make of them (web/gateway/server.ts).                      *)
(*                                                                         *)
(* Quantities in the ticket are in tenths and prices in hundredths.  Null  *)
(* stands for what is not a number, Huge for what becomes Infinity.  Buy   *)
(* or sell makes no difference here and is left out.                       *)
(* Of the feed it matters whether there is a connection and an exchange    *)
(* behind it: see Feed.                                                    *)
(***************************************************************************)
EXTENDS Derive

CONSTANTS
  Huge,
  TypedPrices, TypedQuantities,   \* what may be in the fields
  Levels,                         \* prices of the ladder, in thousandths
  \* Bounds:
  MaxEdits, MaxRequests, MaxBreaks   \* uses of the fields; requests; lost connections

ASSUME TicketAssumption ==
  /\ TypedPrices \cup TypedQuantities \subseteq Int \cup {Null, Huge}
  /\ Levels \subseteq Nat
  /\ Huge \notin Int /\ Huge # Null
  /\ Null \notin {"filled", "partial", "queued", "rejected", "cancelled", "notFound", "unknown"}
  /\ {MaxEdits, MaxRequests, MaxBreaks} \subseteq Nat

VARIABLES
  type, price, qty,         \* the fields of the ticket
  busy, msg,                \* waiting for an answer; the message below the button
  shown,                    \* what canTrade() was when the ticket was rendered
  open, up,                 \* the connection is open; the exchange is known to be up
  requests,                 \* by reqId, with what becomes of them
  net,                      \* results on the way to the page
  edits, breaks             \* counters for the bounds

form == <<type, price, qty, edits>>
ticketVars == <<form, busy, msg, shown, open, up, requests, net, breaks>>

CanTrade == open /\ up

TicketInit ==
  /\ type = "limit" /\ price = 0 /\ qty = 50
  /\ busy = FALSE /\ msg = Null /\ shown = FALSE
  /\ open = TRUE /\ up = FALSE
  /\ requests = <<>> /\ net = <<>> /\ edits = 0 /\ breaks = 0

-----------------------------------------------------------------------------
(* The fields                                                              *)

Positive(x) == x = Huge \/ (x \notin {Null, Huge} /\ x > 0)

\* Math.floor(Number(qty)), in whole units.
Floor(x) == IF x \in {Null, Huge} THEN x ELSE x \div 10

\* Half a unit passes: a mutant.
ValidUnfloored == Positive(qty) /\ (type = "market" \/ Positive(price))

Valid == Positive(Floor(qty)) /\ (type = "market" \/ Positive(price))

\* JSON has no Infinity: the gateway finds null, and takes that for 0.
OverTheWire(x) == IF x = Huge THEN 0 ELSE x

\* fmtPrice(): thousandths to hundredths.
Rounded(p) == (p + 5) \div 10

Edit ==
  /\ edits < MaxEdits
  /\ edits' = edits + 1
  /\ \/ type' \in {"limit", "market"} /\ UNCHANGED <<price, qty>>
     \/ type = "limit" /\ price' \in TypedPrices /\ UNCHANGED <<type, qty>>
     \/ qty' \in TypedQuantities /\ UNCHANGED <<type, price>>
  /\ UNCHANGED <<busy, msg, shown, open, up, requests, net, breaks>>

\* A level of the ladder is clicked.
Pick(level) ==
  /\ edits < MaxEdits
  /\ edits' = edits + 1
  /\ type' = "limit"
  /\ price' = Rounded(level)
  /\ UNCHANGED <<qty, busy, msg, shown, open, up, requests, net, breaks>>

-----------------------------------------------------------------------------
(* Requests                                                                *)

Says(of, ok, what) == [of |-> of, ok |-> ok, says |-> what]

\* An answer that is not ok leaves the ticket busy: a mutant.
SettledBusy(r, m) ==
  /\ busy' = IF requests[r].kind = "order" /\ m.ok THEN FALSE ELSE busy
  /\ msg' = m

\* The continuation of submit() and of cancel().
Settled(r, m) ==
  /\ busy' = IF requests[r].kind = "order" THEN FALSE ELSE busy
  /\ msg' = m

\* request(): it resolves at once when there is no exchange.  While the answer is
\* awaited, the ticket is busy if it `waits'.
Request(r, waits) ==
  IF CanTrade
  THEN /\ requests' = Append(requests, r)
       /\ busy' = waits
       /\ UNCHANGED msg
  ELSE /\ msg' = Says(0, FALSE, "notRunning")
       /\ UNCHANGED <<requests, busy>>

NewRequest(kind, order) ==
  [kind |-> kind, order |-> order, pending |-> TRUE, attached |-> TRUE, outcome |-> Null]

\* submit(): the button is enabled.  `typed' is history: the fields at that time.
Submit ==
  /\ shown /\ Valid /\ ~busy
  /\ Len(requests) < MaxRequests
  /\ Request(NewRequest("order",
               [type |-> type, typed |-> [price |-> price, qty |-> qty],
                price |-> IF type = "market" THEN 0 ELSE OverTheWire(price),
                qty |-> OverTheWire(Floor(qty))]), TRUE)
  /\ UNCHANGED <<form, shown, open, up, net, breaks>>

\* cancel() of one of the user's orders.
Cancel ==
  /\ Len(requests) < MaxRequests
  /\ Request(NewRequest("cancel", Null), busy)
  /\ UNCHANGED <<form, shown, open, up, net, breaks>>

\* The timer goes with the connection: a mutant.
TimeOutIfOpen(r) ==
  /\ requests[r].pending /\ open
  /\ requests' = [requests EXCEPT ![r].pending = FALSE]
  /\ Settled(r, Says(r, FALSE, "noAnswer"))
  /\ UNCHANGED <<form, shown, open, up, net, breaks>>

\* The 4 s of a request have passed.
TimeOut(r) ==
  /\ requests[r].pending
  /\ requests' = [requests EXCEPT ![r].pending = FALSE]
  /\ Settled(r, Says(r, FALSE, "noAnswer"))
  /\ UNCHANGED <<form, shown, open, up, net, breaks>>

\* The message for a result.
MessageFor(kind, m) ==
  IF kind = "cancel" THEN Says(m.reqId, m.ok, IF m.ok THEN "cancelled" ELSE m.reason)
  ELSE IF ~m.ok THEN Says(m.reqId, FALSE, m.reason)
  ELSE IF m.status = "rejected" THEN Says(m.reqId, FALSE, "rejected")
  ELSE IF m.status \in {"filled", "partial"} THEN Says(m.reqId, TRUE, m.status)
  ELSE Says(m.reqId, TRUE, "resting")

Pending == {r \in DOMAIN requests : requests[r].pending}

\* A result is for whoever has waited longest: a mutant.
WaiterOldest(m) == IF Pending = {} THEN 0 ELSE Min(Pending)

\* Who waits for a result: nobody after the timer.
Waiter(m) == IF m.reqId \in Pending THEN m.reqId ELSE 0

ReceiveResult ==
  LET m == Head(net)
      r == Waiter(m)
  IN /\ net # <<>>
     /\ net' = Tail(net)
     /\ IF r = 0 THEN UNCHANGED <<requests, busy, msg>>
        ELSE /\ requests' = [requests EXCEPT ![r].pending = FALSE]
             /\ Settled(r, MessageFor(requests[r].kind, m))
     /\ UNCHANGED <<form, shown, open, up, breaks>>

-----------------------------------------------------------------------------
(* The gateway and the exchange                                            *)

Outcomes(kind) ==
  IF kind = "cancel" THEN {"cancelled", "notFound"}
  ELSE {"filled", "partial", "queued", "rejected"}

\* The gateway's deadline of 3 s has passed or its call has failed, and nobody
\* will know what the exchange did; or it has the reply.  The result goes to the
\* connection the request came by.
Answer(r) ==
  LET q == requests[r]
      failed == [reqId |-> r, ok |-> FALSE, status |-> "", reason |-> "failed"]
      Reply(o) == IF q.kind = "order"
                  THEN [reqId |-> r, ok |-> TRUE, status |-> o, reason |-> ""]
                  ELSE [reqId |-> r, ok |-> o = "cancelled", status |-> "",
                        reason |-> IF o = "cancelled" THEN "" ELSE "notFound"]
  IN /\ q.outcome = Null
     /\ \E o \in Outcomes(q.kind) \cup {"unknown"} :
          /\ requests' = [requests EXCEPT ![r].outcome = o]
          /\ net' = IF ~q.attached THEN net
                    ELSE Append(net, IF o = "unknown" THEN failed ELSE Reply(o))
     /\ UNCHANGED <<form, busy, msg, shown, open, up, breaks>>

OnClose ==
  /\ open /\ breaks < MaxBreaks
  /\ breaks' = breaks + 1
  /\ open' = FALSE /\ up' = FALSE
  /\ net' = <<>>
  /\ requests' = [r \in DOMAIN requests |-> [requests[r] EXCEPT !.attached = FALSE]]
  /\ UNCHANGED <<form, busy, msg, shown>>

Reconnect ==
  /\ ~open
  /\ open' = TRUE
  /\ UNCHANGED <<form, busy, msg, shown, up, requests, net, breaks>>

\* A status of the gateway.
ReceiveStatus ==
  /\ open
  /\ up' = ~up
  /\ UNCHANGED <<form, busy, msg, shown, open, requests, net, breaks>>

\* The ticket is rendered again.
Render ==
  /\ shown # CanTrade
  /\ shown' = CanTrade
  /\ UNCHANGED <<form, busy, msg, open, up, requests, net, breaks>>

TicketNext ==
  \/ Edit
  \/ \E level \in Levels : Pick(level)
  \/ Submit
  \/ Cancel
  \/ \E r \in DOMAIN requests : TimeOut(r) \/ Answer(r)
  \/ ReceiveResult
  \/ OnClose
  \/ Reconnect
  \/ ReceiveStatus
  \/ Render

\* Timers fire.  Nothing is assumed of the gateway, the exchange or the user.
TicketFairness ==
  \A r \in 1 .. MaxRequests : WF_ticketVars(r \in DOMAIN requests /\ TimeOut(r))

-----------------------------------------------------------------------------
(* Properties                                                              *)

WellFormed(o) ==
  /\ IF o.typed.qty = Huge THEN o.qty = 0 ELSE o.qty >= 1
  /\ IF o.type = "market" \/ o.typed.price = Huge THEN o.price = 0 ELSE o.price > 0

\* The exchange is asked for at least one unit, at a price above zero unless it
\* is a market order, whatever is typed or picked before the button is pressed;
\* but a number beyond all bounds, which the ticket takes for valid, gets there
\* as zero, and nothing else does.
OrderWellFormed ==
  \A r \in DOMAIN requests : requests[r].kind = "order" => WellFormed(requests[r].order)

\* The ticket is busy exactly while an order has no answer: there is never a
\* second one under way, and cancels, results that come too late and lost
\* connections do not free it.
BusyExact ==
  LET orders == {r \in Pending : requests[r].kind = "order"}
  IN busy = (orders # {}) /\ Cardinality(orders) <= 1

\* What the ticket reports, other than that there was no answer, is what the
\* exchange did with that request, although results overlap, come late or are
\* lost.
MessageTruthful ==
  msg # Null /\ msg.says \notin {"notRunning", "noAnswer", "failed"} =>
    requests[msg.of].outcome = (IF msg.says = "resting" THEN "queued"
                                ELSE msg.says)

\* The ticket does not stay busy, also when the connection is lost between an
\* order and its answer.
BusyEnds == busy ~> ~busy
=============================================================================
