------------------------------ MODULE Exchange ------------------------------
(***************************************************************************)
(* The exchange process: RPC handlers, the matching engine thread and the  *)
(* two publishers (service/exchangeService.cpp, engine/matchingEngine.*,   *)
(* engine/marketDataPublisher.*, engine/telemetry.h).                      *)
(*                                                                         *)
(* Handlers hand messages to the engine over a queue of which only the     *)
(* promise is used here (MessageQueue, which MPSCQueue is shown to         *)
(* keep).  The engine runs the steps of OrderBook.  A subscriber is a      *)
(* thread that drains a queue of its own: a stream of market data (gRPC or *)
(* Cap'n Proto) or a viewer of telemetry.  That queue has one producer,    *)
(* the engine under the publisher's mutex, so it is a FIFO.                *)
(* The process has no end: main() waits in server->Wait(), and nothing     *)
(* shuts the server down.                                                  *)
(***************************************************************************)
EXTENDS Integers, Sequences, FiniteSets, SequencesExt

CONSTANTS Calls,      \* RPC invocations, numbered in the order they begin
          Requests,   \* what SubmitOrder may be called with
          Streams,    \* subscriptions to market data, each made at most once
          Viewers,    \* subscriptions to telemetry
          NoOrder     \* as in OrderBook

ASSUME CallsAssumption == Calls \subseteq Nat \ {0} /\ IsFiniteSet(Calls)
ASSUME RequestsAssumption ==
  \A r \in Requests : /\ r.side \in {"BID", "ASK", "SIDE_UNSPECIFIED"}
                      /\ r.type \in {"MARKET", "LIMIT", "ORDER_TYPE_UNSPECIFIED"}
                      /\ r.quantity \in Nat \ {0} /\ r.price \in Int
ASSUME SubscribersAssumption == Streams \cap Viewers = {}

Subscribers == Streams \cup Viewers
OrderIds == 0 .. Cardinality(Calls) - 1
Prices == {r.price : r \in Requests}
Quantities == {r.quantity : r \in Requests}

VARIABLES
  book, orderIndex, incoming, used, result, trades, topOfBook,  \* OrderBook
  pending, open, dequeue,   \* MessageQueue, of Calls
  nextOrderId,              \* OrderIdGenerator's counter
  pc, message, promise,     \* of each RPC handler
  engine, current, record,  \* the engine thread: where it is, its msg, its record
  seq,                      \* MatchingEngine::_seq
  at, queue, received,      \* each subscriber: where it is, its queue, what it sent on
  log, ops, since           \* history: events published, messages processed, and
                            \* how long both were when a subscriber came

bookVars == <<book, orderIndex, incoming, used, result, trades, topOfBook>>
queueVars == <<pending, open, dequeue>>
handlerVars == <<nextOrderId, pc, message, promise>>
engineVars == <<engine, current, record, seq, ops>>
subscriberVars == <<at, queue, received, since>>
vars == <<bookVars, queueVars, handlerVars, engineVars, subscriberVars, log>>

Book == INSTANCE OrderBook
Queue == INSTANCE MessageQueue WITH Items <- Calls

ASSUME NoOrderAssumption == NoOrder \notin OrderIds /\ NoOrder \notin Book!Matching

None == <<>>
NoCall == 0

Init ==
  /\ Book!Init
  /\ Queue!Init
  /\ nextOrderId = 0
  /\ pc = [c \in Calls |-> "new"]
  /\ message = [c \in Calls |-> None]
  /\ promise = [c \in Calls |-> None]
  /\ engine = "poll"
  /\ current = NoCall
  /\ record = None
  /\ seq = 0
  /\ at = [s \in Subscribers |-> "new"]
  /\ queue = [s \in Subscribers |-> <<>>]
  /\ received = [s \in Subscribers |-> <<>>]
  /\ since = [s \in Subscribers |-> [log |-> 0, ops |-> 0]]
  /\ log = <<>>
  /\ ops = <<>>

-----------------------------------------------------------------------------
(* RPC handlers                                                            *)

Goto(c, where) ==
  /\ pc' = [pc EXCEPT ![c] = where]
  /\ UNCHANGED <<bookVars, engineVars, subscriberVars, log>>

\* The next call comes in.  As calls are alike but for their numbers, those with
\* smaller numbers came before.
Arrives(c) ==
  /\ pc[c] = "new"
  /\ \A d \in Calls : d < c => pc[d] # "new"

\* SubmitOrder: the order gets its id before it is queued.
SubmitOrder(c, r) ==
  /\ Arrives(c)
  /\ message' = [message EXCEPT ![c] =
                   [op |-> "SUBMIT", orderId |-> nextOrderId, order |-> r]]
  /\ nextOrderId' = nextOrderId + 1
  /\ Goto(c, "ready")
  /\ UNCHANGED <<promise, queueVars>>

\* The call that submitted order `id'.
SubmitOf(id) ==
  CHOOSE c \in Calls : message[c] # None /\ message[c].op = "SUBMIT" /\ message[c].orderId = id

\* CancelOrder of an order id that exists.  informed: the client had the reply
\* to its submission when it asked.
CancelOrder(c, id) ==
  /\ Arrives(c)
  /\ id < nextOrderId
  /\ message' = [message EXCEPT ![c] =
                   [op |-> "CANCEL", orderId |-> id,
                    informed |-> pc[SubmitOf(id)] = "answered"]]
  /\ Goto(c, "ready")
  /\ UNCHANGED <<nextOrderId, promise, queueVars>>

\* _queue.enqueue(msg), from its call ...
Enqueue(c) ==
  /\ pc[c] = "ready"
  /\ Queue!BeginEnqueue(c)
  /\ Goto(c, "enqueue")
  /\ UNCHANGED <<nextOrderId, message, promise>>

\* ... to its return.
EnqueueReturns(c) ==
  /\ pc[c] = "enqueue"
  /\ Queue!EndEnqueue(c)
  /\ Goto(c, "waiting")
  /\ UNCHANGED <<nextOrderId, message, promise>>

\* future.get() and the response.
Respond(c) ==
  /\ pc[c] = "waiting"
  /\ promise[c] # None
  /\ Goto(c, "answered")
  /\ UNCHANGED <<nextOrderId, message, promise, queueVars>>

HandlerStep(c) == Enqueue(c) \/ EnqueueReturns(c) \/ Respond(c)

-----------------------------------------------------------------------------
(* The engine thread                                                       *)

Registered(who) == {s \in who : at[s] \in {"open", "leaving"}}

\* TelemetryPublisher::hasSubscribers() with one too few: a mutant.
HasSubscribersOffByOne == Cardinality(Registered(Viewers)) > 1

HasSubscribers == Registered(Viewers) # {}

Poll ==
  /\ engine = "poll"
  /\ Queue!BeginDequeue
  /\ engine' = "dequeue"
  /\ UNCHANGED <<bookVars, handlerVars, current, record, seq, ops, subscriberVars, log>>

\* dequeue() returned false; _running is TRUE for good.
FindNothing ==
  /\ engine = "dequeue"
  /\ Queue!ReportEmpty
  /\ engine' = "poll"
  /\ UNCHANGED <<bookVars, handlerVars, current, record, seq, ops, subscriberVars, log>>

TakeMessage(c) ==
  /\ engine = "dequeue"
  /\ Queue!Deliver(c)
  /\ engine' = "begin"
  /\ current' = c
  /\ UNCHANGED <<bookVars, handlerVars, record, seq, ops, subscriberVars, log>>

\* process() as far as the call to the book, where a cancel ends at once and a
\* submission enters the matching loop.
Process ==
  LET m == message[current]
  IN /\ engine = "begin"
     /\ ops' = Append(ops, current)
     /\ seq' = IF HasSubscribers THEN seq + 1 ELSE seq
     /\ record' = IF HasSubscribers THEN [seq |-> seq + 1, call |-> current] ELSE None
     /\ \/ /\ m.op = "SUBMIT"
           /\ Book!Submit(m.orderId, m.order.side, m.order.type, m.order.price,
                          m.order.quantity)
           /\ engine' = "match"
        \/ /\ m.op = "CANCEL"
           /\ Book!CancelUnknown(m.orderId) \/ Book!CancelResting(m.orderId)
           /\ engine' = "reply"
     /\ UNCHANGED <<queueVars, handlerVars, current, subscriberVars, log>>

Match ==
  /\ engine = "match"
  /\ Book!MatchStep
  /\ engine' = IF incoming' = NoOrder THEN "reply" ELSE "match"
  /\ UNCHANGED <<queueVars, handlerVars, current, record, seq, ops, subscriberVars, log>>

\* The caller is answered only if there is something to publish: a mutant.
SetPromiseOnEvents ==
  /\ engine = "reply"
  /\ promise' = IF message[current].op = "CANCEL" /\ ~result.cancelSuccessful
                THEN promise ELSE [promise EXCEPT ![current] = result]
  /\ engine' = "publish"
  /\ UNCHANGED <<bookVars, queueVars, nextOrderId, pc, message, current, record,
                 seq, ops, subscriberVars, log>>

\* resultPromise->set_value(result), before anything is published.
SetPromise ==
  /\ engine = "reply"
  /\ promise' = [promise EXCEPT ![current] = result]
  /\ engine' = "publish"
  /\ UNCHANGED <<bookVars, queueVars, nextOrderId, pc, message, current, record,
                 seq, ops, subscriberVars, log>>

\* Only the last event of the operation is kept: a mutant.
EventsLastOnly ==
  IF message[current].op = "CANCEL" /\ ~result.cancelSuccessful
  THEN <<>> ELSE <<<<"TopOfBook", topOfBook>>>>

\* What a rejected order executed is not published: a mutant.
EventsUnlessRejected ==
  IF message[current].op = "CANCEL" /\ ~result.cancelSuccessful
  THEN <<>>
  ELSE Append(IF result.status = "REJECTED" THEN <<>>
              ELSE [i \in DOMAIN trades |-> <<"Trade", trades[i]>>],
              <<"TopOfBook", topOfBook>>)

\* The events vector: the trades and a TopOfBook, unless a cancel failed.
Events ==
  IF message[current].op = "CANCEL" /\ ~result.cancelSuccessful
  THEN <<>>
  ELSE Append([i \in DOMAIN trades |-> <<"Trade", trades[i]>>], <<"TopOfBook", topOfBook>>)

\* Subscribers with a backlog are left out: a mutant.
DeliveredToIdle(who, items) == [s \in Subscribers |->
  IF s \in Registered(who) /\ queue[s] = <<>> THEN items ELSE queue[s]]

\* The loop over _subscribers, under the publisher's mutex.
Delivered(who, items) == [s \in Subscribers |->
  IF s \in Registered(who) THEN queue[s] \o items ELSE queue[s]]

\* MarketDataPublisher::publish.
Publish ==
  /\ engine = "publish"
  /\ queue' = Delivered(Streams, Events)
  /\ log' = log \o Events
  /\ engine' = "telemetry"
  /\ UNCHANGED <<bookVars, queueVars, handlerVars, current, record, seq, ops, at,
                 received, since>>

TelemetryRecord ==
  [seq |-> record.seq, call |-> record.call, result |-> result, events |-> Events,
   depth |-> Book!Depth(book, 10)]

\* TelemetryPublisher::publish of the record begun in Process, if it was.
PublishTelemetry ==
  /\ engine = "telemetry"
  /\ queue' = IF record = None THEN queue
              ELSE Delivered(Viewers, <<TelemetryRecord>>)
  /\ record' = None
  /\ current' = NoCall
  /\ engine' = "poll"
  /\ UNCHANGED <<bookVars, queueVars, handlerVars, seq, ops, at, received, since, log>>

EngineStep ==
  \/ Poll
  \/ FindNothing
  \/ \E c \in Calls : TakeMessage(c)
  \/ Process
  \/ Match
  \/ SetPromise
  \/ Publish
  \/ PublishTelemetry

-----------------------------------------------------------------------------
(* Subscribers                                                             *)

Move(s, where) ==
  /\ at' = [at EXCEPT ![s] = where]
  /\ UNCHANGED <<bookVars, queueVars, handlerVars, engineVars, log>>

Subscribe(s) ==
  /\ at[s] = "new"
  /\ Move(s, "open")
  /\ since' = [since EXCEPT ![s] = [log |-> Len(log), ops |-> Len(ops)]]
  /\ UNCHANGED <<queue, received>>

\* dequeue() and a Write, or send, that succeeds.
Forward(s) ==
  /\ at[s] = "open"
  /\ queue[s] # <<>>
  /\ received' = [received EXCEPT ![s] = Append(@, Head(queue[s]))]
  /\ queue' = [queue EXCEPT ![s] = Tail(@)]
  /\ Move(s, "open")
  /\ UNCHANGED since

\* A Write, or send, that fails: the event is lost and the loop left.
WriteFails(s) ==
  /\ at[s] = "open"
  /\ queue[s] # <<>>
  /\ queue' = [queue EXCEPT ![s] = Tail(@)]
  /\ Move(s, "leaving")
  /\ UNCHANGED <<received, since>>

\* context->IsCancelled().
SeeCancelled(s) ==
  /\ at[s] = "open"
  /\ Move(s, "leaving")
  /\ UNCHANGED <<queue, received, since>>

\* unsubscribe(); the queue goes with the last pointer to it.
Unsubscribe(s) ==
  /\ at[s] = "leaving"
  /\ Move(s, "gone")
  /\ queue' = [queue EXCEPT ![s] = <<>>]
  /\ UNCHANGED <<received, since>>

SubscriberStep(s) == Forward(s) \/ WriteFails(s) \/ SeeCancelled(s) \/ Unsubscribe(s)

Next ==
  \/ \E c \in Calls : \/ \E r \in Requests : SubmitOrder(c, r)
                      \/ \E id \in OrderIds : CancelOrder(c, id)
                      \/ HandlerStep(c)
  \/ EngineStep
  \/ \E s \in Subscribers : Subscribe(s) \/ SubscriberStep(s)

\* Threads that are not waiting for a client run on: handlers and the engine,
\* which spins.
Fairness ==
  /\ \A c \in Calls : WF_vars(HandlerStep(c))
  /\ WF_vars(EngineStep)

Spec == Init /\ [][Next]_vars /\ Fairness

-----------------------------------------------------------------------------
(* Properties                                                              *)

\* The engine has published what it did.
Published == engine \notin {"match", "reply", "publish"}

Submissions == {c \in ToSet(ops) : message[c].op = "SUBMIT"}

Cancelled(id) ==
  \E c \in Calls : /\ promise[c] # None
                   /\ message[c].op = "CANCEL"
                   /\ message[c].orderId = id
                   /\ promise[c].cancelSuccessful

Traded(id) ==
  FoldSeq(LAMBDA e, sum : sum + (IF e[1] = "Trade" /\ id \in {e[2].aggressorOrderId,
                                                             e[2].restingOrderId}
                                 THEN e[2].quantity ELSE 0),
          0, log)

RestingQuantity(id) ==
  IF id \in DOMAIN orderIndex
  THEN FoldSeq(LAMBDA o, sum : sum + (IF o.orderId = id THEN o.quantity ELSE 0),
               0, book[orderIndex[id].side][orderIndex[id].price])
  ELSE 0

\* No quantity is lost or made up on the way from the request through fills,
\* partial fills, rests and cancels to the published trades: what was traded
\* and what rests add up to what was asked for, short only by what a rejected
\* MARKET order could not get or a successful cancel took out.
OrdersAccountedFor ==
  Published => \A c \in Submissions :
    LET id == message[c].orderId
        asked == message[c].order.quantity
    IN IF promise[c].status = "REJECTED"
       THEN Traded(id) = promise[c].filledQuantity /\ RestingQuantity(id) = 0
       ELSE IF Cancelled(id)
            THEN Traded(id) < asked /\ RestingQuantity(id) = 0
            ELSE Traded(id) + RestingQuantity(id) = asked

\* What the replies say and what the streams are told agree, order by order,
\* although the one goes to the caller before the other is published and later
\* operations go on in between: the trades published with an order as aggressor
\* come to the quantity of its reply, at the prices its average was made of, of
\* a rejected order too.
RepliesMatchTape ==
  Published => \A c \in Submissions :
    LET Hit(e) == e[1] = "Trade" /\ e[2].aggressorOrderId = message[c].orderId
        hits == SelectSeq(log, Hit)
    IN /\ promise[c].filledQuantity = FoldLeft(LAMBDA sum, e : sum + e[2].quantity, 0, hits)
       /\ promise[c].filledNotional =
            FoldLeft(LAMBDA sum, e : sum + e[2].quantity * e[2].price, 0, hits)

\* A client that cancels after it got the reply to its submission is told `not
\* found' only when the order has really gone: filled, rejected, or cancelled
\* before.  The cancel cannot overtake the submission in the queue.
CancelFindsOrder ==
  \A c \in Calls :
    /\ promise[c] # None
    /\ message[c].op = "CANCEL"
    /\ message[c].informed
    /\ ~promise[c].cancelSuccessful
    => LET submit == SubmitOf(message[c].orderId)
       IN \/ promise[submit].status \in {"FILLED", "REJECTED"}
          \/ Cancelled(message[c].orderId)
          \/ Traded(message[c].orderId) = message[submit].order.quantity

Suffix(s) == SubSeq(log, since[s].log + 1, Len(log))

\* A stream of market data is what was published since it subscribed, in order
\* and without a gap, and stops short only when the stream ends.
StreamGapless ==
  \A s \in Streams :
    /\ at[s] = "open" => received[s] \o queue[s] = Suffix(s)
    /\ at[s] \in {"leaving", "gone"} => IsPrefix(received[s], Suffix(s))

\* A stream that has been drained shows the market as it is: its last event is
\* the top of the book.
DrainedStreamCurrent ==
  \A s \in Streams :
    /\ Published
    /\ at[s] = "open"
    /\ queue[s] = <<>>
    /\ received[s] # <<>>
    => Last(received[s]) = <<"TopOfBook", Book!CurrentTopOfBook(book)>>

\* Telemetry leaves out no operation although hasSubscribers() is read long
\* before the record is published and subscribers come and go in between: a
\* viewer gets a record of every operation begun since it subscribed (and
\* perhaps of the one then under way), numbered without a gap.
TelemetryComplete ==
  \A v \in Viewers : at[v] = "open" =>
    LET records == received[v] \o queue[v]
        done == Len(ops) - (IF engine \in {"match", "reply", "publish", "telemetry"}
                            THEN 1 ELSE 0)
    IN /\ \E first \in {since[v].ops, since[v].ops + 1} \ {0} :
            [i \in DOMAIN records |-> records[i].call] = SubSeq(ops, first, done)
       /\ \A i \in DOMAIN records : records[i].seq = records[1].seq + i - 1

\* Within one telemetry message the depth of the book and the top of the book
\* tell the same: they are computed by different code, the one before and the
\* other after the reply and the market data went out.
DepthMatchesTopOfBook ==
  \A v \in Viewers : \A i \in DOMAIN queue[v] :
    LET r == queue[v][i]
    IN r.events # <<>> =>
         \A s \in Book!Sides :
           Last(r.events)[2][s] =
             IF r.depth[s] = <<>> THEN <<>>
             ELSE <<r.depth[s][1].price, r.depth[s][1].quantity>>

\* What a viewer of telemetry is sent is complete and agrees with itself.
TelemetryFaithful == TelemetryComplete /\ DepthMatchesTopOfBook

\* Every call that has been queued is answered.
EveryCallAnswered ==
  \A c \in Calls : (pc[c] = "enqueue") ~> (pc[c] = "answered")
=============================================================================
