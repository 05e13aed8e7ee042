---------------------------- MODULE ExchangeProofs ----------------------------
(***************************************************************************)
(* Safety of the exchange process for any calls, requests and subscribers. *)
(* The book it runs is OrderBook, step by step, so that what               *)
(* OrderBookProofs proves of the book alone holds of it here.              *)
(***************************************************************************)
EXTENDS Exchange, SeqFacts, SumFacts, FiniteSetTheorems, TLAPS

\* OrderBook with its proofs.
Proved == INSTANCE OrderBookProofs

-----------------------------------------------------------------------------
(* Messages                                                                *)

IsMessage(m) ==
  \/ m.op = "SUBMIT" /\ m.orderId \in OrderIds /\ m.order \in Requests
  \/ m.op = "CANCEL" /\ m.orderId \in OrderIds

Arrived == {c \in Calls : pc[c] # "new"}

InProcess == {"begin", "match", "reply", "publish", "telemetry"}

\* A call has its message before the queue and the engine see it.
MessagesOK ==
  /\ pc \in [Calls -> {"new", "ready", "enqueue", "waiting", "answered"}]
  /\ DOMAIN message = Calls
  /\ \A c \in Arrived : IsMessage(message[c])
  /\ DOMAIN pending \subseteq Arrived
  /\ engine \in InProcess => current \in Arrived
  /\ nextOrderId \in Nat /\ nextOrderId <= Cardinality(Arrived)

LEMMA ArrivedFinite ==
  /\ IsFiniteSet(Arrived) /\ Cardinality(Arrived) \in Nat /\ Cardinality(Calls) \in Nat
  /\ Cardinality(Arrived) <= Cardinality(Calls)
<1>1. IsFiniteSet(Calls) /\ Arrived \in SUBSET Calls
  BY CallsAssumption DEF Arrived
<1> QED
  BY <1>1, FS_Subset, FS_CardinalityType

\* A call arrives with its message.
LEMMA ArrivalMessages ==
  ASSUME MessagesOK, NEW c \in Calls, pc[c] = "new", pc' = [pc EXCEPT ![c] = "ready"], NEW m,
         message' = [message EXCEPT ![c] = m], IsMessage(m), UNCHANGED <<pending, engine, current>>,
         nextOrderId' \in {nextOrderId, nextOrderId + 1}
  PROVE  MessagesOK'
<1>1. pc \in [Calls -> {"new", "ready", "enqueue", "waiting", "answered"}] /\ DOMAIN message = Calls
  BY DEF MessagesOK
<1>2. /\ pc' \in [Calls -> {"new", "ready", "enqueue", "waiting", "answered"}]
      /\ DOMAIN message' = Calls
  BY <1>1
<1>3. Arrived' = Arrived \cup {c} /\ c \notin Arrived
  BY <1>1 DEF Arrived
<1>4. Cardinality(Arrived') = Cardinality(Arrived) + 1
  BY <1>3, ArrivedFinite, FS_AddElement
<1>5. \A d \in Arrived' : IsMessage(message'[d])
  <2> TAKE d \in Arrived'
  <2>1. CASE d = c
    BY <1>1, <2>1
  <2>2. CASE d # c
    <3>1. d \in Arrived /\ message'[d] = message[d]
      BY <1>1, <1>3, <2>2 DEF Arrived
    <3> QED
      BY <3>1 DEF MessagesOK
  <2> QED
    BY <2>1, <2>2
<1>6. nextOrderId' \in Nat /\ nextOrderId' <= Cardinality(Arrived')
  <2>1. nextOrderId \in Nat /\ nextOrderId <= Cardinality(Arrived) /\ Cardinality(Arrived) \in Nat
    BY ArrivedFinite DEF MessagesOK
  <2> QED
    BY <1>4, <2>1
<1> QED
  BY <1>2, <1>3, <1>5, <1>6 DEF MessagesOK

\* A call that has arrived goes on.
LEMMA OtherMessages ==
  ASSUME MessagesOK, Arrived' = Arrived, UNCHANGED <<message, nextOrderId>>,
         pc' \in [Calls -> {"new", "ready", "enqueue", "waiting", "answered"}],
         DOMAIN pending' \subseteq Arrived, engine' \in InProcess => current' \in Arrived
  PROVE  MessagesOK'
BY DEF MessagesOK

LEMMA MovesMessages ==
  ASSUME MessagesOK, NEW c \in Calls, pc[c] # "new", NEW w \in {"enqueue", "waiting", "answered"},
         pc' = [pc EXCEPT ![c] = w]
  PROVE  /\ pc' \in [Calls -> {"new", "ready", "enqueue", "waiting", "answered"}]
         /\ Arrived' = Arrived
BY DEF MessagesOK, Arrived

HandlerActs(c) ==
  \/ \E r \in Requests : SubmitOrder(c, r)
  \/ \E id \in OrderIds : CancelOrder(c, id)
  \/ HandlerStep(c)

LEMMA HandlerMessages ==
  ASSUME MessagesOK, NEW c \in Calls, HandlerActs(c)
  PROVE  MessagesOK' /\ UNCHANGED <<bookVars, engineVars, subscriberVars, log>>
<1>0. /\ pc \in [Calls -> {"new", "ready", "enqueue", "waiting", "answered"}]
      /\ DOMAIN pending \subseteq Arrived
      /\ engine \in InProcess => current \in Arrived
  BY DEF MessagesOK
<1>1. ASSUME NEW r \in Requests, SubmitOrder(c, r)
      PROVE  MessagesOK'
  <2>1. /\ pc[c] = "new" /\ pc' = [pc EXCEPT ![c] = "ready"]
        /\ message' = [message EXCEPT ![c] = [op |-> "SUBMIT", orderId |-> nextOrderId, order |-> r]]
        /\ nextOrderId' = nextOrderId + 1 /\ UNCHANGED <<pending, engine, current>>
    BY <1>1 DEF SubmitOrder, Arrives, Goto, queueVars, engineVars
  <2>2. nextOrderId \in OrderIds
    <3>1. c \notin Arrived
      BY <2>1 DEF Arrived
    <3>2. IsFiniteSet(Calls) /\ Arrived \in SUBSET Calls /\ Arrived # Calls
      BY <3>1, CallsAssumption DEF Arrived
    <3>3. Cardinality(Arrived) # Cardinality(Calls)
      BY <3>2, FS_Subset
    <3>4. nextOrderId \in Nat /\ nextOrderId <= Cardinality(Arrived)
      BY DEF MessagesOK
    <3> QED
      BY <3>3, <3>4, ArrivedFinite DEF OrderIds
  <2> DEFINE m == [op |-> "SUBMIT", orderId |-> nextOrderId, order |-> r]
  <2>3. IsMessage(m)
    BY <2>2 DEF IsMessage
  <2> HIDE DEF m
  <2>4. message' = [message EXCEPT ![c] = m]
    BY <2>1 DEF m
  <2> QED
    BY <2>1, <2>3, <2>4, ArrivalMessages
<1>2. ASSUME NEW id \in OrderIds, CancelOrder(c, id)
      PROVE  MessagesOK'
  <2> DEFINE m == [op |-> "CANCEL", orderId |-> id, informed |-> pc[SubmitOf(id)] = "answered"]
  <2>1. /\ pc[c] = "new" /\ pc' = [pc EXCEPT ![c] = "ready"]
        /\ message' = [message EXCEPT ![c] = m]
        /\ UNCHANGED <<nextOrderId, pending, engine, current>>
    BY <1>2 DEF CancelOrder, Arrives, Goto, queueVars, engineVars
  <2>2. IsMessage(m)
    BY DEF IsMessage
  <2> HIDE DEF m
  <2> QED
    BY <2>1, <2>2, ArrivalMessages
<1>3. ASSUME Enqueue(c) PROVE MessagesOK'
  <2>1. /\ pc[c] = "ready" /\ pc' = [pc EXCEPT ![c] = "enqueue"]
        /\ UNCHANGED <<message, nextOrderId, engine, current>>
    BY <1>3 DEF Enqueue, Goto, engineVars
  <2>2. DOMAIN pending' = DOMAIN pending \cup {c}
    BY <1>3 DEF Enqueue, Queue!BeginEnqueue
  <2>3. Arrived' = Arrived /\ pc' \in [Calls -> {"new", "ready", "enqueue", "waiting", "answered"}]
    BY <2>1, MovesMessages
  <2>4. c \in Arrived
    BY <2>1 DEF Arrived
  <2> QED
    BY <1>0, <2>1, <2>2, <2>3, <2>4, OtherMessages
<1>4. ASSUME EnqueueReturns(c) PROVE MessagesOK'
  <2>1. /\ pc[c] = "enqueue" /\ pc' = [pc EXCEPT ![c] = "waiting"]
        /\ UNCHANGED <<message, nextOrderId, engine, current, pending>>
    BY <1>4 DEF EnqueueReturns, Goto, engineVars, Queue!EndEnqueue
  <2>2. Arrived' = Arrived /\ pc' \in [Calls -> {"new", "ready", "enqueue", "waiting", "answered"}]
    BY <2>1, MovesMessages
  <2> QED
    BY <1>0, <2>1, <2>2, OtherMessages
<1>5. ASSUME Respond(c) PROVE MessagesOK'
  <2>1. /\ pc[c] = "waiting" /\ pc' = [pc EXCEPT ![c] = "answered"]
        /\ UNCHANGED <<message, nextOrderId, engine, current, pending>>
    BY <1>5 DEF Respond, Goto, engineVars, queueVars
  <2>2. Arrived' = Arrived /\ pc' \in [Calls -> {"new", "ready", "enqueue", "waiting", "answered"}]
    BY <2>1, MovesMessages
  <2> QED
    BY <1>0, <2>1, <2>2, OtherMessages
<1>6. UNCHANGED <<bookVars, engineVars, subscriberVars, log>>
  BY DEF HandlerActs, HandlerStep, SubmitOrder, CancelOrder, Enqueue, EnqueueReturns, Respond, Goto
<1> QED
  BY <1>1, <1>2, <1>3, <1>4, <1>5, <1>6 DEF HandlerActs, HandlerStep

LEMMA EngineMessages ==
  ASSUME MessagesOK, EngineStep
  PROVE  MessagesOK' /\ UNCHANGED <<pc, message>>
<1>0. /\ pc \in [Calls -> {"new", "ready", "enqueue", "waiting", "answered"}]
      /\ DOMAIN pending \subseteq Arrived
      /\ engine \in InProcess => current \in Arrived
  BY DEF MessagesOK
<1>1. UNCHANGED <<pc, message, nextOrderId>>
  BY DEF EngineStep, Poll, FindNothing, TakeMessage, Process, Match, SetPromise,
         Publish, PublishTelemetry, handlerVars
<1>2. Arrived' = Arrived
  BY <1>1 DEF Arrived
<1>3. ASSUME NEW c \in Calls, TakeMessage(c)
      PROVE  MessagesOK'
  <2>1. c \in DOMAIN pending /\ DOMAIN pending' = DOMAIN pending \ {c} /\ current' = c
    BY <1>3 DEF TakeMessage, Queue!Deliver, Queue!Without
  <2> QED
    BY <1>0, <1>1, <1>2, <2>1, OtherMessages
<1>4. CASE Poll \/ FindNothing \/ Process \/ Match \/ SetPromise \/ Publish
           \/ PublishTelemetry
  <2>1. pending' = pending
    BY <1>4 DEF Poll, FindNothing, Process, Match, SetPromise, Publish,
                PublishTelemetry, queueVars, Queue!BeginDequeue, Queue!ReportEmpty
  <2>2. engine' \in InProcess => engine \in InProcess /\ current' = current
    BY <1>4 DEF Poll, FindNothing, Process, Match, SetPromise, Publish,
                PublishTelemetry, InProcess
  <2> QED
    BY <1>0, <1>1, <1>2, <2>1, <2>2, OtherMessages
<1> QED
  BY <1>1, <1>3, <1>4 DEF EngineStep

SubscriberActs(s) == Subscribe(s) \/ SubscriberStep(s)

LEMMA SubscriberKeeps ==
  ASSUME NEW s \in Subscribers, SubscriberActs(s)
  PROVE  UNCHANGED <<bookVars, queueVars, handlerVars, engineVars, log>>
BY DEF SubscriberActs, SubscriberStep, Subscribe, Forward, WriteFails, SeeCancelled, Unsubscribe, Move

LEMMA StepKinds ==
  ASSUME [Next]_vars
  PROVE  \/ \E c \in Calls : HandlerActs(c)
         \/ EngineStep
         \/ \E s \in Subscribers : SubscriberActs(s)
         \/ UNCHANGED vars
BY DEF Next, HandlerActs, SubscriberActs

LEMMA NextMessages ==
  ASSUME MessagesOK, [Next]_vars
  PROVE  MessagesOK'
<1>1. CASE UNCHANGED <<pc, message, pending, engine, current, nextOrderId>>
  BY <1>1 DEF MessagesOK, Arrived
<1>3. ASSUME NEW s \in Subscribers, SubscriberActs(s)
      PROVE  MessagesOK'
  BY <1>1, <1>3, SubscriberKeeps DEF handlerVars, queueVars, engineVars
<1>4. CASE UNCHANGED vars
  BY <1>1, <1>4 DEF vars, handlerVars, queueVars, engineVars
<1> QED
  BY <1>3, <1>4, StepKinds, HandlerMessages, EngineMessages

LEMMA InitMessages ==
  ASSUME Init
  PROVE  MessagesOK
<1>1. /\ pc = [c \in Calls |-> "new"] /\ DOMAIN message = Calls /\ pending = <<>>
      /\ engine = "poll" /\ nextOrderId = 0
  BY DEF Init, Queue!Init
<1>2. Arrived = {}
  BY <1>1 DEF Arrived
<1>3. nextOrderId <= Cardinality(Arrived) /\ DOMAIN pending = {}
  BY <1>1, <1>2, FS_EmptySet
<1> QED
  BY <1>1, <1>2, <1>3 DEF MessagesOK, InProcess
-----------------------------------------------------------------------------
(* The book of the process is OrderBook                                    *)

LEMMA BookAssumptions ==
  Proved!PricesAssumption /\ Proved!QuantitiesAssumption /\ Proved!NoOrderAssumption
<1>1. Proved!PricesAssumption /\ Proved!QuantitiesAssumption
  BY RequestsAssumption DEF Proved!PricesAssumption, Proved!QuantitiesAssumption, Prices, Quantities
<1>2. Proved!NoOrderAssumption
  BY NoOrderAssumption DEF Proved!NoOrderAssumption, Proved!Matching, Book!Matching,
       Proved!RequestSides, Book!RequestSides, Proved!OrderTypes, Book!OrderTypes,
       Proved!Trade, Book!Trade, Proved!Sides, Book!Sides
<1> QED
  BY <1>1, <1>2

\* Where the engine is, an order is being matched or not.
BookPhase ==
  /\ engine # "match" => incoming = NoOrder
  /\ engine = "match" => message[current].op = "SUBMIT"

LEMMA ProcessKinds ==
  ASSUME MessagesOK, Process
  PROVE  \/ /\ message[current].op = "SUBMIT" /\ engine' = "match"
            /\ \E id \in OrderIds, side \in Book!RequestSides, type \in Book!OrderTypes,
                  price \in Prices, quantity \in Quantities :
                 Book!Submit(id, side, type, price, quantity)
         \/ /\ message[current].op = "CANCEL" /\ engine' = "reply"
            /\ \E id \in OrderIds : Book!CancelUnknown(id) \/ Book!CancelResting(id)
<1> DEFINE m == message[current]
<1>1. engine = "begin"
  BY DEF Process
<1>2. IsMessage(m)
  BY <1>1 DEF MessagesOK, InProcess
<1>3. CASE /\ m.op = "SUBMIT"
           /\ Book!Submit(m.orderId, m.order.side, m.order.type, m.order.price, m.order.quantity)
           /\ engine' = "match"
  <2>1. m.orderId \in OrderIds /\ m.order \in Requests
    BY <1>2, <1>3 DEF IsMessage
  <2>2. m.order.side \in Book!RequestSides /\ m.order.type \in Book!OrderTypes
    BY <2>1, RequestsAssumption DEF Book!RequestSides, Book!Sides, Book!OrderTypes
  <2>3. m.order.price \in Prices /\ m.order.quantity \in Quantities
    BY <2>1 DEF Prices, Quantities
  <2> HIDE DEF m
  <2>4. \E id \in OrderIds, side \in Book!RequestSides, type \in Book!OrderTypes,
          price \in Prices, quantity \in Quantities :
          Book!Submit(id, side, type, price, quantity)
    BY <1>3, <2>1, <2>2, <2>3
  <2> QED
    BY <1>3, <2>4 DEF m
<1>4. CASE /\ m.op = "CANCEL"
           /\ Book!CancelUnknown(m.orderId) \/ Book!CancelResting(m.orderId)
           /\ engine' = "reply"
  <2>1. m.orderId \in OrderIds
    BY <1>2, <1>4 DEF IsMessage
  <2> QED
    BY <1>4, <2>1
<1> QED
  BY <1>3, <1>4 DEF Process

\* Every step of the process is a step of the book or leaves the book alone.
LEMMA BookStep ==
  ASSUME MessagesOK, [Next]_vars
  PROVE  [Book!Next]_(Book!vars)
<1>1. CASE UNCHANGED bookVars
  BY <1>1 DEF bookVars, Book!vars
<1>3. ASSUME NEW c \in Calls, HandlerActs(c)
      PROVE  [Book!Next]_(Book!vars)
  BY <1>1, <1>3, HandlerMessages
<1>4. ASSUME NEW s \in Subscribers, SubscriberActs(s)
      PROVE  [Book!Next]_(Book!vars)
  BY <1>1, <1>4, SubscriberKeeps
<1>5. CASE UNCHANGED vars
  BY <1>1, <1>5 DEF vars
<1>6. CASE Process
  BY <1>6, ProcessKinds DEF Book!Next
<1>7. CASE Match
  BY <1>7 DEF Match, Book!Next
<1>8. ASSUME EngineStep, ~Process, ~Match
      PROVE  UNCHANGED bookVars
  BY <1>8 DEF EngineStep, Poll, FindNothing, TakeMessage, SetPromise, Publish,
              PublishTelemetry
<1> QED
  BY <1>1, <1>3, <1>4, <1>5, <1>6, <1>7, <1>8, StepKinds

LEMMA SameTop ==
  ASSUME NEW b
  PROVE  Proved!CurrentTopOfBook(b) = Book!CurrentTopOfBook(b)
BY DEF Proved!CurrentTopOfBook, Book!CurrentTopOfBook, Proved!TopOfSide, Book!TopOfSide,
       Proved!LevelQuantity, Book!LevelQuantity, Proved!Better, Book!Better,
       Proved!Sides, Book!Sides

LEMMA SameFinish ==
  ASSUME NEW status, Book!Finish(status)
  PROVE  Proved!Finish(status)
<1>1. Proved!CurrentTopOfBook(book') = Book!CurrentTopOfBook(book')
  BY SameTop
<1> QED
  BY <1>1 DEF Proved!Finish, Book!Finish

LEMMA SameMatchStep ==
  ASSUME Book!MatchStep
  PROVE  Proved!MatchStep
<1>1. ASSUME NEW p, Book!Fill(p) PROVE Proved!Fill(p)
  BY <1>1, Zenon DEF Proved!Fill, Book!Fill, Proved!Opposite, Book!Opposite, Proved!BookSide,
       Book!BookSide, Proved!Left, Book!Left, Proved!CanMatch, Book!CanMatch, Proved!IsBest,
       Book!IsBest, Proved!PutLevel, Book!PutLevel, Proved!DropOrder, Book!DropOrder,
       Proved!Crosses, Book!Crosses, Proved!Better, Book!Better, Proved!Levels, Book!Levels
<1>2. ASSUME Book!CompleteFilled PROVE Proved!CompleteFilled
  BY <1>2, SameFinish DEF Proved!CompleteFilled, Book!CompleteFilled, Proved!Left, Book!Left
<1>3. Book!CanMatch(incoming) <=> Proved!CanMatch(incoming)
  BY Zenon DEF Proved!CanMatch, Book!CanMatch, Proved!Left, Book!Left, Proved!Crosses, Book!Crosses,
       Proved!Levels, Book!Levels, Proved!Opposite, Book!Opposite, Proved!BookSide, Book!BookSide
<1>4. ASSUME Book!RejectMarket PROVE Proved!RejectMarket
  BY <1>3, <1>4, SameFinish DEF Proved!RejectMarket, Book!RejectMarket, Proved!Left, Book!Left
<1>5. ASSUME Book!RestRemainder PROVE Proved!RestRemainder
  <2>1. Proved!Finish(IF incoming.filledQty = 0 THEN "QUEUED" ELSE "PARTIAL")
    BY <1>5, SameFinish DEF Book!RestRemainder
  <2> QED
    BY <1>3, <1>5, <2>1, Zenon DEF Proved!RestRemainder, Book!RestRemainder, Proved!Left, Book!Left,
       Proved!PutLevel, Book!PutLevel, Proved!RestAt, Book!RestAt, Proved!LevelAt, Book!LevelAt,
       Proved!AddOrder, Book!AddOrder, Proved!BookSide, Book!BookSide
<1> QED
  BY <1>1, <1>2, <1>4, <1>5 DEF Proved!MatchStep, Book!MatchStep

LEMMA SameStep ==
  ASSUME [Book!Next]_(Book!vars)
  PROVE  [Proved!Next]_(Proved!vars)
<1>1. ASSUME NEW id, Book!CancelResting(id) PROVE Proved!CancelResting(id)
  <2>1. Proved!CurrentTopOfBook(book') = Book!CurrentTopOfBook(book')
    BY SameTop
  <2> QED
    BY <1>1, <2>1, Zenon DEF Proved!CancelResting, Book!CancelResting, Proved!RemoveAt, Book!RemoveAt,
       Proved!CancelResult, Book!CancelResult, Proved!DropOrder, Book!DropOrder, Proved!PutLevel,
       Book!PutLevel
<1>2. ASSUME NEW id, Book!CancelUnknown(id) PROVE Proved!CancelUnknown(id)
  BY <1>2 DEF Proved!CancelUnknown, Book!CancelUnknown, Proved!CancelResult, Book!CancelResult
<1>3. ASSUME NEW id, NEW side, NEW type, NEW price, NEW quantity,
             Book!Submit(id, side, type, price, quantity)
      PROVE  Proved!Submit(id, side, type, price, quantity)
  BY <1>3 DEF Proved!Submit, Book!Submit
<1>4. Proved!RequestSides = Book!RequestSides /\ Proved!OrderTypes = Book!OrderTypes
  BY DEF Proved!RequestSides, Book!RequestSides, Proved!Sides, Book!Sides, Proved!OrderTypes,
         Book!OrderTypes
<1>5. CASE Book!Next
  <2>1. Proved!Next
    BY <1>1, <1>2, <1>3, <1>4, <1>5, SameMatchStep DEF Proved!Next, Book!Next
  <2> QED
    BY <2>1
<1>6. CASE UNCHANGED Book!vars
  BY <1>6 DEF Proved!vars, Book!vars
<1> QED
  BY <1>5, <1>6

\* The book is the one of OrderBook, and published as OrderBook says.
BookOK == Proved!IndInv /\ Proved!TopOfBookCurrent /\ BookPhase

LEMMA InitBook ==
  ASSUME Init
  PROVE  BookOK
<1>1. Book!Init /\ engine = "poll"
  BY DEF Init
<1>2. Proved!CurrentTopOfBook(book) = Book!CurrentTopOfBook(book)
  BY SameTop
<1>3. Proved!Init
  BY <1>1, <1>2 DEF Proved!Init, Book!Init, Proved!Sides, Book!Sides
<1>4. Proved!IndInv
  BY <1>3, BookAssumptions, Proved!InitInd
<1>5. Proved!TopOfBookCurrent
  BY <1>3 DEF Proved!Init, Proved!TopOfBookCurrent
<1>6. incoming = NoOrder
  BY <1>1 DEF Book!Init
<1> QED
  BY <1>1, <1>4, <1>5, <1>6 DEF BookOK, BookPhase
\* A message does not change once its call has arrived.
LEMMA MessagesStay ==
  ASSUME MessagesOK, [Next]_vars
  PROVE  \A d \in Arrived : message'[d] = message[d]
<1>1. ASSUME NEW c \in Calls, HandlerActs(c)
      PROVE  \A d \in Arrived : message'[d] = message[d]
  <2>1. CASE message' = message
    BY <2>1
  <2>2. ASSUME pc[c] = "new", NEW m, message' = [message EXCEPT ![c] = m]
        PROVE  \A d \in Arrived : message'[d] = message[d]
    BY <2>2 DEF MessagesOK, Arrived
  <2>3. CASE \E r \in Requests : SubmitOrder(c, r)
    BY <2>2, <2>3 DEF SubmitOrder, Arrives
  <2>4. CASE \E id \in OrderIds : CancelOrder(c, id)
    BY <2>2, <2>4 DEF CancelOrder, Arrives
  <2>5. CASE HandlerStep(c)
    BY <2>1, <2>5 DEF HandlerStep, Enqueue, EnqueueReturns, Respond
  <2> QED
    BY <1>1, <2>3, <2>4, <2>5 DEF HandlerActs
<1>2. CASE EngineStep
  BY <1>2, EngineMessages
<1>4. ASSUME NEW s \in Subscribers, SubscriberActs(s)
      PROVE  message' = message
  BY <1>4, SubscriberKeeps DEF handlerVars
<1>5. CASE UNCHANGED vars
  BY <1>5 DEF vars, handlerVars
<1> QED
  BY <1>1, <1>2, <1>4, <1>5, StepKinds

LEMMA NextBook ==
  ASSUME MessagesOK, BookOK, [Next]_vars
  PROVE  BookOK'
<1>1. [Proved!Next]_(Proved!vars)
  BY BookStep, SameStep
<1>2. Proved!IndInv' /\ Proved!TopOfBookCurrent'
  BY <1>1, BookAssumptions, Proved!NextInd, Proved!TopOfBookStep DEF BookOK
<1>3. BookPhase'
  <2>0. /\ engine # "match" => incoming = NoOrder
        /\ engine = "match" => message[current].op = "SUBMIT" /\ current \in Arrived
    BY DEF BookOK, BookPhase, MessagesOK, InProcess
  <2>1. CASE UNCHANGED <<engine, incoming, current>>
    <3>1. engine' = "match" => message'[current'].op = "SUBMIT"
      BY <2>0, <2>1, MessagesStay
    <3> QED
      BY <2>0, <2>1, <3>1 DEF BookPhase
  <2>3. ASSUME NEW c \in Calls, HandlerActs(c)
        PROVE  BookPhase'
    BY <2>1, <2>3, HandlerMessages DEF bookVars, engineVars
  <2>4. ASSUME NEW s \in Subscribers, SubscriberActs(s)
        PROVE  BookPhase'
    BY <2>1, <2>4, SubscriberKeeps DEF bookVars, engineVars
  <2>5. CASE UNCHANGED vars
    BY <2>1, <2>5 DEF vars, bookVars, engineVars
  <2>6. CASE Process
    <3>1. message' = message /\ current' = current
      BY <2>6 DEF Process, handlerVars
    <3>2. CASE message[current].op = "SUBMIT" /\ engine' = "match"
      BY <3>1, <3>2 DEF BookPhase
    <3>3. ASSUME NEW id, engine' = "reply", Book!CancelUnknown(id) \/ Book!CancelResting(id)
          PROVE  BookPhase'
      <4>1. incoming' = NoOrder
        BY <3>3 DEF Book!CancelUnknown, Book!CancelResting
      <4> QED
        BY <3>3, <4>1 DEF BookPhase
    <3> QED
      BY <2>6, <3>2, <3>3, ProcessKinds
  <2>7. CASE Match
    <3>1. UNCHANGED <<message, current>> /\ engine = "match"
      BY <2>7 DEF Match, handlerVars
    <3>2. engine' = IF incoming' = NoOrder THEN "reply" ELSE "match"
      BY <2>7 DEF Match
    <3> QED
      BY <2>0, <3>1, <3>2 DEF BookPhase
  <2>8. ASSUME EngineStep, ~Process, ~Match
        PROVE  BookPhase'
    <3>1. incoming' = incoming /\ engine' # "match" /\ engine # "match"
      BY <2>8 DEF EngineStep, Poll, FindNothing, TakeMessage, SetPromise, Publish,
              PublishTelemetry, bookVars
    <3> QED
      BY <2>0, <3>1 DEF BookPhase
  <2> QED
    BY <2>3, <2>4, <2>5, <2>6, <2>7, <2>8, StepKinds
<1> QED
  BY <1>2, <1>3 DEF BookOK

\* What the engine and the handlers rely on (MatchingEngine::run, process).
CoreInv == MessagesOK /\ BookOK

\* The inductive invariant of handlers, engine and book.
THEOREM CoreInvariant == Spec => []CoreInv
<1>1. Init => CoreInv
  BY InitMessages, InitBook DEF CoreInv
<1>2. CoreInv /\ [Next]_vars => CoreInv'
  BY NextMessages, NextBook DEF CoreInv
<1> QED
  BY <1>1, <1>2, PTL DEF Spec

\* Handlers, queue, engine and publishers together run the book as OrderBook
\* does: every step is one of its steps or leaves the book alone, however
\* calls interleave (MatchingEngine::process).
THEOREM ImplementsOrderBook == Spec => Book!Spec
<1>1. Init => Book!Init
  BY DEF Init
<1>2. CoreInv /\ [Next]_vars => [Book!Next]_(Book!vars)
  BY BookStep DEF CoreInv
<1> QED
  BY <1>1, <1>2, CoreInvariant, PTL DEF Spec, Book!Spec

-----------------------------------------------------------------------------
(* Streams                                                                 *)

SubscribersOK ==
  /\ at \in [Subscribers -> {"new", "open", "leaving", "gone"}]
  /\ DOMAIN queue = Subscribers /\ DOMAIN received = Subscribers /\ DOMAIN since = Subscribers
  /\ IsSeq(log) /\ IsSeq(ops)
  /\ \A s \in Subscribers :
       /\ IsSeq(queue[s]) /\ IsSeq(received[s])
       /\ since[s] \in [log : 0 .. Len(log), ops : 0 .. Len(ops)]
       /\ at[s] = "new" => queue[s] = <<>> /\ received[s] = <<>>

\* The events of an operation: none, or the last is the top of the book.
LEMMA EventsFacts ==
  ASSUME BookOK
  PROVE  /\ IsSeq(Events) /\ Len(Events) \in Nat
         /\ Events = <<>> <=> message[current].op = "CANCEL" /\ ~result.cancelSuccessful
         /\ Events # <<>> => Len(Events) > 0 /\ Events[Len(Events)] = <<"TopOfBook", topOfBook>>
<1> DEFINE f == [i \in DOMAIN trades |-> <<"Trade", trades[i]>>]
           e == Append(f, <<"TopOfBook", topOfBook>>)
<1>1. trades \in Seq(Proved!Trade)
  BY DEF BookOK, Proved!IndInv, Proved!TypeOK
<1>2. IsSeq(f)
  <2> DEFINE S == {<<"Trade", trades[i]>> : i \in DOMAIN trades}
  <2>1. f \in [1 .. Len(trades) -> S] /\ Len(trades) \in Nat
    BY <1>1
  <2> HIDE DEF f, S
  <2>2. f \in Seq(S)
    BY <2>1
  <2> QED
    BY <2>2 DEF IsSeq
<1> HIDE DEF f
<1>3. IsSeq(e) /\ Len(e) \in Nat /\ Len(e) > 0 /\ e[Len(e)] = <<"TopOfBook", topOfBook>>
  <2>1. /\ IsSeq(e) /\ Len(f) \in Nat /\ Len(e) = Len(f) + 1
        /\ e[Len(f) + 1] = <<"TopOfBook", topOfBook>>
    BY <1>2, SeqAppend
  <2> HIDE DEF e
  <2> QED
    BY <2>1
<1>4. e # <<>>
  BY <1>3, SeqEmpty
<1>5. Events = IF message[current].op = "CANCEL" /\ ~result.cancelSuccessful THEN <<>> ELSE e
  BY DEF Events, f
<1> HIDE DEF e
<1> QED
  BY <1>3, <1>4, <1>5, SeqEmpty

LEMMA DeliveredFacts ==
  ASSUME SubscribersOK, NEW who, NEW items, IsSeq(items)
  PROVE  /\ DOMAIN Delivered(who, items) = Subscribers
         /\ \A s \in Subscribers :
              /\ IsSeq(Delivered(who, items)[s])
              /\ s \in who /\ at[s] \in {"open", "leaving"} =>
                   Delivered(who, items)[s] = queue[s] \o items
              /\ s \notin who \/ at[s] \in {"new", "gone"} => Delivered(who, items)[s] = queue[s]
<1>1. \A s \in Subscribers : IsSeq(queue[s]) /\ IsSeq(queue[s] \o items)
  BY SeqConcat DEF SubscribersOK
<1> QED
  BY <1>1 DEF Delivered, Registered

LEMMA OneRecord == ASSUME NEW x PROVE IsSeq(<<x>>) /\ Len(<<x>>) = 1 /\ <<x>>[1] = x
<1>1. <<x>> \in Seq({x})
  OBVIOUS
<1> QED
  BY <1>1 DEF IsSeq

\* What the engine does to subscribers: nothing, or an item goes to some.
LEMMA EngineDelivers ==
  ASSUME CoreInv, SubscribersOK, EngineStep
  PROVE  /\ UNCHANGED <<at, received, since>>
         /\ \/ /\ Process /\ ops' = Append(ops, current) /\ UNCHANGED <<log, queue>>
            \/ /\ Publish /\ log' = log \o Events /\ queue' = Delivered(Streams, Events)
               /\ ops' = ops
            \/ /\ PublishTelemetry /\ record # None /\ UNCHANGED <<log, ops>>
               /\ queue' = Delivered(Viewers, <<TelemetryRecord>>)
            \/ ~Process /\ ~Publish /\ UNCHANGED <<log, queue, ops>>
<1>1. CASE Process
  BY <1>1 DEF Process, subscriberVars
<1>2. CASE Publish
  BY <1>2 DEF Publish
<1>3. CASE PublishTelemetry
  <2>1. engine = "telemetry" /\ ~Process /\ ~Publish
    BY <1>3 DEF PublishTelemetry, Process, Publish
  <2> QED
    BY <1>3, <2>1 DEF PublishTelemetry
<1>4. ASSUME EngineStep, ~Process, ~Publish, ~PublishTelemetry
      PROVE  UNCHANGED <<at, received, since, log, queue, ops>>
  BY <1>4 DEF EngineStep, Poll, FindNothing, TakeMessage, Match, SetPromise,
              subscriberVars
<1> QED
  BY <1>1, <1>2, <1>3, <1>4

\* A subscriber's step concerns that subscriber.
LEMMA SubscriberEffect ==
  ASSUME SubscribersOK, NEW s \in Subscribers, SubscriberActs(s)
  PROVE  /\ at' \in [Subscribers -> {"new", "open", "leaving", "gone"}]
         /\ DOMAIN queue' = Subscribers /\ DOMAIN received' = Subscribers /\ DOMAIN since' = Subscribers
         /\ \A t \in Subscribers : t # s => /\ at'[t] = at[t] /\ queue'[t] = queue[t]
                                            /\ received'[t] = received[t] /\ since'[t] = since[t]
         /\ \/ /\ at[s] = "new" /\ at'[s] = "open"
               /\ queue'[s] = queue[s] /\ received'[s] = received[s]
               /\ since'[s] = [log |-> Len(log), ops |-> Len(ops)]
            \/ /\ at[s] = "open" /\ at'[s] = "open" /\ queue[s] # <<>>
               /\ received'[s] = Append(received[s], Head(queue[s])) /\ queue'[s] = Tail(queue[s])
               /\ since'[s] = since[s]
            \/ /\ at[s] = "open" /\ at'[s] = "leaving" /\ received'[s] = received[s]
               /\ queue'[s] = queue[s] \/ (queue[s] # <<>> /\ queue'[s] = Tail(queue[s]))
               /\ since'[s] = since[s]
            \/ /\ at[s] = "leaving" /\ at'[s] = "gone" /\ received'[s] = received[s]
               /\ queue'[s] = <<>> /\ since'[s] = since[s]
<1>0. /\ at \in [Subscribers -> {"new", "open", "leaving", "gone"}]
      /\ DOMAIN queue = Subscribers /\ DOMAIN received = Subscribers /\ DOMAIN since = Subscribers
  BY DEF SubscribersOK
<1>1. CASE Subscribe(s)
  BY <1>0, <1>1 DEF Subscribe, Move
<1>2. CASE Forward(s)
  BY <1>0, <1>2 DEF Forward, Move
<1>3. CASE WriteFails(s)
  BY <1>0, <1>3 DEF WriteFails, Move
<1>4. CASE SeeCancelled(s)
  BY <1>0, <1>4 DEF SeeCancelled, Move
<1>5. CASE Unsubscribe(s)
  BY <1>0, <1>5 DEF Unsubscribe, Move
<1> QED
  BY <1>1, <1>2, <1>3, <1>4, <1>5 DEF SubscriberActs, SubscriberStep
\* Where a subscriber began stays within what there is now.
LEMMA SinceGrows ==
  ASSUME NEW m \in Nat, NEW n \in Nat, NEW m1 \in Nat, NEW n1 \in Nat, m <= m1, n <= n1,
         NEW x \in [log : 0 .. m, ops : 0 .. n]
  PROVE  x \in [log : 0 .. m1, ops : 0 .. n1]
OBVIOUS

LEMMA NextSubscribers ==
  ASSUME CoreInv, SubscribersOK, [Next]_vars
  PROVE  SubscribersOK'
<1>0. /\ IsSeq(log) /\ IsSeq(ops) /\ Len(log) \in Nat /\ Len(ops) \in Nat
      /\ \A s \in Subscribers :
           /\ IsSeq(queue[s]) /\ IsSeq(received[s])
           /\ since[s] \in [log : 0 .. Len(log), ops : 0 .. Len(ops)]
           /\ at[s] = "new" => queue[s] = <<>> /\ received[s] = <<>>
  BY SeqBasics DEF SubscribersOK
<1>1. CASE UNCHANGED <<at, queue, received, since, log, ops>>
  BY <1>1 DEF SubscribersOK
<1>3. ASSUME NEW c \in Calls, HandlerActs(c)
      PROVE  SubscribersOK'
  BY <1>1, <1>3, HandlerMessages DEF subscriberVars, engineVars, CoreInv
<1>4. CASE UNCHANGED vars
  BY <1>1, <1>4 DEF vars, subscriberVars, engineVars
<1>5. ASSUME NEW s \in Subscribers, SubscriberActs(s)
      PROVE  SubscribersOK'
  <2>1. UNCHANGED <<log, ops>>
    BY <1>5, SubscriberKeeps DEF engineVars
  <2>2. ASSUME NEW t \in Subscribers
        PROVE  /\ IsSeq(queue'[t]) /\ IsSeq(received'[t])
               /\ since'[t] \in [log : 0 .. Len(log), ops : 0 .. Len(ops)]
               /\ at'[t] = "new" => queue'[t] = <<>> /\ received'[t] = <<>>
    <3>1. CASE t # s
      BY <1>0, <1>5, <3>1, SubscriberEffect
    <3>2. CASE t = s
      <4>1. queue[s] # <<>> => IsSeq(Tail(queue[s])) /\ IsSeq(Append(received[s], Head(queue[s])))
        BY <1>0, SeqTail, SeqAppend
      <4>2. [log |-> Len(log), ops |-> Len(ops)] \in [log : 0 .. Len(log), ops : 0 .. Len(ops)]
        BY <1>0
      <4> QED
        BY <1>0, <1>5, <3>2, <4>1, <4>2, SeqEmpty, SubscriberEffect
    <3> QED
      BY <3>1, <3>2
  <2> QED
    BY <1>0, <1>5, <2>1, <2>2, SubscriberEffect DEF SubscribersOK
<1>6. CASE EngineStep
  <2>1. UNCHANGED <<at, received, since>>
    BY <1>6, EngineDelivers
  <2>2. CASE ops' = Append(ops, current) /\ UNCHANGED <<log, queue>>
    <3>1. IsSeq(ops') /\ Len(ops') = Len(ops) + 1
      BY <1>0, <2>2, SeqAppend
    <3>2. \A s \in Subscribers : since[s] \in [log : 0 .. Len(log), ops : 0 .. Len(ops')]
      BY <1>0, <3>1, SinceGrows
    <3> QED
      BY <1>0, <2>1, <2>2, <3>1, <3>2 DEF SubscribersOK
  <2>3. CASE log' = log \o Events /\ queue' = Delivered(Streams, Events) /\ ops' = ops
    <3>1. IsSeq(Events) /\ Len(Events) \in Nat
      BY EventsFacts DEF CoreInv
    <3>2. IsSeq(log') /\ Len(log') = Len(log) + Len(Events)
      BY <1>0, <2>3, <3>1, SeqConcat
    <3>3. \A s \in Subscribers : since[s] \in [log : 0 .. Len(log'), ops : 0 .. Len(ops)]
      BY <1>0, <3>1, <3>2, SinceGrows
    <3>4. /\ DOMAIN queue' = Subscribers
          /\ \A s \in Subscribers : /\ IsSeq(queue'[s])
                                    /\ at[s] = "new" => queue'[s] = <<>>
      BY <1>0, <2>3, <3>1, DeliveredFacts
    <3> QED
      BY <1>0, <2>1, <2>3, <3>2, <3>3, <3>4 DEF SubscribersOK
  <2>4. CASE UNCHANGED <<log, ops>> /\ queue' = Delivered(Viewers, <<TelemetryRecord>>)
    <3>1. /\ DOMAIN queue' = Subscribers
          /\ \A s \in Subscribers : /\ IsSeq(queue'[s])
                                    /\ at[s] = "new" => queue'[s] = <<>>
      BY <1>0, <2>4, OneRecord, DeliveredFacts
    <3> QED
      BY <1>0, <2>1, <2>4, <3>1 DEF SubscribersOK
  <2> QED
    BY <1>1, <1>6, <2>1, <2>2, <2>3, <2>4, EngineDelivers
<1> QED
  BY <1>3, <1>4, <1>5, <1>6, StepKinds

\* What a stream has been sent, given what it should be sent.
InStep(a, r, q, x) ==
  /\ a = "open" => r \o q = x
  /\ a \in {"leaving", "gone"} => IsPrefix(r, x)

GaplessSoFar == \A s \in Streams : InStep(at[s], received[s], queue[s], Suffix(s))

LEMMA SuffixFacts ==
  ASSUME SubscribersOK, NEW s \in Subscribers
  PROVE  /\ since[s].log \in 0 .. Len(log) /\ Len(log) \in Nat
         /\ IsSeq(Suffix(s)) /\ Len(Suffix(s)) = Len(log) - since[s].log
         /\ Len(Suffix(s)) > 0 => Suffix(s)[Len(Suffix(s))] = log[Len(log)]
<1>1. IsSeq(log) /\ Len(log) \in Nat /\ since[s].log \in 0 .. Len(log)
  BY SeqBasics DEF SubscribersOK
<1> DEFINE m == since[s].log + 1
           n == Len(log)
<1>2. m \in 1 .. n + 1 /\ n \in 0 .. n /\ m <= n + 1 /\ n - m + 1 = n - since[s].log
  BY <1>1
<1>3. /\ IsSeq(SubSeq(log, m, n)) /\ Len(SubSeq(log, m, n)) = n - m + 1
      /\ \A i \in 1 .. n - m + 1 : SubSeq(log, m, n)[i] = log[m + i - 1]
  BY <1>1, <1>2, SeqSub
<1>4. Suffix(s) = SubSeq(log, m, n)
  BY DEF Suffix
<1>5. ASSUME n - m + 1 > 0
      PROVE  SubSeq(log, m, n)[n - m + 1] = log[n]
  <2>1. m \in Int /\ n \in Int
    BY <1>1
  <2> HIDE DEF m, n
  <2>2. n - m + 1 \in 1 .. n - m + 1 /\ m + (n - m + 1) - 1 = n
    BY <1>5, <2>1
  <2> QED
    BY <1>3, <2>2
<1> HIDE DEF m, n
<1>6. Len(SubSeq(log, m, n)) = n - since[s].log
  BY <1>2, <1>3
<1>7. Len(SubSeq(log, m, n)) > 0 => SubSeq(log, m, n)[Len(SubSeq(log, m, n))] = log[n]
  BY <1>3, <1>5
<1> QED
  BY <1>1, <1>3, <1>4, <1>6, <1>7 DEF n

LEMMA NextGapless ==
  ASSUME CoreInv, SubscribersOK, SubscribersOK', GaplessSoFar, [Next]_vars
  PROVE  GaplessSoFar'
<1>0. Streams \subseteq Subscribers
  BY DEF Subscribers
<1>1. CASE UNCHANGED <<at, queue, received, since, log>>
  BY <1>1 DEF GaplessSoFar, Suffix
<1>3. ASSUME NEW c \in Calls, HandlerActs(c)
      PROVE  GaplessSoFar'
  BY <1>1, <1>3, HandlerMessages DEF subscriberVars, CoreInv
<1>4. CASE UNCHANGED vars
  BY <1>1, <1>4 DEF vars, subscriberVars
<1>5. ASSUME NEW t \in Subscribers, SubscriberActs(t)
      PROVE  GaplessSoFar'
  <2>1. log' = log
    BY <1>5, SubscriberKeeps
  <2>2. ASSUME NEW s \in Streams
        PROVE  InStep(at'[s], received'[s], queue'[s], SubSeq(log, since'[s].log + 1, Len(log)))
    <3>0. /\ InStep(at[s], received[s], queue[s], SubSeq(log, since[s].log + 1, Len(log)))
          /\ s \in Subscribers /\ IsSeq(received[s]) /\ IsSeq(queue[s]) /\ IsSeq(log)
          /\ at[s] = "new" => queue[s] = <<>> /\ received[s] = <<>>
      BY <1>0 DEF GaplessSoFar, Suffix, SubscribersOK
    <3>1. CASE s # t
      BY <1>5, <3>0, <3>1, SubscriberEffect
    <3>2. CASE s = t /\ at[s] = "new"
      <4>1. /\ at'[s] = "open" /\ queue'[s] = <<>> /\ received'[s] = <<>>
            /\ since'[s] = [log |-> Len(log), ops |-> Len(ops)]
        BY <1>5, <3>0, <3>2, SubscriberEffect
      <4>2. Len(log) \in Nat
        BY <3>0, SeqBasics
      <4>3. SubSeq(log, Len(log) + 1, Len(log)) = <<>>
        BY <4>2, SubSeqEmpty
      <4> QED
        BY <4>1, <4>3, SeqEmpty, ConcatNothing DEF InStep
    <3>3. CASE s = t /\ at[s] = "open" /\ at'[s] = "open"
      <4>1. /\ received'[s] = Append(received[s], Head(queue[s])) /\ queue'[s] = Tail(queue[s])
            /\ since'[s] = since[s] /\ queue[s] # <<>>
        BY <1>5, <3>3, SubscriberEffect
      <4>2. received'[s] \o queue'[s] = received[s] \o queue[s]
        BY <3>0, <4>1, ConcatShift
      <4> QED
        BY <3>0, <3>3, <4>1, <4>2 DEF InStep
    <3>4. CASE s = t /\ at[s] = "open" /\ at'[s] # "open"
      <4>1. received'[s] = received[s] /\ since'[s] = since[s] /\ at'[s] = "leaving"
        BY <1>5, <3>4, SubscriberEffect
      <4>2. IsPrefix(received[s], received[s] \o queue[s])
        BY <3>0, PrefixOfConcat
      <4> QED
        BY <3>0, <3>4, <4>1, <4>2 DEF InStep
    <3>5. CASE s = t /\ at[s] \in {"leaving", "gone"}
      <4>1. received'[s] = received[s] /\ since'[s] = since[s] /\ at'[s] = "gone"
        BY <1>5, <3>5, SubscriberEffect
      <4> QED
        BY <3>0, <3>5, <4>1 DEF InStep
    <3>6. at[s] \in {"new", "open", "leaving", "gone"}
      BY <3>0 DEF SubscribersOK
    <3> QED
      BY <3>1, <3>2, <3>3, <3>4, <3>5, <3>6
  <2> QED
    BY <2>1, <2>2 DEF GaplessSoFar, Suffix
<1>6. CASE EngineStep
  <2>1. UNCHANGED <<at, received, since>>
    BY <1>6, EngineDelivers
  <2>2. CASE log' = log \o Events /\ queue' = Delivered(Streams, Events)
    <3>1. IsSeq(Events)
      BY EventsFacts DEF CoreInv
    <3>2. ASSUME NEW s \in Streams
          PROVE  InStep(at[s], received[s], queue'[s],
                        SubSeq(log', since[s].log + 1, Len(log')))
      <4>0. /\ InStep(at[s], received[s], queue[s], SubSeq(log, since[s].log + 1, Len(log)))
            /\ s \in Subscribers /\ IsSeq(received[s]) /\ IsSeq(queue[s]) /\ IsSeq(log)
            /\ at[s] \in {"new", "open", "leaving", "gone"}
        BY <1>0 DEF GaplessSoFar, Suffix, SubscribersOK
      <4> DEFINE x == SubSeq(log, since[s].log + 1, Len(log))
      <4>1. since[s].log \in 0 .. Len(log) /\ IsSeq(x)
        BY <4>0, SuffixFacts DEF Suffix
      <4>2. SubSeq(log', since[s].log + 1, Len(log')) = x \o Events
        BY <2>2, <3>1, <4>0, <4>1, SuffixConcat
      <4> HIDE DEF x
      <4>3. InStep(at[s], received[s], queue[s], x)
        BY <4>0 DEF x
      <4>4. CASE at[s] = "open"
        <5>1. queue'[s] = queue[s] \o Events
          BY <2>2, <3>1, <3>2, <4>0, <4>4, DeliveredFacts
        <5>2. received[s] \o queue[s] = x
          BY <4>3, <4>4 DEF InStep
        <5>3. received[s] \o queue'[s] = x \o Events
          <6>1. queue'[s] = Cat(queue[s], Events) /\ Cat(received[s], queue[s]) = x
            BY <5>1, <5>2 DEF Cat
          <6>2. Cat(received[s], queue'[s]) = Cat(x, Events)
            BY <3>1, <4>0, <6>1, ConcatGrows
          <6> QED
            BY <6>2 DEF Cat
        <5> QED
          BY <4>2, <4>4, <5>3 DEF InStep
      <4>5. CASE at[s] \in {"leaving", "gone"}
        <5>1. IsPrefix(received[s], x)
          BY <4>3, <4>5 DEF InStep
        <5>2. IsPrefix(received[s], x \o Events)
          BY <3>1, <4>0, <4>1, <5>1, PrefixOfConcat
        <5> QED
          BY <4>2, <4>5, <5>2 DEF InStep
      <4> QED
        BY <4>0, <4>4, <4>5 DEF InStep
    <3> QED
      BY <2>1, <3>2 DEF GaplessSoFar, Suffix
  <2>3. CASE log' = log /\ queue' = Delivered(Viewers, <<TelemetryRecord>>)
    <3>1. ASSUME NEW s \in Streams
          PROVE  queue'[s] = queue[s]
      <4>1. s \notin Viewers /\ s \in Subscribers
        BY <1>0, SubscribersAssumption
      <4> QED
        BY <2>3, <4>1, OneRecord, DeliveredFacts
    <3> QED
      BY <2>1, <2>3, <3>1 DEF GaplessSoFar, Suffix
  <2> QED
    BY <1>1, <1>6, <2>1, <2>2, <2>3, EngineDelivers
<1> QED
  BY <1>3, <1>4, <1>5, <1>6, StepKinds

LEMMA InitStreams ==
  ASSUME Init
  PROVE  SubscribersOK /\ GaplessSoFar
<1>1. /\ at = [s \in Subscribers |-> "new"]
      /\ queue = [s \in Subscribers |-> <<>>] /\ received = [s \in Subscribers |-> <<>>]
      /\ since = [s \in Subscribers |-> [log |-> 0, ops |-> 0]]
      /\ log = <<>> /\ ops = <<>>
  BY DEF Init
<1>2. [log |-> 0, ops |-> 0] \in [log : 0 .. Len(log), ops : 0 .. Len(ops)]
  BY <1>1
<1>3. SubscribersOK
  BY <1>1, <1>2, SeqEmpty DEF SubscribersOK
<1>4. GaplessSoFar
  BY <1>1 DEF GaplessSoFar, InStep, Subscribers
<1> QED
  BY <1>3, <1>4

-----------------------------------------------------------------------------
(* What has been published last                                            *)

\* The operation in hand has changed the top of the book or may do so, and has
\* not published it.
Unpublished ==
  \/ engine = "match"
  \/ /\ engine \in {"reply", "publish"}
     /\ ~(message[current].op = "CANCEL" /\ ~result.cancelSuccessful)

LogCurrent ==
  \/ Unpublished
  \/ log = <<>>
  \/ log[Len(log)] = <<"TopOfBook", topOfBook>>

LEMMA NextLogCurrent ==
  ASSUME CoreInv, SubscribersOK, LogCurrent, [Next]_vars
  PROVE  LogCurrent'
<1>0. /\ engine \in InProcess => message'[current] = message[current]
      /\ engine = "match" => message[current].op = "SUBMIT"
  BY MessagesStay DEF CoreInv, MessagesOK, BookOK, BookPhase
<1>1. CASE UNCHANGED <<engine, current, result, log, topOfBook>>
  <2>1. Unpublished => Unpublished'
    BY <1>0, <1>1 DEF Unpublished, InProcess
  <2> QED
    BY <1>1, <2>1 DEF LogCurrent
<1>3. ASSUME NEW c \in Calls, HandlerActs(c)
      PROVE  LogCurrent'
  BY <1>1, <1>3, HandlerMessages DEF engineVars, bookVars, CoreInv
<1>4. ASSUME NEW s \in Subscribers, SubscriberActs(s)
      PROVE  LogCurrent'
  BY <1>1, <1>4, SubscriberKeeps DEF engineVars, bookVars
<1>5. CASE UNCHANGED vars
  BY <1>1, <1>5 DEF vars, engineVars, bookVars
<1>6. CASE Process
  <2>0. engine = "begin" /\ UNCHANGED <<log, message, current>>
    BY <1>6 DEF Process, handlerVars
  <2>1. CASE engine' = "match"
    BY <2>1 DEF LogCurrent, Unpublished
  <2>2. ASSUME NEW id, engine' = "reply", Book!CancelUnknown(id)
        PROVE  LogCurrent'
    <3>1. topOfBook' = topOfBook
      BY <2>2 DEF Book!CancelUnknown
    <3> QED
      BY <2>0, <3>1 DEF LogCurrent, Unpublished
  <2>3. ASSUME NEW id, engine' = "reply", Book!CancelResting(id)
        PROVE  LogCurrent'
    <3>1. result'.cancelSuccessful
      BY <2>3 DEF Book!CancelResting, Book!CancelResult
    <3> QED
      BY <2>3, <3>1 DEF LogCurrent, Unpublished
  <2> QED
    BY <1>6, <2>1, <2>2, <2>3, ProcessKinds DEF CoreInv
<1>7. CASE Match
  <2>1. engine' \in {"match", "reply"} /\ message'[current'].op = "SUBMIT"
    BY <1>0, <1>7 DEF Match, handlerVars
  <2> QED
    BY <2>1 DEF LogCurrent, Unpublished
<1>8. CASE SetPromise
  <2>1. engine = "reply" /\ engine' = "publish" /\ UNCHANGED <<message, current, result, log, topOfBook>>
    BY <1>8 DEF SetPromise, bookVars
  <2> QED
    BY <2>1 DEF LogCurrent, Unpublished
<1>9. CASE Publish
  <2>1. engine = "publish" /\ log' = log \o Events /\ topOfBook' = topOfBook
    BY <1>9 DEF Publish, bookVars
  <2>2. IsSeq(log) /\ Len(log) \in Nat /\ IsSeq(Events) /\ Len(Events) \in Nat
    BY SeqBasics, EventsFacts DEF SubscribersOK, CoreInv
  <2>3. CASE Events = <<>>
    <3>1. ~Unpublished
      BY <2>1, <2>3, EventsFacts DEF Unpublished, CoreInv
    <3>2. log' = log
      BY <2>1, <2>2, <2>3, ConcatNothing
    <3> QED
      BY <2>1, <3>1, <3>2 DEF LogCurrent
  <2>4. CASE Events # <<>>
    <3>1. Len(Events) > 0 /\ Events[Len(Events)] = <<"TopOfBook", topOfBook>>
      BY <2>4, EventsFacts DEF CoreInv
    <3>2. log'[Len(log')] = Events[Len(Events)]
      <4>1. /\ Len(log') = Len(log) + Len(Events)
            /\ \A i \in 1 .. Len(Events) : log'[Len(log) + i] = Events[i]
        BY <2>1, <2>2, SeqConcat
      <4>2. Len(Events) \in 1 .. Len(Events)
        BY <2>2, <3>1
      <4> QED
        BY <4>1, <4>2
    <3> QED
      BY <2>1, <3>1, <3>2 DEF LogCurrent
  <2> QED
    BY <2>3, <2>4
<1>10. ASSUME EngineStep, ~Process, ~Match, ~SetPromise, ~Publish
       PROVE  LogCurrent'
  <2>1. /\ engine \notin {"match", "reply", "publish"} /\ UNCHANGED <<log, topOfBook>>
    BY <1>10 DEF EngineStep, Poll, FindNothing, TakeMessage, PublishTelemetry, bookVars
  <2> QED
    BY <2>1 DEF LogCurrent, Unpublished
<1> QED
  BY <1>3, <1>4, <1>5, <1>6, <1>7, <1>8, <1>9, <1>10, StepKinds

\* What the streams of market data rely on (MarketDataPublisher).
StreamInv == CoreInv /\ SubscribersOK /\ GaplessSoFar /\ LogCurrent

\* The inductive invariant of the streams.
THEOREM StreamInvariant == Spec => []StreamInv
<1>1. Init => StreamInv
  <2>1. Init => LogCurrent
    BY DEF Init, LogCurrent
  <2>2. Init => CoreInv
    BY InitMessages, InitBook DEF CoreInv
  <2> QED
    BY <2>1, <2>2, InitStreams DEF StreamInv
<1>2. StreamInv /\ [Next]_vars => StreamInv'
  <2>1. StreamInv /\ [Next]_vars => CoreInv'
    BY NextMessages, NextBook DEF StreamInv, CoreInv
  <2> QED
    BY <2>1, NextSubscribers, NextGapless, NextLogCurrent DEF StreamInv
<1> QED
  BY <1>1, <1>2, PTL DEF Spec

\* A stream gets every event published since it subscribed, once and in order,
\* whenever others come, go or fall behind (MarketDataPublisher::publish and
\* the loops that drain a subscriber's queue).
THEOREM StreamsAlwaysGapless == Spec => []StreamGapless
<1>1. StreamInv => StreamGapless
  BY DEF StreamInv, GaplessSoFar, InStep, StreamGapless
<1> QED
  BY <1>1, StreamInvariant, PTL

\* A stream that has been drained ends with the top of the book as it is: the
\* operations that publish nothing do not change it (OrderBook::cancel,
\* MatchingEngine::process).
THEOREM DrainedStreamsCurrent == Spec => []DrainedStreamCurrent
<1>1. StreamInv => DrainedStreamCurrent
  <2> SUFFICES ASSUME StreamInv, NEW s \in Streams, Published, at[s] = "open", queue[s] = <<>>,
                      received[s] # <<>>
               PROVE  Last(received[s]) = <<"TopOfBook", Book!CurrentTopOfBook(book)>>
    BY DEF DrainedStreamCurrent
  <2>0. SubscribersOK /\ s \in Subscribers /\ IsSeq(received[s])
    BY DEF StreamInv, SubscribersOK, Subscribers
  <2>1. received[s] = Suffix(s)
    <3>1. received[s] \o queue[s] = Suffix(s)
      BY DEF StreamInv, GaplessSoFar, InStep
    <3>2. received[s] \o <<>> = received[s]
      BY <2>0, ConcatNothing
    <3> QED
      BY <3>1, <3>2
  <2>2. Len(received[s]) > 0 /\ Len(received[s]) \in Nat
    BY <2>0, SeqBasics
  <2>3. Last(received[s]) = log[Len(log)] /\ Len(log) > 0
    BY <2>0, <2>1, <2>2, SuffixFacts DEF Last
  <2>4. log # <<>>
    BY <2>3, SeqEmpty
  <2>5. log[Len(log)] = <<"TopOfBook", topOfBook>>
    BY <2>4 DEF StreamInv, LogCurrent, Unpublished, Published
  <2>6. topOfBook = Proved!CurrentTopOfBook(book)
    BY DEF StreamInv, CoreInv, BookOK, BookPhase, Published, Proved!TopOfBookCurrent
  <2> QED
    BY <2>3, <2>5, <2>6, SameTop
<1> QED
  BY <1>1, StreamInvariant, PTL
-----------------------------------------------------------------------------
(* Telemetry                                                               *)

\* The operation in hand has been begun and has no record published yet.
Underway(e) == e \in {"match", "reply", "publish", "telemetry"}

\* Operations finished, and records published, by now.
Done(o, e) == Len(o) - (IF Underway(e) THEN 1 ELSE 0)
Sent(n, r) == n - (IF r = None THEN 0 ELSE 1)

\* The record begun by the operation in hand.
RecordOK ==
  /\ seq \in Nat
  /\ record # None => Underway(engine) /\ record = [seq |-> seq, call |-> current]
  /\ Underway(engine) => Len(ops) > 0 /\ current = ops[Len(ops)]

LEMMA NextRecord ==
  ASSUME CoreInv, SubscribersOK, RecordOK, [Next]_vars
  PROVE  RecordOK'
<1>1. CASE UNCHANGED engineVars
  BY <1>1 DEF RecordOK, Underway, engineVars
<1>3. ASSUME NEW c \in Calls, HandlerActs(c)
      PROVE  RecordOK'
  BY <1>1, <1>3, HandlerMessages DEF CoreInv
<1>4. ASSUME NEW s \in Subscribers, SubscriberActs(s)
      PROVE  RecordOK'
  BY <1>1, <1>4, SubscriberKeeps
<1>5. CASE UNCHANGED vars
  BY <1>1, <1>5 DEF vars
<1>6. CASE Process
  <2>1. /\ ops' = Append(ops, current) /\ current' = current
        /\ seq' = (IF HasSubscribers THEN seq + 1 ELSE seq)
        /\ record' = (IF HasSubscribers THEN [seq |-> seq + 1, call |-> current] ELSE None)
        /\ Underway(engine')
    BY <1>6 DEF Process, Underway
  <2>2. Len(ops') > 0 /\ ops'[Len(ops')] = current
    BY <2>1, SeqAppend DEF SubscribersOK
  <2> QED
    BY <2>1, <2>2 DEF RecordOK
<1>7. CASE Match \/ SetPromise \/ Publish
  <2>1. Underway(engine) /\ Underway(engine') /\ UNCHANGED <<ops, current, seq, record>>
    BY <1>7 DEF Match, SetPromise, Publish, Underway
  <2> QED
    BY <2>1 DEF RecordOK
<1>8. CASE PublishTelemetry
  <2>1. record' = None /\ ~Underway(engine') /\ seq' = seq
    BY <1>8 DEF PublishTelemetry, Underway
  <2> QED
    BY <2>1 DEF RecordOK
<1>9. ASSUME EngineStep, ~Process, ~Match, ~SetPromise, ~Publish, ~PublishTelemetry
      PROVE  RecordOK'
  <2>1. ~Underway(engine) /\ ~Underway(engine') /\ UNCHANGED <<record, seq>>
    BY <1>9 DEF EngineStep, Poll, FindNothing, TakeMessage, Underway
  <2> QED
    BY <2>1 DEF RecordOK
<1> QED
  BY <1>3, <1>4, <1>5, <1>6, <1>7, <1>8, <1>9, StepKinds

\* Records rs are those of the last operations of the first d in o, the last of
\* them with number n.
LastOf(rs, o, d, n) ==
  /\ Len(rs) <= d
  /\ \A i \in 1 .. Len(rs) : /\ rs[i].call = o[d - Len(rs) + i]
                             /\ rs[i].seq = n - Len(rs) + i

\* They begin with the operation after the first m, or with the m-th.
Begins(rs, m, d) == Len(rs) \in {d - m, d - m + 1}

Records(v) == received[v] \o queue[v]

ViewerOK(v) ==
  /\ Begins(Records(v), since[v].ops, Done(ops, engine))
  /\ LastOf(Records(v), ops, Done(ops, engine), Sent(seq, record))
  /\ Underway(engine) /\ record = None => since[v].ops = Len(ops)

ViewersOK == \A v \in Viewers : at[v] = "open" => ViewerOK(v)

\* A record is added, of the operation that is done next.
LEMMA LastOfAppend ==
  ASSUME NEW rs, IsSeq(rs), NEW o, IsSeq(o), NEW n \in Int, NEW d \in Int, d + 1 = Len(o),
         LastOf(rs, o, d, n), NEW r, r.call = o[d + 1], r.seq = n + 1
  PROVE  LastOf(Append(rs, r), o, d + 1, n + 1)
<1> DEFINE a == Append(rs, r)
<1>1. /\ IsSeq(a) /\ Len(rs) \in Nat /\ Len(a) = Len(rs) + 1 /\ a[Len(rs) + 1] = r
      /\ \A i \in 1 .. Len(rs) : a[i] = rs[i]
  BY SeqAppend
<1> HIDE DEF a
<1>2. Len(rs) <= d
  BY DEF LastOf
<1>3. ASSUME NEW i \in 1 .. Len(a)
      PROVE  a[i].call = o[d + 1 - Len(a) + i] /\ a[i].seq = n + 1 - Len(a) + i
  <2>1. CASE i = Len(rs) + 1
    <3>1. d + 1 - Len(a) + i = d + 1 /\ n + 1 - Len(a) + i = n + 1
      BY <1>1, <2>1
    <3> QED
      BY <1>1, <2>1, <3>1
  <2>2. CASE i # Len(rs) + 1
    <3>1. i \in 1 .. Len(rs) /\ d + 1 - Len(a) + i = d - Len(rs) + i
          /\ n + 1 - Len(a) + i = n - Len(rs) + i
      BY <1>1, <2>2
    <3>2. rs[i].call = o[d - Len(rs) + i] /\ rs[i].seq = n - Len(rs) + i
      BY <3>1 DEF LastOf
    <3> QED
      BY <1>1, <3>1, <3>2
  <2> QED
    BY <2>1, <2>2
<1>4. Len(a) <= d + 1
  BY <1>1, <1>2
<1>5. LastOf(a, o, d + 1, n + 1)
  BY <1>3, <1>4 DEF LastOf
<1> QED
  BY <1>5 DEF a

LEMMA BeginsAppend ==
  ASSUME NEW rs, IsSeq(rs), NEW m \in Int, NEW d \in Int, NEW r, Begins(rs, m, d)
  PROVE  Begins(Append(rs, r), m, d + 1)
<1> DEFINE a == Append(rs, r)
<1>1. Len(a) = Len(rs) + 1 /\ Len(rs) \in Nat
  BY SeqAppend
<1> HIDE DEF a
<1>2. Begins(a, m, d + 1)
  BY <1>1 DEF Begins
<1> QED
  BY <1>2 DEF a

\* More operations are begun: the records so far are of the same ones.
LEMMA LastOfGrows ==
  ASSUME NEW rs, IsSeq(rs), NEW o, IsSeq(o), NEW n, NEW c, LastOf(rs, o, Len(o), n)
  PROVE  LastOf(rs, Append(o, c), Len(o), n)
<1>1. Len(rs) \in Nat /\ Len(o) \in Nat /\ Len(rs) <= Len(o)
  BY SeqBasics DEF LastOf
<1>2. \A i \in 1 .. Len(o) : Append(o, c)[i] = o[i]
  BY SeqAppend
<1>3. ASSUME NEW i \in 1 .. Len(rs)
      PROVE  Append(o, c)[Len(o) - Len(rs) + i] = o[Len(o) - Len(rs) + i]
  <2>1. Len(o) - Len(rs) + i \in 1 .. Len(o)
    BY <1>1
  <2> QED
    BY ONLY <1>2, <2>1
<1> QED
  BY <1>3 DEF LastOf

LEMMA ARecord == ASSUME NEW x, NEW y PROVE [seq |-> x, call |-> y] # None
<1>1. "seq" \in DOMAIN [seq |-> x, call |-> y] /\ DOMAIN None = {}
  BY DEF None
<1> QED
  BY <1>1

\* What a viewer has been sent, when it is its own step.
LEMMA ViewerStep ==
  ASSUME CoreInv, SubscribersOK, RecordOK, ViewersOK, NEW s \in Subscribers, SubscriberActs(s),
         NEW v \in Viewers, at'[v] = "open"
  PROVE  ViewerOK(v)'
<1>0. /\ v \in Subscribers /\ IsSeq(received[v]) /\ IsSeq(queue[v]) /\ IsSeq(ops)
      /\ Len(ops) \in Nat /\ at[v] \in {"new", "open", "leaving", "gone"}
      /\ at[v] = "new" => queue[v] = <<>> /\ received[v] = <<>>
  BY SeqBasics DEF SubscribersOK, Subscribers
<1>1. UNCHANGED <<engine, current, record, seq, ops>>
  BY SubscriberKeeps DEF engineVars
<1>2. at[v] = "open" => ViewerOK(v)
  BY DEF ViewersOK
<1>3. ASSUME at[v] = "open", since'[v] = since[v], Records(v)' = Records(v)
      PROVE  ViewerOK(v)'
  BY <1>1, <1>2, <1>3 DEF ViewerOK
<1>4. CASE v # s
  BY <1>0, <1>3, <1>4, SubscriberEffect DEF Records
<1>5. CASE v = s /\ at[v] = "open"
  <2>1. /\ received'[v] = Append(received[v], Head(queue[v])) /\ queue'[v] = Tail(queue[v])
        /\ since'[v] = since[v] /\ queue[v] # <<>>
    BY <1>0, <1>5, SubscriberEffect
  <2>2. Records(v)' = Records(v)
    BY <1>0, <2>1, ConcatShift DEF Records
  <2> QED
    BY <1>3, <1>5, <2>1, <2>2
<1>6. CASE v = s /\ at[v] # "open"
  <2>1. /\ queue'[v] = <<>> /\ received'[v] = <<>>
        /\ since'[v] = [log |-> Len(log), ops |-> Len(ops)]
    BY <1>0, <1>6, SubscriberEffect
  <2>2. Records(v)' = <<>> /\ Len(<<>>) = 0 /\ since'[v].ops = Len(ops)
    BY <2>1, SeqEmpty, ConcatNothing DEF Records
  <2>3. /\ Done(ops, engine) \in Nat
        /\ 0 \in {Done(ops, engine) - Len(ops), Done(ops, engine) - Len(ops) + 1}
    BY <1>0 DEF RecordOK, Done
  <2>4. Begins(<<>>, Len(ops), Done(ops, engine))
    BY <2>2, <2>3 DEF Begins
  <2>5. LastOf(<<>>, ops, Done(ops, engine), Sent(seq, record))
    BY <2>2, <2>3 DEF LastOf
  <2> QED
    BY <1>1, <2>2, <2>4, <2>5 DEF ViewerOK
<1> QED
  BY <1>4, <1>5, <1>6

LEMMA ViewerEngine ==
  ASSUME CoreInv, SubscribersOK, RecordOK, ViewersOK, EngineStep,
         NEW v \in Viewers, at'[v] = "open"
  PROVE  ViewerOK(v)'
<1>1. at[v] = "open" /\ since'[v] = since[v] /\ received'[v] = received[v]
  BY EngineDelivers
<1>2. ViewerOK(v)
  BY <1>1 DEF ViewersOK
<1>0. /\ v \in Subscribers /\ v \notin Streams /\ IsSeq(received[v]) /\ IsSeq(queue[v]) /\ IsSeq(ops)
      /\ Len(ops) \in Nat /\ IsSeq(Records(v)) /\ Len(Records(v)) \in Nat
      /\ since[v].ops \in 0 .. Len(ops)
  <2>1. /\ v \in Subscribers /\ v \notin Streams /\ IsSeq(received[v]) /\ IsSeq(queue[v])
        /\ IsSeq(ops) /\ Len(ops) \in Nat /\ since[v].ops \in 0 .. Len(ops)
    BY SeqBasics, SubscribersAssumption DEF SubscribersOK, Subscribers
  <2>2. IsSeq(Records(v))
    BY <2>1, SeqConcat DEF Records
  <2> QED
    BY <2>1, <2>2, SeqBasics
<1>3. CASE Process
  <2>1. HasSubscribers
    BY <1>1 DEF HasSubscribers, Registered
  <2>2. /\ engine = "begin" /\ ops' = Append(ops, current) /\ queue'[v] = queue[v]
        /\ seq' = seq + 1 /\ record' = [seq |-> seq + 1, call |-> current]
        /\ Underway(engine') /\ ~Underway(engine)
    BY <1>3, <2>1 DEF Process, Underway, subscriberVars
  <2>3. record = None /\ record' # None /\ seq \in Nat
    BY <2>2, ARecord DEF RecordOK
  <2>4. Sent(seq', record') = seq /\ Sent(seq, record) = seq
    BY <2>2, <2>3 DEF Sent
  <2>5. Len(ops') = Len(ops) + 1
    BY <1>0, <2>2, SeqAppend
  <2>6. Done(ops', engine') = Len(ops) /\ Done(ops, engine) = Len(ops)
    BY <1>0, <2>2, <2>5 DEF Done
  <2>7. Records(v)' = Records(v)
    BY <1>1, <2>2 DEF Records
  <2>8. LastOf(Records(v), ops', Len(ops), seq)
    BY <1>0, <1>2, <2>2, <2>4, <2>6, LastOfGrows DEF ViewerOK
  <2>9. Begins(Records(v), since[v].ops, Len(ops))
    BY <1>2, <2>6 DEF ViewerOK
  <2> QED
    BY <1>1, <2>3, <2>4, <2>6, <2>7, <2>8, <2>9 DEF ViewerOK
<1>4. CASE PublishTelemetry /\ record # None
  <2> DEFINE r == TelemetryRecord
  <2>1. /\ engine = "telemetry" /\ engine' = "poll" /\ UNCHANGED <<ops, seq>> /\ record' = None
        /\ queue' = Delivered(Viewers, <<r>>) /\ Underway(engine) /\ ~Underway(engine')
    BY <1>4 DEF PublishTelemetry, Underway
  <2>2. r.seq = seq /\ r.call = ops[Len(ops)]
    BY <1>4, <2>1 DEF RecordOK, TelemetryRecord
  <2> HIDE DEF r
  <2>3. queue'[v] = queue[v] \o <<r>>
    <3>1. IsSeq(<<r>>)
      BY OneRecord
    <3>2. Delivered(Viewers, <<r>>)[v] = queue[v] \o <<r>>
      BY <1>0, <1>1, <3>1, DeliveredFacts
    <3> QED
      BY <2>1, <3>2
  <2>4. Records(v)' = Append(Records(v), r)
    <3>1. IsSeq(<<r>>)
      BY OneRecord
    <3>2. queue'[v] = Cat(queue[v], <<r>>) /\ Cat(received[v], queue[v]) = Records(v)
      BY <2>3 DEF Cat, Records
    <3>3. Cat(received[v], queue'[v]) = Cat(Records(v), <<r>>)
      BY <1>0, <3>1, <3>2, ConcatGrows
    <3>4. Records(v) \o <<r>> = Append(Records(v), r)
      BY <1>0 DEF IsSeq
    <3> QED
      BY <1>1, <3>3, <3>4 DEF Cat, Records
  <2> DEFINE d == Len(ops) - 1
             n == seq - 1
  <2>5. /\ Done(ops, engine) = d /\ Done(ops', engine') = d + 1 /\ d \in Int /\ d + 1 = Len(ops)
        /\ Sent(seq, record) = n /\ Sent(seq', record') = n + 1 /\ n \in Int /\ n + 1 = seq
    BY <1>0, <1>4, <2>1 DEF Done, Sent, RecordOK
  <2> HIDE DEF d, n
  <2>6. LastOf(Records(v), ops, d, n) /\ Begins(Records(v), since[v].ops, d)
    BY <1>2, <2>5 DEF ViewerOK
  <2>7. r.call = ops[d + 1] /\ r.seq = n + 1
    BY <2>2, <2>5
  <2>8. LastOf(Append(Records(v), r), ops, d + 1, n + 1)
    BY <1>0, <2>5, <2>6, <2>7, LastOfAppend
  <2>9. Begins(Append(Records(v), r), since[v].ops, d + 1)
    <3>1. since[v].ops \in Int
      BY <1>0
    <3> QED
      BY <1>0, <2>5, <2>6, <3>1, BeginsAppend
  <2> QED
    BY <1>1, <2>1, <2>4, <2>5, <2>8, <2>9 DEF ViewerOK
<1>5. CASE PublishTelemetry /\ record = None
  <2>1. /\ engine = "telemetry" /\ engine' = "poll" /\ UNCHANGED <<ops, seq>> /\ record' = None
        /\ queue' = queue /\ Underway(engine) /\ ~Underway(engine')
    BY <1>5 DEF PublishTelemetry, Underway
  <2>2. Records(v)' = Records(v)
    BY <1>1, <2>1 DEF Records
  <2>3. Done(ops, engine) = Len(ops) - 1 /\ Done(ops', engine') = Len(ops)
    BY <1>0, <2>1 DEF Done
  <2>4. since[v].ops = Len(ops) /\ Len(Records(v)) = 0
    BY <1>0, <1>2, <1>5, <2>1, <2>3 DEF ViewerOK, Begins
  <2>5. Begins(Records(v), Len(ops), Len(ops))
    BY <1>0, <2>4 DEF Begins
  <2>6. LastOf(Records(v), ops, Len(ops), Sent(seq', record'))
    BY <1>0, <2>4 DEF LastOf
  <2> QED
    BY <1>1, <2>1, <2>2, <2>3, <2>4, <2>5, <2>6 DEF ViewerOK
<1>6. ASSUME EngineStep, ~Process, ~PublishTelemetry
      PROVE  ViewerOK(v)'
  <2>1. queue'[v] = queue[v]
    <3>1. CASE Publish
      BY <1>0, <3>1, EventsFacts, DeliveredFacts DEF Publish, CoreInv
    <3> QED
      BY <1>6, <3>1, EngineDelivers
  <2>2. /\ Underway(engine') <=> Underway(engine)
        /\ UNCHANGED <<ops, seq, record>>
    BY <1>6 DEF EngineStep, Poll, FindNothing, TakeMessage, Match, SetPromise, Publish,
                Underway
  <2>3. Records(v)' = Records(v)
    BY <1>1, <2>1 DEF Records
  <2>4. Done(ops', engine') = Done(ops, engine)
    BY <2>2 DEF Done
  <2> QED
    BY <1>1, <1>2, <2>2, <2>3, <2>4 DEF ViewerOK
<1> QED
  BY <1>3, <1>4, <1>5, <1>6

LEMMA NextViewers ==
  ASSUME CoreInv, SubscribersOK, RecordOK, ViewersOK, [Next]_vars
  PROVE  ViewersOK'
<1>1. CASE UNCHANGED <<at, queue, received, since, ops, engine, seq, record>>
  BY <1>1 DEF ViewersOK, ViewerOK, Records
<1>3. ASSUME NEW c \in Calls, HandlerActs(c)
      PROVE  ViewersOK'
  BY <1>1, <1>3, HandlerMessages DEF subscriberVars, engineVars, CoreInv
<1>4. CASE UNCHANGED vars
  BY <1>1, <1>4 DEF vars, subscriberVars, engineVars
<1>5. ASSUME NEW s \in Subscribers, SubscriberActs(s)
      PROVE  ViewersOK'
  BY <1>5, ViewerStep DEF ViewersOK
<1>6. CASE EngineStep
  BY <1>6, ViewerEngine DEF ViewersOK
<1> QED
  BY <1>3, <1>4, <1>5, <1>6, StepKinds

\* The levels of a side are finitely many: each has an order with an id of its own.
LEMMA LevelsFinite ==
  ASSUME BookOK, NEW s \in Book!Sides
  PROVE  IsFiniteSet(DOMAIN book[s])
<1> DEFINE f == [p \in DOMAIN book[s] |-> book[s][p][1].orderId]
<1>0. s \in Proved!Sides
  BY DEF Proved!Sides, Book!Sides
<1>1. ASSUME NEW p \in DOMAIN book[s]
      PROVE  /\ book[s][p][1].orderId \in OrderIds
             /\ orderIndex[book[s][p][1].orderId] = [side |-> s, price |-> p]
  <2>1. book[s][p] \in Seq(Proved!Resting) /\ book[s][p] # <<>>
    BY <1>0, <1>1 DEF BookOK, Proved!IndInv, Proved!TypeOK, Proved!BookTypeOK, Proved!NoEmptyLevel,
                      Proved!Levels
  <2>2. 1 \in DOMAIN book[s][p] /\ book[s][p][1] \in Proved!Resting
    BY <2>1
  <2>3. orderIndex[book[s][p][1].orderId] = [side |-> s, price |-> p]
    BY <1>0, <1>1, <2>2 DEF BookOK, Proved!IndInv, Proved!IndexExact, Proved!ListsIndexed,
                            Proved!Levels
  <2> QED
    BY <2>2, <2>3 DEF Proved!Resting
<1>2. f \in Injection(DOMAIN book[s], OrderIds)
  <2>1. f \in [DOMAIN book[s] -> OrderIds]
    BY <1>1
  <2>2. ASSUME NEW p \in DOMAIN book[s], NEW q \in DOMAIN book[s], f[p] = f[q]
        PROVE  p = q
    <3>1. [side |-> s, price |-> p] = [side |-> s, price |-> q]
      BY <1>1, <2>2
    <3> QED
      BY <3>1
  <2> QED
    BY <2>1, <2>2 DEF Injection, IsInjective
<1>3. IsFiniteSet(OrderIds)
  BY ArrivedFinite, FS_Interval DEF OrderIds
<1> HIDE DEF f
<1> QED
  BY <1>2, <1>3, FS_Injection

LEMMA SameCardinality == ASSUME NEW S PROVE Book!Cardinality(S) = Cardinality(S)
BY DEF Book!Cardinality, Cardinality

\* The two ways to the best level of a side agree: begin() of the map, and the
\* first of the ranked levels.
LEMMA BestFirst ==
  ASSUME NEW side, IsFiniteSet(DOMAIN side), NEW s
  PROVE  Book!TopOfSide(side, s) =
           IF DOMAIN side = {} THEN <<>>
           ELSE <<Book!RankedPrice(side, s, 1), Book!LevelQuantity(side[Book!RankedPrice(side, s, 1)])>>
<1>1. ASSUME NEW p \in DOMAIN side
      PROVE  Book!Cardinality({q \in DOMAIN side : Book!Better(s, q, p)}) = 1 - 1
               <=> \A q \in DOMAIN side : ~Book!Better(s, q, p)
  <2> DEFINE B == {q \in DOMAIN side : Book!Better(s, q, p)}
  <2>1. B \in SUBSET DOMAIN side
    OBVIOUS
  <2>2. IsFiniteSet(B)
    BY <2>1, FS_Subset
  <2>3. B = {} <=> \A q \in DOMAIN side : ~Book!Better(s, q, p)
    OBVIOUS
  <2> HIDE DEF B
  <2>4. Cardinality(B) = 1 - 1 <=> B = {}
    BY <2>2, FS_EmptySet
  <2> QED
    BY <2>3, <2>4, SameCardinality DEF B
<1> DEFINE P(p) == \A q \in DOMAIN side : ~Book!Better(s, q, p)
           Q(p) == Book!Cardinality({q \in DOMAIN side : Book!Better(s, q, p)}) = 1 - 1
           first == CHOOSE p \in DOMAIN side : P(p)
<1>2. Book!RankedPrice(side, s, 1) = CHOOSE p \in DOMAIN side : Q(p)
  BY Zenon DEF Book!RankedPrice
<1>3. Book!TopOfSide(side, s) =
        IF DOMAIN side = {} THEN <<>> ELSE <<first, Book!LevelQuantity(side[first])>>
  BY Zenon DEF Book!TopOfSide
<1>4. \A p \in DOMAIN side : P(p) <=> Q(p)
  BY <1>1
<1> HIDE DEF P, Q
<1>5. first = CHOOSE p \in DOMAIN side : Q(p)
  BY <1>4, Zenon
<1> HIDE DEF first
<1> QED
  BY <1>2, <1>3, <1>5, Zenon

\* A telemetry record agrees with itself.
Agrees(r) ==
  r.events # <<>> =>
    \A s \in Book!Sides :
      Last(r.events)[2][s] =
        IF r.depth[s] = <<>> THEN <<>> ELSE <<r.depth[s][1].price, r.depth[s][1].quantity>>

LEMMA TelemetryAgrees ==
  ASSUME BookOK, engine = "telemetry"
  PROVE  Agrees(TelemetryRecord)
<1> DEFINE r == TelemetryRecord
<1>1. r.events = Events /\ r.depth = Book!Depth(book, 10)
  BY DEF TelemetryRecord
<1> HIDE DEF r
<1> SUFFICES ASSUME Events # <<>>, NEW s \in Book!Sides
             PROVE  Last(Events)[2][s] =
                      IF r.depth[s] = <<>> THEN <<>>
                      ELSE <<r.depth[s][1].price, r.depth[s][1].quantity>>
  BY <1>1 DEF Agrees, r
<1>2. Last(Events)[2] = Book!CurrentTopOfBook(book)
  <2>1. Events[Len(Events)] = <<"TopOfBook", topOfBook>>
    BY EventsFacts
  <2>2. topOfBook = Proved!CurrentTopOfBook(book)
    BY DEF BookOK, BookPhase, Proved!TopOfBookCurrent
  <2> QED
    BY <2>1, <2>2, SameTop DEF Last
<1>3. Last(Events)[2][s] = Book!TopOfSide(book[s], s)
  BY <1>2 DEF Book!CurrentTopOfBook
<1> DEFINE D == DOMAIN book[s]
           n == Book!Cardinality(D)
           m == IF n < 10 THEN n ELSE 10
           lev(i) == [price |-> Book!RankedPrice(book[s], s, i),
                      quantity |-> Book!LevelQuantity(book[s][Book!RankedPrice(book[s], s, i)]),
                      orders |-> Len(book[s][Book!RankedPrice(book[s], s, i)])]
<1>4. IsFiniteSet(D) /\ n \in Nat /\ (n = 0 <=> D = {})
  BY LevelsFinite, FS_CardinalityType, FS_EmptySet, SameCardinality
<1>5. r.depth[s] = [i \in 1 .. m |-> lev(i)]
  <2>1. Book!Depth(book, 10)[s] = [i \in 1 .. m |-> lev(i)]
    BY Zenon DEF Book!Depth
  <2> QED
    BY ONLY <1>1, <2>1, Zenon
<1>6. CASE D = {}
  <2>1. r.depth[s] = <<>>
    BY <1>4, <1>5, <1>6
  <2> QED
    BY <1>3, <1>6, <2>1 DEF Book!TopOfSide
<1>7. CASE D # {}
  <2>1. 1 \in 1 .. m
    BY <1>4, <1>7
  <2>2. r.depth[s] # <<>>
    <3>1. 1 \in DOMAIN r.depth[s]
      BY <1>5, <2>1
    <3> QED
      BY <3>1
  <2>3. r.depth[s][1] = lev(1)
    BY <1>5, <2>1
  <2>4. /\ r.depth[s][1].price = Book!RankedPrice(book[s], s, 1)
        /\ r.depth[s][1].quantity = Book!LevelQuantity(book[s][Book!RankedPrice(book[s], s, 1)])
    BY <2>3
  <2> QED
    BY <1>3, <1>4, <1>7, <2>2, <2>4, BestFirst
<1> QED
  BY <1>6, <1>7

RecordsAgree == \A v \in Viewers : \A i \in 1 .. Len(queue[v]) : Agrees(queue[v][i])

LEMMA NextAgree ==
  ASSUME CoreInv, SubscribersOK, RecordsAgree, [Next]_vars
  PROVE  RecordsAgree'
<1>0. \A v \in Viewers : v \in Subscribers /\ IsSeq(queue[v]) /\ Len(queue[v]) \in Nat
  BY SeqBasics DEF SubscribersOK, Subscribers
<1>1. CASE queue' = queue
  BY <1>1 DEF RecordsAgree
<1>3. ASSUME NEW c \in Calls, HandlerActs(c)
      PROVE  RecordsAgree'
  BY <1>1, <1>3, HandlerMessages DEF subscriberVars, CoreInv
<1>4. CASE UNCHANGED vars
  BY <1>1, <1>4 DEF vars, subscriberVars
<1>5. ASSUME NEW s \in Subscribers, SubscriberActs(s)
      PROVE  RecordsAgree'
  <2>1. ASSUME NEW v \in Viewers
        PROVE  \A i \in 1 .. Len(queue'[v]) : Agrees(queue'[v][i])
    <3>0. \A i \in 1 .. Len(queue[v]) : Agrees(queue[v][i])
      BY DEF RecordsAgree
    <3>1. CASE queue'[v] = queue[v]
      BY <3>0, <3>1
    <3>2. CASE queue'[v] = <<>>
      <4>1. 1 .. Len(queue'[v]) = {}
        BY <3>2, SeqEmpty
      <4> QED
        BY <4>1
    <3>3. CASE queue[v] # <<>> /\ queue'[v] = Tail(queue[v])
      <4>1. /\ Len(queue[v]) \in Nat \ {0} /\ Len(queue'[v]) = Len(queue[v]) - 1
            /\ \A i \in 1 .. Len(queue[v]) - 1 : queue'[v][i] = queue[v][i + 1]
        BY <1>0, <3>3, SeqTail
      <4>2. ASSUME NEW i \in 1 .. Len(queue'[v])
            PROVE  i \in 1 .. Len(queue[v]) - 1 /\ i + 1 \in 1 .. Len(queue[v])
        BY <4>1
      <4> QED
        BY <3>0, <4>1, <4>2
    <3> QED
      BY <1>0, <1>5, <3>1, <3>2, <3>3, SubscriberEffect
  <2> QED
    BY <2>1 DEF RecordsAgree
<1>6. CASE EngineStep
  <2>1. CASE Publish
    <3>1. ASSUME NEW v \in Viewers
          PROVE  queue'[v] = queue[v]
      <4>1. v \notin Streams /\ v \in Subscribers
        BY <1>0, SubscribersAssumption
      <4> QED
        BY <2>1, <4>1, EventsFacts, DeliveredFacts DEF Publish, CoreInv
    <3> QED
      BY <3>1 DEF RecordsAgree
  <2>2. CASE PublishTelemetry /\ record # None
    <3> DEFINE r == TelemetryRecord
    <3>1. engine = "telemetry" /\ queue' = Delivered(Viewers, <<r>>)
      BY <2>2 DEF PublishTelemetry
    <3>2. Agrees(r)
      BY <3>1, TelemetryAgrees DEF CoreInv
    <3> HIDE DEF r
    <3>3. IsSeq(<<r>>) /\ Len(<<r>>) = 1 /\ <<r>>[1] = r
      BY OneRecord
    <3>4. ASSUME NEW v \in Viewers
          PROVE  \A i \in 1 .. Len(queue'[v]) : Agrees(queue'[v][i])
      <4>0. \A i \in 1 .. Len(queue[v]) : Agrees(queue[v][i])
        BY DEF RecordsAgree
      <4>1. queue'[v] = queue[v] \/ queue'[v] = queue[v] \o <<r>>
        <5>1. at[v] \in {"new", "open", "leaving", "gone"} /\ v \in Subscribers
          BY <1>0 DEF SubscribersOK
        <5> QED
          BY <3>1, <3>3, <5>1, DeliveredFacts
      <4>2. CASE queue'[v] = queue[v]
        BY <4>0, <4>2
      <4>3. CASE queue'[v] = queue[v] \o <<r>>
        <5>1. /\ Len(queue'[v]) = Len(queue[v]) + 1 /\ Len(queue[v]) \in Nat
              /\ \A i \in 1 .. Len(queue[v]) : queue'[v][i] = queue[v][i]
              /\ \A i \in 1 .. 1 : queue'[v][Len(queue[v]) + i] = <<r>>[i]
          BY <1>0, <3>3, <4>3, SeqConcat
        <5>2. queue'[v][Len(queue[v]) + 1] = r
          BY <3>3, <5>1
        <5> QED
          BY <3>2, <4>0, <5>1, <5>2
      <4> QED
        BY <4>1, <4>2, <4>3
    <3> QED
      BY <3>4 DEF RecordsAgree
  <2>3. CASE PublishTelemetry /\ record = None
    BY <1>1, <2>3 DEF PublishTelemetry
  <2> QED
    BY <1>1, <1>6, <2>1, <2>2, <2>3, EngineDelivers
<1> QED
  BY <1>3, <1>4, <1>5, <1>6, StepKinds

\* What the viewers of telemetry rely on (TelemetryPublisher).
TelemetryInv == StreamInv /\ RecordOK /\ ViewersOK /\ RecordsAgree

\* The inductive invariant of telemetry.
THEOREM TelemetryInvariant == Spec => []TelemetryInv
<1>1. Init => RecordOK /\ ViewersOK /\ RecordsAgree
  <2> SUFFICES ASSUME Init PROVE RecordOK /\ ViewersOK /\ RecordsAgree
    OBVIOUS
  <2>1. RecordOK
    BY DEF Init, RecordOK, Underway
  <2>2. ViewersOK
    BY DEF Init, ViewersOK, Subscribers
  <2>3. \A v \in Viewers : queue[v] = <<>>
    BY DEF Init, Subscribers
  <2>4. 1 .. Len(<<>>) = {}
    BY SeqEmpty
  <2>5. RecordsAgree
    BY <2>3, <2>4 DEF RecordsAgree
  <2> QED
    BY <2>1, <2>2, <2>5
<1>2. StreamInv /\ RecordOK /\ ViewersOK /\ RecordsAgree /\ [Next]_vars
        => RecordOK' /\ ViewersOK' /\ RecordsAgree'
  BY NextRecord, NextViewers, NextAgree DEF StreamInv
<1> QED
  BY <1>1, <1>2, StreamInvariant, PTL DEF Spec, TelemetryInv

LEMMA ViewersComplete ==
  ASSUME TelemetryInv
  PROVE  TelemetryComplete
<1> SUFFICES ASSUME NEW v \in Viewers, at[v] = "open"
             PROVE  /\ \E first \in {since[v].ops, since[v].ops + 1} \ {0} :
                         [i \in DOMAIN Records(v) |-> Records(v)[i].call]
                           = SubSeq(ops, first, Done(ops, engine))
                    /\ \A i \in DOMAIN Records(v) : Records(v)[i].seq = Records(v)[1].seq + i - 1
  BY DEF TelemetryComplete, Records, Done, Underway
<1> DEFINE R == Records(v)
           n == Len(R)
           d == Done(ops, engine)
           k == Sent(seq, record)
           m == since[v].ops
           first == d - n + 1
<1>1. IsSeq(R) /\ IsSeq(ops) /\ Len(ops) \in Nat /\ m \in 0 .. Len(ops)
  <2>1. /\ v \in Subscribers /\ IsSeq(received[v]) /\ IsSeq(queue[v])
        /\ IsSeq(ops) /\ m \in 0 .. Len(ops)
    BY DEF TelemetryInv, StreamInv, SubscribersOK, Subscribers
  <2> QED
    BY <2>1, SeqBasics, SeqConcat DEF Records
<1>2. n \in Nat /\ DOMAIN R = 1 .. n
  BY <1>1, SeqBasics
<1>3. d \in 0 .. Len(ops) /\ k \in Int
  BY <1>1 DEF TelemetryInv, RecordOK, Done, Sent
<1>4. Begins(R, m, d) /\ LastOf(R, ops, d, k)
  BY DEF TelemetryInv, ViewersOK, ViewerOK
<1> HIDE DEF R, d, k, m
<1>5. /\ n \in {d - m, d - m + 1} /\ n <= d
      /\ \A i \in 1 .. n : R[i].call = ops[d - n + i] /\ R[i].seq = k - n + i
  BY <1>4 DEF Begins, LastOf
<1>6. /\ first \in {m, m + 1} \ {0} /\ first \in 1 .. Len(ops) + 1 /\ d \in 0 .. Len(ops)
      /\ first <= d + 1 /\ d - first + 1 = n
  <2>1. n \in {d - m, d - m + 1} /\ n <= d
    BY <1>5
  <2>2. m \in Nat /\ n \in Nat /\ d \in Nat /\ d <= Len(ops) /\ Len(ops) \in Nat
    BY <1>1, <1>2, <1>3
  <2> HIDE DEF n
  <2>3. first \in {m, m + 1}
    BY ONLY <2>1, <2>2 DEF first
  <2>4. first \in Nat \ {0} /\ first <= d + 1 /\ d - first + 1 = n
    BY ONLY <2>1, <2>2 DEF first
  <2> HIDE DEF first
  <2> QED
    BY <2>2, <2>3, <2>4
<1>7. \A i \in 1 .. n : first + i - 1 = d - n + i
  BY <1>2, <1>3
<1>8. /\ IsSeq(SubSeq(ops, first, d)) /\ Len(SubSeq(ops, first, d)) = n
      /\ \A i \in 1 .. n : SubSeq(ops, first, d)[i] = ops[first + i - 1]
  <2> HIDE DEF first, n
  <2> QED
    BY <1>1, <1>6, SeqSub
<1> DEFINE c == [i \in DOMAIN R |-> R[i].call]
<1>9. IsSeq(c) /\ Len(c) = n /\ \A i \in 1 .. n : c[i] = R[i].call
  <2> DEFINE S == {R[i].call : i \in 1 .. n}
  <2>1. c \in [1 .. n -> S]
    BY <1>2
  <2>2. \A i \in 1 .. n : c[i] = R[i].call
    BY <1>2
  <2> HIDE DEF c, S, n
  <2>3. c \in Seq(S) /\ Len(c) = n
    BY <1>2, <2>1
  <2> QED
    BY <2>2, <2>3 DEF IsSeq
<1>10. c = SubSeq(ops, first, d)
  <2> HIDE DEF c, n, first
  <2> DEFINE b == SubSeq(ops, first, d)
  <2>1. \A i \in 1 .. n : c[i] = b[i]
    BY <1>5, <1>7, <1>8, <1>9
  <2> HIDE DEF b
  <2>2. IsSeq(b) /\ Len(b) = n
    BY <1>8 DEF b
  <2>3. c = b
    BY <1>9, <2>1, <2>2, SeqSame
  <2> QED
    BY <2>3 DEF b
<1>11. \A i \in DOMAIN R : R[i].seq = R[1].seq + i - 1
  <2> SUFFICES ASSUME NEW i \in 1 .. n PROVE R[i].seq = R[1].seq + i - 1
    BY <1>2
  <2>1. 1 \in 1 .. n
    BY <1>2
  <2>2. R[i].seq = k - n + i /\ R[1].seq = k - n + 1
    BY <1>5, <2>1
  <2> HIDE DEF n
  <2> QED
    BY <1>2, <1>3, <2>2
<1> QED
  <2>1. \E f \in {m, m + 1} \ {0} : c = SubSeq(ops, f, d)
    BY <1>6, <1>10
  <2> QED
    BY <1>11, <2>1 DEF R, m, d

\* A viewer of telemetry misses no operation begun since it subscribed, its
\* records are numbered without a gap, and each agrees with itself, although
\* hasSubscribers() is read long before the record is published
\* (MatchingEngine::process, TelemetryPublisher).
THEOREM TelemetryAlwaysFaithful == Spec => []TelemetryFaithful
<1>1. TelemetryInv => DepthMatchesTopOfBook
  <2> SUFFICES ASSUME TelemetryInv, NEW v \in Viewers, NEW i \in DOMAIN queue[v]
               PROVE  Agrees(queue[v][i])
    BY DEF DepthMatchesTopOfBook, Agrees
  <2>1. IsSeq(queue[v])
    BY DEF TelemetryInv, StreamInv, SubscribersOK, Subscribers
  <2> QED
    BY <2>1, SeqBasics DEF TelemetryInv, RecordsAgree
<1> QED
  BY <1>1, ViewersComplete, TelemetryInvariant, PTL DEF TelemetryFaithful

Share(e, id) ==
  IF e[1] = "Trade" /\ id \in {e[2].aggressorOrderId, e[2].restingOrderId} THEN e[2].quantity ELSE 0

Shares(events, id) == [i \in DOMAIN events |-> Share(events[i], id)]

TradedOver(it, id) ==
  it = [s \in SUBSET DOMAIN log |->
          IF s = {} THEN 0 ELSE it[s \ {Pick(s)}] + Share(log[Pick(s)], id)]

\* The sum of Exchange's Traded is a sum along the published events.
LEMMA TradedIs ==
  ASSUME NEW id
  PROVE  Traded(id) = (CHOOSE it : TradedOver(it, id))[DOMAIN log]
BY Zenon DEF Traded, FoldSeq, FoldFunction, FoldFunctionOnSet, MapThenFoldSet, TradedOver, Share, Pick

RestingOver(it, list, id) ==
  it = [s \in SUBSET DOMAIN list |->
          IF s = {} THEN 0
          ELSE it[s \ {Pick(s)}] + (IF list[Pick(s)].orderId = id THEN list[Pick(s)].quantity ELSE 0)]

\* The sum of RestingQuantity is a sum along the level the index names.
LEMMA RestingIs ==
  ASSUME NEW id, id \in DOMAIN orderIndex
  PROVE  LET list == book[orderIndex[id].side][orderIndex[id].price]
         IN RestingQuantity(id) = (CHOOSE it : RestingOver(it, list, id))[DOMAIN list]
BY Zenon DEF RestingQuantity, FoldSeq, FoldFunction, FoldFunctionOnSet, MapThenFoldSet, RestingOver, Pick

\* What an event may hold.
EventOK(e) == e[1] = "Trade" => e[2].quantity \in Nat

\* What has been traded of an order is the total of its shares of the events.
LEMMA TradedIsTotal ==
  ASSUME IsSeq(log), \A i \in DOMAIN log : EventOK(log[i]), NEW id
  PROVE  Shares(log, id) \in Seq(Nat) /\ Traded(id) = Total(Shares(log, id))
<1> DEFINE S == DOMAIN log
           f == Shares(log, id)
<1>1. S = 1 .. Len(log) /\ Len(log) \in Nat
  BY SeqBasics
<1>2. \A i \in S : Share(log[i], id) \in Nat
  BY DEF Share, EventOK
<1>3. f \in [S -> Nat] /\ \A i \in S : f[i] = Share(log[i], id)
  BY <1>2 DEF Shares
<1> HIDE DEF f
<1>4. f \in Seq(Nat) /\ DOMAIN f = S
  BY <1>1, <1>3
<1>5. IsFiniteSet(S)
  BY <1>1, FS_Interval
<1> HIDE DEF S
<1>6. ASSUME NEW it PROVE TradedOver(it, id) <=> CountOver(f, S, it)
  <2>1. ASSUME NEW s \in SUBSET S, s # {} PROVE f[Pick(s)] = Share(log[Pick(s)], id)
    <3>1. Pick(s) \in S
      BY <1>5, <2>1, PickFacts
    <3> QED
      BY <1>3, <3>1
  <2>2. [s \in SUBSET S |-> IF s = {} THEN 0 ELSE it[s \ {Pick(s)}] + Share(log[Pick(s)], id)]
        = [s \in SUBSET S |-> IF s = {} THEN 0 ELSE it[s \ {Pick(s)}] + f[Pick(s)]]
    BY <2>1
  <2> QED
    BY <2>2, Zenon DEF TradedOver, CountOver, S
<1>7. \E it : TradedOver(it, id)
  BY <1>3, <1>5, <1>6, CountExists
<1> DEFINE j == CHOOSE it : TradedOver(it, id)
<1>8. TradedOver(j, id)
  BY <1>7, Zenon
<1>9. Traded(id) = j[S]
  BY TradedIs DEF S
<1> HIDE DEF j
<1>10. Counts(f, S, j)
  BY <1>6, <1>8 DEF CountOver, Counts
<1>11. j[S] = Sum(f, S)
  BY <1>3, <1>5, <1>10, SumLocal
<1> QED
  BY <1>4, <1>9, <1>11 DEF Total, f

\* The entry of `id' in its level says how much of it rests.
LEMMA LevelSum ==
  ASSUME NEW id \in DOMAIN orderIndex, NEW list, list = book[orderIndex[id].side][orderIndex[id].price],
         DOMAIN list = 1 .. Len(list), Len(list) \in Nat,
         \A j \in DOMAIN list : list[j].quantity \in Nat,
         NEW i \in DOMAIN list, list[i].orderId = id,
         \A j \in DOMAIN list : list[j].orderId = id => i = j
  PROVE  RestingQuantity(id) = list[i].quantity
<1> DEFINE S == DOMAIN list
           part(j) == IF list[j].orderId = id THEN list[j].quantity ELSE 0
           f == [j \in S |-> part(j)]
<1>1. S = 1 .. Len(list) /\ Len(list) \in Nat
  OBVIOUS
<1>2. \A j \in S : part(j) \in Nat
  OBVIOUS
<1>3. f \in [S -> Nat] /\ \A j \in S : f[j] = part(j)
  BY <1>2
<1>31. f[i] = list[i].quantity /\ \A j \in S \ {i} : f[j] = 0
  BY <1>3
<1> HIDE DEF f
<1>4. f \in Seq(Nat) /\ DOMAIN f = S
  BY <1>1, <1>3
<1>5. IsFiniteSet(S)
  BY <1>1, FS_Interval
<1> HIDE DEF S
<1>6. ASSUME NEW it PROVE RestingOver(it, list, id) <=> CountOver(f, S, it)
  <2>1. ASSUME NEW s \in SUBSET S, s # {} PROVE f[Pick(s)] = part(Pick(s))
    <3>1. Pick(s) \in S
      BY <1>5, <2>1, PickFacts
    <3> QED
      BY <1>3, <3>1
  <2>2. [s \in SUBSET S |-> IF s = {} THEN 0 ELSE it[s \ {Pick(s)}] + part(Pick(s))]
        = [s \in SUBSET S |-> IF s = {} THEN 0 ELSE it[s \ {Pick(s)}] + f[Pick(s)]]
    BY <2>1
  <2> QED
    BY <2>2, Zenon DEF RestingOver, CountOver, S
<1>7. \E it : RestingOver(it, list, id)
  BY <1>3, <1>5, <1>6, CountExists
<1> DEFINE j == CHOOSE it : RestingOver(it, list, id)
<1>8. RestingOver(j, list, id)
  BY <1>7, Zenon
<1>9. RestingQuantity(id) = j[S]
  BY RestingIs, Zenon DEF S
<1> HIDE DEF j
<1>10. Counts(f, S, j)
  <2>1. CountOver(f, S, j)
    BY <1>6, <1>8
  <2> HIDE DEF part
  <2> QED
    BY <2>1 DEF CountOver, Counts
<1>11. j[S] = Sum(f, S)
  BY <1>3, <1>5, <1>10, SumLocal
<1>12. Total(f) = f[i]
  BY <1>31, <1>4, TotalSingle DEF S
<1> QED
  BY <1>4, <1>9, <1>11, <1>12, <1>31 DEF Total

\* What rests of an order by the index and the lists.
RestsAsIndexed ==
  \A id : /\ id \notin DOMAIN orderIndex => RestingQuantity(id) = 0
          /\ \A q : Proved!RestsWith(book, id, q) => RestingQuantity(id) = q

\* As an order is in the book at most once, the sum has at most one term.
LEMMA RestingQuantityIs == BookOK => RestsAsIndexed
<1> SUFFICES ASSUME BookOK, NEW id
             PROVE  /\ id \notin DOMAIN orderIndex => RestingQuantity(id) = 0
                    /\ \A q : Proved!RestsWith(book, id, q) => RestingQuantity(id) = q
  BY DEF RestsAsIndexed
<1>1. id \notin DOMAIN orderIndex => RestingQuantity(id) = 0
  BY DEF RestingQuantity
<1>2. ASSUME NEW q, Proved!RestsWith(book, id, q) PROVE RestingQuantity(id) = q
  <2>0. Proved!IndInv /\ Proved!TypeOK /\ Proved!BookTypeOK /\ Proved!ListsIndexed
    BY DEF BookOK, Proved!IndInv, Proved!TypeOK, Proved!IndexExact
  <2>1. PICK s \in Proved!Sides : \E p \in DOMAIN book[s] : \E i \in DOMAIN book[s][p] :
          book[s][p][i].orderId = id /\ book[s][p][i].quantity = q
    BY <1>2 DEF Proved!RestsWith
  <2>2. PICK p \in DOMAIN book[s] : \E i \in DOMAIN book[s][p] :
          book[s][p][i].orderId = id /\ book[s][p][i].quantity = q
    BY <2>1
  <2>3. PICK i \in DOMAIN book[s][p] : book[s][p][i].orderId = id /\ book[s][p][i].quantity = q
    BY <2>2
  <2> DEFINE list == book[s][p]
  <2>4. p \in Proved!Levels(s)
    BY DEF Proved!Levels
  <2>5. list \in Seq(Proved!Resting)
    BY <2>0, <2>4 DEF Proved!BookTypeOK
  <2>6. /\ id \in DOMAIN orderIndex /\ orderIndex[id] = [side |-> s, price |-> p]
        /\ \A j \in DOMAIN list : list[j].orderId = id => i = j
    BY <2>0, <2>3, <2>4, Zenon DEF Proved!ListsIndexed
  <2>7. list = book[orderIndex[id].side][orderIndex[id].price]
    BY <2>6
  <2>8. i \in DOMAIN list /\ list[i].orderId = id /\ list[i].quantity = q
    BY <2>3
  <2> HIDE DEF list
  <2>9. DOMAIN list = 1 .. Len(list) /\ Len(list) \in Nat /\ \A j \in DOMAIN list : list[j].quantity \in Nat
    <3>1. \A j \in DOMAIN list : list[j] \in Proved!Resting
      BY <2>5
    <3>2. DOMAIN list = 1 .. Len(list) /\ Len(list) \in Nat
      BY <2>5
    <3> QED
      BY <3>1, <3>2 DEF Proved!Resting
  <2> QED
    BY <2>6, <2>7, <2>8, <2>9, LevelSum
<1> QED
  BY <1>1, <1>2

\* The same after a step.
LEMMA RestingQuantityNext == BookOK' => RestsAsIndexed'
<1>1. (BookOK => RestsAsIndexed)'
  BY RestingQuantityIs, PTL
<1> QED
  BY <1>1

\* What rests of an order is nothing exactly when it is not in the index.
LEMMA RestingFacts ==
  ASSUME BookOK, NEW id
  PROVE  /\ RestingQuantity(id) \in Nat
         /\ RestingQuantity(id) # 0 <=> id \in DOMAIN orderIndex
         /\ id \in DOMAIN orderIndex => Proved!RestsWith(book, id, RestingQuantity(id))
<1>1. id \in DOMAIN orderIndex => \E q \in Nat \ {0} : Proved!RestsWith(book, id, q)
  BY Proved!RestsOnce, BookAssumptions DEF BookOK
<1>2. /\ id \notin DOMAIN orderIndex => RestingQuantity(id) = 0
      /\ \A q : Proved!RestsWith(book, id, q) => RestingQuantity(id) = q
  BY RestingQuantityIs DEF RestsAsIndexed
<1> QED
  BY <1>1, <1>2

\* The quantities that rest, from what the steps of the book do to the entries.
LEMMA RestingStays ==
  ASSUME BookOK, BookOK', NEW m,
         \A id : id # m => /\ id \in DOMAIN orderIndex <=> id \in DOMAIN orderIndex'
                           /\ \A r : Proved!RestsWith(book, id, r) => Proved!RestsWith(book', id, r)
  PROVE  \A id : id # m => RestingQuantity(id)' = RestingQuantity(id)
<1> SUFFICES ASSUME NEW id, id # m PROVE RestingQuantity(id)' = RestingQuantity(id)
  OBVIOUS
<1>1. /\ id \notin DOMAIN orderIndex' => RestingQuantity(id)' = 0
      /\ \A q : Proved!RestsWith(book', id, q) => RestingQuantity(id)' = q
  BY RestingQuantityNext, Zenon DEF RestsAsIndexed, Proved!RestsWith, Proved!Sides
<1>2. CASE id \in DOMAIN orderIndex
  <2>1. Proved!RestsWith(book, id, RestingQuantity(id))
    BY <1>2, RestingFacts
  <2>2. Proved!RestsWith(book', id, RestingQuantity(id))
    BY <2>1
  <2> QED
    BY <1>1, <2>2
<1>3. CASE id \notin DOMAIN orderIndex
  <2>1. RestingQuantity(id) = 0
    BY <1>3, RestingFacts
  <2> QED
    BY <1>1, <1>3, <2>1
<1> QED
  BY <1>2, <1>3

\* A fill takes its quantity from one resting order, and no order else rests with
\* more or less (OrderBook::matchAtPrice).
LEMMA FillTakes ==
  ASSUME BookOK, BookOK', NEW p \in Prices, Proved!Fill(p)
  PROVE  \E m \in DOMAIN orderIndex, qty \in Nat \ {0} :
           /\ qty <= RestingQuantity(m) /\ qty <= Proved!Left(incoming)
           /\ RestingQuantity(m)' = RestingQuantity(m) - qty
           /\ \A id : id # m => RestingQuantity(id)' = RestingQuantity(id)
           /\ incoming'.filledQty = incoming.filledQty + qty
           /\ \E t \in Proved!Trade :
                /\ incoming'.trades = Append(incoming.trades, t)
                /\ t.quantity = qty /\ t.aggressorOrderId = incoming.orderId
                /\ t.restingOrderId = m
<1>0. Proved!IndInv
  BY DEF BookOK
<1>1. PICK m \in DOMAIN orderIndex, had \in Nat \ {0}, qty \in Nat \ {0} :
           /\ qty <= had /\ qty <= Proved!Left(incoming)
           /\ Proved!RestsWith(book, m, had)
           /\ qty = had => DOMAIN orderIndex' = DOMAIN orderIndex \ {m}
           /\ qty # had => DOMAIN orderIndex' = DOMAIN orderIndex /\ Proved!RestsWith(book', m, had - qty)
           /\ \A id, r : id # m /\ Proved!RestsWith(book, id, r) => Proved!RestsWith(book', id, r)
           /\ incoming'.filledQty = incoming.filledQty + qty
           /\ \E t \in Proved!Trade :
                /\ incoming'.trades = Append(incoming.trades, t)
                /\ t.quantity = qty /\ t.aggressorOrderId = incoming.orderId
                /\ t.restingOrderId = m
  BY <1>0, BookAssumptions, Proved!FillRests
<1>2. RestingQuantity(m) = had
  BY <1>1, RestingQuantityIs DEF RestsAsIndexed
<1>3. /\ m \notin DOMAIN orderIndex' => RestingQuantity(m)' = 0
      /\ \A q : Proved!RestsWith(book', m, q) => RestingQuantity(m)' = q
  BY RestingQuantityNext, Zenon DEF RestsAsIndexed, Proved!RestsWith, Proved!Sides
<1>4. RestingQuantity(m)' = RestingQuantity(m) - qty
  <2>1. CASE qty = had
    BY <1>1, <1>2, <1>3, <2>1
  <2>2. CASE qty # had
    BY <1>1, <1>2, <1>3, <2>2
  <2> QED
    BY <2>1, <2>2
<1>5. \A id : id # m => RestingQuantity(id)' = RestingQuantity(id)
  <2>1. \A id : id # m => /\ id \in DOMAIN orderIndex <=> id \in DOMAIN orderIndex'
                          /\ \A r : Proved!RestsWith(book, id, r) => Proved!RestsWith(book', id, r)
    BY <1>1
  <2> QED
    BY <2>1, RestingStays
<1>6. qty <= RestingQuantity(m)
  BY <1>1, <1>2
<1> QED
  BY <1>1, <1>4, <1>5, <1>6, Zenon

\* The open quantity of a LIMIT order rests in full (OrderBook::matchOrder).
LEMMA RemainderComesToRest ==
  ASSUME BookOK, BookOK', Proved!RestRemainder
  PROVE  /\ \A id : id = incoming.orderId => RestingQuantity(id)' = Proved!Left(incoming)
         /\ \A id : id # incoming.orderId => RestingQuantity(id)' = RestingQuantity(id)
<1>1. /\ DOMAIN orderIndex' = DOMAIN orderIndex \cup {incoming.orderId}
      /\ Proved!RestsWith(book', incoming.orderId, Proved!Left(incoming))
      /\ \A id, r : Proved!RestsWith(book, id, r) => Proved!RestsWith(book', id, r)
  BY BookAssumptions, Proved!RemainderRests DEF BookOK
<1>2. \A id, q : Proved!RestsWith(book', id, q) => RestingQuantity(id)' = q
  BY RestingQuantityNext, Zenon DEF RestsAsIndexed, Proved!RestsWith, Proved!Sides
<1>3. \A id : id # incoming.orderId => RestingQuantity(id)' = RestingQuantity(id)
  <2>1. \A id : id # incoming.orderId =>
           /\ id \in DOMAIN orderIndex <=> id \in DOMAIN orderIndex'
           /\ \A r : Proved!RestsWith(book, id, r) => Proved!RestsWith(book', id, r)
    BY <1>1
  <2> QED
    BY <2>1, RestingStays
<1> QED
  BY <1>1, <1>2, <1>3

\* A cancel takes out all that rests of its order, and nothing of another
\* (OrderBook::cancel).
LEMMA CancelTakesOut ==
  ASSUME BookOK, BookOK', NEW m \in OrderIds, Proved!CancelResting(m)
  PROVE  /\ m \in DOMAIN orderIndex /\ RestingQuantity(m)' = 0
         /\ \A id : id # m => RestingQuantity(id)' = RestingQuantity(id)
<1>1. /\ m \in DOMAIN orderIndex
      /\ DOMAIN orderIndex' = DOMAIN orderIndex \ {m}
      /\ \A id, r : id # m /\ Proved!RestsWith(book, id, r) => Proved!RestsWith(book', id, r)
  BY BookAssumptions, Proved!CancelRests DEF BookOK
<1>2. \A id : id \notin DOMAIN orderIndex' => RestingQuantity(id)' = 0
  BY RestingQuantityNext, Zenon DEF RestsAsIndexed
<1>3. \A id : id # m => RestingQuantity(id)' = RestingQuantity(id)
  <2>1. \A id : id # m =>
           /\ id \in DOMAIN orderIndex <=> id \in DOMAIN orderIndex'
           /\ \A r : Proved!RestsWith(book, id, r) => Proved!RestsWith(book', id, r)
    BY <1>1
  <2> QED
    BY <2>1, RestingStays
<1> QED
  BY <1>1, <1>2, <1>3

\* What trades give to order `id'.
Part(t, id) == IF id \in {t.aggressorOrderId, t.restingOrderId} THEN t.quantity ELSE 0

Parts(ts, id) == [i \in DOMAIN ts |-> Part(ts[i], id)]

Got(ts, id) == Total(Parts(ts, id))

\* The parts of trades are quantities, and so is their total.
LEMMA GotType ==
  ASSUME NEW ts \in Seq(Proved!Trade), NEW id
  PROVE  /\ Parts(ts, id) \in Seq(Nat) /\ Len(Parts(ts, id)) = Len(ts)
         /\ \A i \in 1 .. Len(ts) : Parts(ts, id)[i] = Part(ts[i], id)
         /\ Got(ts, id) \in Nat
<1>1. DOMAIN ts = 1 .. Len(ts) /\ Len(ts) \in Nat /\ \A i \in 1 .. Len(ts) : ts[i] \in Proved!Trade
  OBVIOUS
<1>2. \A i \in 1 .. Len(ts) : Part(ts[i], id) \in Nat
  BY <1>1 DEF Part, Proved!Trade
<1>3. Parts(ts, id) \in Seq(Nat) /\ Len(Parts(ts, id)) = Len(ts)
  BY <1>1, <1>2 DEF Parts
<1>4. \A i \in 1 .. Len(ts) : Parts(ts, id)[i] = Part(ts[i], id)
  BY <1>1 DEF Parts
<1>5. Got(ts, id) \in Nat
  BY <1>3, TotalType DEF Got
<1> QED
  BY <1>3, <1>4, <1>5

\* No trades give nothing.
LEMMA GotNothing ==
  ASSUME NEW id
  PROVE  Got(<<>>, id) = 0
<1>1. Parts(<<>>, id) \in Seq(Nat) /\ DOMAIN Parts(<<>>, id) = {}
  BY DEF Parts
<1> QED
  BY <1>1, TotalOfNothing DEF Got

\* One more trade gives its part more.
LEMMA GotAppend ==
  ASSUME NEW ts \in Seq(Proved!Trade), NEW t \in Proved!Trade, NEW id
  PROVE  Got(Append(ts, t), id) = Got(ts, id) + Part(t, id)
<1> DEFINE u == Append(ts, t)
<1>1. /\ u \in Seq(Proved!Trade) /\ Len(ts) \in Nat /\ Len(u) = Len(ts) + 1
      /\ u[Len(ts) + 1] = t /\ \A i \in 1 .. Len(ts) : u[i] = ts[i]
  OBVIOUS
<1> HIDE DEF u
<1>2. /\ Parts(ts, id) \in Seq(Nat) /\ Len(Parts(ts, id)) = Len(ts)
      /\ \A i \in 1 .. Len(ts) : Parts(ts, id)[i] = Part(ts[i], id)
  BY GotType
<1>3. /\ Parts(u, id) \in Seq(Nat) /\ Len(Parts(u, id)) = Len(ts) + 1
      /\ \A i \in 1 .. Len(ts) + 1 : Parts(u, id)[i] = Part(u[i], id)
  BY <1>1, GotType
<1>4. Part(t, id) \in Nat
  BY DEF Part, Proved!Trade
<1> DEFINE w == Append(Parts(ts, id), Part(t, id))
<1>5. /\ w \in Seq(Nat) /\ Len(w) = Len(ts) + 1 /\ w[Len(ts) + 1] = Part(t, id)
      /\ \A i \in 1 .. Len(ts) : w[i] = Parts(ts, id)[i]
  BY <1>2, <1>4
<1> HIDE DEF w
<1>6. \A i \in 1 .. Len(w) : w[i] = Parts(u, id)[i]
  <2> TAKE i \in 1 .. Len(w)
  <2>1. CASE i = Len(ts) + 1
    BY <1>1, <1>3, <1>5, <2>1
  <2>2. CASE i \in 1 .. Len(ts)
    BY <1>1, <1>2, <1>3, <1>5, <2>2
  <2> QED
    BY <1>1, <1>5, <2>1, <2>2
<1>7. w = Parts(u, id)
  BY <1>3, <1>5, <1>6, SeqSame DEF IsSeq
<1>8. Total(w) = Total(Parts(ts, id)) + Part(t, id)
  BY <1>2, <1>4, TotalAppend DEF w
<1> QED
  BY <1>7, <1>8 DEF Got, u

-----------------------------------------------------------------------------
(* What has been traded, published or not.                                 *)

LogOK == IsSeq(log) /\ \A i \in DOMAIN log : EventOK(log[i])

\* Traded, as a sum along the published events.
TradedSums ==
  \A id, w : w = Shares(log, id) => w \in Seq(Nat) /\ Traded(id) = Total(w)

\* Published quantities are sums of naturals.
LEMMA TradedSum == LogOK => TradedSums
  BY TradedIsTotal DEF LogOK, TradedSums

\* The same after a step.
LEMMA TradedSumNext == LogOK' => TradedSums'
<1>1. (LogOK => TradedSums)'
  BY TradedSum, PTL
<1> QED
  BY <1>1

\* The events of an operation tell its trades, unless it is a cancel that failed.
LEMMA EventsShares ==
  ASSUME BookOK, NEW id
  PROVE  /\ \A i \in DOMAIN Events : EventOK(Events[i])
         /\ Shares(Events, id) \in Seq(Nat)
         /\ Total(Shares(Events, id)) =
              IF message[current].op = "CANCEL" /\ ~result.cancelSuccessful THEN 0 ELSE Got(trades, id)
<1> DEFINE f == [i \in DOMAIN trades |-> <<"Trade", trades[i]>>]
           top == <<"TopOfBook", topOfBook>>
           e == Append(f, top)
<1>0. Events = IF message[current].op = "CANCEL" /\ ~result.cancelSuccessful THEN <<>> ELSE e
  BY DEF Events
<1>1. trades \in Seq(Proved!Trade)
  BY DEF BookOK, Proved!IndInv, Proved!TypeOK
<1>2. DOMAIN trades = 1 .. Len(trades) /\ Len(trades) \in Nat
  BY <1>1
<1>3. /\ Parts(trades, id) \in Seq(Nat) /\ Len(Parts(trades, id)) = Len(trades)
      /\ \A i \in 1 .. Len(trades) : Parts(trades, id)[i] = Part(trades[i], id)
      /\ Got(trades, id) \in Nat
  BY <1>1, GotType
<1>4. \A i \in 1 .. Len(trades) : trades[i].quantity \in Nat
  <2>1. \A i \in 1 .. Len(trades) : trades[i] \in Proved!Trade
    BY <1>1
  <2> QED
    BY <2>1 DEF Proved!Trade
<1>5. IsSeq(f) /\ Len(f) = Len(trades) /\ \A i \in 1 .. Len(trades) : f[i] = <<"Trade", trades[i]>>
  <2> DEFINE S == {<<"Trade", trades[i]>> : i \in DOMAIN trades}
  <2>1. f \in [1 .. Len(trades) -> S]
    BY <1>2
  <2>2. \A i \in 1 .. Len(trades) : f[i] = <<"Trade", trades[i]>>
    BY <1>2
  <2> HIDE DEF f, S
  <2>3. f \in Seq(S) /\ Len(f) = Len(trades)
    BY <1>2, <2>1
  <2> QED
    BY <2>2, <2>3 DEF IsSeq
<1> HIDE DEF f
<1>6. /\ IsSeq(e) /\ DOMAIN e = 1 .. Len(trades) + 1
      /\ \A i \in 1 .. Len(trades) : e[i] = <<"Trade", trades[i]>>
      /\ e[Len(trades) + 1] = top
  BY <1>5, SeqAppend
<1> HIDE DEF e
<1>7. top[1] # "Trade"
  OBVIOUS
<1> HIDE DEF top
<1>8. \A i \in DOMAIN e : EventOK(e[i])
  <2> SUFFICES ASSUME NEW i \in DOMAIN e, e[i][1] = "Trade" PROVE e[i][2].quantity \in Nat
    BY DEF EventOK
  <2>1. i \in 1 .. Len(trades)
    BY <1>2, <1>6, <1>7
  <2>2. e[i][2] = trades[i]
    BY <1>6, <2>1
  <2> QED
    BY <1>4, <2>1, <2>2
<1> DEFINE w == Append(Parts(trades, id), 0)
<1>9. /\ w \in Seq(Nat) /\ Len(w) = Len(trades) + 1 /\ w[Len(trades) + 1] = 0
      /\ \A i \in 1 .. Len(trades) : w[i] = Part(trades[i], id)
  BY <1>3
<1> HIDE DEF w
<1>10. Shares(e, id) = w
  <2>1. DOMAIN w = DOMAIN e
    BY <1>2, <1>6, <1>9
  <2>2. ASSUME NEW i \in DOMAIN e PROVE Share(e[i], id) = w[i]
    <3>1. CASE i \in 1 .. Len(trades)
      <4>1. e[i][1] = "Trade" /\ e[i][2] = trades[i]
        BY <1>6, <3>1
      <4> QED
        BY <1>9, <3>1, <4>1 DEF Share, Part
    <3>2. CASE i = Len(trades) + 1
      BY <1>6, <1>7, <1>9, <3>2 DEF Share
    <3> QED
      BY <1>2, <1>6, <3>1, <3>2
  <2>3. w = [i \in DOMAIN e |-> w[i]]
    BY <1>9, <2>1
  <2>4. Shares(e, id) = [i \in DOMAIN e |-> w[i]]
    BY <2>2 DEF Shares
  <2> QED
    BY <2>3, <2>4
<1>11. Total(w) = Got(trades, id)
  BY <1>3, TotalAppend DEF w, Got
<1>12. /\ \A i \in DOMAIN <<>> : EventOK(<<>>[i])
       /\ Shares(<<>>, id) \in Seq(Nat) /\ DOMAIN Shares(<<>>, id) = {}
  BY DEF Shares
<1>13. Total(Shares(<<>>, id)) = 0
  BY <1>12, TotalOfNothing
<1>14. CASE message[current].op = "CANCEL" /\ ~result.cancelSuccessful
  <2>1. Events = <<>>
    BY <1>0, <1>14
  <2> QED
    BY <1>12, <1>13, <1>14, <2>1
<1>15. CASE ~(message[current].op = "CANCEL" /\ ~result.cancelSuccessful)
  <2>1. Events = e
    BY <1>0, <1>15
  <2> QED
    BY <1>8, <1>9, <1>10, <1>11, <1>15, <2>1
<1> QED
  BY <1>14, <1>15

\* Shares go event by event.
LEMMA SharesConcat ==
  ASSUME NEW s, IsSeq(s), NEW t, IsSeq(t), NEW id, Shares(s, id) \in Seq(Nat), Shares(t, id) \in Seq(Nat)
  PROVE  Shares(s \o t, id) = Shares(s, id) \o Shares(t, id)
<1> DEFINE u == s \o t
           a == Shares(s, id)
           b == Shares(t, id)
           c == a \o b
<1>1. /\ Len(s) \in Nat /\ DOMAIN s = 1 .. Len(s) /\ Len(t) \in Nat /\ DOMAIN t = 1 .. Len(t)
  BY SeqBasics
<1>2. /\ IsSeq(u) /\ Len(u) = Len(s) + Len(t)
      /\ \A i \in 1 .. Len(s) : u[i] = s[i]
      /\ \A i \in 1 .. Len(t) : u[Len(s) + i] = t[i]
  BY SeqConcat
<1> HIDE DEF u
<1>3. DOMAIN u = 1 .. Len(s) + Len(t)
  BY <1>2, SeqBasics
<1>4. /\ Len(a) = Len(s) /\ \A i \in 1 .. Len(s) : a[i] = Share(s[i], id)
      /\ Len(b) = Len(t) /\ \A i \in 1 .. Len(t) : b[i] = Share(t[i], id)
  <2>1. DOMAIN a = DOMAIN s /\ DOMAIN b = DOMAIN t
    BY DEF Shares
  <2>2. Len(a) = Len(s) /\ Len(b) = Len(t)
    <3> HIDE DEF a, b
    <3>1. a \in Seq(Nat) /\ b \in Seq(Nat)
      BY DEF a, b
    <3> QED
      BY <1>1, <2>1, <3>1
  <2> QED
    BY <1>1, <2>2 DEF Shares
<1>5. a \in Seq(Nat) /\ b \in Seq(Nat)
  OBVIOUS
<1> HIDE DEF a, b
<1>6. /\ c \in Seq(Nat) /\ Len(c) = Len(s) + Len(t)
      /\ \A i \in 1 .. Len(s) : c[i] = a[i]
      /\ \A i \in 1 .. Len(t) : c[Len(s) + i] = b[i]
  <2>1. IsSeq(a) /\ IsSeq(b)
    BY <1>5 DEF IsSeq
  <2>2. c \in Seq(Nat)
    BY <1>5
  <2>3. /\ Len(c) = Len(a) + Len(b)
        /\ \A i \in 1 .. Len(a) : c[i] = a[i]
        /\ \A i \in 1 .. Len(b) : c[Len(a) + i] = b[i]
    BY <2>1, SeqConcat
  <2> HIDE DEF c
  <2>4. Len(a) = Len(s) /\ Len(b) = Len(t)
    BY <1>4
  <2> QED
    BY ONLY <2>2, <2>3, <2>4, Zenon
<1> HIDE DEF c
<1>7. ASSUME NEW i \in DOMAIN u PROVE c[i] = Share(u[i], id)
  <2>1. CASE i \in 1 .. Len(s)
    BY <1>2, <1>4, <1>6, <2>1
  <2>2. CASE i \notin 1 .. Len(s)
    <3> DEFINE k == i - Len(s)
    <3>1. k \in 1 .. Len(t) /\ i = Len(s) + k
      BY <1>1, <1>3, <2>2
    <3> HIDE DEF k
    <3>2. c[i] = b[k] /\ u[i] = t[k] /\ b[k] = Share(t[k], id)
      BY <1>2, <1>4, <1>6, <3>1
    <3> QED
      BY <3>2
  <2> QED
    BY <2>1, <2>2
<1>8. c = [i \in DOMAIN u |-> c[i]]
  BY <1>1, <1>3, <1>6
<1>9. Shares(u, id) = [i \in DOMAIN u |-> c[i]]
  BY <1>7 DEF Shares
<1> QED
  BY <1>8, <1>9 DEF u, a, b, c

\* Publishing adds the trades of the operation.
LEMMA PublishTrades ==
  ASSUME BookOK, LogOK, log' = log \o Events
  PROVE  /\ LogOK'
         /\ \A id : Traded(id) \in Nat /\ Traded(id)' = Traded(id) +
              IF message[current].op = "CANCEL" /\ ~result.cancelSuccessful THEN 0 ELSE Got(trades, id)
<1>1. IsSeq(Events) /\ IsSeq(log)
  BY EventsFacts DEF LogOK
<1>2. LogOK'
  <2>1. /\ IsSeq(log \o Events) /\ Len(log \o Events) = Len(log) + Len(Events)
        /\ \A i \in 1 .. Len(log) : (log \o Events)[i] = log[i]
        /\ \A i \in 1 .. Len(Events) : (log \o Events)[Len(log) + i] = Events[i]
    BY <1>1, SeqConcat
  <2>2. /\ Len(log) \in Nat /\ DOMAIN log = 1 .. Len(log)
        /\ Len(Events) \in Nat /\ DOMAIN Events = 1 .. Len(Events)
        /\ DOMAIN log' = 1 .. Len(log')
    BY <1>1, <2>1, SeqBasics
  <2>3. ASSUME NEW i \in DOMAIN log' PROVE EventOK(log'[i])
    <3>1. CASE i \in 1 .. Len(log)
      BY <2>1, <2>2, <3>1 DEF LogOK
    <3>2. CASE i \notin 1 .. Len(log)
      <4> DEFINE k == i - Len(log)
      <4>1. k \in 1 .. Len(Events) /\ i = Len(log) + k
        BY <2>1, <2>2, <3>2
      <4> HIDE DEF k
      <4>2. log'[i] = Events[k] /\ k \in DOMAIN Events
        BY <2>1, <2>2, <4>1
      <4> QED
        BY <4>2, EventsShares
    <3> QED
      BY <3>1, <3>2
  <2> QED
    BY <2>1, <2>3 DEF LogOK, EventOK
<1>3. ASSUME NEW id
      PROVE  Traded(id) \in Nat /\ Traded(id)' = Traded(id) +
              IF message[current].op = "CANCEL" /\ ~result.cancelSuccessful THEN 0 ELSE Got(trades, id)
  <2>1. Shares(log, id) \in Seq(Nat) /\ Traded(id) = Total(Shares(log, id))
    BY TradedSum DEF TradedSums
  <2>2. \A w : w = Shares(log', id) => Traded(id)' = Total(w)
    <3>1. TradedSums'
      BY <1>2, TradedSumNext
    <3> QED
      BY <3>1 DEF TradedSums, Shares, Share
  <2>3. Traded(id)' = Total(Shares(log \o Events, id))
    BY <2>2
  <2>4. Shares(Events, id) \in Seq(Nat)
    BY EventsShares
  <2>5. Shares(log \o Events, id) = Shares(log, id) \o Shares(Events, id)
    BY <1>1, <2>1, <2>4, SharesConcat
  <2>6. Traded(id)' = Traded(id) + Total(Shares(Events, id))
    BY <2>1, <2>3, <2>4, <2>5, TotalConcat
  <2>7. Traded(id) \in Nat
    BY <2>1, TotalType
  <2> QED
    BY <2>6, <2>7, EventsShares
<1> QED
  BY <1>2, <1>3

-----------------------------------------------------------------------------
(* A call is queued, processed and answered once.                          *)

Seen == ToSet(ops)

CallsOK ==
  /\ DOMAIN promise = Calls
  /\ \A c \in Calls : pc[c] \in {"new", "ready"} => c \notin DOMAIN pending /\ promise[c] = None
  /\ \A c \in DOMAIN pending : promise[c] = None
  /\ engine \in {"begin", "match", "reply"} =>
       /\ current \notin DOMAIN pending
       /\ pc[current] \notin {"new", "ready"}
       /\ promise[current] = None
  /\ \A c \in Calls : promise[c] # None => c \in Seen
  /\ \A c \in Calls : pc[c] = "answered" => promise[c] # None
  /\ Seen \subseteq Arrived
  /\ engine \in {"match", "reply"} => current \in Seen

\* Processing a call adds it to those seen.
LEMMA SeenAppend ==
  ASSUME IsSeq(ops), ops' = Append(ops, current)
  PROVE  Seen' = Seen \cup {current}
<1>1. /\ DOMAIN ops = 1 .. Len(ops) /\ DOMAIN ops' = 1 .. Len(ops) + 1 /\ Len(ops) \in Nat
      /\ \A i \in 1 .. Len(ops) : ops'[i] = ops[i]
      /\ ops'[Len(ops) + 1] = current
  BY SeqAppend
<1>2. Seen = {ops[i] : i \in DOMAIN ops} /\ Seen' = {ops'[i] : i \in DOMAIN ops'}
  BY DEF Seen, ToSet
<1>3. ASSUME NEW x \in Seen' PROVE x \in Seen \cup {current}
  <2>1. PICK i \in DOMAIN ops' : x = ops'[i]
    BY <1>2
  <2>2. CASE i = Len(ops) + 1
    BY <1>1, <2>1, <2>2
  <2>3. CASE i \in 1 .. Len(ops)
    BY <1>1, <1>2, <2>1, <2>3
  <2> QED
    BY <1>1, <2>2, <2>3
<1>4. ASSUME NEW x \in Seen \cup {current} PROVE x \in Seen'
  <2>1. CASE x = current
    <3>1. Len(ops) + 1 \in DOMAIN ops'
      BY <1>1
    <3> QED
      BY <1>1, <1>2, <2>1, <3>1
  <2>2. CASE x \in Seen
    <3>1. PICK i \in DOMAIN ops : x = ops[i]
      BY <1>2, <2>2
    <3>2. i \in DOMAIN ops' /\ ops'[i] = x
      BY <1>1, <3>1
    <3> QED
      BY <1>2, <3>2
  <2> QED
    BY <2>1, <2>2
<1> QED
  BY <1>3, <1>4

\* The result the promise is set to is one.
LEMMA ResultIsSome == BookOK => result # None
<1> SUFFICES ASSUME BookOK PROVE result # None
  OBVIOUS
<1>1. result \in Proved!EngineResult
  BY DEF BookOK, Proved!IndInv, Proved!TypeOK
<1>2. "orderId" \in DOMAIN result
  BY <1>1 DEF Proved!EngineResult
<1>3. DOMAIN None = {}
  BY DEF None
<1> QED
  BY <1>2, <1>3

\* The same after a step.
LEMMA ResultIsSomeNext == BookOK' => result' # None
<1>1. (BookOK => result # None)'
  BY ResultIsSome, PTL
<1> QED
  BY <1>1

\* What the engine does to the calls.
LEMMA EngineCalls ==
  ASSUME MessagesOK, CallsOK, EngineStep
  PROVE  /\ UNCHANGED <<pc, message>>
         /\ \/ /\ \E c \in DOMAIN pending : current' = c /\ DOMAIN pending' = DOMAIN pending \ {c}
               /\ engine' = "begin" /\ engine = "dequeue" /\ UNCHANGED <<promise, ops>>
            \/ /\ engine = "begin" /\ engine' \in {"match", "reply"}
               /\ ops' = Append(ops, current)
               /\ UNCHANGED <<current, pending, promise>>
            \/ /\ engine = "match" /\ engine' \in {"match", "reply"}
               /\ UNCHANGED <<current, pending, promise, ops>>
            \/ /\ engine = "reply" /\ engine' = "publish"
               /\ promise' = [promise EXCEPT ![current] = result]
               /\ UNCHANGED <<current, pending, ops>>
            \/ /\ engine' \notin {"begin", "match", "reply"}
               /\ engine \notin {"begin", "match", "reply"}
               /\ UNCHANGED <<pending, promise, ops>>
<1>1. UNCHANGED <<pc, message>>
  BY EngineMessages
<1>2. ASSUME NEW c \in Calls, TakeMessage(c)
      PROVE  /\ c \in DOMAIN pending /\ current' = c /\ DOMAIN pending' = DOMAIN pending \ {c}
             /\ engine' = "begin" /\ engine = "dequeue" /\ UNCHANGED <<promise, ops>>
  BY <1>2 DEF TakeMessage, Queue!Deliver, Queue!Without, handlerVars
<1>3. CASE Process
  BY <1>1, <1>3 DEF Process, handlerVars, queueVars
<1>4. CASE Match
  BY <1>1, <1>4 DEF Match, handlerVars, queueVars
<1>5. CASE SetPromise
  BY <1>1, <1>5 DEF SetPromise, queueVars
<1>6. CASE Poll \/ FindNothing \/ Publish \/ PublishTelemetry
  BY <1>1, <1>6 DEF Poll, FindNothing, Publish, PublishTelemetry, handlerVars,
     queueVars, Queue!BeginDequeue, Queue!ReportEmpty
<1> QED
  BY <1>1, <1>2, <1>3, <1>4, <1>5, <1>6 DEF EngineStep

\* The engine takes a call from the queue once, and answers it once
\* (MatchingEngine::process).
LEMMA EngineKeepsCalls ==
  ASSUME MessagesOK, BookOK, IsSeq(ops), CallsOK, EngineStep
  PROVE  CallsOK'
<1>0. /\ DOMAIN promise = Calls /\ pc' = pc /\ Arrived' = Arrived
      /\ DOMAIN pending \subseteq Arrived /\ Arrived \subseteq Calls
      /\ engine \in {"begin", "match", "reply"} => current \in Arrived
  BY EngineCalls DEF CallsOK, MessagesOK, Arrived, InProcess
<1>1. CASE /\ \E c \in DOMAIN pending : current' = c /\ DOMAIN pending' = DOMAIN pending \ {c}
           /\ engine' = "begin" /\ UNCHANGED <<promise, ops>>
  <2>1. PICK c \in DOMAIN pending : current' = c /\ DOMAIN pending' = DOMAIN pending \ {c}
    BY <1>1
  <2>2. Seen' = Seen
    BY <1>1 DEF Seen
  <2> QED
    BY <1>0, <1>1, <2>1, <2>2 DEF CallsOK
<1>2. CASE /\ engine = "begin" /\ engine' \in {"match", "reply"}
           /\ ops' = Append(ops, current)
           /\ UNCHANGED <<current, pending, promise>>
  <2>1. Seen' = Seen \cup {current}
    BY <1>2, SeenAppend
  <2> QED
    BY <1>0, <1>2, <2>1 DEF CallsOK
<1>3. CASE /\ engine = "match" /\ engine' \in {"match", "reply"}
           /\ UNCHANGED <<current, pending, promise, ops>>
  <2>1. Seen' = Seen
    BY <1>3 DEF Seen
  <2> QED
    BY <1>0, <1>3, <2>1 DEF CallsOK
<1>4. CASE /\ engine = "reply" /\ engine' = "publish"
           /\ promise' = [promise EXCEPT ![current] = result]
           /\ UNCHANGED <<current, pending, ops>>
  <2>1. Seen' = Seen
    BY <1>4 DEF Seen
  <2>2. /\ DOMAIN promise' = Calls /\ promise'[current] = result
        /\ \A c \in Calls \ {current} : promise'[c] = promise[c]
    BY <1>0, <1>4
  <2>3. result # None
    BY ResultIsSome
  <2> QED
    BY <1>0, <1>4, <2>1, <2>2, <2>3 DEF CallsOK
<1>5. CASE /\ engine' \notin {"begin", "match", "reply"}
           /\ UNCHANGED <<pending, promise, ops>>
  <2>1. Seen' = Seen
    BY <1>5 DEF Seen
  <2> QED
    BY <1>0, <1>5, <2>1 DEF CallsOK
<1> QED
  BY <1>1, <1>2, <1>3, <1>4, <1>5, EngineCalls

\* What a handler does to its call.
LEMMA HandlerCalls ==
  ASSUME MessagesOK, NEW c \in Calls, HandlerActs(c)
  PROVE  /\ UNCHANGED <<engine, current, promise, ops>>
         /\ \A d \in Calls \ {c} : pc'[d] = pc[d]
         /\ \/ pc[c] = "new" /\ pc'[c] = "ready" /\ pending' = pending
            \/ /\ pc[c] = "ready" /\ pc'[c] = "enqueue" /\ message' = message
               /\ DOMAIN pending' = DOMAIN pending \cup {c}
            \/ pc[c] = "enqueue" /\ pc'[c] = "waiting" /\ UNCHANGED <<message, pending>>
            \/ /\ pc[c] = "waiting" /\ pc'[c] = "answered" /\ promise[c] # None
               /\ UNCHANGED <<message, pending>>
<1>0. DOMAIN pc = Calls
  BY DEF MessagesOK
<1>1. UNCHANGED <<engine, current, promise, ops>>
  BY HandlerMessages DEF engineVars, HandlerActs, HandlerStep, SubmitOrder, CancelOrder, Enqueue,
     EnqueueReturns, Respond
<1>2. CASE (\E r \in Requests : SubmitOrder(c, r)) \/ (\E id \in OrderIds : CancelOrder(c, id))
  <2>1. pc[c] = "new" /\ pc' = [pc EXCEPT ![c] = "ready"] /\ pending' = pending
    BY <1>2 DEF SubmitOrder, CancelOrder, Arrives, Goto, queueVars
  <2> QED
    BY <1>0, <1>1, <2>1
<1>3. CASE Enqueue(c)
  <2>1. pc[c] = "ready" /\ pc' = [pc EXCEPT ![c] = "enqueue"] /\ message' = message
    BY <1>3 DEF Enqueue, Goto
  <2>2. DOMAIN pending' = DOMAIN pending \cup {c}
    BY <1>3 DEF Enqueue, Queue!BeginEnqueue
  <2> QED
    BY <1>0, <1>1, <2>1, <2>2
<1>4. CASE EnqueueReturns(c)
  <2>1. pc[c] = "enqueue" /\ pc' = [pc EXCEPT ![c] = "waiting"] /\ UNCHANGED <<message, pending>>
    BY <1>4 DEF EnqueueReturns, Goto, Queue!EndEnqueue
  <2> QED
    BY <1>0, <1>1, <2>1
<1>5. CASE Respond(c)
  <2>1. /\ pc[c] = "waiting" /\ pc' = [pc EXCEPT ![c] = "answered"] /\ promise[c] # None
        /\ UNCHANGED <<message, pending>>
    BY <1>5 DEF Respond, Goto, queueVars
  <2> QED
    BY <1>0, <1>1, <2>1
<1> QED
  BY <1>2, <1>3, <1>4, <1>5 DEF HandlerActs, HandlerStep

\* A handler queues its call before it waits, and returns when it is answered.
LEMMA HandlerKeepsCalls ==
  ASSUME MessagesOK, CallsOK, NEW c \in Calls, HandlerActs(c)
  PROVE  CallsOK'
<1>0. Seen' = Seen
  BY HandlerCalls DEF Seen
<1>1. Arrived' = Arrived \cup {c} \/ Arrived' = Arrived
  BY HandlerCalls DEF Arrived
<1>2. /\ DOMAIN pending \subseteq Calls
      /\ engine \in {"begin", "match", "reply"} => current \in Calls
  BY DEF MessagesOK, Arrived, InProcess
<1>3. CASE pc[c] = "new" /\ pc'[c] = "ready" /\ pending' = pending
  BY <1>0, <1>1, <1>2, <1>3, HandlerCalls DEF CallsOK
<1>4. CASE pc[c] = "ready" /\ pc'[c] = "enqueue" /\ DOMAIN pending' = DOMAIN pending \cup {c}
  BY <1>0, <1>1, <1>2, <1>4, HandlerCalls DEF CallsOK
<1>5. CASE /\ pc[c] = "enqueue" /\ pc'[c] = "waiting" /\ pending' = pending
  BY <1>0, <1>1, <1>2, <1>5, HandlerCalls DEF CallsOK
<1>6. CASE pc[c] = "waiting" /\ pc'[c] = "answered" /\ promise[c] # None /\ pending' = pending
  BY <1>0, <1>1, <1>2, <1>6, HandlerCalls DEF CallsOK
<1> QED
  BY <1>3, <1>4, <1>5, <1>6, HandlerCalls

\* No step processes or answers a call twice.
LEMMA NextCalls ==
  ASSUME MessagesOK, BookOK, IsSeq(ops), CallsOK, [Next]_vars
  PROVE  CallsOK'
<1>1. CASE UNCHANGED <<promise, pc, pending, engine, current, ops>>
  BY <1>1 DEF CallsOK, Seen, Arrived
<1>3. ASSUME NEW s \in Subscribers, SubscriberActs(s)
      PROVE  CallsOK'
  BY <1>1, <1>3, SubscriberKeeps DEF handlerVars, queueVars, engineVars
<1>4. CASE UNCHANGED vars
  BY <1>1, <1>4 DEF vars, handlerVars, queueVars, engineVars
<1> QED
  BY <1>3, <1>4, StepKinds, HandlerKeepsCalls, EngineKeepsCalls

-----------------------------------------------------------------------------
(* Which call submitted an order.                                          *)

IdsOK ==
  /\ \A c \in Calls \ Arrived : message[c] = None
  /\ \A c \in Arrived : message[c] # None /\ message[c].orderId < nextOrderId
  /\ \A c, d \in Arrived :
       message[c].op = "SUBMIT" /\ message[d].op = "SUBMIT" /\ message[c].orderId = message[d].orderId
       => c = d
  /\ \A id \in OrderIds : id < nextOrderId =>
       \E c \in Arrived : message[c].op = "SUBMIT" /\ message[c].orderId = id
  /\ \A c, d \in Arrived :
       /\ message[c].op = "CANCEL" /\ message[c].informed
       /\ message[d].op = "SUBMIT" /\ message[d].orderId = message[c].orderId
       => pc[d] = "answered"

\* An order has one submission.
LEMMA SubmitOfIs ==
  ASSUME MessagesOK, IdsOK, NEW c \in Arrived, message[c].op = "SUBMIT"
  PROVE  SubmitOf(message[c].orderId) = c
<1> DEFINE id == message[c].orderId
           P(d) == d \in Calls /\ message[d] # None /\ message[d].op = "SUBMIT" /\ message[d].orderId = id
           s == CHOOSE d \in Calls : message[d] # None /\ message[d].op = "SUBMIT" /\ message[d].orderId = id
<1>1. P(c)
  BY DEF IdsOK, Arrived
<1>2. P(s)
  BY <1>1, Zenon
<1>3. SubmitOf(id) = s
  BY DEF SubmitOf
<1> HIDE DEF s
<1>4. s \in Arrived
  BY <1>2 DEF IdsOK
<1>5. s = c
  BY <1>2, <1>4 DEF IdsOK
<1> QED
  BY <1>3, <1>5

\* A message is not `none'.
LEMMA AMessage ==
  ASSUME NEW x, NEW y, NEW z
  PROVE  [op |-> x, orderId |-> y, order |-> z] # None /\ [op |-> x, orderId |-> y, informed |-> z] # None
<1>1. /\ "op" \in DOMAIN [op |-> x, orderId |-> y, order |-> z]
      /\ "op" \in DOMAIN [op |-> x, orderId |-> y, informed |-> z]
      /\ DOMAIN None = {}
  BY DEF None
<1> QED
  BY <1>1

\* A message that comes in, by its fields.
LEMMA ArrivalIds ==
  ASSUME MessagesOK, IdsOK, NEW c \in Calls, pc[c] = "new", pc'[c] = "ready",
         \A d \in Calls \ {c} : pc'[d] = pc[d] /\ message'[d] = message[d],
         message'[c] # None,
         \/ /\ message'[c].op = "SUBMIT" /\ message'[c].orderId = nextOrderId
            /\ nextOrderId' = nextOrderId + 1
         \/ /\ message'[c].op = "CANCEL" /\ message'[c].orderId \in OrderIds
            /\ message'[c].orderId < nextOrderId /\ nextOrderId' = nextOrderId
            /\ message'[c].informed <=> pc[SubmitOf(message'[c].orderId)] = "answered"
  PROVE  IdsOK'
<1>0. /\ nextOrderId \in Nat
      /\ \A d \in Arrived : message[d].op \in {"SUBMIT", "CANCEL"} /\ message[d].orderId \in OrderIds
  BY DEF MessagesOK, IsMessage
<1>1. Arrived' = Arrived \cup {c} /\ c \notin Arrived /\ \A d \in Arrived : message'[d] = message[d] /\ pc'[d] = pc[d]
  BY DEF Arrived
<1>2. \A d \in Arrived : message[d] # None /\ message[d].orderId < nextOrderId
  BY DEF IdsOK
<1>3. \A id \in OrderIds : id \in Nat
  BY ArrivedFinite DEF OrderIds
<1>4. \A d \in Arrived' : message'[d] # None /\ message'[d].orderId < nextOrderId'
  <2>1. message'[c] # None /\ message'[c].orderId < nextOrderId'
    BY <1>0, <1>3
  <2>2. \A d \in Arrived : message'[d] # None /\ message'[d].orderId < nextOrderId'
    BY <1>0, <1>1, <1>2, <1>3
  <2> QED
    BY <1>1, <2>1, <2>2
<1>5. \A d \in Calls \ Arrived' : message'[d] = None
  BY <1>1 DEF IdsOK
<1>6. CASE /\ message'[c].op = "SUBMIT" /\ message'[c].orderId = nextOrderId
           /\ nextOrderId' = nextOrderId + 1
  <2>1. \A d \in Arrived : message'[d].orderId # message'[c].orderId
    BY <1>0, <1>1, <1>2, <1>3, <1>6
  <2>2. \A d, e \in Arrived' :
          message'[d].op = "SUBMIT" /\ message'[e].op = "SUBMIT" /\ message'[d].orderId = message'[e].orderId
          => d = e
    BY <1>1, <2>1 DEF IdsOK
  <2>3. \A id \in OrderIds : id < nextOrderId' =>
          \E d \in Arrived' : message'[d].op = "SUBMIT" /\ message'[d].orderId = id
    <3> SUFFICES ASSUME NEW id \in OrderIds, id < nextOrderId'
                 PROVE  \E d \in Arrived' : message'[d].op = "SUBMIT" /\ message'[d].orderId = id
      OBVIOUS
    <3>1. CASE id = nextOrderId
      BY <1>1, <1>6, <3>1
    <3>2. CASE id < nextOrderId
      <4>1. PICK d \in Arrived : message[d].op = "SUBMIT" /\ message[d].orderId = id
        BY <3>2 DEF IdsOK
      <4> QED
        BY <1>1, <4>1
    <3> QED
      BY <1>0, <1>3, <1>6, <3>1, <3>2
  <2>4. \A d, e \in Arrived' :
          /\ message'[d].op = "CANCEL" /\ message'[d].informed
          /\ message'[e].op = "SUBMIT" /\ message'[e].orderId = message'[d].orderId
          => pc'[e] = "answered"
    <3> SUFFICES ASSUME NEW d \in Arrived', NEW e \in Arrived',
                        message'[d].op = "CANCEL", message'[d].informed,
                        message'[e].op = "SUBMIT", message'[e].orderId = message'[d].orderId
                 PROVE  pc'[e] = "answered"
      OBVIOUS
    <3>1. d # c /\ e # c
      BY <1>1, <1>6, <2>1
    <3>2. d \in Arrived /\ e \in Arrived
      BY <1>1, <3>1
    <3> QED
      BY <1>1, <3>2 DEF IdsOK
  <2> QED
    BY <1>4, <1>5, <2>2, <2>3, <2>4 DEF IdsOK
<1>7. CASE /\ message'[c].op = "CANCEL" /\ message'[c].orderId \in OrderIds
           /\ message'[c].orderId < nextOrderId /\ nextOrderId' = nextOrderId
           /\ message'[c].informed <=> pc[SubmitOf(message'[c].orderId)] = "answered"
  <2>2. \A d, e \in Arrived' :
          message'[d].op = "SUBMIT" /\ message'[e].op = "SUBMIT" /\ message'[d].orderId = message'[e].orderId
          => d = e
    BY <1>1, <1>7 DEF IdsOK
  <2>3. \A id \in OrderIds : id < nextOrderId' =>
          \E d \in Arrived' : message'[d].op = "SUBMIT" /\ message'[d].orderId = id
    <3> SUFFICES ASSUME NEW id \in OrderIds, id < nextOrderId
                 PROVE  \E d \in Arrived' : message'[d].op = "SUBMIT" /\ message'[d].orderId = id
      BY <1>7
    <3>1. PICK d \in Arrived : message[d].op = "SUBMIT" /\ message[d].orderId = id
      BY DEF IdsOK
    <3> QED
      BY <1>1, <3>1
  <2>4. \A d, e \in Arrived' :
          /\ message'[d].op = "CANCEL" /\ message'[d].informed
          /\ message'[e].op = "SUBMIT" /\ message'[e].orderId = message'[d].orderId
          => pc'[e] = "answered"
    <3> SUFFICES ASSUME NEW d \in Arrived', NEW e \in Arrived',
                        message'[d].op = "CANCEL", message'[d].informed,
                        message'[e].op = "SUBMIT", message'[e].orderId = message'[d].orderId
                 PROVE  pc'[e] = "answered"
      OBVIOUS
    <3>1. e # c
      BY <1>7
    <3>2. e \in Arrived
      BY <1>1, <3>1
    <3>3. CASE d = c
      <4>1. message[e].op = "SUBMIT" /\ message[e].orderId = message'[c].orderId
        BY <1>1, <3>2, <3>3
      <4>2. SubmitOf(message[e].orderId) = e
        BY <3>2, <4>1, SubmitOfIs
      <4> QED
        BY <1>1, <1>7, <3>2, <3>3, <4>1, <4>2
    <3>4. CASE d # c
      <4>1. d \in Arrived
        BY <1>1, <3>4
      <4> QED
        BY <1>1, <3>2, <4>1 DEF IdsOK
    <3> QED
      BY <3>3, <3>4
  <2> QED
    BY <1>4, <1>5, <2>2, <2>3, <2>4 DEF IdsOK
<1> QED
  BY <1>6, <1>7

\* Handlers give out every id once (OrderIdGenerator).
LEMMA HandlerKeepsIds ==
  ASSUME MessagesOK, IdsOK, NEW c \in Calls, HandlerActs(c)
  PROVE  IdsOK'
<1>0. DOMAIN message = Calls /\ DOMAIN pc = Calls
  BY DEF MessagesOK
<1>1. ASSUME NEW r \in Requests, SubmitOrder(c, r) PROVE IdsOK'
  <2> DEFINE m == [op |-> "SUBMIT", orderId |-> nextOrderId, order |-> r]
  <2>1. /\ pc[c] = "new" /\ pc' = [pc EXCEPT ![c] = "ready"]
        /\ message' = [message EXCEPT ![c] = m]
        /\ nextOrderId' = nextOrderId + 1
    BY <1>1 DEF SubmitOrder, Arrives, Goto
  <2>2. m # None /\ m.op = "SUBMIT" /\ m.orderId = nextOrderId
    BY AMessage
  <2> HIDE DEF m
  <2>3. /\ message'[c] = m /\ pc'[c] = "ready"
        /\ \A d \in Calls \ {c} : pc'[d] = pc[d] /\ message'[d] = message[d]
    BY <1>0, <2>1
  <2> QED
    BY <2>1, <2>2, <2>3, ArrivalIds
<1>2. ASSUME NEW id \in OrderIds, CancelOrder(c, id) PROVE IdsOK'
  <2> DEFINE m == [op |-> "CANCEL", orderId |-> id, informed |-> pc[SubmitOf(id)] = "answered"]
  <2>1. /\ pc[c] = "new" /\ pc' = [pc EXCEPT ![c] = "ready"]
        /\ message' = [message EXCEPT ![c] = m]
        /\ nextOrderId' = nextOrderId /\ id < nextOrderId
    BY <1>2 DEF CancelOrder, Arrives, Goto
  <2>2. m # None /\ m.op = "CANCEL" /\ m.orderId = id /\ (m.informed <=> pc[SubmitOf(id)] = "answered")
    BY AMessage
  <2> HIDE DEF m
  <2>3. /\ message'[c] = m /\ pc'[c] = "ready"
        /\ \A d \in Calls \ {c} : pc'[d] = pc[d] /\ message'[d] = message[d]
    BY <1>0, <2>1
  <2> QED
    BY <2>1, <2>2, <2>3, ArrivalIds
<1>3. CASE HandlerStep(c)
  <2>1. UNCHANGED <<message, nextOrderId>>
    BY <1>3 DEF HandlerStep, Enqueue, EnqueueReturns, Respond
  <2>2. /\ \A d \in Calls \ {c} : pc'[d] = pc[d]
        /\ pc[c] \notin {"new", "answered"} /\ pc'[c] # "new"
    <3>1. pc[c] # "new"
      BY <1>3 DEF HandlerStep, Enqueue, EnqueueReturns, Respond
    <3> QED
      BY <3>1, HandlerCalls
  <2>3. Arrived' = Arrived
    BY <2>2 DEF Arrived
  <2>4. \A d \in Arrived : pc[d] = "answered" => pc'[d] = "answered"
    BY <2>2 DEF Arrived
  <2> HIDE <1>3
  <2> QED
    BY <2>1, <2>3, <2>4 DEF IdsOK
<1> QED
  BY <1>1, <1>2, <1>3 DEF HandlerActs

\* Ids stay unique, and a client knows of a reply only once it was given.
LEMMA NextIds ==
  ASSUME MessagesOK, IdsOK, [Next]_vars
  PROVE  IdsOK'
<1>1. CASE UNCHANGED <<message, pc, nextOrderId>>
  BY <1>1 DEF IdsOK, Arrived
<1>3. ASSUME NEW s \in Subscribers, SubscriberActs(s)
      PROVE  IdsOK'
  BY <1>1, <1>3, SubscriberKeeps DEF handlerVars
<1>4. CASE UNCHANGED vars
  BY <1>1, <1>4 DEF vars, handlerVars
<1>5. CASE EngineStep
  <2>1. UNCHANGED <<message, pc, nextOrderId>>
    BY <1>5 DEF EngineStep, Poll, FindNothing, TakeMessage, Process, Match, SetPromise,
         Publish, PublishTelemetry, handlerVars
  <2> QED
    BY <1>1, <2>1
<1> QED
  BY <1>3, <1>4, <1>5, StepKinds, HandlerKeepsIds

-----------------------------------------------------------------------------
(* What an order has executed, published or not.                           *)

MatchOK ==
  /\ engine = "match" => incoming # NoOrder
  /\ engine \in {"reply", "publish"} /\ message[current].op = "CANCEL" => trades = <<>>

InFlight(id) ==
  IF engine = "match" THEN Got(incoming.trades, id)
  ELSE IF engine \in {"reply", "publish"} THEN Got(trades, id) ELSE 0

Executed(id) == Traded(id) + InFlight(id)

\* What the engine has decided about a call, on its way to the promise or there.
ReplyOf(c) == IF engine = "reply" /\ c = current THEN result ELSE promise[c]

InHand(c) == engine = "match" /\ c = current

Base == MessagesOK /\ BookOK /\ IsSeq(ops) /\ CallsOK /\ LogOK /\ MatchOK

\* The order in the matching loop, and its call.
LEMMA MatchingIs ==
  ASSUME Base, engine = "match"
  PROVE  incoming \in Proved!Matching /\ message[current].op = "SUBMIT" /\ current \in Arrived
<1>1. incoming \in Proved!Matching \cup {NoOrder} /\ incoming # NoOrder
  BY DEF Base, BookOK, Proved!IndInv, Proved!TypeOK, MatchOK
<1> QED
  BY <1>1 DEF Base, BookOK, BookPhase, MessagesOK, InProcess

\* Quantities are naturals.
LEMMA QuantitiesNat ==
  ASSUME Base, NEW id
  PROVE  /\ Traded(id) \in Nat /\ InFlight(id) \in Nat /\ Executed(id) \in Nat
         /\ RestingQuantity(id) \in Nat
<1>1. Traded(id) \in Nat
  BY TradedSum, TotalType DEF Base, TradedSums
<1>2. InFlight(id) \in Nat
  <2>1. CASE engine = "match"
    <3>1. incoming.trades \in Seq(Proved!Trade)
      BY <2>1, MatchingIs DEF Proved!Matching
    <3>2. Got(incoming.trades, id) \in Nat
      BY <3>1, GotType
    <3> QED
      BY <2>1, <3>2 DEF InFlight
  <2>2. CASE engine # "match"
    <3>1. trades \in Seq(Proved!Trade)
      BY DEF Base, BookOK, Proved!IndInv, Proved!TypeOK
    <3>2. Got(trades, id) \in Nat
      BY <3>1, GotType
    <3> QED
      BY <2>2, <3>2 DEF InFlight
  <2> QED
    BY <2>1, <2>2
<1>3. RestingQuantity(id) \in Nat
  BY RestingFacts DEF Base
<1> QED
  BY <1>1, <1>2, <1>3 DEF Executed

\* What rests depends on the book alone.
LEMMA RestingSame ==
  ASSUME BookOK, BookOK', UNCHANGED <<book, orderIndex>>
  PROVE  \A id : RestingQuantity(id)' = RestingQuantity(id)
<1> TAKE id
<1> DEFINE m == IF id = 0 THEN 1 ELSE 0
<1>1. id # m
  OBVIOUS
<1> HIDE DEF m
<1>2. \A i : i # m => /\ i \in DOMAIN orderIndex <=> i \in DOMAIN orderIndex'
                      /\ \A r : Proved!RestsWith(book, i, r) => Proved!RestsWith(book', i, r)
  OBVIOUS
<1> QED
  BY <1>1, <1>2, RestingStays

\* What has been traded depends on what was published alone.
LEMMA LogSame ==
  ASSUME LogOK, UNCHANGED log
  PROVE  LogOK' /\ \A id : Traded(id)' = Traded(id)
<1>1. LogOK'
  BY DEF LogOK, EventOK
<1>2. ASSUME NEW id PROVE Traded(id)' = Traded(id)
  <2>1. Traded(id) = Total(Shares(log, id))
    BY TradedSum DEF TradedSums
  <2>2. TradedSums'
    BY <1>1, TradedSumNext
  <2>3. \A w : w = Shares(log', id) => Traded(id)' = Total(w)
    BY <2>2 DEF TradedSums, Shares, Share
  <2> QED
    BY <2>1, <2>3
<1> QED
  BY <1>1, <1>2

-----------------------------------------------------------------------------
(* What the steps do to what is executed and what rests.                   *)

\* Nothing changes but where trades in hand are.
Quiet ==
  /\ \A id : /\ Executed(id)' = Executed(id)
             /\ InFlight(id)' \in {InFlight(id), 0}
             /\ RestingQuantity(id)' = RestingQuantity(id)
  /\ \A c \in Seen : ReplyOf(c)' = ReplyOf(c)
  /\ \A c : InHand(c)' <=> InHand(c)
  /\ UNCHANGED <<incoming, used>>
  /\ Seen' = Seen

\* Steps away from the book and the publisher.
LEMMA OthersQuiet ==
  ASSUME Base, BookOK',
         UNCHANGED <<book, orderIndex, incoming, used, result, trades, log, promise, ops>>,
         \/ UNCHANGED <<engine, current>>
         \/ engine \notin {"match", "reply", "publish"} /\ engine' \notin {"match", "reply", "publish"}
  PROVE  Quiet /\ LogOK'
<1>1. \A id : Traded(id)' = Traded(id) /\ LogOK'
  BY LogSame DEF Base
<1>2. \A id : InFlight(id)' = InFlight(id)
  <2> TAKE id
  <2>1. CASE UNCHANGED <<engine, current>>
    BY <2>1 DEF InFlight
  <2>2. CASE engine \notin {"match", "reply", "publish"} /\ engine' \notin {"match", "reply", "publish"}
    BY <2>2 DEF InFlight
  <2> QED
    BY <2>1, <2>2
<1>3. \A id : RestingQuantity(id)' = RestingQuantity(id)
  BY RestingSame DEF Base
<1>4. \A id : Executed(id)' = Executed(id)
  BY <1>1, <1>2 DEF Executed
<1>5. \A c \in Seen : ReplyOf(c)' = ReplyOf(c)
  BY DEF ReplyOf
<1>6. \A c : InHand(c)' <=> InHand(c)
  BY DEF InHand
<1>7. Seen' = Seen
  BY DEF Seen
<1> QED
  BY <1>1, <1>2, <1>3, <1>4, <1>5, <1>6, <1>7 DEF Quiet

\* set_value() moves the result from the engine to the promise.
LEMMA SetPromiseQuiet ==
  ASSUME Base, BookOK', SetPromise
  PROVE  Quiet /\ LogOK'
<1>0. /\ engine = "reply" /\ engine' = "publish" /\ promise' = [promise EXCEPT ![current] = result]
      /\ UNCHANGED <<book, orderIndex, incoming, used, result, trades, log, current, ops>>
  BY DEF SetPromise, bookVars
<1>1. \A id : Traded(id)' = Traded(id) /\ LogOK'
  BY <1>0, LogSame DEF Base
<1>2. \A id : InFlight(id)' = InFlight(id)
  BY <1>0 DEF InFlight
<1>3. \A id : RestingQuantity(id)' = RestingQuantity(id)
  BY <1>0, RestingSame DEF Base
<1>4. \A id : Executed(id)' = Executed(id)
  BY <1>1, <1>2 DEF Executed
<1>5. \A c \in Seen : ReplyOf(c)' = ReplyOf(c)
  <2>1. Seen \subseteq DOMAIN promise
    BY DEF Base, CallsOK, Arrived
  <2> QED
    BY <1>0, <2>1 DEF ReplyOf
<1>6. \A c : InHand(c)' <=> InHand(c)
  BY <1>0 DEF InHand
<1>7. Seen' = Seen
  BY <1>0 DEF Seen
<1> QED
  BY <1>0, <1>1, <1>2, <1>3, <1>4, <1>5, <1>6, <1>7 DEF Quiet

\* Publishing moves the trades from the engine's hand to the streams: what was in
\* flight is traded now.
LEMMA PublishQuiet ==
  ASSUME Base, BookOK', Publish
  PROVE  Quiet /\ LogOK'
<1>0. /\ engine = "publish" /\ engine' = "telemetry" /\ log' = log \o Events
      /\ UNCHANGED <<book, orderIndex, incoming, used, result, trades, promise, current, ops>>
  BY DEF Publish, bookVars, engineVars, handlerVars
<1>1. /\ LogOK'
      /\ \A id : Traded(id) \in Nat /\ Traded(id)' = Traded(id) +
           IF message[current].op = "CANCEL" /\ ~result.cancelSuccessful THEN 0 ELSE Got(trades, id)
  BY <1>0, PublishTrades DEF Base
<1>2. \A id : InFlight(id)' = 0 /\ InFlight(id) = Got(trades, id)
  BY <1>0 DEF InFlight
<1>3. \A id : RestingQuantity(id)' = RestingQuantity(id)
  BY <1>0, RestingSame DEF Base
<1>4. \A id : Executed(id)' = Executed(id)
  <2> TAKE id
  <2>1. Traded(id)' = Traded(id) + Got(trades, id)
    <3>1. CASE message[current].op = "CANCEL"
      <4>1. Got(trades, id) = 0
        BY <1>0, <3>1, GotNothing DEF Base, MatchOK
      <4> QED
        BY <1>1, <4>1
    <3>2. CASE message[current].op # "CANCEL"
      BY <1>1, <3>2
    <3> QED
      BY <3>1, <3>2
  <2>2. Traded(id) \in Nat /\ InFlight(id) \in Nat
    BY QuantitiesNat
  <2>3. Traded(id)' + InFlight(id)' = Traded(id) + InFlight(id)
    BY <1>2, <2>1, <2>2
  <2> QED
    BY <2>3 DEF Executed
<1>5. \A c \in Seen : ReplyOf(c)' = ReplyOf(c)
  BY <1>0 DEF ReplyOf
<1>6. \A c : InHand(c)' <=> InHand(c)
  BY <1>0 DEF InHand
<1>7. Seen' = Seen
  BY <1>0 DEF Seen
<1> QED
  BY <1>0, <1>1, <1>2, <1>3, <1>4, <1>5, <1>6, <1>7 DEF Quiet

\* The engine starts on the submission c of order id.
Starts(c, id) ==
  /\ c = current /\ c \in Arrived /\ message[c].op = "SUBMIT" /\ message[c].orderId = id
  /\ id \in OrderIds \ used /\ used' = used \cup {id}
  /\ incoming'.orderId = id /\ incoming'.quantity = message[c].order.quantity
  /\ incoming'.filledQty = 0
  /\ Seen' = Seen \cup {c}
  /\ \A i : /\ Executed(i)' = Executed(i) /\ InFlight(i)' = 0
            /\ RestingQuantity(i)' = RestingQuantity(i)
  /\ \A d : ReplyOf(d)' = ReplyOf(d)
  /\ \A d : ~InHand(d) /\ (InHand(d)' <=> d = c)

\* The engine runs the cancel c of order id.
Cancels(c, id) ==
  /\ engine = "begin" /\ c = current /\ c \in Arrived /\ message[c].op = "CANCEL" /\ message[c].orderId = id
  /\ UNCHANGED <<incoming, used>>
  /\ Seen' = Seen \cup {c}
  /\ \A i : Executed(i)' = Executed(i) /\ InFlight(i) = 0 /\ InFlight(i)' = 0
  /\ \A d : d # c => ReplyOf(d)' = ReplyOf(d)
  /\ ReplyOf(c) = None /\ ReplyOf(c)' # None
  /\ \A i : i # id => RestingQuantity(i)' = RestingQuantity(i)
  /\ \A d : ~InHand(d) /\ ~InHand(d)'
  /\ \/ /\ ReplyOf(c)'.cancelSuccessful = FALSE
        /\ RestingQuantity(id) = 0 /\ RestingQuantity(id)' = 0
     \/ /\ ReplyOf(c)'.cancelSuccessful = TRUE
        /\ RestingQuantity(id) # 0 /\ RestingQuantity(id)' = 0 /\ id \in used

\* The submission of order id takes qty from order m.
Takes(id, m, qty) ==
  /\ engine = "match" /\ incoming.orderId = id /\ m # id /\ m \in used /\ id \in used
  /\ qty <= RestingQuantity(m) /\ qty <= Proved!Left(incoming)
  /\ RestingQuantity(m)' = RestingQuantity(m) - qty
  /\ \A i : i # m => RestingQuantity(i)' = RestingQuantity(i)
  /\ Executed(m)' = Executed(m) + qty /\ Executed(id)' = Executed(id) + qty
  /\ \A i : i \notin {m, id} => Executed(i)' = Executed(i) /\ InFlight(i)' = InFlight(i)
  /\ incoming'.filledQty = incoming.filledQty + qty
  /\ incoming'.quantity = incoming.quantity /\ incoming'.orderId = id
  /\ Seen' = Seen /\ used' = used
  /\ \A d : ReplyOf(d)' = ReplyOf(d)
  /\ \A d : InHand(d)' <=> InHand(d)

\* The submission c of order id comes to its end.
Ends(c, id) ==
  /\ InHand(c) /\ incoming.orderId = id /\ id \in used
  /\ \A i : Executed(i)' = Executed(i) /\ InFlight(i)' = InFlight(i)
  /\ \A i : i # id => RestingQuantity(i)' = RestingQuantity(i)
  /\ Seen' = Seen /\ used' = used
  /\ \A d : d # c => ReplyOf(d)' = ReplyOf(d)
  /\ \A d : ~InHand(d)'
  /\ \/ /\ ReplyOf(c)'.status = "REJECTED" /\ ReplyOf(c)'.filledQuantity = incoming.filledQty
        /\ RestingQuantity(id)' = 0
     \/ /\ ReplyOf(c)'.status # "REJECTED"
        /\ RestingQuantity(id)' = Proved!Left(incoming)

\* A cancel of the instance is a cancel of the book.
LEMMA SameCancel ==
  ASSUME NEW id, Book!CancelResting(id)
  PROVE  Proved!CancelResting(id)
<1>1. Proved!CurrentTopOfBook(book') = Book!CurrentTopOfBook(book')
  BY SameTop
<1> QED
  BY <1>1, Zenon DEF Proved!CancelResting, Book!CancelResting, Proved!RemoveAt, Book!RemoveAt,
       Proved!CancelResult, Book!CancelResult, Proved!DropOrder, Book!DropOrder, Proved!PutLevel,
       Book!PutLevel

\* What submissions and cancels do to the engine's own state.
LEMMA ProcessFacts ==
  ASSUME Base, Process
  PROVE  /\ engine = "begin" /\ ops' = Append(ops, current)
         /\ UNCHANGED <<current, message, promise, log>>
         /\ current \in Arrived /\ promise[current] = None
         /\ message[current].orderId \in OrderIds
         /\ \/ /\ message[current].op = "SUBMIT" /\ engine' = "match"
               /\ Book!Submit(message[current].orderId, message[current].order.side,
                              message[current].order.type, message[current].order.price,
                              message[current].order.quantity)
            \/ /\ message[current].op = "CANCEL" /\ engine' = "reply"
               /\ \/ Book!CancelUnknown(message[current].orderId)
                  \/ Book!CancelResting(message[current].orderId)
<1>1. /\ engine = "begin" /\ ops' = Append(ops, current)
      /\ UNCHANGED <<current, message, promise, log>>
  BY DEF Process, handlerVars
<1>2. current \in Arrived /\ promise[current] = None
  BY <1>1 DEF Base, MessagesOK, InProcess, CallsOK
<1>3. message[current].orderId \in OrderIds
  BY <1>2 DEF Base, MessagesOK, IsMessage
<1> QED
  BY <1>1, <1>2, <1>3 DEF Process

\* OrderBook::submit, as far as the matching loop.
LEMMA SubmitStarts ==
  ASSUME Base, BookOK', Process, message[current].op = "SUBMIT"
  PROVE  (\E c, id : Starts(c, id)) /\ LogOK'
<1> DEFINE c == current
           id == message[current].orderId
           o == message[current].order
<1>1. /\ engine = "begin" /\ engine' = "match" /\ ops' = Append(ops, current)
      /\ UNCHANGED <<current, message, promise, log>> /\ id \in OrderIds /\ c \in Arrived
      /\ Book!Submit(id, o.side, o.type, o.price, o.quantity)
  BY ProcessFacts
<1>2. /\ id \notin used /\ used' = used \cup {id} /\ UNCHANGED <<book, orderIndex, trades>>
      /\ incoming'.orderId = id /\ incoming'.quantity = o.quantity /\ incoming'.filledQty = 0
      /\ incoming'.trades = <<>>
  BY <1>1 DEF Book!Submit
<1>3. Seen' = Seen \cup {c}
  BY <1>1, SeenAppend DEF Base
<1>4. LogOK' /\ \A i : Traded(i)' = Traded(i)
  BY <1>1, LogSame DEF Base
<1>5. \A i : InFlight(i) = 0 /\ InFlight(i)' = 0
  BY <1>1, <1>2, GotNothing DEF InFlight
<1>6. \A i : RestingQuantity(i)' = RestingQuantity(i)
  BY <1>2, RestingSame DEF Base
<1>7. \A i : Executed(i)' = Executed(i)
  BY <1>4, <1>5 DEF Executed
<1>8. \A d : ReplyOf(d)' = ReplyOf(d)
  BY <1>1 DEF ReplyOf
<1>9. \A d : ~InHand(d) /\ (InHand(d)' <=> d = c)
  BY <1>1 DEF InHand
<1>10. Starts(c, id)
  BY <1>1, <1>2, <1>3, <1>5, <1>6, <1>7, <1>8, <1>9 DEF Starts
<1> QED
  BY <1>4, <1>10

\* OrderBook::cancel of an order that rests, or is unknown.
LEMMA CancelCancels ==
  ASSUME Base, BookOK', Process, message[current].op = "CANCEL"
  PROVE  (\E c, id : Cancels(c, id)) /\ LogOK' /\ trades' = <<>>
<1> SUFFICES ASSUME NEW c, c = current, NEW id, id = message[current].orderId
             PROVE  Cancels(c, id) /\ LogOK' /\ trades' = <<>>
  OBVIOUS
<1>1. /\ engine = "begin" /\ engine' = "reply" /\ ops' = Append(ops, current)
      /\ UNCHANGED <<current, message, promise, log>> /\ id \in OrderIds /\ c \in Arrived
      /\ promise[c] = None
      /\ Book!CancelUnknown(id) \/ Book!CancelResting(id)
  BY ProcessFacts
<1>2. trades' = <<>> /\ UNCHANGED <<incoming, used>>
  BY <1>1 DEF Book!CancelUnknown, Book!CancelResting
<1>3. Seen' = Seen \cup {c}
  BY <1>1, SeenAppend DEF Base
<1>4. LogOK' /\ \A i : Traded(i)' = Traded(i)
  BY <1>1, LogSame DEF Base
<1>5. \A i : InFlight(i) = 0 /\ InFlight(i)' = 0
  BY <1>1, <1>2, GotNothing DEF InFlight
<1>7. \A i : Executed(i)' = Executed(i)
  BY <1>4, <1>5 DEF Executed
<1>8. /\ \A d : d # c => ReplyOf(d)' = ReplyOf(d)
      /\ ReplyOf(c) = None /\ ReplyOf(c)' = result'
  BY <1>1 DEF ReplyOf
<1>9. \A d : ~InHand(d) /\ ~InHand(d)'
  BY <1>1 DEF InHand
<1>10. result' # None
  BY ResultIsSomeNext
<1>11. CASE Book!CancelUnknown(id)
  <2>1. UNCHANGED <<book, orderIndex>> /\ id \notin DOMAIN orderIndex /\ result'.cancelSuccessful = FALSE
    BY <1>11 DEF Book!CancelUnknown, Book!CancelResult
  <2>2. \A i : RestingQuantity(i)' = RestingQuantity(i)
    BY <2>1, RestingSame DEF Base
  <2>3. RestingQuantity(id) = 0
    BY <2>1, RestingFacts DEF Base
  <2>4. ReplyOf(c)'.cancelSuccessful = FALSE
    BY <1>8, <2>1
  <2> QED
    BY <1>1, <1>2, <1>3, <1>4, <1>5, <1>7, <1>8, <1>9, <1>10, <2>2, <2>3, <2>4 DEF Cancels
<1>12. CASE Book!CancelResting(id)
  <2>1. result'.cancelSuccessful = TRUE
    BY <1>12 DEF Book!CancelResting, Book!CancelResult
  <2>2. /\ id \in DOMAIN orderIndex /\ RestingQuantity(id)' = 0
        /\ \A i : i # id => RestingQuantity(i)' = RestingQuantity(i)
    BY <1>1, <1>12, SameCancel, CancelTakesOut DEF Base
  <2>3. RestingQuantity(id) # 0 /\ id \in used
    BY <2>2, RestingFacts DEF Base, BookOK, Proved!IndInv, Proved!IdsFresh
  <2>4. ReplyOf(c)'.cancelSuccessful = TRUE
    BY <1>8, <2>1
  <2> QED
    BY <1>1, <1>2, <1>3, <1>4, <1>5, <1>7, <1>8, <1>9, <1>10, <2>2, <2>3, <2>4 DEF Cancels
<1> QED
  BY <1>1, <1>11, <1>12

\* What the matching loop leaves alone.
LEMMA MatchFacts ==
  ASSUME Base, BookOK', Match
  PROVE  /\ engine = "match" /\ engine' = IF incoming' = NoOrder THEN "reply" ELSE "match"
         /\ UNCHANGED <<current, message, promise, log, ops>> /\ Proved!MatchStep
         /\ LogOK' /\ Seen' = Seen
         /\ \A i : Traded(i)' = Traded(i) /\ Traded(i) \in Nat
         /\ incoming \in Proved!Matching /\ incoming.orderId \in used
         /\ incoming.orderId \notin DOMAIN orderIndex /\ RestingQuantity(incoming.orderId) = 0
<1>1. /\ engine = "match" /\ engine' = IF incoming' = NoOrder THEN "reply" ELSE "match"
      /\ UNCHANGED <<current, message, promise, log, ops>> /\ Book!MatchStep
  BY DEF Match, handlerVars
<1>2. incoming \in Proved!Matching
  BY <1>1, MatchingIs
<1>3. incoming.orderId \in used /\ incoming.orderId \notin DOMAIN orderIndex
  BY <1>1 DEF Base, MatchOK, BookOK, Proved!IndInv, Proved!IdsFresh
<1>4. RestingQuantity(incoming.orderId) = 0
  BY <1>3, RestingFacts DEF Base
<1>5. LogOK' /\ \A i : Traded(i)' = Traded(i) /\ Traded(i) \in Nat
  BY <1>1, LogSame, QuantitiesNat DEF Base
<1>6. Proved!MatchStep
  BY <1>1, SameMatchStep
<1>7. Seen' = Seen
  BY <1>1 DEF Seen
<1> QED
  BY <1>1, <1>2, <1>3, <1>4, <1>5, <1>6, <1>7

\* A round of the matching loop that fills.
LEMMA FillMatch ==
  ASSUME Base, BookOK', Match, NEW p \in Prices, Proved!Fill(p)
  PROVE  /\ incoming' # NoOrder
         /\ \E id, m : \E qty \in Nat \ {0} : Takes(id, m, qty)
<1>1. PICK m \in DOMAIN orderIndex, qty \in Nat \ {0} :
           /\ qty <= RestingQuantity(m) /\ qty <= Proved!Left(incoming)
           /\ RestingQuantity(m)' = RestingQuantity(m) - qty
           /\ \A i : i # m => RestingQuantity(i)' = RestingQuantity(i)
           /\ incoming'.filledQty = incoming.filledQty + qty
           /\ \E t \in Proved!Trade :
                /\ incoming'.trades = Append(incoming.trades, t)
                /\ t.quantity = qty /\ t.aggressorOrderId = incoming.orderId
                /\ t.restingOrderId = m
  BY FillTakes DEF Base
<1>2. PICK t \in Proved!Trade :
                /\ incoming'.trades = Append(incoming.trades, t)
                /\ t.quantity = qty /\ t.aggressorOrderId = incoming.orderId
                /\ t.restingOrderId = m
  BY <1>1
<1> DEFINE id == incoming.orderId
<1>3. /\ incoming \in Proved!Matching /\ id \in used /\ id \notin DOMAIN orderIndex
      /\ engine = "match" /\ engine' = IF incoming' = NoOrder THEN "reply" ELSE "match"
      /\ UNCHANGED <<current, promise>> /\ Seen' = Seen
      /\ \A i : Traded(i)' = Traded(i) /\ Traded(i) \in Nat
  BY MatchFacts
<1>4. m # id /\ m \in used
  BY <1>3 DEF Base, BookOK, Proved!IndInv, Proved!IdsFresh
<1>5. incoming'.quantity = incoming.quantity /\ incoming'.orderId = id /\ used' = used
  BY <1>3 DEF Proved!Fill, Proved!Matching
<1>6. incoming' # NoOrder
  <2>1. Proved!IndInv
    BY DEF Base, BookOK
  <2>2. incoming' \in Proved!Matching
    BY <2>1, BookAssumptions, Proved!FillFacts DEF Proved!IndInv
  <2> QED
    BY <2>2, BookAssumptions DEF Proved!NoOrderAssumption
<1>7. engine' = "match"
  BY <1>3, <1>6
<1>8. \A i : InFlight(i)' = InFlight(i) + Part(t, i) /\ InFlight(i) \in Nat
  <2> TAKE i
  <2>1. incoming.trades \in Seq(Proved!Trade)
    BY <1>3 DEF Proved!Matching
  <2>2. InFlight(i) = Got(incoming.trades, i)
    BY <1>3 DEF InFlight
  <2>3. InFlight(i)' = Got(incoming'.trades, i)
    BY <1>7 DEF InFlight
  <2> QED
    BY <1>2, <2>1, <2>2, <2>3, GotAppend, QuantitiesNat
<1>9. /\ Part(t, m) = qty /\ Part(t, id) = qty
      /\ \A i : i \notin {m, id} => Part(t, i) = 0
  BY <1>2 DEF Part
<1>10. \A i : Executed(i)' = Executed(i) + Part(t, i)
  <2> TAKE i
  <2>1. Part(t, i) \in Nat
    BY <1>2 DEF Part, Proved!Trade
  <2> QED
    BY <1>3, <1>8, <2>1 DEF Executed
<1>11. /\ Executed(m)' = Executed(m) + qty
       /\ \A i : i \notin {m, id} => Executed(i)' = Executed(i) /\ InFlight(i)' = InFlight(i)
  <2>1. \A i : Executed(i) \in Nat /\ InFlight(i) \in Nat
    BY QuantitiesNat
  <2> QED
    BY <1>8, <1>9, <1>10, <2>1
<1>12. \A i : i = id => Executed(i)' = Executed(i) + qty
  BY <1>9, <1>10
<1>13. \A d : ReplyOf(d)' = ReplyOf(d)
  BY <1>3, <1>7 DEF ReplyOf
<1>14. \A d : InHand(d)' <=> InHand(d)
  BY <1>3, <1>7 DEF InHand
<1>15. \A i : i = id => Takes(i, m, qty)
  <2> SUFFICES ASSUME NEW i, i = id PROVE Takes(i, m, qty)
    OBVIOUS
  <2>1. Executed(i)' = Executed(i) + qty
    BY <1>12
  <2> HIDE DEF id
  <2>2. incoming.orderId = i
    BY DEF id
  <2> QED
    BY <1>1, <1>3, <1>4, <1>5, <1>11, <1>13, <1>14, <2>1, <2>2 DEF Takes
<1> QED
  BY <1>6, <1>15

\* The end of the matching loop: filled, rejected or at rest.
LEMMA FinishMatch ==
  ASSUME Base, BookOK', Match, ~(\E p \in Prices : Proved!Fill(p))
  PROVE  (\E c, id : Ends(c, id)) /\ incoming' = NoOrder
<1> SUFFICES ASSUME NEW c, c = current, NEW id, id = incoming.orderId
             PROVE  Ends(c, id) /\ incoming' = NoOrder
  OBVIOUS
<1>1. /\ engine = "match" /\ engine' = IF incoming' = NoOrder THEN "reply" ELSE "match"
      /\ UNCHANGED <<current, promise>> /\ Seen' = Seen
      /\ \A i : Traded(i)' = Traded(i) /\ Traded(i) \in Nat
      /\ incoming \in Proved!Matching /\ id \in used
      /\ RestingQuantity(id) = 0
  BY MatchFacts
<1>2. PICK status : Proved!Finish(status)
  BY MatchFacts DEF Proved!MatchStep, Proved!CompleteFilled, Proved!RejectMarket, Proved!RestRemainder
<1>3. /\ incoming' = NoOrder /\ used' = used /\ trades' = incoming.trades
      /\ result'.status = status /\ result'.filledQuantity = incoming.filledQty
  BY <1>2 DEF Proved!Finish
<1>4. engine' = "reply"
  BY <1>1, <1>3
<1>5. \A i : Executed(i)' = Executed(i) /\ InFlight(i)' = InFlight(i)
  <2> TAKE i
  <2>1. InFlight(i) = Got(incoming.trades, i)
    BY <1>1 DEF InFlight
  <2>2. InFlight(i)' = Got(trades', i)
    BY <1>4 DEF InFlight
  <2> QED
    BY <1>1, <1>3, <2>1, <2>2 DEF Executed
<1>6. /\ \A d : d # c => ReplyOf(d)' = ReplyOf(d)
      /\ ReplyOf(c)' = result'
  BY <1>1, <1>4 DEF ReplyOf
<1>7. InHand(c) /\ \A d : ~InHand(d)'
  BY <1>1, <1>4 DEF InHand
<1>8. CASE Proved!CompleteFilled
  <2>1. UNCHANGED <<book, orderIndex>> /\ Proved!Left(incoming) = 0 /\ result'.status = "FILLED"
    BY <1>8 DEF Proved!CompleteFilled, Proved!Finish
  <2>2. \A i : RestingQuantity(i)' = RestingQuantity(i)
    BY <2>1, RestingSame DEF Base
  <2>3. ReplyOf(c)'.status # "REJECTED" /\ RestingQuantity(id)' = Proved!Left(incoming)
    BY <1>1, <1>6, <2>1, <2>2
  <2> QED
    BY <1>1, <1>3, <1>5, <1>6, <1>7, <2>2, <2>3 DEF Ends
<1>9. CASE Proved!RejectMarket
  <2>1. UNCHANGED <<book, orderIndex>> /\ result'.status = "REJECTED"
    BY <1>9 DEF Proved!RejectMarket, Proved!Finish
  <2>2. \A i : RestingQuantity(i)' = RestingQuantity(i)
    BY <2>1, RestingSame DEF Base
  <2>3. /\ ReplyOf(c)'.status = "REJECTED" /\ ReplyOf(c)'.filledQuantity = incoming.filledQty
        /\ RestingQuantity(id)' = 0
    BY <1>1, <1>3, <1>6, <2>1, <2>2
  <2> QED
    BY <1>1, <1>3, <1>5, <1>6, <1>7, <2>2, <2>3 DEF Ends
<1>10. CASE Proved!RestRemainder
  <2>1. result'.status # "REJECTED"
    <3>1. Proved!Finish(IF incoming.filledQty = 0 THEN "QUEUED" ELSE "PARTIAL")
      BY <1>10 DEF Proved!RestRemainder
    <3> QED
      BY <3>1 DEF Proved!Finish
  <2>2. /\ RestingQuantity(id)' = Proved!Left(incoming)
        /\ \A i : i # id => RestingQuantity(i)' = RestingQuantity(i)
    BY <1>10, RemainderComesToRest DEF Base
  <2>3. ReplyOf(c)'.status # "REJECTED"
    BY <1>6, <2>1
  <2> QED
    BY <1>1, <1>3, <1>5, <1>6, <1>7, <2>2, <2>3 DEF Ends
<1> QED
  BY <1>3, <1>8, <1>9, <1>10, MatchFacts DEF Proved!MatchStep

StepIs ==
  \/ Quiet
  \/ \E c, id : Starts(c, id) \/ Cancels(c, id) \/ Ends(c, id)
  \/ \E id, m : \E qty \in Nat \ {0} : Takes(id, m, qty)

\* A submission enters the matching loop with its order.
LEMMA SubmitMatches ==
  ASSUME Base, Process, engine' = "match"
  PROVE  incoming' # NoOrder
<1>1. PICK id \in OrderIds, side \in Book!RequestSides, type \in Book!OrderTypes,
           price \in Prices, quantity \in Quantities :
        Book!Submit(id, side, type, price, quantity)
  BY ProcessKinds DEF Base
<1>2. incoming' = [orderId |-> id, side |-> side, type |-> type, price |-> price,
                   quantity |-> quantity, filledQty |-> 0, filledNotional |-> 0, trades |-> <<>>]
  BY <1>1 DEF Book!Submit
<1>3. quantity \in Nat \ {0}
  BY RequestsAssumption DEF Quantities
<1>4. incoming' \in Book!Matching
  BY <1>2, <1>3 DEF Book!Matching
<1> QED
  BY <1>4, NoOrderAssumption

\* Every step is of one of these kinds.
LEMMA StepsAre ==
  ASSUME Base, BookOK', [Next]_vars
  PROVE  StepIs /\ LogOK' /\ MatchOK'
<1>0. /\ engine \in InProcess => message'[current] = message[current]
      /\ engine = "match" => message[current].op = "SUBMIT"
  BY MessagesStay DEF Base, MessagesOK, BookOK, BookPhase
<1>1. ASSUME UNCHANGED <<book, orderIndex, incoming, used, result, trades, log, promise, ops>>,
             UNCHANGED <<engine, current>>
      PROVE  StepIs /\ LogOK' /\ MatchOK'
  <2>1. Quiet /\ LogOK'
    BY <1>1, OthersQuiet
  <2>2. MatchOK'
    BY <1>0, <1>1 DEF Base, MatchOK, InProcess
  <2> QED
    BY <2>1, <2>2 DEF StepIs
<1>3. ASSUME NEW s \in Subscribers, SubscriberActs(s)
      PROVE  StepIs /\ LogOK' /\ MatchOK'
  BY <1>1, <1>3, SubscriberKeeps DEF bookVars, handlerVars, engineVars
<1>4. CASE UNCHANGED vars
  BY <1>1, <1>4 DEF vars, bookVars, handlerVars, engineVars
<1>5. ASSUME NEW c \in Calls, HandlerActs(c)
      PROVE  StepIs /\ LogOK' /\ MatchOK'
  <2>1. UNCHANGED <<bookVars, log, engine, current, promise, ops>>
    BY <1>5, HandlerCalls, HandlerMessages DEF Base
  <2> QED
    BY <1>1, <2>1 DEF bookVars
<1>6. CASE Process
  <2>1. /\ engine = "begin" /\ UNCHANGED <<current, message>>
        /\ \/ message[current].op = "SUBMIT" /\ engine' = "match"
           \/ message[current].op = "CANCEL" /\ engine' = "reply"
    BY <1>6, ProcessFacts
  <2>2. CASE message[current].op = "SUBMIT" /\ engine' = "match"
    <3>1. (\E c, id : Starts(c, id)) /\ LogOK'
      BY <1>6, <2>2, SubmitStarts
    <3>2. MatchOK'
      BY <1>6, <2>2, SubmitMatches DEF MatchOK
    <3> QED
      BY <3>1, <3>2 DEF StepIs
  <2>3. CASE message[current].op = "CANCEL" /\ engine' = "reply"
    <3>1. (\E c, id : Cancels(c, id)) /\ LogOK' /\ trades' = <<>>
      BY <1>6, <2>3, CancelCancels
    <3>2. MatchOK'
      BY <2>3, <3>1 DEF MatchOK
    <3> QED
      BY <3>1, <3>2 DEF StepIs
  <2> QED
    BY <2>1, <2>2, <2>3
<1>7. CASE Match
  <2>1. /\ engine = "match" /\ engine' = IF incoming' = NoOrder THEN "reply" ELSE "match"
        /\ UNCHANGED <<current, message>> /\ LogOK' /\ message[current].op = "SUBMIT"
    BY <1>0, <1>7, MatchFacts
  <2>2. MatchOK'
    BY <2>1 DEF MatchOK
  <2>3. CASE \E p \in Prices : Proved!Fill(p)
    BY <1>7, <2>1, <2>2, <2>3, FillMatch DEF StepIs
  <2>4. CASE ~(\E p \in Prices : Proved!Fill(p))
    BY <1>7, <2>1, <2>2, <2>4, FinishMatch DEF StepIs
  <2> QED
    BY <2>3, <2>4
<1>8. CASE SetPromise
  <2>1. Quiet /\ LogOK'
    BY <1>8, SetPromiseQuiet
  <2>2. MatchOK'
    <3>1. engine = "reply" /\ engine' = "publish" /\ UNCHANGED <<message, current, trades>>
      BY <1>8 DEF SetPromise, bookVars
    <3> QED
      BY <3>1 DEF Base, MatchOK
  <2> QED
    BY <2>1, <2>2 DEF StepIs
<1>9. CASE Publish
  <2>1. Quiet /\ LogOK'
    BY <1>9, PublishQuiet
  <2>2. MatchOK'
    BY <1>9 DEF Publish, MatchOK
  <2> QED
    BY <2>1, <2>2 DEF StepIs
<1>10. ASSUME EngineStep, ~Process, ~Match, ~SetPromise, ~Publish
       PROVE  StepIs /\ LogOK' /\ MatchOK'
  <2>1. /\ engine \notin {"match", "reply", "publish"} /\ engine' \notin {"match", "reply", "publish"}
        /\ UNCHANGED <<bookVars, log, promise, ops>>
    BY <1>10 DEF EngineStep, Poll, FindNothing, TakeMessage, PublishTelemetry, handlerVars
  <2>2. Quiet /\ LogOK'
    BY <2>1, OthersQuiet DEF bookVars
  <2>3. MatchOK'
    BY <2>1 DEF MatchOK
  <2> QED
    BY <2>2, <2>3 DEF StepIs
<1> QED
  BY <1>3, <1>4, <1>5, <1>6, <1>7, <1>8, <1>9, <1>10, StepKinds

-----------------------------------------------------------------------------
(* The account of every order.                                             *)

Ordered(c, id, asked) ==
  /\ c \in Seen /\ message[c].op = "SUBMIT"
  /\ message[c].orderId = id /\ message[c].order.quantity = asked

Gone(id) ==
  \E c \in Seen : /\ message[c].op = "CANCEL" /\ message[c].orderId = id
                  /\ ReplyOf(c) # None /\ ReplyOf(c).cancelSuccessful = TRUE

Account(c, id, asked) ==
  IF InHand(c)
  THEN /\ Executed(id) = incoming.filledQty /\ incoming.quantity = asked
       /\ incoming.orderId = id /\ ~Gone(id)
  ELSE IF ReplyOf(c).status = "REJECTED"
       THEN Executed(id) = ReplyOf(c).filledQuantity /\ RestingQuantity(id) = 0
       ELSE IF Gone(id)
            THEN Executed(id) < asked /\ RestingQuantity(id) = 0
            ELSE Executed(id) + RestingQuantity(id) = asked

Accounts ==
  /\ \A c, id, asked : Ordered(c, id, asked) => id \in used /\ Account(c, id, asked)
  /\ \A c, d, id, x, y : Ordered(c, id, x) /\ Ordered(d, id, y) => c = d
  /\ \A id \in OrderIds \ used : Executed(id) = 0 /\ ~Gone(id)

\* A message that was processed does not change.
LEMMA SeenMessages ==
  ASSUME Base, [Next]_vars
  PROVE  \A c \in Seen : message'[c] = message[c] /\ c \in Calls
BY MessagesStay DEF Base, CallsOK, Arrived

\* Nor does what was ordered.
LEMMA OrderedSame ==
  ASSUME Base, [Next]_vars, NEW c, c \in Seen' <=> c \in Seen
  PROVE  \A id, asked : Ordered(c, id, asked)' <=> Ordered(c, id, asked)
BY SeenMessages DEF Ordered

\* No order is cancelled but by a cancel that succeeds.
LEMMA GoneSame ==
  ASSUME Base, [Next]_vars, NEW id, Seen \subseteq Seen',
         \A c \in Seen : message[c].op = "CANCEL" => ReplyOf(c)' = ReplyOf(c),
         \A c \in Seen' \ Seen : ~(/\ message'[c].op = "CANCEL" /\ message'[c].orderId = id
                                   /\ ReplyOf(c)' # None /\ ReplyOf(c)'.cancelSuccessful = TRUE)
  PROVE  Gone(id)' <=> Gone(id)
<1>1. \A c \in Seen : message'[c] = message[c]
  BY SeenMessages
<1>2. ASSUME Gone(id) PROVE Gone(id)'
  <2>1. PICK c \in Seen : /\ message[c].op = "CANCEL" /\ message[c].orderId = id
                          /\ ReplyOf(c) # None /\ ReplyOf(c).cancelSuccessful = TRUE
    BY <1>2 DEF Gone
  <2>2. /\ c \in Seen' /\ message'[c].op = "CANCEL" /\ message'[c].orderId = id
        /\ ReplyOf(c)' # None /\ ReplyOf(c)'.cancelSuccessful = TRUE
    BY <1>1, <2>1
  <2> QED
    BY <2>2 DEF Gone
<1>3. ASSUME Gone(id)' PROVE Gone(id)
  <2>1. PICK c \in Seen' : /\ message'[c].op = "CANCEL" /\ message'[c].orderId = id
                           /\ ReplyOf(c)' # None /\ ReplyOf(c)'.cancelSuccessful = TRUE
    BY <1>3 DEF Gone
  <2>2. c \in Seen
    BY <2>1
  <2>3. /\ message[c].op = "CANCEL" /\ message[c].orderId = id
        /\ ReplyOf(c) # None /\ ReplyOf(c).cancelSuccessful = TRUE
    BY <1>1, <2>1, <2>2
  <2> QED
    BY <2>2, <2>3 DEF Gone
<1> QED
  BY <1>2, <1>3

\* The order in the matching loop is the one its call asked for.
LEMMA HandOrdered ==
  ASSUME Base, Accounts, NEW c, InHand(c)
  PROVE  Ordered(c, incoming.orderId, incoming.quantity)
<1>1. engine = "match" /\ c = current /\ c \in Seen /\ message[c].op = "SUBMIT"
  BY MatchingIs DEF InHand, Base, CallsOK
<1> DEFINE id == message[c].orderId
           asked == message[c].order.quantity
<1>2. Ordered(c, id, asked)
  BY <1>1 DEF Ordered
<1> HIDE DEF id, asked
<1>3. incoming.orderId = id /\ incoming.quantity = asked
  BY <1>2 DEF Accounts, Account
<1> QED
  BY <1>2, <1>3

\* An account depends on what is executed, at rest, cancelled and in hand.
LEMMA AccountKeeps ==
  ASSUME NEW c, NEW id, NEW asked, Account(c, id, asked),
         Executed(id)' = Executed(id), RestingQuantity(id)' = RestingQuantity(id),
         Gone(id)' <=> Gone(id), ReplyOf(c)' = ReplyOf(c), InHand(c)' <=> InHand(c),
         InHand(c) => incoming' = incoming
  PROVE  Account(c, id, asked)'
BY DEF Account

\* What a submission carries.
LEMMA OrderedTypes ==
  ASSUME Base, NEW c, NEW id, NEW asked, Ordered(c, id, asked)
  PROVE  c \in Arrived /\ id \in OrderIds /\ asked \in Nat \ {0}
<1>1. c \in Arrived /\ IsMessage(message[c]) /\ message[c].op = "SUBMIT"
  BY DEF Base, CallsOK, MessagesOK, Ordered
<1>2. message[c].orderId \in OrderIds /\ message[c].order \in Requests
  BY <1>1 DEF IsMessage
<1> QED
  BY <1>1, <1>2, RequestsAssumption DEF Ordered

\* Steps that only move results and trades keep the accounts.
LEMMA QuietAccounts ==
  ASSUME Base, Accounts, [Next]_vars, Quiet
  PROVE  Accounts'
<1>0. /\ \A id : Executed(id)' = Executed(id) /\ RestingQuantity(id)' = RestingQuantity(id)
      /\ \A c \in Seen : ReplyOf(c)' = ReplyOf(c)
      /\ \A c : InHand(c)' <=> InHand(c)
      /\ UNCHANGED <<incoming, used>>
      /\ Seen' = Seen
  BY DEF Quiet
<1>1. \A c, id, asked : Ordered(c, id, asked)' <=> Ordered(c, id, asked)
  BY <1>0, OrderedSame
<1>2. \A id : Gone(id)' <=> Gone(id)
  BY <1>0, GoneSame
<1>3. ASSUME NEW c, NEW id, NEW asked, Ordered(c, id, asked)'
      PROVE  id \in used' /\ Account(c, id, asked)'
  <2>1. Ordered(c, id, asked) /\ id \in used /\ Account(c, id, asked) /\ c \in Seen
    BY <1>1, <1>3 DEF Accounts, Ordered
  <2>2. Account(c, id, asked)'
    BY <1>0, <1>2, <2>1, AccountKeeps
  <2> QED
    BY <1>0, <2>1, <2>2
<1>4. \A id \in OrderIds \ used' : Executed(id)' = 0 /\ ~Gone(id)'
  BY <1>0, <1>2 DEF Accounts
<1>5. \A c, d, id, x, y : Ordered(c, id, x)' /\ Ordered(d, id, y)' => c = d
  BY <1>1 DEF Accounts
<1> QED
  BY <1>3, <1>4, <1>5 DEF Accounts

\* A new order has executed nothing, as its id is new.
LEMMA StartAccounts ==
  ASSUME Base, Accounts, [Next]_vars, NEW c, NEW i, Starts(c, i)
  PROVE  Accounts'
<1>0. /\ c \in Arrived /\ message[c].op = "SUBMIT" /\ message[c].orderId = i
      /\ i \in OrderIds \ used /\ used' = used \cup {i}
      /\ incoming'.orderId = i /\ incoming'.quantity = message[c].order.quantity
      /\ incoming'.filledQty = 0
      /\ Seen' = Seen \cup {c}
      /\ \A id : Executed(id)' = Executed(id) /\ RestingQuantity(id)' = RestingQuantity(id)
      /\ \A d : ReplyOf(d)' = ReplyOf(d)
      /\ \A d : ~InHand(d) /\ (InHand(d)' <=> d = c)
  BY DEF Starts
<1>1. message'[c] = message[c]
  BY <1>0, MessagesStay DEF Base
<1>2. c \notin Seen
  <2>1. SUFFICES ASSUME c \in Seen PROVE FALSE
    OBVIOUS
  <2>2. Ordered(c, i, message[c].order.quantity)
    BY <1>0, <2>1 DEF Ordered
  <2> QED
    BY <1>0, <2>2 DEF Accounts
<1>3. \A d, id, asked : d # c => (Ordered(d, id, asked)' <=> Ordered(d, id, asked))
  BY <1>0, OrderedSame
<1>4. \A id : Gone(id)' <=> Gone(id)
  BY <1>0, <1>1, GoneSame
<1>5. ASSUME NEW d, NEW id, NEW asked, Ordered(d, id, asked)'
      PROVE  id \in used' /\ Account(d, id, asked)'
  <2>1. CASE d = c
    <3>1. id = i /\ asked = message[c].order.quantity
      BY <1>1, <1>5, <2>1, <1>0 DEF Ordered
    <3>2. Executed(id)' = 0 /\ ~Gone(id)'
      BY <1>0, <1>4, <3>1 DEF Accounts
    <3> QED
      BY <1>0, <2>1, <3>1, <3>2 DEF Account
  <2>2. CASE d # c
    <3>1. Ordered(d, id, asked) /\ id \in used /\ Account(d, id, asked)
      BY <1>3, <1>5, <2>2 DEF Accounts
    <3>2. Account(d, id, asked)'
      BY <1>0, <1>4, <2>2, <3>1, AccountKeeps
    <3> QED
      BY <1>0, <3>1, <3>2
  <2> QED
    BY <2>1, <2>2
<1>6. \A id \in OrderIds \ used' : Executed(id)' = 0 /\ ~Gone(id)'
  BY <1>0, <1>4 DEF Accounts
<1>7. ASSUME NEW d, NEW e, NEW id, NEW x, NEW y, Ordered(d, id, x)', Ordered(e, id, y)'
      PROVE  d = e
  <2>1. \A f, j, z : Ordered(f, j, z)' => IF f = c THEN j = i ELSE Ordered(f, j, z) /\ j # i
    <3> SUFFICES ASSUME NEW f, NEW j, NEW z, Ordered(f, j, z)'
                 PROVE  IF f = c THEN j = i ELSE Ordered(f, j, z) /\ j # i
      OBVIOUS
    <3>1. f = c => j = i
      BY <1>0, <1>1 DEF Ordered
    <3>2. f # c => Ordered(f, j, z)
      BY <1>3
    <3>3. Ordered(f, j, z) => j \in used
      BY DEF Accounts
    <3> QED
      BY <1>0, <3>1, <3>2, <3>3
  <2>2. CASE d = c \/ e = c
    BY <1>7, <2>1, <2>2
  <2>3. CASE d # c /\ e # c
    <3>1. Ordered(d, id, x) /\ Ordered(e, id, y)
      BY <1>7, <2>1, <2>3
    <3> QED
      BY <3>1 DEF Accounts
  <2> QED
    BY <2>2, <2>3
<1>8. /\ \A d, id, asked : Ordered(d, id, asked)' => id \in used' /\ Account(d, id, asked)'
      /\ \A d, e, id, x, y : Ordered(d, id, x)' /\ Ordered(e, id, y)' => d = e
  BY <1>5, <1>7
<1> QED
  BY <1>6, <1>8 DEF Accounts

\* A cancel that succeeds takes out what rests, which was not nothing; one that
\* fails takes out nothing.
LEMMA CancelAccounts ==
  ASSUME Base, Accounts, [Next]_vars, NEW c, NEW i, Cancels(c, i)
  PROVE  Accounts'
<1>0. /\ c \in Arrived /\ message[c].op = "CANCEL" /\ message[c].orderId = i
      /\ UNCHANGED <<incoming, used>>
      /\ Seen' = Seen \cup {c}
      /\ \A id : Executed(id)' = Executed(id)
      /\ \A d : d # c => ReplyOf(d)' = ReplyOf(d)
      /\ ReplyOf(c) = None /\ ReplyOf(c)' # None
      /\ \A id : id # i => RestingQuantity(id)' = RestingQuantity(id)
      /\ \A d : ~InHand(d) /\ ~InHand(d)'
      /\ \/ /\ ReplyOf(c)'.cancelSuccessful = FALSE
            /\ RestingQuantity(i) = 0 /\ RestingQuantity(i)' = 0
         \/ /\ ReplyOf(c)'.cancelSuccessful = TRUE
            /\ RestingQuantity(i) # 0 /\ RestingQuantity(i)' = 0 /\ i \in used
  BY DEF Cancels
<1>1. message'[c] = message[c] /\ \A d \in Seen : message'[d] = message[d]
  BY <1>0, MessagesStay, SeenMessages DEF Base
<1>2. \A d, id, asked : Ordered(d, id, asked)' <=> Ordered(d, id, asked)
  <2> SUFFICES ASSUME NEW d, NEW id, NEW asked PROVE Ordered(d, id, asked)' <=> Ordered(d, id, asked)
    OBVIOUS
  <2>1. CASE d = c
    BY <1>0, <1>1, <2>1 DEF Ordered
  <2>2. CASE d # c
    BY <1>0, <2>2, OrderedSame
  <2> QED
    BY <2>1, <2>2
<1>3. ASSUME NEW id, Gone(id) PROVE Gone(id)'
  <2>1. PICK d \in Seen : /\ message[d].op = "CANCEL" /\ message[d].orderId = id
                          /\ ReplyOf(d) # None /\ ReplyOf(d).cancelSuccessful = TRUE
    BY <1>3 DEF Gone
  <2>2. d # c
    BY <1>0, <2>1
  <2>3. /\ d \in Seen' /\ message'[d].op = "CANCEL" /\ message'[d].orderId = id
        /\ ReplyOf(d)' # None /\ ReplyOf(d)'.cancelSuccessful = TRUE
    BY <1>0, <1>1, <2>1, <2>2
  <2> QED
    BY <2>3 DEF Gone
<1>4. ASSUME NEW id, Gone(id)', ~Gone(id) PROVE id = i /\ ReplyOf(c)'.cancelSuccessful = TRUE
  <2>1. PICK d \in Seen' : /\ message'[d].op = "CANCEL" /\ message'[d].orderId = id
                           /\ ReplyOf(d)' # None /\ ReplyOf(d)'.cancelSuccessful = TRUE
    BY <1>4 DEF Gone
  <2>2. CASE d = c
    BY <1>0, <1>1, <2>1, <2>2
  <2>3. CASE d # c
    <3>1. /\ d \in Seen /\ message[d].op = "CANCEL" /\ message[d].orderId = id
          /\ ReplyOf(d) # None /\ ReplyOf(d).cancelSuccessful = TRUE
      BY <1>0, <1>1, <2>1, <2>3
    <3> QED
      BY <1>4, <3>1 DEF Gone
  <2> QED
    BY <2>2, <2>3
<1>5. ReplyOf(c)'.cancelSuccessful = TRUE => Gone(i)'
  BY <1>0, <1>1 DEF Gone
<1>6. ASSUME NEW d, NEW id, NEW asked, Ordered(d, id, asked)'
      PROVE  id \in used' /\ Account(d, id, asked)'
  <2>1. Ordered(d, id, asked) /\ id \in used /\ Account(d, id, asked) /\ d # c /\ asked \in Nat
    BY <1>0, <1>2, <1>6, OrderedTypes DEF Accounts, Ordered
  <2>2. ReplyOf(d)' = ReplyOf(d) /\ ~InHand(d) /\ ~InHand(d)'
    BY <1>0, <2>1
  <2>3. CASE id # i
    <3>1. Gone(id)' <=> Gone(id)
      BY <1>3, <1>4, <2>3
    <3>2. Account(d, id, asked)'
      BY <1>0, <2>1, <2>2, <2>3, <3>1, AccountKeeps
    <3> QED
      BY <1>0, <2>1, <3>2
  <2>4. CASE id = i /\ ReplyOf(c)'.cancelSuccessful = FALSE /\ RestingQuantity(i) = 0 /\ RestingQuantity(i)' = 0
    <3>1. Gone(id)' <=> Gone(id)
      BY <1>3, <1>4, <2>4
    <3>2. Account(d, id, asked)'
      BY <1>0, <2>1, <2>2, <2>4, <3>1, AccountKeeps
    <3> QED
      BY <1>0, <2>1, <3>2
  <2>5. CASE /\ id = i /\ ReplyOf(c)'.cancelSuccessful = TRUE
             /\ RestingQuantity(i) # 0 /\ RestingQuantity(i)' = 0
    <3>1. Gone(id)'
      BY <1>5, <2>5
    <3>2. ReplyOf(d).status # "REJECTED" /\ Executed(id) + RestingQuantity(id) = asked
      BY <2>1, <2>2, <2>5 DEF Account
    <3>3. Executed(id) \in Nat /\ RestingQuantity(id) \in Nat
      BY QuantitiesNat
    <3>4. Executed(id)' < asked
      BY <1>0, <2>1, <2>5, <3>2, <3>3
    <3>5. Account(d, id, asked)'
      BY <2>2, <2>5, <3>1, <3>2, <3>4 DEF Account
    <3> QED
      BY <1>0, <2>1, <3>5
  <2> QED
    BY <1>0, <2>3, <2>4, <2>5
<1>7. \A id \in OrderIds \ used' : Executed(id)' = 0 /\ ~Gone(id)'
  <2> TAKE id \in OrderIds \ used'
  <2>1. Executed(id) = 0 /\ ~Gone(id) /\ id \notin used
    BY <1>0 DEF Accounts
  <2>2. ~Gone(id)'
    BY <1>0, <1>4, <2>1
  <2> QED
    BY <1>0, <2>1, <2>2
<1>8. /\ \A d, id, asked : Ordered(d, id, asked)' => id \in used' /\ Account(d, id, asked)'
      /\ \A d, e, id, x, y : Ordered(d, id, x)' /\ Ordered(e, id, y)' => d = e
  BY <1>2, <1>6 DEF Accounts
<1> QED
  BY <1>7, <1>8 DEF Accounts

\* A fill moves the same quantity from what rests of one order to what both
\* orders have executed.
LEMMA TakesAccounts ==
  ASSUME Base, Accounts, [Next]_vars, NEW i, NEW m, NEW qty \in Nat \ {0}, Takes(i, m, qty)
  PROVE  Accounts'
<1>0. /\ engine = "match" /\ incoming.orderId = i /\ m # i /\ m \in used /\ i \in used
      /\ qty <= RestingQuantity(m)
      /\ RestingQuantity(m)' = RestingQuantity(m) - qty
      /\ \A id : id # m => RestingQuantity(id)' = RestingQuantity(id)
      /\ Executed(m)' = Executed(m) + qty /\ Executed(i)' = Executed(i) + qty
      /\ \A id : id \notin {m, i} => Executed(id)' = Executed(id)
      /\ incoming'.filledQty = incoming.filledQty + qty
      /\ incoming'.quantity = incoming.quantity /\ incoming'.orderId = i
      /\ Seen' = Seen /\ used' = used
      /\ \A d : ReplyOf(d)' = ReplyOf(d)
      /\ \A d : InHand(d)' <=> InHand(d)
  BY DEF Takes
<1>1. InHand(current) /\ \A d : InHand(d) => d = current
  BY <1>0 DEF InHand
<1>2. Ordered(current, i, incoming.quantity)
  BY <1>0, <1>1, HandOrdered
<1>3. \A d, id, asked : Ordered(d, id, asked)' <=> Ordered(d, id, asked)
  BY <1>0, OrderedSame
<1>4. \A id : Gone(id)' <=> Gone(id)
  BY <1>0, GoneSame
<1>5. ASSUME NEW d, NEW id, NEW asked, Ordered(d, id, asked)'
      PROVE  id \in used' /\ Account(d, id, asked)'
  <2>1. Ordered(d, id, asked) /\ id \in used /\ Account(d, id, asked)
    BY <1>3, <1>5 DEF Accounts
  <2>2. CASE id = i
    <3>1. d = current
      BY <1>2, <2>1, <2>2 DEF Accounts
    <3>2. /\ Executed(id) = incoming.filledQty /\ incoming.quantity = asked /\ ~Gone(id)
      BY <1>1, <2>1, <3>1 DEF Account
    <3>3. InHand(d)' /\ ~Gone(id)' /\ Executed(id)' = incoming'.filledQty
      BY <1>0, <1>1, <1>4, <2>2, <3>1, <3>2
    <3>4. Account(d, id, asked)'
      BY <1>0, <2>2, <3>2, <3>3 DEF Account
    <3> QED
      BY <1>0, <2>1, <3>4
  <2>3. CASE id = m
    <3>1. ~InHand(d) /\ ~InHand(d)'
      BY <1>0, <2>1, <2>3 DEF Account
    <3>2. RestingQuantity(id) \in Nat /\ RestingQuantity(id) # 0 /\ Executed(id) \in Nat
      BY <1>0, <2>3, QuantitiesNat
    <3>3. /\ ReplyOf(d).status # "REJECTED" /\ ~Gone(id)
          /\ Executed(id) + RestingQuantity(id) = asked
      BY <2>1, <3>1, <3>2 DEF Account
    <3>4. Executed(id)' + RestingQuantity(id)' = asked
      BY <1>0, <2>3, <3>2, <3>3
    <3>5. ReplyOf(d)'.status # "REJECTED" /\ ~Gone(id)'
      BY <1>0, <1>4, <3>3
    <3>6. Account(d, id, asked)'
      BY <3>1, <3>4, <3>5 DEF Account
    <3> QED
      BY <1>0, <2>1, <3>6
  <2>4. CASE id \notin {m, i}
    <3>1. ~InHand(d)
      BY <1>0, <2>1, <2>4 DEF Account
    <3>2. Account(d, id, asked)'
      BY <1>0, <1>4, <2>1, <2>4, <3>1, AccountKeeps
    <3> QED
      BY <1>0, <2>1, <3>2
  <2> QED
    BY <2>2, <2>3, <2>4
<1>6. \A id \in OrderIds \ used' : Executed(id)' = 0 /\ ~Gone(id)'
  <2> TAKE id \in OrderIds \ used'
  <2>1. id \notin {m, i}
    BY <1>0
  <2> QED
    BY <1>0, <1>4, <2>1 DEF Accounts
<1>7. /\ \A d, id, asked : Ordered(d, id, asked)' => id \in used' /\ Account(d, id, asked)'
      /\ \A d, e, id, x, y : Ordered(d, id, x)' /\ Ordered(e, id, y)' => d = e
  BY <1>3, <1>5 DEF Accounts
<1> QED
  BY <1>6, <1>7 DEF Accounts

\* What a submission leaves open at its end rests, unless it is rejected.
LEMMA EndsAccounts ==
  ASSUME Base, Accounts, [Next]_vars, NEW c, NEW i, Ends(c, i)
  PROVE  Accounts'
<1>0. /\ InHand(c) /\ incoming.orderId = i /\ i \in used
      /\ \A id : Executed(id)' = Executed(id)
      /\ \A id : id # i => RestingQuantity(id)' = RestingQuantity(id)
      /\ Seen' = Seen /\ used' = used
      /\ \A d : d # c => ReplyOf(d)' = ReplyOf(d)
      /\ \A d : ~InHand(d)'
      /\ \/ /\ ReplyOf(c)'.status = "REJECTED" /\ ReplyOf(c)'.filledQuantity = incoming.filledQty
            /\ RestingQuantity(i)' = 0
         \/ /\ ReplyOf(c)'.status # "REJECTED"
            /\ RestingQuantity(i)' = Proved!Left(incoming)
  BY DEF Ends
<1>1. /\ message[c].op = "SUBMIT" /\ incoming \in Proved!Matching
      /\ \A d : InHand(d) => d = c
  BY <1>0, MatchingIs DEF InHand
<1>2. Ordered(c, i, incoming.quantity)
  BY <1>0, HandOrdered
<1>3. \A d, id, asked : Ordered(d, id, asked)' <=> Ordered(d, id, asked)
  BY <1>0, OrderedSame
<1>4. \A id : Gone(id)' <=> Gone(id)
  <2>1. \A d \in Seen : message[d].op = "CANCEL" => ReplyOf(d)' = ReplyOf(d)
    BY <1>0, <1>1
  <2> QED
    BY <1>0, <2>1, GoneSame
<1>5. ASSUME NEW d, NEW id, NEW asked, Ordered(d, id, asked)'
      PROVE  id \in used' /\ Account(d, id, asked)'
  <2>1. Ordered(d, id, asked) /\ id \in used /\ Account(d, id, asked)
    BY <1>3, <1>5 DEF Accounts
  <2>2. CASE id = i
    <3>1. d = c
      BY <1>2, <2>1, <2>2 DEF Accounts
    <3>2. /\ Executed(id) = incoming.filledQty /\ incoming.quantity = asked /\ ~Gone(id)
      BY <1>0, <2>1, <3>1 DEF Account
    <3>3. ~InHand(d)' /\ ~Gone(id)' /\ Executed(id)' = incoming.filledQty
      BY <1>0, <1>4, <3>2
    <3>4. incoming.filledQty + Proved!Left(incoming) = asked
      BY <1>1, <3>2 DEF Proved!Left, Proved!Matching
    <3>5. CASE /\ ReplyOf(c)'.status = "REJECTED" /\ ReplyOf(c)'.filledQuantity = incoming.filledQty
               /\ RestingQuantity(i)' = 0
      BY <1>0, <2>1, <2>2, <3>1, <3>3, <3>5 DEF Account
    <3>6. CASE ReplyOf(c)'.status # "REJECTED" /\ RestingQuantity(i)' = Proved!Left(incoming)
      <4>1. Executed(id)' + RestingQuantity(id)' = asked
        BY <2>2, <3>3, <3>4, <3>6
      <4>2. Account(d, id, asked)'
        BY <3>1, <3>3, <3>6, <4>1 DEF Account
      <4> QED
        BY <1>0, <2>1, <4>2
    <3> QED
      BY <1>0, <3>5, <3>6
  <2>3. CASE id # i
    <3>1. ~InHand(d) /\ d # c
      BY <1>0, <1>1, <2>1, <2>3 DEF Account
    <3>2. Account(d, id, asked)'
      BY <1>0, <1>4, <2>1, <2>3, <3>1, AccountKeeps
    <3> QED
      BY <1>0, <2>1, <3>2
  <2> QED
    BY <2>2, <2>3
<1>6. \A id \in OrderIds \ used' : Executed(id)' = 0 /\ ~Gone(id)'
  BY <1>0, <1>4 DEF Accounts
<1>7. /\ \A d, id, asked : Ordered(d, id, asked)' => id \in used' /\ Account(d, id, asked)'
      /\ \A d, e, id, x, y : Ordered(d, id, x)' /\ Ordered(e, id, y)' => d = e
  BY <1>3, <1>5 DEF Accounts
<1> QED
  BY <1>6, <1>7 DEF Accounts

\* Every step keeps the accounts.
LEMMA NextAccounts ==
  ASSUME Base, BookOK', Accounts, [Next]_vars
  PROVE  Accounts'
BY StepsAre, QuietAccounts, StartAccounts, CancelAccounts, TakesAccounts, EndsAccounts DEF StepIs

-----------------------------------------------------------------------------
(* What a cancel that finds nothing tells.                                 *)

Denied(c, id) ==
  /\ c \in Seen /\ message[c].op = "CANCEL" /\ message[c].orderId = id /\ message[c].informed
  /\ ReplyOf(c) # None /\ ~ReplyOf(c).cancelSuccessful

\* The submission c of order id is answered, and nothing is left of the order.
Finished(c, id, asked) ==
  /\ Ordered(c, id, asked) /\ promise[c] # None
  /\ RestingQuantity(id) = 0 /\ InFlight(id) = 0
  /\ Gone(id) => Cancelled(id)

Told == \A c, id : Denied(c, id) => \E s, asked : Finished(s, id, asked)

\* An answer is final.
LEMMA PromiseStays ==
  ASSUME Base, [Next]_vars, NEW c \in Calls, promise[c] # None
  PROVE  promise'[c] = promise[c]
<1>1. CASE UNCHANGED promise
  BY <1>1
<1>2. CASE EngineStep
  <2>1. CASE engine = "reply" /\ promise' = [promise EXCEPT ![current] = result]
    <3>1. promise[current] = None /\ DOMAIN promise = Calls
      BY <2>1 DEF Base, CallsOK
    <3> QED
      BY <2>1, <3>1
  <2> QED
    BY <1>1, <1>2, <2>1, EngineCalls DEF Base
<1>3. ASSUME NEW d \in Calls, HandlerActs(d) PROVE promise' = promise
  BY <1>3, HandlerCalls DEF Base
<1>5. ASSUME NEW s \in Subscribers, SubscriberActs(s) PROVE promise' = promise
  BY <1>5, SubscriberKeeps DEF handlerVars
<1>6. CASE UNCHANGED vars
  BY <1>1, <1>6 DEF vars, handlerVars
<1> QED
  BY <1>1, <1>2, <1>3, <1>5, <1>6, StepKinds

\* Nor is a cancel taken back.
LEMMA CancelledStays ==
  ASSUME Base, [Next]_vars, NEW id, Cancelled(id)
  PROVE  Cancelled(id)'
<1>1. PICK c \in Calls : /\ promise[c] # None /\ message[c].op = "CANCEL"
                         /\ message[c].orderId = id /\ promise[c].cancelSuccessful
  BY DEF Cancelled
<1>2. promise'[c] = promise[c] /\ message'[c] = message[c]
  BY <1>1, PromiseStays, SeenMessages DEF Base, CallsOK
<1> QED
  BY <1>1, <1>2 DEF Cancelled

\* Between operations, what has been decided has been told.
LEMMA GoneCancelled ==
  ASSUME Base, engine # "reply", NEW id, Gone(id)
  PROVE  Cancelled(id)
<1>1. PICK c \in Seen : /\ message[c].op = "CANCEL" /\ message[c].orderId = id
                        /\ ReplyOf(c) # None /\ ReplyOf(c).cancelSuccessful = TRUE
  BY DEF Gone
<1>2. c \in Calls /\ ReplyOf(c) = promise[c]
  BY <1>1 DEF Base, CallsOK, Arrived, ReplyOf
<1> QED
  BY <1>1, <1>2 DEF Cancelled

\* What has been told has been decided.
LEMMA CancelledGone ==
  ASSUME Base, NEW id, Cancelled(id)
  PROVE  Gone(id)
<1>1. PICK c \in Calls : /\ promise[c] # None /\ message[c].op = "CANCEL"
                         /\ message[c].orderId = id /\ promise[c].cancelSuccessful
  BY DEF Cancelled
<1>2. c \in Seen /\ ReplyOf(c) = promise[c]
  BY <1>1 DEF Base, CallsOK, ReplyOf
<1> QED
  BY <1>1, <1>2 DEF Gone

\* An order nothing rests of cannot be cancelled any more.
LEMMA NothingToCancel ==
  ASSUME Base, Accounts, StepIs, [Next]_vars, NEW id, RestingQuantity(id) = 0, Gone(id)'
  PROVE  Gone(id)
<1>1. CASE Quiet
  <2>1. Seen' = Seen /\ \A c \in Seen : ReplyOf(c)' = ReplyOf(c)
    BY <1>1 DEF Quiet
  <2> QED
    BY <2>1, GoneSame
<1>2. ASSUME NEW c, NEW i, Starts(c, i) PROVE Gone(id)
  <2>1. /\ Seen' = Seen \cup {c} /\ \A d : ReplyOf(d)' = ReplyOf(d)
        /\ c \in Arrived /\ message[c].op = "SUBMIT"
    BY <1>2 DEF Starts
  <2>2. message'[c].op = "SUBMIT"
    BY <2>1, MessagesStay DEF Base
  <2> QED
    BY <2>1, <2>2, GoneSame
<1>3. ASSUME NEW c, NEW i, Cancels(c, i) PROVE Gone(id)
  <2>1. /\ c \in Arrived /\ message[c].orderId = i
        /\ Seen' = Seen \cup {c}
        /\ \A d : d # c => ReplyOf(d)' = ReplyOf(d)
        /\ ReplyOf(c) = None
        /\ ReplyOf(c)'.cancelSuccessful = FALSE \/ RestingQuantity(i) # 0
    BY <1>3 DEF Cancels
  <2>2. message'[c] = message[c]
    BY <2>1, MessagesStay DEF Base
  <2>3. ~(/\ message'[c].orderId = id /\ ReplyOf(c)'.cancelSuccessful = TRUE)
    BY <2>1, <2>2
  <2>4. PICK d \in Seen' : /\ message'[d].op = "CANCEL" /\ message'[d].orderId = id
                           /\ ReplyOf(d)' # None /\ ReplyOf(d)'.cancelSuccessful = TRUE
    BY DEF Gone
  <2>5. d # c /\ d \in Seen /\ ReplyOf(d)' = ReplyOf(d)
    BY <2>1, <2>3, <2>4
  <2>6. message'[d] = message[d]
    BY <2>5, SeenMessages
  <2>7. /\ message[d].op = "CANCEL" /\ message[d].orderId = id
        /\ ReplyOf(d) # None /\ ReplyOf(d).cancelSuccessful = TRUE
    BY <2>4, <2>5, <2>6
  <2> QED
    BY <2>5, <2>7 DEF Gone
<1>4. ASSUME NEW c, NEW i, Ends(c, i) PROVE Gone(id)
  <2>1. Seen' = Seen /\ InHand(c) /\ \A d : d # c => ReplyOf(d)' = ReplyOf(d)
    BY <1>4 DEF Ends
  <2>2. message[c].op = "SUBMIT"
    BY <2>1, MatchingIs DEF InHand
  <2>3. \A d \in Seen : message[d].op = "CANCEL" => ReplyOf(d)' = ReplyOf(d)
    BY <2>1, <2>2
  <2> QED
    BY <2>1, <2>3, GoneSame
<1>5. ASSUME NEW i, NEW m, NEW qty, Takes(i, m, qty) PROVE Gone(id)
  <2>1. Seen' = Seen /\ \A d : ReplyOf(d)' = ReplyOf(d)
    BY <1>5 DEF Takes
  <2> QED
    BY <2>1, GoneSame
<1> QED
  BY <1>1, <1>2, <1>3, <1>4, <1>5 DEF StepIs

\* Nothing comes to rest, or trades, of an order that is finished.
LEMMA NothingComesBack ==
  ASSUME Base, Accounts, StepIs, NEW c, NEW id, NEW asked, Finished(c, id, asked)
  PROVE  RestingQuantity(id)' = 0 /\ InFlight(id)' = 0
<1>0. /\ Ordered(c, id, asked) /\ promise[c] # None
      /\ RestingQuantity(id) = 0 /\ InFlight(id) = 0
  BY DEF Finished
<1>1. ASSUME NEW d, InHand(d) PROVE incoming.orderId # id
  <2>1. d # c
    BY <1>0, <1>1 DEF InHand, Base, CallsOK
  <2>2. Ordered(d, incoming.orderId, incoming.quantity)
    BY <1>1, HandOrdered
  <2> QED
    BY <1>0, <2>1, <2>2 DEF Accounts
<1>2. CASE Quiet
  BY <1>0, <1>2 DEF Quiet
<1>3. ASSUME NEW d, NEW i, Starts(d, i) PROVE RestingQuantity(id)' = 0 /\ InFlight(id)' = 0
  BY <1>0, <1>3 DEF Starts
<1>4. ASSUME NEW d, NEW i, Cancels(d, i) PROVE RestingQuantity(id)' = 0 /\ InFlight(id)' = 0
  BY <1>0, <1>4 DEF Cancels
<1>5. ASSUME NEW d, NEW i, Ends(d, i) PROVE RestingQuantity(id)' = 0 /\ InFlight(id)' = 0
  BY <1>0, <1>1, <1>5 DEF Ends
<1>6. ASSUME NEW i, NEW m, NEW qty \in Nat \ {0}, Takes(i, m, qty)
      PROVE  RestingQuantity(id)' = 0 /\ InFlight(id)' = 0
  <2>1. /\ engine = "match" /\ incoming.orderId = i /\ qty <= RestingQuantity(m)
        /\ \A j : j # m => RestingQuantity(j)' = RestingQuantity(j)
        /\ \A j : j \notin {m, i} => InFlight(j)' = InFlight(j)
    BY <1>6 DEF Takes
  <2>2. i # id
    BY <1>1, <2>1 DEF InHand
  <2>3. m # id
    BY <1>0, <2>1
  <2> QED
    BY <1>0, <2>1, <2>2, <2>3
<1> QED
  BY <1>2, <1>3, <1>4, <1>5, <1>6 DEF StepIs

\* A finished order stays finished.
LEMMA FinishedStays ==
  ASSUME Base, Accounts, StepIs, [Next]_vars, Seen \subseteq Seen',
         NEW c, NEW id, NEW asked, Finished(c, id, asked)
  PROVE  Finished(c, id, asked)'
<1>0. /\ Ordered(c, id, asked) /\ promise[c] # None /\ RestingQuantity(id) = 0
      /\ c \in Seen
  BY DEF Finished, Ordered
<1>1. Ordered(c, id, asked)'
  BY <1>0, OrderedSame
<1>2. promise'[c] # None
  BY <1>0, SeenMessages, PromiseStays
<1>3. RestingQuantity(id)' = 0 /\ InFlight(id)' = 0
  BY NothingComesBack
<1>4. Gone(id)' => Cancelled(id)'
  BY <1>0, NothingToCancel, CancelledStays DEF Finished
<1> QED
  BY <1>1, <1>2, <1>3, <1>4 DEF Finished

\* What was processed stays so.
LEMMA SeenGrows ==
  ASSUME StepIs
  PROVE  Seen \subseteq Seen'
BY DEF StepIs, Quiet, Starts, Cancels, Takes, Ends

\* The client of a cancel had the reply to the submission, which the engine has
\* therefore processed.
LEMMA DeniedFinished ==
  ASSUME Base, IdsOK, Accounts, StepIs, [Next]_vars, NEW c, NEW id, Cancels(c, id),
         Denied(c, id)'
  PROVE  \E s, asked : Finished(s, id, asked)'
<1>0. /\ engine = "begin" /\ c \in Arrived
      /\ message[c].op = "CANCEL" /\ message[c].orderId = id
      /\ Seen' = Seen \cup {c} /\ InFlight(id)' = 0
      /\ \/ RestingQuantity(id) = 0 /\ RestingQuantity(id)' = 0
         \/ ReplyOf(c)'.cancelSuccessful = TRUE
  BY DEF Cancels
<1>1. message[c].informed /\ ~ReplyOf(c)'.cancelSuccessful
  BY <1>0, MessagesStay DEF Denied, Base
<1>2. id \in OrderIds /\ id < nextOrderId
  BY <1>0 DEF IdsOK, Base, MessagesOK, IsMessage
<1>3. PICK s \in Arrived : message[s].op = "SUBMIT" /\ message[s].orderId = id
  BY <1>2 DEF IdsOK
<1>4. pc[s] = "answered"
  BY <1>0, <1>1, <1>3 DEF IdsOK
<1>5. promise[s] # None /\ s \in Seen
  BY <1>3, <1>4 DEF Base, CallsOK, Arrived
<1>6. PICK asked : Ordered(s, id, asked)
  BY <1>3, <1>5 DEF Ordered
<1>7. Ordered(s, id, asked)'
  BY <1>0, <1>5, <1>6, OrderedSame
<1>8. promise'[s] # None
  BY <1>5, SeenMessages, PromiseStays
<1>9. RestingQuantity(id) = 0 /\ RestingQuantity(id)' = 0
  BY <1>0, <1>1
<1>10. Gone(id)' => Cancelled(id)'
  BY <1>0, <1>9, NothingToCancel, GoneCancelled, CancelledStays
<1> QED
  BY <1>0, <1>7, <1>8, <1>9, <1>10 DEF Finished

\* Every cancel that is denied is of an order that is finished.
LEMMA NextTold ==
  ASSUME Base, BookOK', IdsOK, Accounts, Told, [Next]_vars
  PROVE  Told'
<1>0. StepIs /\ Seen \subseteq Seen'
  BY StepsAre, SeenGrows
<1> SUFFICES ASSUME NEW c, NEW id, Denied(c, id)'
             PROVE  \E s, asked : Finished(s, id, asked)'
  BY DEF Told
<1>1. /\ c \in Seen' /\ message'[c].op = "CANCEL" /\ message'[c].orderId = id
      /\ message'[c].informed /\ ReplyOf(c)' # None /\ ~ReplyOf(c)'.cancelSuccessful
  BY DEF Denied
<1>2. ASSUME c \in Seen, ReplyOf(c)' = ReplyOf(c)
      PROVE  \E s, asked : Finished(s, id, asked)'
  <2>1. Denied(c, id)
    BY <1>1, <1>2, SeenMessages DEF Denied
  <2>2. PICK s, asked : Finished(s, id, asked)
    BY <2>1 DEF Told
  <2>3. Finished(s, id, asked)'
    BY <1>0, <2>2, FinishedStays
  <2> QED
    BY <2>3
<1>3. CASE Quiet
  BY <1>1, <1>2, <1>3 DEF Quiet
<1>4. ASSUME NEW d, NEW i, Starts(d, i) PROVE \E s, asked : Finished(s, id, asked)'
  <2>1. /\ Seen' = Seen \cup {d} /\ \A e : ReplyOf(e)' = ReplyOf(e)
        /\ d \in Arrived /\ message[d].op = "SUBMIT"
    BY <1>4 DEF Starts
  <2>2. message'[d].op = "SUBMIT"
    BY <2>1, MessagesStay DEF Base
  <2> QED
    BY <1>1, <1>2, <2>1, <2>2
<1>5. ASSUME NEW d, NEW i, Cancels(d, i) PROVE \E s, asked : Finished(s, id, asked)'
  <2>1. /\ Seen' = Seen \cup {d} /\ \A e : e # d => ReplyOf(e)' = ReplyOf(e)
        /\ d \in Arrived /\ message[d].orderId = i
    BY <1>5 DEF Cancels
  <2>2. message'[d].orderId = i
    BY <2>1, MessagesStay DEF Base
  <2>3. CASE c = d
    <3>1. i = id
      BY <1>1, <2>2, <2>3
    <3> QED
      BY <1>0, <1>5, <2>3, <3>1, DeniedFinished
  <2> QED
    BY <1>1, <1>2, <2>1, <2>3
<1>6. ASSUME NEW d, NEW i, Ends(d, i) PROVE \E s, asked : Finished(s, id, asked)'
  <2>1. Seen' = Seen /\ InHand(d) /\ \A e : e # d => ReplyOf(e)' = ReplyOf(e)
    BY <1>6 DEF Ends
  <2>2. message[d].op = "SUBMIT"
    BY <2>1, MatchingIs DEF InHand
  <2>3. c # d
    BY <1>1, <2>1, <2>2, SeenMessages
  <2> QED
    BY <1>1, <1>2, <2>1, <2>3
<1>7. ASSUME NEW i, NEW m, NEW qty, Takes(i, m, qty) PROVE \E s, asked : Finished(s, id, asked)'
  BY <1>1, <1>2, <1>7 DEF Takes
<1> QED
  BY <1>0, <1>3, <1>4, <1>5, <1>6, <1>7 DEF StepIs

-----------------------------------------------------------------------------
(* Quantity                                                                *)

AccountInv ==
  /\ CoreInv /\ SubscribersOK
  /\ CallsOK /\ IdsOK /\ LogOK /\ MatchOK
  /\ Accounts /\ Told

\* The part of the invariant the lemmas start from.
LEMMA AccountBase == AccountInv => Base
  BY DEF AccountInv, Base, CoreInv, SubscribersOK

\* No call has come in.
LEMMA InitCalls ==
  ASSUME Init
  PROVE  CallsOK /\ IdsOK /\ MatchOK /\ LogOK /\ Seen = {}
<1>1. /\ DOMAIN promise = Calls /\ DOMAIN pending = {} /\ engine = "poll" /\ ops = <<>>
      /\ nextOrderId = 0 /\ log = <<>>
      /\ \A c \in Calls : pc[c] = "new" /\ message[c] = None /\ promise[c] = None
  BY DEF Init, Queue!Init
<1>2. Seen = {}
  BY <1>1 DEF Seen, ToSet
<1>3. Arrived = {}
  BY <1>1 DEF Arrived
<1>4. CallsOK
  BY <1>1, <1>2, <1>3 DEF CallsOK
<1>5. \A id \in OrderIds : ~(id < nextOrderId)
  BY <1>1, ArrivedFinite DEF OrderIds
<1>6. IdsOK
  BY <1>1, <1>3, <1>5 DEF IdsOK
<1>7. MatchOK
  BY <1>1 DEF MatchOK
<1>8. LogOK
  BY <1>1, SeqEmpty DEF LogOK
<1> QED
  BY <1>2, <1>4, <1>6, <1>7, <1>8

\* Nothing has been executed.
LEMMA InitExecuted ==
  ASSUME Init, LogOK, NEW id
  PROVE  Executed(id) = 0
<1>1. log = <<>> /\ engine = "poll"
  BY DEF Init
<1> DEFINE w == Shares(log, id)
<1>2. DOMAIN w = {}
  BY <1>1 DEF Shares
<1> HIDE DEF w
<1>3. w \in Seq(Nat) /\ Traded(id) = Total(w)
  BY TradedSum DEF TradedSums, w
<1>4. Traded(id) = 0
  BY <1>2, <1>3, TotalOfNothing
<1>5. InFlight(id) = 0
  BY <1>1 DEF InFlight
<1> QED
  BY <1>4, <1>5 DEF Executed

\* The accounts start empty.
LEMMA InitAccount == Init => AccountInv
<1> SUFFICES ASSUME Init PROVE AccountInv
  OBVIOUS
<1>1. CoreInv /\ SubscribersOK
  BY InitMessages, InitBook, InitStreams DEF CoreInv
<1>2. CallsOK /\ IdsOK /\ MatchOK /\ LogOK /\ Seen = {}
  BY InitCalls
<1>3. Accounts
  BY <1>2, InitExecuted DEF Accounts, Ordered, Gone
<1>4. Told
  BY <1>2 DEF Told, Denied
<1> QED
  BY <1>1, <1>2, <1>3, <1>4 DEF AccountInv

\* Every step keeps the invariant.
LEMMA NextAccount == AccountInv /\ [Next]_vars => AccountInv'
<1> SUFFICES ASSUME AccountInv, [Next]_vars PROVE AccountInv'
  OBVIOUS
<1>0. Base /\ CoreInv /\ SubscribersOK /\ CallsOK /\ IdsOK /\ Accounts /\ Told /\ IsSeq(ops)
  BY AccountBase DEF AccountInv, SubscribersOK
<1>1. CoreInv'
  BY <1>0, NextMessages, NextBook DEF CoreInv
<1>2. SubscribersOK'
  BY <1>0, NextSubscribers
<1>3. CallsOK'
  BY <1>0, NextCalls DEF CoreInv
<1>4. IdsOK'
  BY <1>0, NextIds DEF CoreInv
<1>5. BookOK'
  BY <1>1 DEF CoreInv
<1>6. LogOK' /\ MatchOK'
  BY <1>0, <1>5, StepsAre
<1>7. Accounts'
  BY <1>0, <1>5, NextAccounts
<1>8. Told'
  BY <1>0, <1>5, NextTold
<1> QED
  BY <1>1, <1>2, <1>3, <1>4, <1>6, <1>7, <1>8 DEF AccountInv

\* The inductive invariant of the accounts: what a call asked for, what the book
\* holds, what the engine has in hand and what was published.
THEOREM AccountInvariant == Spec => []AccountInv
  BY InitAccount, NextAccount, PTL DEF Spec

\* No quantity is lost or made up on the way from the request through fills,
\* partial fills, rests and cancels to the published trades, for any requests and
\* any interleaving of handlers and engine (OrderBook::matchOrder,
\* OrderBook::cancel, MatchingEngine::process, MarketDataPublisher::publish).
THEOREM QuantityConserved == Spec => []OrdersAccountedFor
<1>1. AccountInv => OrdersAccountedFor
  <2> SUFFICES ASSUME AccountInv, Published, NEW c \in Submissions, NEW id, id = message[c].orderId,
                      NEW asked, asked = message[c].order.quantity
               PROVE  IF promise[c].status = "REJECTED"
                      THEN Traded(id) = promise[c].filledQuantity /\ RestingQuantity(id) = 0
                      ELSE IF Cancelled(id)
                           THEN Traded(id) < asked /\ RestingQuantity(id) = 0
                           ELSE Traded(id) + RestingQuantity(id) = asked
    BY DEF OrdersAccountedFor
  <2>0. Base /\ Accounts
    BY AccountBase DEF AccountInv
  <2>1. engine \notin {"match", "reply", "publish"}
    BY DEF Published
  <2>2. Ordered(c, id, asked)
    BY DEF Submissions, Ordered, Seen
  <2>3. ~InHand(c) /\ ReplyOf(c) = promise[c]
    BY <2>1 DEF InHand, ReplyOf
  <2>4. Executed(id) = Traded(id)
    <3>1. InFlight(id) = 0
      BY <2>1 DEF InFlight
    <3> QED
      BY <2>0, <3>1, QuantitiesNat DEF Executed
  <2>5. Gone(id) <=> Cancelled(id)
    BY <2>0, <2>1, GoneCancelled, CancelledGone
  <2>6. Account(c, id, asked)
    BY <2>0, <2>2 DEF Accounts
  <2> QED
    BY <2>3, <2>4, <2>5, <2>6 DEF Account
<1> QED
  BY <1>1, AccountInvariant, PTL

\* A client that had the reply to its submission is told `not found' only when
\* the order has gone for good: its cancel cannot overtake the submission in the
\* queue (MatchingEngineServiceImpl::CancelOrder, MatchingEngine::process).
THEOREM CancelsAlwaysFindOrders == Spec => []CancelFindsOrder
<1>1. AccountInv => CancelFindsOrder
  <2> SUFFICES ASSUME AccountInv, NEW c \in Calls, promise[c] # None, message[c].op = "CANCEL",
                      message[c].informed, ~promise[c].cancelSuccessful,
                      NEW id, id = message[c].orderId, NEW submit, submit = SubmitOf(id)
               PROVE  \/ promise[submit].status \in {"FILLED", "REJECTED"}
                      \/ Cancelled(id)
                      \/ Traded(id) = message[submit].order.quantity
    BY DEF CancelFindsOrder
  <2>0. Base /\ Accounts /\ CallsOK /\ IdsOK /\ MessagesOK /\ Told
    BY AccountBase DEF AccountInv, CoreInv
  <2>1. \A d : promise[d] # None => ReplyOf(d) = promise[d] /\ ~InHand(d)
    BY <2>0 DEF CallsOK, ReplyOf, InHand
  <2>2. Denied(c, id)
    BY <2>0, <2>1 DEF Denied, CallsOK
  <2>3. PICK s, asked : Finished(s, id, asked)
    BY <2>0, <2>2 DEF Told
  <2>4. /\ Ordered(s, id, asked) /\ promise[s] # None /\ RestingQuantity(id) = 0
        /\ InFlight(id) = 0 /\ (Gone(id) => Cancelled(id))
    BY <2>3 DEF Finished
  <2>5. /\ s \in Arrived /\ message[s].op = "SUBMIT" /\ message[s].orderId = id
        /\ message[s].order.quantity = asked
    BY <2>0, <2>4, OrderedTypes DEF Ordered
  <2>6. submit = s
    BY <2>0, <2>5, SubmitOfIs
  <2>7. Account(s, id, asked) /\ ~InHand(s) /\ ReplyOf(s) = promise[s]
    BY <2>0, <2>1, <2>4 DEF Accounts
  <2>8. CASE promise[s].status # "REJECTED" /\ ~Gone(id)
    <3>1. Executed(id) + RestingQuantity(id) = asked
      BY <2>7, <2>8 DEF Account
    <3>2. Traded(id) = asked
      BY <2>0, <2>4, <3>1, QuantitiesNat DEF Executed
    <3> QED
      BY <2>5, <2>6, <3>2
  <2> QED
    BY <2>4, <2>6, <2>8
<1> QED
  BY <1>1, AccountInvariant, PTL
=============================================================================
