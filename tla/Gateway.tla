------------------------------ MODULE Gateway -------------------------------
(***************************************************************************)
(* The gateway (web/gateway/server.ts) and its normalizer (normalize.ts)   *)
(* between an exchange and a page: it subscribes to telemetry, again after *)
(* every failure, makes batches of what comes, remembers who owns which    *)
(* resting order, thins out the books, keeps a history, records, and       *)
(* passes on the user's requests with a deadline.                          *)
(*                                                                         *)
(* The exchange is PriceTimePriority, an operation per step, which loses   *)
(* its book and starts its ids again when it restarts.  Callbacks of the   *)
(* gateway run to completion: an action each.  Messages to the page are    *)
(* taken in the order they are sent; what becomes of them on the way, and  *)
(* the choice between live and recorded frames, is the subject of Feed.    *)
(***************************************************************************)
EXTENDS Derive

CONSTANTS
  Orders,       \* what is submitted: [node, side, type, price, quantity]
  HistoryMax,   \* HISTORY_MAX
  LadderRows,   \* ROWS
  MaxResting,   \* the 50_000 of the normalizer
  \* Bounds:
  MaxOps,       \* operations of the exchange
  RecordWithin, \* live frames after which a page does not start a recording any more
  MaxFaults     \* times that the exchange stops, or that a stream breaks while it runs

ASSUME GatewayAssumption ==
  /\ Orders \subseteq [node : STRING, side : {"BID", "ASK"}, type : {"LIMIT", "MARKET"},
                       price : Nat, quantity : Nat \ {0}]
  /\ {HistoryMax, LadderRows, MaxResting} \subseteq Nat \ {0}
  /\ {MaxOps, RecordWithin, MaxFaults} \subseteq Nat

VARIABLES
  queue, used, reply, trades,   \* the book of the exchange: see PriceTimePriority
  running, life, seq,           \* the exchange runs; in its how-manieth life; its _seq
  log,                          \* all operations so far (history)
  calls,                        \* the gateway's telemetry calls
  timers,                       \* calls of subscribeTelemetry that are due
  faults,                       \* a counter for the bound
  exchangeUp, history,          \* variables of server.ts
  recording, recorder,          \* recorder is not null; the frames recorded so far
  resting, pendingBook,         \* fields of Normalizer
  done,                         \* the operations it was given, by their place in the log (history)
  inflight,                     \* the user's requests that may still be executed
  page                          \* what a page was sent

exchangeVars == <<queue, used, reply, trades, running, life, seq, log>>
streamVars == <<calls, timers, faults>>
normalizerVars == <<resting, pendingBook, done>>
recordVars == <<recording, recorder>>
vars == <<exchangeVars, streamVars, normalizerVars, inflight, exchangeUp, history, recordVars,
          page>>

Engine == INSTANCE PriceTimePriority WITH
            OrderIds <- 0 .. MaxOps, Prices <- Nat, Quantities <- Nat, NoOrder <- Null

Nodes == {o.node : o \in Orders}

Init ==
  /\ Engine!Init
  /\ running = TRUE /\ life = 1 /\ seq = 0 /\ log = <<>>
  /\ calls = [k \in 1 .. 2 |-> [st |-> "free", alive |-> FALSE, ended |-> FALSE,
                                events |-> {}, wire |-> <<>>]]
  /\ timers = 1 /\ faults = 0
  /\ exchangeUp = FALSE /\ history = <<>> /\ recording = FALSE /\ recorder = <<>>
  /\ resting = <<>> /\ pendingBook = Null /\ done = <<>>
  /\ inflight = {}
  /\ page = [open |-> FALSE, up |-> FALSE, recording |-> FALSE, frames |-> <<>>, live |-> 0]

-----------------------------------------------------------------------------
(* The exchange                                                            *)

\* depth(10): the best ten levels of one side, best first.
Levels(orders) ==
  Newest(FoldLeft(LAMBDA ls, o :
             IF ls # <<>> /\ Last(ls).price = o.price
             THEN [ls EXCEPT ![Len(ls)].quantity = @ + o.quantity, ![Len(ls)].orders = @ + 1]
             ELSE Append(ls, [price |-> o.price, quantity |-> o.quantity, orders |-> 1]),
           <<>>, orders), 10)

Top(levels, field) == IF levels = <<>> THEN (IF field = "price" THEN Null ELSE 0)
                      ELSE Head(levels)[field]

\* What the engine publishes about the operation it has just finished.  A cancel
\* that finds nothing has no top of book.  `life' and `after', the orders that
\* rest, are history.
Record(op, node, o) ==
  LET bids == Levels(queue'["BID"])
      asks == Levels(queue'["ASK"])
  IN [op |-> op, node |-> node, order |-> o, reply |-> reply', trades |-> trades', seq |-> seq',
      top |-> IF op = "cancel" /\ ~reply'.cancelSuccessful THEN Null
              ELSE [bid |-> Top(bids, "price"), bidQty |-> Top(bids, "quantity"),
                    ask |-> Top(asks, "price"), askQty |-> Top(asks, "quantity")],
      depth |-> [bids |-> bids, asks |-> asks],
      life |-> life,
      after |-> {[id |-> o2.orderId, remaining |-> o2.quantity] :
                   o2 \in ToSet(queue'["BID"]) \cup ToSet(queue'["ASK"])}]

\* Records are numbered, and go out, only while somebody subscribes to telemetry.
Publish(op, node, o) ==
  /\ seq' = IF \E k \in DOMAIN calls : calls[k].st = "open" THEN seq + 1 ELSE seq
  /\ log' = Append(log, Record(op, node, o))
  /\ calls' = [k \in DOMAIN calls |->
                 IF calls[k].st = "open" THEN [calls[k] EXCEPT !.wire = Append(@, Len(log'))]
                 ELSE calls[k]]

\* Who submitted an order of this life.
OwnerIn(l, id) ==
  log[CHOOSE i \in DOMAIN log :
        log[i].life = l /\ log[i].op = "submit" /\ log[i].reply.orderId = id].node

\* The exchange executes a request.
Execute(r) ==
  /\ running /\ Len(log) < MaxOps
  /\ IF r.op = "submit"
     THEN Engine!Submit(Cardinality(used), r.order.side, r.order.type, r.order.price,
                        r.order.quantity)
     ELSE Engine!Cancel(r.id)
  /\ Publish(r.op, r.node, IF r.op = "submit" THEN r.order ELSE Null)
  /\ UNCHANGED <<running, life, timers, faults>>

SubmitRequest(o) == [op |-> "submit", node |-> o.node, order |-> o]
CancelRequest(node, id) == [op |-> "cancel", node |-> node, id |-> id]

\* A bot submits, or cancels an order of its own.
BotActs ==
  /\ \/ \E o \in Orders : o.node # "human" /\ Execute(SubmitRequest(o))
     \/ \E id \in used : /\ OwnerIn(life, id) # "human"
                        /\ Execute(CancelRequest(OwnerIn(life, id), id))
  /\ UNCHANGED <<normalizerVars, inflight, exchangeUp, history, recordVars, page>>

\* The process ends, and with it its streams; some records in them still arrive.
Broken(call, n) ==
  [call EXCEPT !.st = "broken", !.events = {"error", "end"},
               !.wire = IF call.alive THEN SubSeq(@, 1, n) ELSE <<>>]

Stops ==
  /\ running /\ faults < MaxFaults
  /\ faults' = faults + 1
  /\ running' = FALSE
  /\ \E n \in 0 .. Len(log) :
       calls' = [k \in DOMAIN calls |->
                   IF calls[k].st \in {"opening", "open"}
                   THEN Broken(calls[k], IF n < Len(calls[k].wire) THEN n ELSE Len(calls[k].wire))
                   ELSE calls[k]]
  /\ UNCHANGED <<queue, used, reply, trades, life, seq, log, timers, normalizerVars,
                 inflight, exchangeUp, history, recordVars, page>>

\* The process is started again.  Of the user's requests, those that wait in the
\* channel for a connection, within their deadline, will reach it.
Restarts ==
  /\ ~running
  /\ running' = TRUE /\ life' = life + 1 /\ seq' = 0
  /\ queue' = [s \in {"BID", "ASK"} |-> <<>>] /\ used' = {} /\ trades' = <<>>
  /\ inflight' \in SUBSET inflight
  /\ UNCHANGED <<reply, log, streamVars, normalizerVars, exchangeUp, history, recordVars, page>>

-----------------------------------------------------------------------------
(* The normalizer                                                          *)

SIDE == [BID |-> "bid", ASK |-> "ask"]
TYPE == [MARKET |-> "market", LIMIT |-> "limit"]
STATUS == [FILLED |-> "filled", PARTIAL |-> "partial", QUEUED |-> "queued",
           REJECTED |-> "rejected"]
Lookup(names, x, default) == IF x \in DOMAIN names THEN names[x] ELSE default

\* The map of resting orders, in the order of insertion.
Find(map, id) == SelectInSeq(map, LAMBDA e : e.id = id)

\* An order that has been hit is forgotten, although some of it rests: a mutant.
ToTradeOnce(acc, t) ==
  LET i == Find(acc.map, t.restingOrderId)
  IN [map |-> IF i = 0 THEN acc.map ELSE RemoveAt(acc.map, i),
      trades |-> Append(acc.trades,
        [price |-> t.price, qty |-> t.quantity,
         aggressorSide |-> Lookup(SIDE, t.aggressorSide, "bid"),
         aggressorNode |-> acc.node, resting |-> t.restingOrderId,
         restingNode |-> IF i = 0 THEN "?" ELSE acc.map[i].node]),
      node |-> acc.node]

\* A trade, and what is left of the order it hit.
ToTrade(acc, t) ==
  LET i == Find(acc.map, t.restingOrderId)
  IN [map |-> IF i = 0 THEN acc.map
              ELSE IF acc.map[i].remaining <= t.quantity THEN RemoveAt(acc.map, i)
              ELSE [acc.map EXCEPT ![i].remaining = @ - t.quantity],
      trades |-> Append(acc.trades,
        [price |-> t.price, qty |-> t.quantity,
         aggressorSide |-> Lookup(SIDE, t.aggressorSide, "bid"),
         aggressorNode |-> acc.node, resting |-> t.restingOrderId,
         restingNode |-> IF i = 0 THEN "?" ELSE acc.map[i].node]),
      node |-> acc.node]

\* No entry is ever evicted: a mutant.
SetUnbounded(map, e) ==
  LET i == Find(map, e.id) IN IF i = 0 THEN Append(map, e) ELSE ReplaceAt(map, i, e)

\* Map.set() and the eviction of the oldest entry.
SetResting(map, e) ==
  LET i == Find(map, e.id)
      new == IF i = 0 THEN Append(map, e) ELSE ReplaceAt(map, i, e)
  IN IF Len(new) > MaxResting THEN Tail(new) ELSE new

RemoveResting(map, id) ==
  LET i == Find(map, id) IN IF i = 0 THEN map ELSE RemoveAt(map, i)

\* The order of a batch; a cancel has neither side nor type nor price.
ToOrder(raw) ==
  LET cancel == raw.op = "cancel"
  IN [id |-> raw.reply.orderId, node |-> raw.node,
      side |-> IF cancel THEN "" ELSE Lookup(SIDE, raw.order.side, ""),
      type |-> IF cancel THEN "" ELSE Lookup(TYPE, raw.order.type, ""),
      price |-> IF cancel THEN 0 ELSE raw.order.price,
      qty |-> IF cancel THEN 0 ELSE raw.order.quantity,
      status |-> Lookup(STATUS, raw.reply.status, ""),
      filled |-> raw.reply.filledQuantity, cancelOk |-> raw.reply.cancelSuccessful]

\* What an order has filled is not taken off what rests: a mutant.
NormalizeWhole(raw, n) ==
  LET o == ToOrder(raw)
      traded == FoldLeft(ToTrade, [map |-> resting, trades |-> <<>>, node |-> raw.node], raw.trades)
      rests == raw.op = "submit" /\ o.status \in {"queued", "partial"}
  IN [map |-> IF rests
              THEN SetResting(traded.map, [id |-> o.id, node |-> o.node, remaining |-> o.qty])
              ELSE IF raw.op = "cancel" /\ o.cancelOk THEN RemoveResting(traded.map, o.id)
              ELSE traded.map,
      batch |-> [t |-> "batch", seq |-> raw.seq, op |-> raw.op, order |-> o,
                 trades |-> traded.trades, tob |-> raw.top, book |-> Null, n |-> n]]

\* normalize(): the batch, without its book, and the map afterwards; `n', the place
\* of the operation in the log, is history.
Normalize(raw, n) ==
  LET o == ToOrder(raw)
      traded == FoldLeft(ToTrade, [map |-> resting, trades |-> <<>>, node |-> raw.node], raw.trades)
      rests == raw.op = "submit" /\ o.status \in {"queued", "partial"}
  IN [map |-> IF rests
              THEN SetResting(traded.map,
                     [id |-> o.id, node |-> o.node, remaining |-> o.qty - o.filled])
              ELSE IF raw.op = "cancel" /\ o.cancelOk THEN RemoveResting(traded.map, o.id)
              ELSE traded.map,
      batch |-> [t |-> "batch", seq |-> raw.seq, op |-> raw.op, order |-> o,
                 trades |-> traded.trades, tob |-> raw.top, book |-> Null, n |-> n]]

\* Whether a batch carries its book: after a trade, or when 33 ms have passed
\* since the last (`due').
CarriesBook(raw, due) == raw.trades # <<>> \/ due

\* A book that was withheld outlives a batch that carries a newer one: a mutant.
WithheldKept(raw, carries) == IF carries THEN pendingBook ELSE raw.depth

\* The book to flush later.
Withheld(raw, carries) == IF carries THEN Null ELSE raw.depth

-----------------------------------------------------------------------------
(* What goes out                                                           *)

\* broadcast() of a frame, and record().
PageAfter(frame) ==
  IF page.open THEN [page EXCEPT !.frames = Append(@, frame), !.live = @ + 1] ELSE page

\* Books that were withheld are not recorded: a mutant.
RecordedBatches(frame) ==
  IF ~recording \/ frame.t = "book" THEN recorder ELSE Append(recorder, frame)

Recorded(frame) == IF recording THEN Append(recorder, frame) ELSE recorder

\* broadcast(status()).
StatusAfter(up, records) ==
  IF page.open THEN [page EXCEPT !.up = up, !.recording = records] ELSE page

-----------------------------------------------------------------------------
(* Telemetry                                                               *)

\* subscribeTelemetry(), when its timer fires: a second after a call has failed,
\* when that call has delivered all that it had.
Subscribe(k) ==
  /\ timers > 0
  /\ \A j \in DOMAIN calls : calls[j].st # "broken"
  /\ calls[k].st = "free"
  /\ \A j \in 1 .. k - 1 : calls[j].st # "free"
  /\ timers' = timers - 1
  /\ calls' = [calls EXCEPT ![k].st = "opening"]
  /\ UNCHANGED <<exchangeVars, faults, normalizerVars, inflight, exchangeUp, history,
                 recordVars, page>>

\* The call reaches the exchange, which from now on sends it its records ...
Opens(k) ==
  /\ running
  /\ calls[k].st = "opening"
  /\ calls' = [calls EXCEPT ![k].st = "open"]
  /\ UNCHANGED <<exchangeVars, timers, faults, normalizerVars, inflight, exchangeUp, history,
                 recordVars, page>>

\* ... or fails, at once or later, with a running exchange or without.
Fails(k) ==
  /\ calls[k].st \in {"opening", "open"}
  /\ \/ ~running /\ UNCHANGED faults
     \/ running /\ faults < MaxFaults /\ faults' = faults + 1
  /\ \E n \in 0 .. Len(calls[k].wire) : calls' = [calls EXCEPT ![k] = Broken(@, n)]
  /\ UNCHANGED <<exchangeVars, timers, normalizerVars, inflight, exchangeUp, history,
                 recordVars, page>>

OnMetadata(k) ==
  /\ calls[k].st = "open" /\ ~calls[k].alive
  /\ calls' = [calls EXCEPT ![k].alive = TRUE]
  /\ exchangeUp' = TRUE
  /\ page' = StatusAfter(TRUE, recording)
  /\ UNCHANGED <<exchangeVars, timers, faults, normalizerVars, inflight, history, recordVars>>

OnData(k, due) ==
  LET call == calls[k]
      raw == log[Head(call.wire)]
      result == Normalize(raw, Head(call.wire))
      carries == CarriesBook(raw, due)
      batch == [result.batch EXCEPT !.book = IF carries THEN raw.depth ELSE Null]
      all == Append(history, batch)
  IN /\ call.wire # <<>>
     /\ call.st = "open" => call.alive
     /\ calls' = [calls EXCEPT ![k].wire = Tail(@)]
     /\ resting' = result.map
     /\ pendingBook' = Withheld(raw, carries)
     /\ done' = Append(done, Head(call.wire))
     /\ history' = IF Len(all) > HistoryMax THEN Tail(all) ELSE all
     /\ page' = PageAfter(batch)
     /\ recorder' = Recorded(batch)
     /\ UNCHANGED <<exchangeVars, timers, faults, inflight, exchangeUp, recording>>

\* The second of two events of a call is not ignored: a mutant.
DownTwice(k) ==
  /\ exchangeUp' = FALSE
  /\ page' = IF calls[k].alive \/ exchangeUp THEN StatusAfter(FALSE, recording) ELSE page
  /\ timers' = timers + 1

\* Nothing is scheduled when the call had never been up: a mutant.
DownForGood(k) ==
  IF calls[k].ended THEN UNCHANGED <<exchangeUp, page, timers>>
  ELSE /\ exchangeUp' = FALSE
       /\ page' = IF calls[k].alive \/ exchangeUp THEN StatusAfter(FALSE, recording) ELSE page
       /\ timers' = IF calls[k].alive THEN timers + 1 ELSE timers

\* The pages are not told: a mutant.
DownSilently(k) ==
  IF calls[k].ended THEN UNCHANGED <<exchangeUp, page, timers>>
  ELSE exchangeUp' = FALSE /\ timers' = timers + 1 /\ UNCHANGED page

\* once() and down().
Down(k) ==
  IF calls[k].ended THEN UNCHANGED <<exchangeUp, page, timers>>
  ELSE /\ exchangeUp' = FALSE
       /\ page' = IF calls[k].alive \/ exchangeUp THEN StatusAfter(FALSE, recording) ELSE page
       /\ timers' = timers + 1

\* "error" or "end" of a call; "end" comes after the data.
OnEvent(k, e) ==
  LET call == calls[k]
  IN /\ e \in call.events
     /\ e = "end" => call.wire = <<>>
     /\ Down(k)
     /\ calls' = [calls EXCEPT ![k] =
          IF call.events = {e} /\ call.wire = <<>>
          THEN [st |-> "free", alive |-> FALSE, ended |-> FALSE, events |-> {}, wire |-> <<>>]
          ELSE [call EXCEPT !.events = @ \ {e}, !.ended = TRUE, !.alive = FALSE]]
     /\ UNCHANGED <<exchangeVars, faults, normalizerVars, inflight, history, recordVars>>

\* The timer that flushes a withheld book.
FlushBook ==
  LET frame == [t |-> "book", book |-> pendingBook]
  IN /\ pendingBook # Null
     /\ pendingBook' = Null
     /\ page' = PageAfter(frame)
     /\ recorder' = Recorded(frame)
     /\ UNCHANGED <<exchangeVars, streamVars, resting, done, inflight, exchangeUp, history,
                    recording>>

-----------------------------------------------------------------------------
(* Pages                                                                   *)

\* A page connects and gets status and history ...
OnConnection ==
  /\ ~page.open
  /\ page' = [open |-> TRUE, up |-> exchangeUp, recording |-> recording,
              frames |-> history, live |-> 0]
  /\ UNCHANGED <<exchangeVars, streamVars, normalizerVars, inflight, exchangeUp, history,
                 recordVars>>

\* ... and leaves.
OnCloseOfPage ==
  /\ page.open
  /\ page' = [page EXCEPT !.open = FALSE, !.frames = <<>>, !.live = 0, !.up = FALSE,
                          !.recording = FALSE]
  /\ UNCHANGED <<exchangeVars, streamVars, normalizerVars, inflight, exchangeUp, history,
                 recordVars>>

\* "record", on and off.
SetRecording ==
  /\ page.open
  /\ ~recording => page.live <= RecordWithin
  /\ recording' = ~recording
  /\ recorder' = <<>>
  /\ page' = StatusAfter(exchangeUp, ~recording)
  /\ UNCHANGED <<exchangeVars, streamVars, normalizerVars, inflight, exchangeUp, history>>

Shown == ComputeStats(page.frames, Len(page.frames), Nodes \ {"human"})

\* "order" or "cancel" up to its await, the unary call: the page lets the ticket
\* ask only while it is told that the exchange is up.  What the page is told
\* afterwards (see Page) changes nothing here.
OnRequest ==
  /\ page.open /\ page.up
  /\ \E r \in {SubmitRequest(o) : o \in {x \in Orders : x.node = "human"}}
              \cup {CancelRequest("human", id) : id \in DOMAIN Shown.open} :
       r \notin inflight /\ inflight' = inflight \cup {r}
  /\ UNCHANGED <<exchangeVars, streamVars, normalizerVars, exchangeUp, history, recordVars, page>>

\* It is executed, possibly after the deadline of 3 s and the page's own.
ExecutesRequest ==
  /\ \E r \in inflight : Execute(r) /\ inflight' = inflight \ {r}
  /\ UNCHANGED <<normalizerVars, exchangeUp, history, recordVars, page>>

-----------------------------------------------------------------------------
Telemetry(k) ==
  \/ Subscribe(k)
  \/ Opens(k)
  \/ Fails(k)
  \/ OnMetadata(k)
  \/ \E due \in BOOLEAN : OnData(k, due)
  \/ \E e \in {"error", "end"} : OnEvent(k, e)

Next ==
  \/ BotActs
  \/ Stops
  \/ Restarts
  \/ \E k \in DOMAIN calls : Telemetry(k)
  \/ FlushBook
  \/ OnConnection
  \/ OnCloseOfPage
  \/ SetRecording
  \/ OnRequest
  \/ ExecutesRequest

Spec == Init /\ [][Next]_vars

-----------------------------------------------------------------------------
(* Properties                                                              *)

NumbersOf(frames) == LET bs == SelectSeq(frames, IsBatch) IN [i \in DOMAIN bs |-> bs[i].n]

\* So few orders came to rest that none had to be evicted.
NothingEvicted ==
  Cardinality({i \in DOMAIN log : log[i].reply.status \in {"QUEUED", "PARTIAL"}}) <= MaxResting

\* The normalizer has been given every operation of the present life up to its last.
NothingMissed ==
  \A i \in DOMAIN log :
    done # <<>> /\ log[i].life = log[Last(done)].life /\ i < Last(done) => i \in ToSet(done)

\* The variables have their types; the map of resting orders and the history
\* keep within their bounds, however long the gateway runs.
TypeOK ==
  /\ timers \in 0 .. 2
  /\ exchangeUp \in BOOLEAN
  /\ \A k \in DOMAIN calls : /\ calls[k].st \in {"free", "opening", "open", "broken"}
                             /\ ToSet(calls[k].wire) \subseteq DOMAIN log
  /\ Len(resting) <= MaxResting
  /\ \A e \in ToSet(resting) : e.node \in Nodes /\ e.remaining > 0
  /\ Len(history) <= HistoryMax

BatchesFrom(frames, i) == Cardinality({j \in i .. Len(frames) : IsBatch(frames[j])})

\* Whatever breaks, a page is shown every operation at most once and in order,
\* and no operation the gateway had between two others is left out: counted from
\* the end, the batches of a page are the operations the gateway was given.
ViewInOrder ==
  /\ \A i \in 1 .. Len(done) - 1 : done[i] < done[i + 1]
  /\ page.open =>
       \A i \in DOMAIN page.frames : IsBatch(page.frames[i]) =>
         LET k == BatchesFrom(page.frames, i)
         IN k <= Len(done) /\ page.frames[i].n = done[Len(done) + 1 - k]

\* While nothing was missed, the map of resting orders holds those of the
\* exchange with owner and rest, after partial fills, fills and cancels.
RestingExact ==
  done # <<>> /\ NothingMissed /\ NothingEvicted =>
    LET raw == log[Last(done)]
        true == {[id |-> a.id, node |-> OwnerIn(raw.life, a.id), remaining |-> a.remaining] :
                   a \in raw.after}
    IN /\ true \subseteq ToSet(resting)
       /\ raw.life = 1 => Len(resting) = Cardinality(true)

\* normalize.test.ts: fills are attributed to the resting order's owner, or to
\* nobody ("?").
TradesAttributed ==
  \A i \in DOMAIN history : \A j \in DOMAIN history[i].trades :
    LET t == history[i].trades[j]
    IN t.restingNode \in {OwnerIn(log[history[i].n].life, t.resting), "?"}

\* A trade with an order whose submission the gateway was told of is attributed
\* to its owner, in every life of the exchange, or if it was evicted to nobody.
AttributedWhenSeen ==
  \A i \in DOMAIN history : \A j \in DOMAIN history[i].trades :
    LET t == history[i].trades[j]
        l == log[history[i].n].life
        told == \E n \in ToSet(done) : /\ n < history[i].n /\ log[n].life = l
                                       /\ log[n].op = "submit" /\ log[n].reply.orderId = t.resting
    IN told => \/ t.restingNode = OwnerIn(l, t.resting)
               \/ ~NothingEvicted /\ t.restingNode = "?"

\* Prices fall from the top of the ladder to its bottom, without an empty row
\* between the best ask and the best bid if there are both.
ReadsDown(book) ==
  LET rows == Ladder(book, LadderRows)
  IN /\ \A i, j \in DOMAIN rows :
          i < j /\ rows[i] # Null /\ rows[j] # Null => rows[i].price > rows[j].price
     /\ book.asks # <<>> => rows[LadderRows] = Head(book.asks)
     /\ book.bids # <<>> => rows[LadderRows + 1] = Head(book.bids)

\* Once the withheld book is flushed, a page that was connected for it shows the
\* book of the last operation, whatever was coalesced before, in a ladder that
\* reads down; and if nothing was missed, the prices above its tape are those at
\* the spread of its ladder.
ViewCurrent ==
  page.open /\ page.live > 0 /\ pendingBook = Null =>
    LET n == Len(page.frames)
        book == BookAt(page.frames, n)
        last == LastBatchBefore(page.frames, n)
    IN /\ book = log[Last(done)].depth /\ ReadsDown(book)
       /\ NothingMissed /\ last # Null /\ log[last.n].life = log[Last(done)].life =>
            last.tob = [bid |-> Top(book.bids, "price"), bidQty |-> Top(book.bids, "quantity"),
                        ask |-> Top(book.asks, "price"), askQty |-> Top(book.asks, "quantity")]

BoughtBy(i, t) == OwnerIn(log[i].life, IF t.aggressorSide = "BID" THEN t.aggressorOrderId
                                       ELSE t.restingOrderId)
SoldBy(i, t) == OwnerIn(log[i].life, IF t.aggressorSide = "BID" THEN t.restingOrderId
                                     ELSE t.aggressorOrderId)

\* What a node has gained, in units and in cash, by everything in the log.
Ledger(node) ==
  LET Signed(i, t) == (IF BoughtBy(i, t) = node THEN 1 ELSE 0)
                        - (IF SoldBy(i, t) = node THEN 1 ELSE 0)
      Of(i) == FoldLeft(LAMBDA acc, t : [position |-> acc.position + Signed(i, t) * t.quantity,
                                         cash |-> acc.cash - Signed(i, t) * t.quantity * t.price],
                        [position |-> 0, cash |-> 0], log[i].trades)
  IN [position |-> MapThenSumSet(LAMBDA i : Of(i).position, DOMAIN log),
      cash |-> MapThenSumSet(LAMBDA i : Of(i).cash, DOMAIN log)]

\* A page that was sent every operation of a life has the positions and the cash
\* of every node right, its table balances, and the user's open orders are those
\* that rest: also when the ticket was told that its request had failed and the
\* exchange executed it afterwards.
StatsTruthful ==
  page.open /\ life = 1 /\ NumbersOf(page.frames) = [i \in DOMAIN log |-> i] /\ log # <<>> =>
    LET rows == BotRows(Shown, SetToSeq(Nodes \ {"human"}))
    IN /\ \A node \in Nodes : LET s == Get(Shown.stats, node)
                              IN [position |-> s.position, cash |-> s.cash] = Ledger(node)
       /\ MapThenSumSet(LAMBDA i : Pnl(Shown, rows[i]), DOMAIN rows) = 0
       /\ {[id |-> id, remaining |-> Shown.open[id].remaining] : id \in DOMAIN Shown.open}
            = {a \in Last(log).after : OwnerIn(1, a.id) = "human"}

\* Every page knows what the gateway knows, and the gateway claims a connection
\* only while it has a call that has answered and not ended.
StatusTruthful ==
  /\ page.open => page.up = exchangeUp /\ page.recording = recording
  /\ exchangeUp => \E k \in DOMAIN calls : calls[k].alive

\* A recording holds all the frames a page was sent meanwhile, withheld books
\* too, in their order: a replay shows what was seen.
RecordingFaithful ==
  LET seen == SubSeq(page.frames, Len(page.frames) - page.live + 1, Len(page.frames))
  IN page.open /\ recording => IsSuffix(recorder, seen) \/ IsSuffix(seen, recorder)

\* Whatever fails, of a call that had been up or of one that had not, the gateway
\* has one subscription or is about to make one: never none, and never two.
OneSubscription ==
  timers + Cardinality({k \in DOMAIN calls : calls[k].st # "free" /\ ~calls[k].ended}) = 1
=============================================================================
