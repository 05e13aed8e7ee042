# Market_Sandbox: TLA+ models, checks and proofs

Market_Sandbox is a small trading venue: a C++ exchange process (gRPC front, a
multi-producer single-consumer queue, one matching thread, two publishers), bots
that trade on it, a Node gateway and a browser page that shows the market live
or from a recording. This directory models the parts that carry state and
concurrency, checks them with TLC on small instances and proves the main facts
about the order book, the submission queue, the exchange process, the gateway,
the browser's feed and the trade ticket with TLAPS for every size.

## 1. Inventory

| component | source | state | operations | what makes it correct |
|---|---|---|---|---|
| Order book | `engine/orderBook.*` | two price maps of FIFO lists, index from id to place | `submit`, `cancel`, `depth` | never crossed, price-time priority, index exact, no empty level, truthful replies and top of book, the matching loop ends |
| Submission queue | `repo/mpscqueue.h` | chain of fixed-size buffers, atomic `tail` and `tailOfQueue`, consumer's head, garbage list | `enqueue` (many threads), `dequeue` (one) | nothing lost, duplicated or reordered; buffers freed once and not used afterwards; producers do not block each other |
| Exchange process | `service/exchangeService.cpp`, `engine/matchingEngine.*`, `engine/marketDataPublisher.*`, `engine/telemetry.h` | promise per call, engine loop, subscriber maps | `SubmitOrder`, `CancelOrder`, two `Subscribe` streams | every call answered, truthfully, quantities conserved, streams without gaps |
| Cap'n Proto feed | `service/capnpFeedServer.*` | client threads | accept, serve, stop | as any stream |
| Gateway | `web/gateway/server.ts`, `normalize.ts` | clients, history, resting-order map, withheld book | resubscribe, broadcast, requests, recording | status truthful, history contiguous, trades attributed to the right node |
| Browser feed | `web/src/feed.ts`, `Transport.tsx` | frames, source, clock, cursor, retry timer | messages, timers, fetch, playback controls | live and recorded frames apart, no gaps, banner true |
| Derived views | `web/src/derive.ts`, `Workspace.tsx`, `Bots.tsx`, `Performance.tsx` | none: functions of the frames | book, ladder, tape, chart, accounts, percentiles | agree with what the exchange did |
| Diagram and inspector | `Scope.tsx`, `Inspector.tsx`, `App.tsx` | dots, spotlight, selection, what App was last told | animation frame, click, select, follow | App and the waterfall show the order that is followed, at its stage |
| Trade ticket | `Terminal.tsx`, `feed.ts` | fields, busy flag, message, pending requests | edit, pick, submit, cancel, results, timers | one order at a time, truthful message, never busy for good |
| Nodes | `nodes/` | a strategy's own orders | quote, cancel, stream | no forgotten quotes |
| DTOs, tests | `dto/`, `proto/` | none of their own | conversion | - |

Handlers put a `QueueMessage` with a promise on the submission queue and wait
for its future. The engine thread spins on `dequeue`, runs the operation on the
book, sets the promise, and only then publishes the events to the queues of the
subscribers, each drained by a thread of its own. The gateway is a subscriber of
telemetry; it keeps the last batches as history and forwards to browsers over
WebSockets. The browser takes live frames, or a recording it fetches when there
is no exchange.

What is hard here, and hardly reached by a test: producers that overtake each
other inside `enqueue` while the consumer frees buffers; subscribers that come
and go between the look at `hasSubscribers()` and the publication; a recording that arrives after the exchange came up; an
exchange that comes and goes around a reconnect, or restarts and starts its ids
again; books withheld and flushed around newer ones; answers that come after
their deadline, or not at all. `PROJECT.json` lists these as
hazards, each at its line, with the properties that cover it.

## 2. Modules

| module | models | extends or instantiates |
|---|---|---|
| `OrderBook` | the book, one fill of the matching loop per step | - |
| `PriceTimePriority` | abstract: one ranked list of orders, a submission matched in one step | - |
| `OrderBookRefinement` | `OrderBook` with a history variable, and the mapping to `PriceTimePriority` | both |
| `OrderBookProofs` | theorems about `OrderBook` | `OrderBook`, TLAPS |
| `MessageQueue` | abstract: what `enqueue` and `dequeue` promise | - |
| `MPSCQueue` | the queue between accesses to shared memory, and the mapping to `MessageQueue` | instance of `MessageQueue` |
| `MPSCQueueProofs` | theorems about the list of buffers and about what the queue promises | `MPSCQueue`, `SumFacts`, TLAPS |
| `Exchange` | handlers, engine thread, publishers, subscribers | instance of `OrderBook` and of `MessageQueue` |
| `ExchangeProofs` | theorems about `Exchange` | `Exchange`, instance of `OrderBookProofs`, `SeqFacts`, `SumFacts`, TLAPS |
| `Feed` | the browser's feed and the gateway as it sees it | - |
| `FeedProofs` | theorems about `Feed` | `Feed`, `SumFacts`, TLAPS |
| `Derive` | what the page computes from frames, as operators | - |
| `Gateway` | gateway and normalizer, between an exchange that fails and a page | `Derive`, instance of `PriceTimePriority` |
| `GatewayProofs` | theorems about `Gateway` | `Gateway`, `SeqFacts`, `SumFacts`, TLAPS |
| `Diagram` | dots, spotlight, list and waterfall | `Derive` |
| `Ticket` | the trade ticket and its requests | `Derive` |
| `Page` | diagram and ticket | both |
| `TicketProofs` | theorems about the ticket as a part of `Page` | `Page`, TLAPS |
| `SeqFacts` | lemmas about sequences of anything, for the proofs | TLAPS |
| `SumFacts` | lemmas about induction over numbers and finite sets, and about sums, for the proofs | TLAPS |
| `MCMPSCQueue`, `MCExchange`, `MCFeed`, `MCGateway`, `MCPage` | the instances for TLC | one each |

An operator whose comment ends in "a mutant" is not part of a specification: it
is the definition that follows it with a plausible mistake in it, and shows that
a property would notice.

### OrderBook

`book` is `_bids` and `_asks` (a function from the prices present to the list
at that price), `orderIndex` is `_orderIndex` (side and price; the iterator is
represented by the id being in the list there, which is what `IndexExact` says),
`incoming` is the order inside `submitBid` or `submitAsk` together with the
local counters, `result`, `trades` and `topOfBook` are what the operation hands
back. `submitBid` and `submitAsk` are the same code with the sides and the
comparison exchanged and are one set of actions with a side: `Submit` (entry),
`Fill` (one turn of the inner loop, with the removal of the filled order and of
the emptied level), and one of `CompleteFilled`, `RejectMarket`,
`RestRemainder`. `CancelUnknown` and `CancelResting` are `cancel`. A request of
unspecified side is an ask and one of unspecified type behaves as in the code:
it takes any price, and its rest goes into the book. Prices are integers: only their order and
equality matter to the code. Quantities are positive, as all clients in the
repository send them. `avgPrice` is kept as
`filledNotional`, before the division; time stamps and node names are left out.
`Depth` lists the levels by rank, the i-th being the one with i - 1 better ones,
which is the place the iteration over the map reaches it at.

### MPSCQueue

The heap is a sequence of buffers that are never reused, each `live`, `folded`
(its slots deleted) or `deleted`. A step of a thread is what it does between two
accesses to memory that another thread writes; the consumer's own data
(`head`, the garbage list) is updated along with the access before it. `Claim`
is the `fetch_add`, `LoadTail`/`CheckTail`/`Link`/`SwingTail` the loop that
extends the chain, `WalkBack`, `Write` and `LinkAhead` the rest of `enqueue`.
`LeaveBuffer` to `TakeFound` are `dequeue`, with `ScanSlot`, `ScanBuffer`,
`Fold`, `ScanNextBuffer` and `ReScan`. A thread that follows a dangling pointer
may read what was there or end the process (`Crash`): both are outcomes of that
undefined behaviour. Memory is sequentially consistent; the orders the code asks
for (release on the links, acquire in the consumer, sequentially consistent
elsewhere) are not examined. `IndexModulus` stands for 2^32.

`pending` and `calm` are history variables for the refinement mapping: which
items an item must not overtake, and whether a `dequeue` has run undisturbed.

### MessageQueue

What the exchange may rely on: an item is delivered at most once and only if it
was enqueued; one whose `enqueue` returned before another's began is delivered
first; `dequeue` says "empty" only if it is, or if an `enqueue` was open during
it. The MPSC queue implements it (`ImplementsMessageQueue`, checked in `mpsc_queue`
and proved), so that `Exchange` can be built on the promise alone.

### Exchange

`Calls` are RPC invocations. `SubmitOrder` and `CancelOrder` are the handlers up
to `enqueue`; `Enqueue`, `EnqueueReturns` and `Respond` are the rest. The engine
goes through `Poll`, `TakeMessage`, `Process`, `Match`, `SetPromise`, `Publish`
and `PublishTelemetry`, or `FindNothing` and polls again, as `run` and
`process` do. A subscriber is `new`, `open`, `leaving` (out of its loop and not
yet unsubscribed: events still go into its queue) or `gone`. A gRPC stream and a
Cap'n Proto client do the same and are both members of `Streams`; telemetry
streams are `Viewers`. The loop of `publish` holds the publisher's mutex, so
that subscribing and unsubscribing cannot fall into it; it is one step. The
process has no end of its own: `main` waits in `server->Wait()`, which returns
after a `Shutdown` that nothing in the repository calls, so `engine.stop()` and
`feed.stop()` behind it are not reached and `_running` stays true. `log`, `ops`
and `since` are history.

### Feed

The fields of `class Feed` by name, the timers and fetches in flight as
variables, and the gateway reduced to what it sends: status and history on
connection, then batches and withheld books, over a channel that keeps order and
loses everything when it closes. `useReplay` is cut at its `await`: `UseReplay`
before it, `FetchSucceeds` and `FetchFails` after. While playing, the clock
moves to any later time. The `at` of a frame is arbitrary, as batches carry the
exchange's clock and books the gateway's. `GatewayReachable` is the build-time
constant; it is true in all runs, as the page otherwise makes a single fetch.

### Derive

`derive.ts` and what `Workspace`, `Bots` and `Performance` do before they draw.
Backward scans of the code are searches for the last frame with a property,
loops that accumulate are folds. `RecentTrades` and `PriceSeries` keep the order
of the code: the tape is newest first, and the chart has the trades of one batch
last to first, because the code reverses the whole list. Fractions of a journey
are kept as fractions of `100 * whole`, so nothing is rounded.

### Gateway

The exchange is `PriceTimePriority`, already shown to be what `OrderBook`
implements, one operation per step; `Stops` and `Restarts` lose its book and
start its ids again. `log` is the history of all operations of all lives, and
the records on a call's `wire` are places in it. A call goes from `opening` to
`open` when the exchange has registered it, is `alive` between its metadata and
its end (`OnMetadata`, `OnEvent`), and `broken` while events are due: `"error"`
and `"end"` both come, in either order, and `once` in the code must see to it
that only the first counts (`Down`). A call that breaks loses any tail of its
records. `OnData` is the whole handler: normalization with its map of resting
orders (`ToTrade`, `SetResting`, `RemoveResting`), withholding or sending the
book, history, broadcast and recording. `FlushBook` is the timer of the withheld
book; whether 33 ms have passed is `due`. The map keeps the insertion order of a
JavaScript `Map`, as eviction depends on it. Requests of the user stay in
`inflight` until the exchange executes them, however late; of those that were
under way when it is restarted, any may be gone and any may wait in the channel
for the new one.
A resubscription happens after the broken call has delivered what it had: the
timer is a second, the records are local. `recording` and `recorder` are the
open file and what has been written to it.

### Diagram, Ticket and Page

`Draw` is one animation frame: dots move, new frames up to the playback clock
become dots (at most `MaxPackets`), those that have arrived go, and the order in
the spotlight moves and reports to App when its number or its stage changes.
`n` is how many frames have been played; it stands for the feed's `cursor` and
for the index of the playback clock, by which the inspector cuts the frames.
`Seek` moves it anywhere: the user drags the bar, or a recording starts over.
Trimming and a change between live and recorded frames are in `Feed` only.
Dots are drawn faster than the spotlight (`Rate`). Selections, clicks and "follow
in slow motion" change `selected` and `spotRef` as App, Scope and Inspector do
together. `Ticket` has the fields (in tenths and hundredths, with `Huge` for a
number that JavaScript reads as Infinity, and `Null` for one that is none), the
guard of the button as it was rendered (`shown`), the requests with the page's
4 s timer, and the gateway's answers, which may be lost, late or "failed"
although the exchange acts. Diagram and ticket share no state; a behaviour of
`Page` uses one of them (`part`), which covers each alone in full.

## 3. Runs

"Pass" runs are explored completely. Deadlock is checked where the system cannot
stop; the other configurations say so (producers with a quota finish, a queue
that crashed stays crashed).

| run | instance | shows |
|---|---|---|
| `order_book` | 4 orders, 2 prices, quantities 1 and 2 | type, uncrossed book, exact index, truthful replies, current top of book, a matching loop that ends; and price-time priority: every operation is the one-step matching of the abstract book |
| `mpsc_queue` | a slow producer with 1 item, a busy one with 4, buffers of 2 | chain in one piece and no buffers beyond need, each writer in the slot it claimed; folded buffers freed once and safe to walk over; a producer that is alone, as in the queues of subscribers, uses no freed memory; every item is delivered; implements `MessageQueue` |
| `exchange_orders` | 3 calls | quantities conserved; a reply tells what was published of the order, a rejected one's too; an informed cancel finds a resting order; every call is answered |
| `exchange_streams` | 2 calls, a stream, a viewer, two levels of bids | gapless streams, a drained stream is current, telemetry without gaps whose depth agrees with its top of book |
| `feed_session` | 2 connections, 3 changes of the exchange, 3 batches, 1 book, 2 uses of the controls | live and recorded frames apart, live frames contiguous and bounded, the cursor within them, a retry exactly when there is no connection, no page stuck "connecting" |
| `gateway` | a bot and the user, 3 operations, one fault, history and map of 2 | every operation shown once and in order, resting orders and owners right after any sequence of fills and cancels, book and ladder current once the withheld book is flushed, accounts and open orders right, status true, recordings complete, exactly one subscription |
| `page` | 5 frames over a restart, or 4 with a rising bid, 3 gestures; 2 requests, 2 edits, a lost connection | spotlight and waterfall agree; stages ordered whatever the time stamps; chart, quote line and percentiles right; orders well formed; one order at a time; truthful messages; never busy for good |
| `mpsc_reclaim`, `mpsc_wrap`, `feed_banner`, `feed_outage`, `gateway_restart` | | the violations described below |

Bounds. Four orders are enough for a level with two orders, a fill over two
levels, a partial fill of the first order in a list and a cancel in between; the
invariants are proved for every number of orders and prices. Buffers of two
slots make a chain of three with four items, so that the racing links, the walk
back, the pre-allocation (at slot `BufferSize - 2`) and the release of a buffer
happen; a fold needs a buffer of taken items between the slow producer's and the
last, hence four items of the fast one. Three calls are the fewest for a partial
fill followed by a cancel. Frames are trimmed by two at a time in `feed_session`,
so that trimming can leave a cursor behind. In `gateway`, three operations are a
submission, a partial fill and a cancel, or two lives with a trade in the second;
asks of 2 and bids of 1 make partial fills from both ends; the map holds two
orders, so the third evicts, though no trade follows the eviction (the theorem
`AlwaysAttributedWhenSeen` covers that); a history of two is overrun. One fault is a stop or
a broken stream, each with any number of records lost. `RecordWithin` says how
many frames into its connection a page may begin a recording; it does not limit
when a recording ends. At 0 a recording begins before the first live frame; the
theorem `RecordingAlwaysFaithful` is about any. In `page`, dots cover 45 or 120 per cent of the way in a
step and the one followed 15 or 40, so that stages are passed one by one and
skipped. One session has a batch that took no time, one with stamps out
of order, numbers used twice, a bid that goes and comes and a book stamped
earlier than its predecessor; in the other the bid rises twice, so that its line
has steps, one after an operation without a top of book. Two requests are enough for an answer to one to come while the
other waits. The ids of `order_book`
are interchangeable and declared symmetric; that run has no liveness property.

Fairness. `MPSCQueue`: each thread inside `enqueue`, and the consumer, which
spins, keep being scheduled. `Exchange`: handlers and the engine, which never
block on a client; subscribers are assumed nothing about. `Feed`: timers fire, a
fetch settles one way or the other, and messages of an open connection are
received; nobody has to click, and the exchange may stay away (used by
`feed_outage`, whose counterexample is not a page that merely stopped).
`Ticket`: only the page's own timers fire; neither gateway nor exchange nor
network has to do anything. `OrderBook` needs
none: its loop ends because every turn leaves less to fill
(`MatchingProgresses`) and, as deadlock is checked, a next step is always there.

### Disagreements between documents and code

* `mpsc_reclaim`: with two producers the consumer can delete a buffer whose
  address a stalled producer still holds (`mpscqueue.h:169` against the load in
  line 58). Needs a producer to be stopped between two instructions while a
  whole buffer fills and drains. The properties of `mpsc_queue` hold for as
  long as such a read finds the old content.
* `mpsc_wrap`: `bufferSize * positionInQueue` wraps at 2^32 in the middle of a
  buffer, and the producer there links buffers far ahead of need.
* `feed_banner`: a recording that fails to load after the exchange came up sets
  `source` to `replay` on a connected page, until the next status that says
  connected.
* `feed_outage`: when the exchange goes down before its first batch, the call of
  `useReplay` at `feed.ts:253` does nothing, as `source` is still `live`.
* `gateway_restart`: the normalizer's map outlives the exchange. An order that is
  submitted after a restart and before the gateway has subscribed again is
  unknown, but its id is that of an order of the earlier life, and a trade with it
  is credited to that order's node. `AttributedWhenSeen` in `gateway` says what
  does hold: an order whose submission was seen is attributed rightly.

"Lock-free" in the root `README.md` holds only as long as every producer is
scheduled: one that stops between its two compare-and-swaps (`mpscqueue.h:66`
and `67`) makes every other one spin at the end of the buffer. The fairness of
`mpsc_queue` assumes that none does.

Smaller observations, which nothing in the repository contradicts and which are
built into the statements: numbers of orders start again with the exchange, and
the diagram tells App of a change of number or stage only, so `SpotFollows` is
stated up to numbers used twice; the trades of one batch are
charted last to first; a number beyond all bounds (`1e999`) passes the ticket's
test and reaches the exchange as 0, and `OrderWellFormed` says that nothing else
does; a page that connects between books shows an
older one until the next (`ViewCurrent` begins with its first live frame).

## 4. Proofs

`OrderBookProofs` proves about `OrderBook`, for all sets of ids and all sets of
integer prices and positive quantities (the assumptions named in `OrderBook`):

| theorem | statement |
|---|---|
| `TypeCorrect` | `Spec => []TypeOK` |
| `NeverCrossed` | `Spec => []BookUncrossed` |
| `IndexAlwaysExact` | `Spec => []IndexExact` |
| `NeverEmptyLevel` | `Spec => []NoEmptyLevel` |
| `ReplyCorrect` | `Spec => []ReplyTellsResting` |
| `MatchingAlwaysProgresses` | `Spec => MatchingProgresses` |
| `IdsAlwaysFresh` | `Spec => []IdsFresh` |
| `TopOfBookAlwaysCurrent` | `Spec => []TopOfBookCurrent` |

The argument is one inductive invariant, `IndInv`, the conjunction of `TypeOK`,
`NoEmptyLevel`, `IndexExact`, `IdsFresh`, `BookUncrossed` and `ReplyTellsResting`
(`NoEmptyLevel` and `IdsFresh` are proved and not among the properties of the run). None but the types stands alone. That a fill may erase the head of the best
level needs `NoEmptyLevel`; that it may erase its index entry without touching
another order's needs `IndexExact`; that resting an order does not overwrite an
entry needs `IdsFresh`. The book is uncrossed after `RestRemainder` because the
order could not match any more, which for a limit order says that no opposite
level crosses its price, and for one of unspecified type that there is none.
There is one lemma per action (`SubmitInd`, `FillInd`, ...), resting on lemmas
about what `PutLevel`, `AddOrder` and `DropOrder` do to levels and index. The
top of book follows from a step lemma of its own, as it is a function of the
book that only the closing actions assign, and progress of the loop from the
invariant and what a fill does (`FillProgress`).

`FeedProofs` proves about `Feed`, for every recording, every limit on frames and
history, and any number of connections, outages, messages and uses of the
controls (`FeedAssumption`: limits are positive, the gateway keeps no more history
than the page holds, and the recording is a sequence of frames):

| theorem | statement |
|---|---|
| `LiveAlwaysContiguous` | `Spec => []LiveContiguous` |
| `NeverMixed` | `Spec => []FramesUnmixed` |
| `RetryAlwaysArmed` | `Spec => []RetryArmed` |
| `ConnectingAlwaysEnds` | `Spec => []ConnectingEnds` |
| `FieldsAlwaysTyped` | `Spec => []TypeOK`, if `RecordingFits` |

`RetryArmed` and `ConnectingEnds` are inductive together with the type of `fetches` (`Alive`). That
frames are of one origin needs the types of what is kept and on the way
(`Origin`). That live frames have no gap is the long one. Its invariant, `Chain`,
follows a number from the gateway to the page: the history ends with the last
batch sent (`HistoryCurrent`); the frames on the way, whatever is between them,
follow each other and end there too (`RunsTo`); a history on the way is the first
message, or the second behind the status that decides on it, and the frames
behind continue it (`HistoryFirst`); and the frames on the way continue what a
live page shows (`LiveGoesOn`). `Closed` says that a page without an open
connection is not live and has nothing on the way, which is what makes the next
history welcome. A page is made live by a status only, which clears its frames; a
history is dropped unless the page shows nothing, and `HistoryFirst` is why it
then brings no duplicate. Lemmas say what sending one message and receiving one
do to `RunsTo` and `GoesOnFrom`; one lemma per kind of step then gives `Chain'`.

`TypeOK` says that the cursor stays within the frames and that these stay bounded.
`push()` drops `TRIM` frames once, however many it was given, so that they do is no
matter of course: a single frame cannot exceed the bound by more than one, a
history is bounded by the gateway (`HistoryFits`, also of histories on the way),
and of the recording it has to be assumed (`RecordingFits`, at most
`MaxFrames + 2 * Trim` frames; the one that is shipped has 3092, of 24000). The
cursor may come from a binary search over the frames, which need not be in order
of time; `SearchExists` shows, by induction over the width of a window, that the
recursion is well defined, and `SearchType` that whatever it finds is one of the
frames, or none.

`ExchangeProofs` proves about `Exchange`, for any finite set of calls, any
requests with integer prices and positive quantities, and any streams and
viewers (`CallsAssumption`, `RequestsAssumption`, `SubscribersAssumption`; that
the calls are finite is what makes the ids finite, and `NoOrder` is a value that
is neither an id nor an order):

| theorem | statement |
|---|---|
| `ImplementsOrderBook` | `Spec => Book!Spec` |
| `StreamsAlwaysGapless` | `Spec => []StreamGapless` |
| `DrainedStreamsCurrent` | `Spec => []DrainedStreamCurrent` |
| `TelemetryAlwaysFaithful` | `Spec => []TelemetryFaithful` |
| `QuantityConserved` | `Spec => []OrdersAccountedFor` |
| `CancelsAlwaysFindOrders` | `Spec => []CancelFindsOrder` |

`CoreInv` says that a call has its message before queue and engine see it, that
ids handed out are fewer than the calls that came (`MessagesOK`), and that an
order is in hand exactly while the engine matches (`BookPhase`). With it every step is a step of `OrderBook` or leaves
the book alone, so `IndInv` and `TopOfBookCurrent` of `OrderBookProofs` carry
over, cited and not proved again. `GaplessSoFar` is inductive once queues are
known to be sequences and `since` to lie within the history (`SubscribersOK`).
For drained streams, `LogCurrent` says that the last event published is the last
top of book unless the operation in hand has yet to publish one; a cancel that
finds nothing publishes nothing and changes nothing. For telemetry, the set of
operations a viewer was told of is stated by its length: what it got are the last
`n` of the operations finished, where `n` counts those begun since it came, and
perhaps the one then under way (`ViewerOK`); and an operation without a record
was begun before any viewer now open had come. Depth and top of
book agree because both begin with the price none is better than; the levels are
finitely many since each holds an order with an id of its own (`LevelsFinite`).

The last two theorems have an invariant of their own, `AccountInv`. Conservation as
`OrdersAccountedFor` states it holds between operations only; in the middle of one,
a quantity may have left the book and not be published. `Executed(id)` therefore
counts what was published of an order and what the engine has in hand of it
(`InFlight`), and `ReplyOf(c)` is the promise of a call or the result on its way
there. In these terms `Accounts` holds in every state: what an order has executed
and what rests of it add up to what its call asked for, but for a rejected order,
a cancelled one, and the one in the matching loop, which has executed its
`filledQty`. A fill moves one quantity from what rests of one order to what both
have executed; the end of the loop turns what is open into what rests; a cancel
takes out what rests, which is not nothing, as the index is exact; setting the
promise and publishing change where things are and not how many. `StepsAre` says that every step
is of one of these kinds (`Starts`, `Takes`, `Ends`, `Cancels`, `Quiet`), with one
lemma for each. What makes the account of an order unique is that ids are given out
once (`IdsOK`) and that a call is processed and answered once, and not answered
before it is processed (`CallsOK`). For cancels, `Told` says that a cancel that was
denied to an informed client is of an order that is `Finished`: its submission is
answered and nothing of it rests or is in flight. Informed means that the
submission had been answered when the cancel came in, hence that the engine has
processed it first; and no step brings a finished order back
(`NothingComesBack`, `NothingToCancel`). The sums of `Traded` and
`RestingQuantity` are folds. That the one is additive over published events is
proved with the totals of `SumFacts`, and that the other has at most one term from
`IndInv`: an order is in the book at most once (`RestsOnce` of `OrderBookProofs`).
`AccountInv` was checked on the instance of `exchange_orders` before it was proved.

`GatewayProofs` proves about `Gateway`, for any orders, any lengths of history,
ladder and map, and any number of operations, faults and recordings
(`GatewayAssumption`):

| theorem | statement |
|---|---|
| `AlwaysOneSubscription` | `Spec => []OneSubscription` |
| `StatusAlwaysTruthful` | `Spec => []StatusTruthful` |
| `ViewAlwaysInOrder` | `Spec => []ViewInOrder` |
| `RecordingAlwaysFaithful` | `Spec => []RecordingFaithful` |
| `RestingAlwaysExact` | `Spec => []RestingExact` |
| `AlwaysAttributedWhenSeen` | `Spec => []AttributedWhenSeen` |
| `GatewayTypeOK` | `Spec => []TypeOK` |

`GatewayInv` has five parts. `Streams`: one call at a time, whose flags fit its
state, and the timer set exactly when no call counts. `StatusKnown`: an open page
knows what the gateway knows. `InOrder`: what has been handled is increasing, and
what is on a wire is increasing and later than all of it, which is why a call
that loses a tail of its records, or a new one after a restart, cannot bring an
old operation again. `Views`: history and page are numbered by the last things
handled. `Mirrored`: recorder and page agree counted from their ends, as far as
the page's live frames and the recording both go.

The last three theorems are about what the normalizer knows, and need to know what
the exchange did. `ExchangeInv` says it in terms of the log. `Follows` relates the
orders that rested before an operation, the record of the operation and the orders
that rest after it: its trades are with different orders that rested, and of not
more than was left of them; what rests afterwards came to rest with it, was not
touched, or is what a trade left; and nothing else is gone. `SubmitFollows` and
`CancelFollows` show this of `PriceTimePriority`, whose operations are filters and
folds over the sides of the book; `FoldLeft` is brought to induction over
numbers, and what a filter keeps is described as a selection of places.
`LogSound` adds what follows over the whole log: ids are given out once in a life
(`IdsOnce`), whatever rests came to rest earlier in the same life (`Origins`), and
from then on there is only less of it (`Shrinks`).

`MapSound` relates the log, the operations that the normalizer was given and its
map, and is inductive under `Normalize`: the owners in the map are right for every
order it was told of in this life, whatever else is stale (`OwnersKnown`); unless
something may have been evicted, an order it was told of that rests has an entry, with at
least as much left as there really is, as it may have missed trades but not
invented any (`NoneForgotten`); if nothing was missed, the entries are exact, and in the
first life there are no others (`AllExact`). A later life may leave entries of an
earlier one behind, which is why the code's map can then be larger than the book.
That nothing is evicted while few orders came to rest is a count: the map has at
most one entry for each order that it was told came to rest. `NormalizeFacts` says
what one record makes of the map (`Becomes`), trade by trade, with `Attributed`
for the owners it writes down; `MapDelivers` and `MapKept` carry `MapSound` over a
record that comes and over one that only the log gets, and `HistoryOwned` keeps
the attributions in the history true. `Placed` says that wires carry numbers of
the log. `MapSound` and `LogSound` were checked on the instance of `gateway`
before they were proved.

`TicketProofs` proves about the ticket within `Page`, for whatever may be typed
or picked and any number of requests, edits and lost connections
(`TicketAssumption`, `NullAssumption`: `Null` and `Huge` are not numbers, nor
`Null` an outcome):

| theorem | statement |
|---|---|
| `OrdersAlwaysWellFormed` | `Spec => []OrderWellFormed` |
| `BusyAlwaysExact` | `Spec => []BusyExact` |
| `MessagesAlwaysTruthful` | `Spec => []MessageTruthful` |

`TicketInv` adds to these that at most one order waits (`BusyWithOne`, stated
without a cardinality) and that results on the way will be reported truly
(`NetTrue`): an answer may arrive after the page's own timer has spoken, and must
still say what became of its request.

`MPSCQueueProofs` proves about `MPSCQueue`, for any finite set of producers, any
number of items from each and any size of a buffer above one slot
(`ProducersAssumption`, `QuotaAssumption`, `BufferSizeAssumption`,
`IndexModulusAssumption`), in every order of the accesses to memory, steps of a
thread that ends by a dangling pointer included:

| theorem | statement |
|---|---|
| `ChainAlwaysSound` | `Spec /\ []RoomLeft => []ChainSound` |
| `WritersAlwaysFindTheirSlot` | `Spec /\ []RoomLeft => []WriterFindsItsSlot` |
| `FreedMemoryAlwaysSafe` | `Spec /\ []RoomLeft => []FreedMemorySafe` |
| `QueueImplementsMessageQueue` | `Spec /\ []RoomLeft => ImplementsMessageQueue` |
| `RoomAlwaysLeft` | `Spec => []RoomLeft`, if `Sum(Quota, Producers) + 2 * BufferSize <= IndexModulus` |

`RoomLeft` is `tail + 2 * BufferSize <= IndexModulus`: `PositionIndex` has two
buffers to go before 2^32. Without it the theorems are false, which is what
`mpsc_wrap` shows; `RoomAlwaysLeft` says that it is there as long as the producers
enqueue fewer items than that, in the instance of `mpsc_queue` for example.

The invariant, `Inv`, says what the code relies on and states nowhere. The buffers
from `headOfQueue` on are one doubly linked list in the order of their positions
(`Linked`). That is not enough for a producer, which may stand on a buffer that
was folded long ago and walks back over a `prev` that nobody maintains any more:
`Back` says that from every buffer a producer can hold, folded ones included,
`prev` skips no buffer of the list and no location that is still to be written.
`Bounded` says that at most one buffer is beyond `tailOfQueue` and each was needed
by a claim; a producer that finds the last one too short is therefore right to
link another, and `Swinging` says that what it then swings `tailOfQueue` to was
linked onto the one there, whoever else has moved on. `SlotInv` says that a
location nobody has written to is an `EMPTY` slot that the consumer has not passed,
and that no such location is in a folded buffer: `fold` never takes one that is
still to be written to. `ProducerInv` and `ConsumerInv` say where each thread
stands in relation to this, that no two producers are on their way to the same
location, and (`AtTail`) that one that is alone has the last buffer in hand.
`GarbageInv` keeps the garbage list apart from the queue and gives every buffer
in it a rank that falls along it, without which the loop that frees it need not
end. Last, `Counted` says that `tail` is the number of claims, by which the
property bounds the buffers. `Claims` is
a fold; it is shown to be the sum that induction over finite sets, stated with
sets in the place of predicates, defines. There is a lemma for each of the
consumer's and producers' steps, over lemmas about what linking, folding, freeing,
writing and marking do to a heap.

The refinement adds `PromiseInv`, about the items. `LocatedInv` is its centre: some
function gives every item the location its `enqueue` claimed; what waits in
`pending` is in the place of the list that stands for its location, not yet passed
by `head` and `SET` (`Filled`), or its producer is still on its way there
(`Arriving`), and nothing else is; and an item that must come out before another
is not on its way any more and at an earlier location. So nothing is delivered twice or
out of thin air, and the first filled place can always go out. What the consumer
takes is not always the first: `Scan` stops at any filled place it comes to, and `ReScan` looks again
at those before it, while producers fill more. `NoneBefore` says what that second
look is good for: what has to come out before the item found is not in the places
looked at again, and stays out of them, since what is filled later is of an open
`enqueue`, which nothing that was there has to wait for (`LookStays`). For the
answer "empty", `calm` is the assumption that no `enqueue` was open since the
`dequeue` began. Then no producer is between two steps, no slot before `tail` is
unwritten, and what each early return has seen is all there is (`CalmInv`,
`NoneLeft`). Two of the returns are true for a reason that is not local. `dequeue`
compares `head` with `tail % bufferSize` only if `headOfQueue` is the last buffer, and
is right because `AheadInv` has the next buffer linked before a location in it is
written to. And `fold` and
`moveToNextBuffer` give up at the last buffer, or at one with no next, because
nothing is beyond either. `EmptyInv` says that an `EMPTY` slot was
not written to, so that a scan past it overlooks nothing. `SentInv` numbers the items
of a producer, which makes each one new when it is claimed. There is again a lemma
for each step, which says what becomes of `PromiseInv` and, for a return, that it
is one `MessageQueue` allows (`IsNext`, `ReportsTruth`); from these,
`NextImplementsNext` maps the claim to the beginning of an `enqueue`, the step that
leaves `enqueue` to its end, the returns of `dequeue` to a delivery or a report,
and all else to nothing.

Only model-checked, with the reason:

* liveness (`EveryCallAnswered` and the like): fairness is out of the prover's
  reach;
* `ImplementsPriceTimePriority`: the mapping sorts the prices and flattens the
  levels to one list, and the abstract order takes what sums along that list leave
  it; that these agree with the loop needs induction over the book;
* `RepliesMatchTape`: the average price in a reply, as what was paid in all, is a
  fold over the trades that the proofs about quantities do not follow;
* `ViewCurrent` and `StatsTruthful` of `Gateway`, `SpotFollows`, `LatenciesFaithful`
  and `ChartFaithful` of `Diagram`: they compare with folds, sorts and searches of
  `Derive` over all frames of a page.

## 5. Plan

`CapnpFeedServer`: accepting clients, and its stop and joins should something
come to call them. The market maker's quotes against
failed and lost cancels, over `Exchange`.

## 6. Not modelled

The end of the exchange process (`MatchingEngine::stop`, its destructor and
`CapnpFeedServer::stop`, which nothing reaches). Drawing on the canvas, markup, styling and the formatting of numbers; starting
the demo's processes from the gateway and ending with them; the accept loop and
the joins of the Cap'n Proto server; field-by-field encoding (protobuf and Cap'n
Proto); prices as doubles and the division of the average price; orders with quantities of zero or
less; random choices and price formulas of the strategies; the destructor of the
queue; weak memory; a restart of the gateway (its history would begin again);
test and benchmark drivers. Unbounded growth of a slow subscriber's queue is as
unbounded in the model as in the code.
