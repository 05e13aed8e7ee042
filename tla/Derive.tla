------------------------------- MODULE Derive -------------------------------
(***************************************************************************)
(* What the page works out from the frames of the feed (web/src/derive.ts  *)
(* and the components that use it): the book, the ladder, the tape, the    *)
(* chart, the accounts of the nodes, and where an order stands in the      *)
(* diagram.  Pure functions: Gateway and Diagram state what they promise.  *)
(*                                                                         *)
(* A frame is a batch or a book.  `n' is the number of frames up to the    *)
(* playback clock, one more than the zero-based idx of the code.           *)
(***************************************************************************)
EXTENDS Integers, Sequences, FiniteSets, SequencesExt, TLC

CONSTANT Null   \* null and undefined

ASSUME NullAssumption == Null \notin Int

IsBatch(f) == f.t = "batch"

-----------------------------------------------------------------------------
(* Book, tape and chart                                                    *)

HasBook(f) == f.book # Null

BookAt(frames, n) ==
  LET i == SelectLastInSubSeq(frames, 1, n, HasBook)
  IN IF i = 0 THEN Null ELSE frames[i].book

\* lastBatchBefore(), for the one condition it is used with.
LastBatchBefore(frames, n) ==
  LET i == SelectLastInSubSeq(frames, 1, n, LAMBDA f : IsBatch(f) /\ f.tob # Null)
  IN IF i = 0 THEN Null ELSE frames[i]

Newest(s, max) == SubSeq(s, 1, IF Len(s) < max THEN Len(s) ELSE max)

BatchesIn(frames, first, last) == SelectSeq(SubSeq(frames, first, last), IsBatch)

\* The tape: newest first.
RecentTrades(frames, n, max) ==
  LET bs == BatchesIn(frames, 1, n)
  IN Newest(Reverse(FlattenSeq([i \in DOMAIN bs |-> bs[i].trades])), max)

RecentBatches(frames, n, max) == Newest(Reverse(BatchesIn(frames, 1, n)), max)

\* The first frame of the chart: the scan stops at the first frame, going back,
\* that is older than the window.
WindowStart(frames, n, window) ==
  1 + SelectLastInSubSeq(frames, 1, n, LAMBDA f : f.at < frames[n].at - window)

\* The chart.  Trades are collected from the newest batch to the oldest and the
\* whole list is reversed, so those of one batch come out last to first.
PriceSeries(frames, n, window) ==
  IF n = 0 THEN [trades |-> <<>>, quotes |-> <<>>]
  ELSE LET bs == BatchesIn(frames, WindowStart(frames, n, window), n)
           quoted == SelectSeq(bs, LAMBDA b : b.tob # Null)
       IN [trades |-> FlattenSeq([i \in DOMAIN bs |->
                        Reverse([j \in DOMAIN bs[i].trades |->
                                   [at |-> bs[i].at, price |-> bs[i].trades[j].price]])]),
           quotes |-> [i \in DOMAIN quoted |->
                        [at |-> quoted[i].at, bid |-> quoted[i].tob.bid, ask |-> quoted[i].tob.ask]]]

\* The line goes straight to the next value: a mutant.
LineStraight(pts) ==
  FoldLeft(LAMBDA line, q :
             IF q.v = Null THEN [line EXCEPT !.prev = Null]
             ELSE [d |-> Append(line.d, [op |-> IF line.prev = Null THEN "M" ELSE "L",
                                         at |-> q.at, v |-> q.v]),
                   prev |-> q.v],
           [d |-> <<>>, prev |-> Null], pts).d

\* A line of the chart, as moves and lines to points: in steps, with gaps where
\* there is no value.
Line(pts) ==
  FoldLeft(LAMBDA line, q :
             IF q.v = Null THEN [line EXCEPT !.prev = Null]
             ELSE [d |-> line.d \o (IF line.prev = Null
                                    THEN <<[op |-> "M", at |-> q.at, v |-> q.v]>>
                                    ELSE <<[op |-> "L", at |-> q.at, v |-> line.prev],
                                           [op |-> "L", at |-> q.at, v |-> q.v]>>),
                   prev |-> q.v],
           [d |-> <<>>, prev |-> Null], pts).d

\* Asks from the top down, then bids: each row a level, or Null.
Ladder(book, rows) ==
  LET Row(levels, i) == IF i <= Len(levels) THEN levels[i] ELSE Null
  IN [i \in 1 .. 2 * rows |->
        IF i <= rows THEN Row(book.asks, rows + 1 - i) ELSE Row(book.bids, i - rows)]

-----------------------------------------------------------------------------
(* Accounts                                                                *)

NewStat == [orders |-> 0, cancels |-> 0, fills |-> 0, volume |-> 0, position |-> 0, cash |-> 0]

\* get(): the account of a node, made when first asked for.
Get(stats, id) == IF id \in DOMAIN stats THEN stats[id] ELSE NewStat
Put(map, key, value) == key :> value @@ map
Without(map, key) == [k \in DOMAIN map \ {key} |-> map[k]]

Settle(stats, id, dir, t) ==
  LET s == Get(stats, id)
  IN Put(stats, id, [s EXCEPT !.fills = @ + 1, !.volume = @ + t.qty,
                              !.position = @ + dir * t.qty,
                              !.cash = @ - dir * t.qty * t.price])

Reduced(open, t) ==
  IF t.resting \notin DOMAIN open THEN open
  ELSE IF open[t.resting].remaining <= t.qty THEN Without(open, t.resting)
  ELSE [open EXCEPT ![t.resting].remaining = @ - t.qty]

\* A trade takes nothing off the user's own order: a mutant.
ReducedNever(acc, t) ==
  LET dir == IF t.aggressorSide = "bid" THEN 1 ELSE -1
  IN [acc EXCEPT !.lastPrice = t.price,
                 !.stats = Settle(Settle(@, t.aggressorNode, dir, t), t.restingNode, -dir, t)]

AddTrade(acc, t) ==
  LET dir == IF t.aggressorSide = "bid" THEN 1 ELSE -1
  IN [lastPrice |-> t.price,
      stats |-> Settle(Settle(acc.stats, t.aggressorNode, dir, t), t.restingNode, -dir, t),
      open |-> Reduced(acc.open, t)]

AddFrame(acc, f) ==
  LET o == f.order
      me == Get(acc.stats, o.node)
      counted == [acc EXCEPT !.stats = Put(@, o.node,
                    IF f.op = "submit" THEN [me EXCEPT !.orders = @ + 1]
                    ELSE IF o.cancelOk THEN [me EXCEPT !.cancels = @ + 1] ELSE me)]
      traded == FoldLeft(AddTrade, counted, f.trades)
  IN IF ~IsBatch(f) THEN acc
     ELSE [traded EXCEPT !.open =
        IF o.node # "human" THEN @
        ELSE IF f.op = "submit" /\ o.status \in {"queued", "partial"} /\ o.side # ""
             THEN Put(@, o.id, [side |-> o.side, price |-> o.price, remaining |-> o.qty - o.filled])
        ELSE IF f.op = "cancel" /\ o.cancelOk THEN Without(@, o.id)
        ELSE @]

\* Accounts of the nodes, the user's open orders and the last price.
ComputeStats(frames, n, roster) ==
  FoldLeft(AddFrame,
           [stats |-> [id \in roster |-> NewStat], open |-> <<>>, lastPrice |-> 0],
           SubSeq(frames, 1, n))

Pnl(computed, id) ==
  LET s == computed.stats[id] IN s.cash + s.position * computed.lastPrice

\* The table of bots: the roster in its order, then the user if there is an account.
BotRows(computed, order) ==
  SelectSeq(order, LAMBDA id : id \in DOMAIN computed.stats)
    \o (IF "human" \in DOMAIN computed.stats THEN <<"human">> ELSE <<>>)

-----------------------------------------------------------------------------
(* Latencies and the diagram                                               *)

AtLeast(x, low) == IF x < low THEN low ELSE x

\* The normalizer's trace: micros since the call came in.
Relative(raw) == [s \in DOMAIN raw \ {"rpcIn"} |-> AtLeast(raw[s] - raw.rpcIn, 0)]

Percentile(sorted, p) ==
  IF sorted = <<>> THEN 0
  ELSE LET i == (p * Len(sorted)) \div 100 + 1
       IN sorted[IF i > Len(sorted) THEN Len(sorted) ELSE i]

\* Performance: totals and waits of the last `max' batches, sorted.
Sample(frames, max) ==
  LET last == RecentBatches(frames, Len(frames), max)
      Sorted(s) == SortSeq(s, LAMBDA x, y : x < y)
  IN [totals |-> Sorted([i \in DOMAIN last |-> last[i].trace.promiseSet]),
      waits |-> Sorted([i \in DOMAIN last |-> last[i].trace.dequeue - last[i].trace.enqueue])]

StageDurations(b) ==
  LET t == b.trace
      d == <<t.enqueue, t.dequeue - t.enqueue, t.matchDone - t.dequeue,
             t.promiseSet - t.matchDone, t.publish - t.promiseSet>>
  IN [i \in DOMAIN d |-> AtLeast(d[i], 0)]

\* Stages that took no time get no share: a mutant.
BoundariesBare(b) ==
  LET t == b.trace
      whole == t.matchDone
  IN [whole |-> whole,
      s |-> <<12 * whole, 20 * whole + 26 * t.enqueue, 28 * whole + 26 * t.dequeue,
              36 * whole + 26 * t.matchDone>>]

\* boundaries(), as fractions of 100 * whole: 12 % to the door, then three stages
\* that share 26 % by their durations on top of 8 % each.
Boundaries(b) ==
  LET t == b.trace
      d1 == AtLeast(t.enqueue, 1)
      d2 == AtLeast(t.dequeue - t.enqueue, 1)
      d3 == AtLeast(t.matchDone - t.dequeue, 1)
      whole == d1 + d2 + d3
  IN [whole |-> whole,
      s |-> <<12 * whole, 20 * whole + 26 * d1, 28 * whole + 26 * (d1 + d2),
              36 * whole + 26 * (d1 + d2 + d3)>>]

\* The stage at p per cent of the way: -1 on the way to the door, then 0 .. 3.
StageAt(b, p) ==
  LET bs == Boundaries(b) IN Cardinality({i \in 1 .. 4 : p * bs.whole >= bs.s[i]}) - 1

\* The row of the waterfall that is lit.
TraceRow(b, p) ==
  LET bs == Boundaries(b)
      at == p * bs.whole
  IN IF at < bs.s[2] \/ at < bs.s[1] THEN 0
     ELSE IF at < bs.s[3] THEN 1
     ELSE IF at < bs.s[4] THEN 2
     ELSE IF 2 * at < bs.s[4] + 100 * bs.whole THEN 3 ELSE 4
=============================================================================
