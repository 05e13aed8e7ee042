------------------------------ MODULE Diagram -------------------------------
(***************************************************************************)
(* The diagram of the page (web/src/components/Scope.tsx) with its list of *)
(* orders and its waterfall (Inspector.tsx): orders travel as dots, one of *)
(* them may be selected and followed in slow motion, and App.tsx carries   *)
(* what the diagram tells of it to the waterfall.                          *)
(*                                                                         *)
(* The canvas is left out.  Frames are referred to by their place in the   *)
(* session.  Progress is in per cent of the way; an animation frame comes  *)
(* any time after the last.                                                *)
(***************************************************************************)
EXTENDS Derive

CONSTANTS
  Sessions,     \* what the feed may show: sequences of frames
  MaxPackets,   \* the 140 of draw()
  MaxRecent,    \* the 9 rows of the list of orders
  MaxSample,    \* the 3000 orders whose latencies are shown
  Window,       \* what the chart looks back on, 90 s in the code
  Rate,         \* dots are this much faster than the one in the spotlight
  Steps,        \* how far the latter may come between two animation frames
  \* Bounds:
  MaxGestures   \* clicks and seeks

ASSUME DiagramAssumption ==
  /\ {MaxPackets, MaxRecent, MaxSample, Window, Rate} \subseteq Nat \ {0}
  /\ Steps \subseteq 1 .. 100
  /\ MaxGestures \in Nat

VARIABLES
  session,      \* the frames of the feed
  n,            \* how many of them the playback clock has passed: the feed's
                \* cursor and its index, which differ where stamps are out of order
  packets,      \* dots under way
  spotRef,      \* the order in the spotlight, or Null
  lastSpot,     \* what App was last told of it, or Null
  selected, spot,   \* App's state: a frame or Null; what it was told
  gestures      \* a counter for the bound

diagramVars == <<session, n, packets, spotRef, lastSpot, selected, spot, gestures>>

Packet(i) == [i |-> i, p |-> 0]

\* The end of the way, with the 60 ms in which a dot stays.
WayEnd == 102

DiagramInit ==
  /\ session \in Sessions
  /\ n = 0
  /\ packets = <<>>
  /\ spotRef = Null /\ lastSpot = Null /\ selected = Null /\ spot = Null
  /\ gestures = 0

-----------------------------------------------------------------------------
(* The list and the waterfall                                              *)

Batches == {i \in 1 .. n : IsBatch(session[i])}

\* The rows of the list, newest first.
Recent == Newest(Reverse(SetToSortSeq(Batches, LAMBDA i, j : i < j)), MaxRecent)

\* The order the waterfall is about.
Cur == IF selected # Null THEN selected ELSE IF Recent = <<>> THEN Null ELSE Head(Recent)

\* Orders are told apart by their numbers alone: a mutant.
LitRowBySeq ==
  IF spot # Null /\ Cur # Null /\ session[spot.i].seq = session[Cur].seq
  THEN TraceRow(session[spot.i], spot.p) ELSE -1

\* The row of the waterfall that is lit, if App was told of the order shown there.
LitRow ==
  IF /\ spot # Null /\ Cur # Null
     /\ session[spot.i].seq = session[Cur].seq /\ session[spot.i].at = session[Cur].at
  THEN TraceRow(session[spot.i], spot.p) ELSE -1

-----------------------------------------------------------------------------
(* draw()                                                                  *)

Pushed(ps, i) ==
  IF IsBatch(session[i]) /\ Len(ps) < MaxPackets THEN Append(ps, Packet(i)) ELSE ps

\* App is told when this changes.
SpotKey(s) == <<session[s.i].seq, StageAt(session[s.i], s.p)>>

\* The order in the spotlight moves on: App hears of its end and of its stages.
DrawSpot(d) ==
  \/ /\ spotRef = Null
     /\ UNCHANGED <<spotRef, lastSpot, spot>>
  \/ /\ spotRef # Null /\ spotRef.p + d >= WayEnd
     /\ spotRef' = Null /\ lastSpot' = Null /\ spot' = Null
  \/ LET now == [spotRef EXCEPT !.p = @ + d]
     IN /\ spotRef # Null /\ now.p < WayEnd
        /\ spotRef' = now
        /\ lastSpot' = SpotKey(now)
        /\ spot' = IF lastSpot = SpotKey(now) THEN spot ELSE now

\* An animation frame, with the frames up to `upto' that the playback clock has
\* passed meanwhile.
Draw(d, upto) ==
  LET moved == [k \in DOMAIN packets |-> [packets[k] EXCEPT !.p = @ + Rate * d]]
      all == FoldLeft(Pushed, moved, [k \in 1 .. upto - n |-> n + k])
  IN /\ n' = upto
     /\ packets' = SelectSeq(all, LAMBDA q : q.p < WayEnd)
     /\ DrawSpot(d)
     /\ UNCHANGED <<session, selected, gestures>>

-----------------------------------------------------------------------------
(* The user                                                                *)

\* The dot is on its way to the engine and not back.
HasHead(q) == StageAt(session[q.i], q.p) < 3

\* Dots that can be clicked.
Hits == {q.i : q \in {q \in ToSet(packets) : HasHead(q)}}

Gesture == gestures < MaxGestures /\ gestures' = gestures + 1

\* A click into the diagram, next to a dot or not.
OnClick ==
  /\ Gesture
  /\ selected' \in Hits \cup {Null}
  /\ UNCHANGED <<session, n, packets, spotRef, lastSpot, spot>>

\* A row of the list.
OnSelect ==
  /\ Gesture
  /\ selected' \in ToSet(Recent)
  /\ UNCHANGED <<session, n, packets, spotRef, lastSpot, spot>>

\* "Follow this order in slow motion", and the effect of the new token.
Spotlight ==
  /\ Gesture
  /\ Cur # Null
  /\ selected' = Cur
  /\ spotRef' = Packet(Cur)
  /\ UNCHANGED <<session, n, packets, lastSpot, spot>>

\* The playback clock is set, or starts again at the end of a recording: frames
\* are skipped or will come once more, and dots under way stay.
Seek(to) ==
  /\ Gesture
  /\ n' = to
  /\ UNCHANGED <<session, packets, spotRef, lastSpot, selected, spot>>

DiagramNext ==
  \/ \E d \in Steps, upto \in n .. Len(session) : Draw(d, upto)
  \/ OnClick
  \/ OnSelect
  \/ Spotlight
  \/ \E to \in (0 .. Len(session)) \ {n} : Seek(to)

-----------------------------------------------------------------------------
(* Properties                                                              *)

\* Frames that the stamps of the exchange and of the gateway have in order.
InOrder == \A i, j \in 1 .. n : i < j => session[i].at <= session[j].at

SameSeq(i, j) == session[i].seq = session[j].seq

\* Once the diagram has drawn the order in the spotlight, App knows that order
\* and its stage; when nothing is in the spotlight, App knows that too.  Numbers
\* of orders start again with the exchange: two orders of the same number are
\* told apart only when the stage changes.
AppFollows ==
  /\ spotRef = Null => spot = Null
  /\ spotRef # Null /\ spotRef.p > 0 =>
       /\ spot # Null
       /\ SameSeq(spot.i, spotRef.i)
       /\ StageAt(session[spot.i], spot.p) = StageAt(session[spotRef.i], spotRef.p)

\* The lit row of the waterfall is one of the order shown there, which is the
\* one the diagram follows, and not ahead of it; again up to numbers that were
\* used twice, and until the diagram is drawn.
LitRowHonest ==
  LitRow # -1 =>
    /\ spot.i = Cur
    /\ spotRef # Null /\ spotRef.p > 0 =>
         /\ SameSeq(spotRef.i, Cur)
         /\ spotRef.i = Cur => LitRow <= TraceRow(session[spotRef.i], spotRef.p)

\* App and the waterfall show the order that is followed in slow motion, at its
\* stage, although orders are selected, followed and drawn in any order.
SpotFollows == AppFollows /\ LitRowHonest

\* Whatever the times the exchange took, none at all and stamps out of order
\* included, an order passes every stage of the diagram in order and has its
\* reply before the end; the bars of the waterfall add up to the whole.
WaterfallFits ==
  \A i \in Batches :
    LET b == session[i]
        bs == Boundaries(b)
        d == StageDurations(b)
        ordered == /\ b.trace.enqueue <= b.trace.dequeue /\ b.trace.dequeue <= b.trace.matchDone
                   /\ b.trace.matchDone <= b.trace.promiseSet
                   /\ b.trace.promiseSet <= b.trace.publish
    IN /\ \A k \in 1 .. 3 : bs.s[k] < bs.s[k + 1]
       /\ bs.s[4] < 100 * bs.whole
       /\ ordered => FoldLeft(LAMBDA x, y : x + y, 0, d) = b.trace.publish

\* A percentile of the latencies is one of them, with that share of the sample
\* below it at most, and at or below it at least.
LatencyRanks ==
  LET totals == Sample(SubSeq(session, 1, n), MaxSample).totals
  IN totals # <<>> => \A p \in {50, 99} :
       LET v == Percentile(totals, p)
           Share(k) == 100 * k
       IN /\ Share(Cardinality({k \in DOMAIN totals : totals[k] < v})) <= p * Len(totals)
          /\ Share(Cardinality({k \in DOMAIN totals : totals[k] <= v})) >= p * Len(totals)

\* Times are shown as they were: stage by stage for an order, and as percentiles
\* for all of them.
LatenciesFaithful == WaterfallFits /\ LatencyRanks

\* With frames in order, the chart shows all trades and quotes of its window and
\* no other, from left to right, and the tape begins with the batch at which
\* the chart ends.
TradesCharted ==
  n > 0 /\ InOrder =>
    LET chart == PriceSeries(session, n, Window)
        due == {i \in Batches : session[i].at >= session[n].at - Window}
        tape == RecentTrades(session, n, 1)
    IN /\ \A j \in 1 .. Len(chart.trades) - 1 : chart.trades[j].at <= chart.trades[j + 1].at
       /\ Len(chart.trades) = MapThenSumSet(LAMBDA i : Len(session[i].trades), due)
       /\ {t.price : t \in ToSet(chart.trades)}
            = UNION {{t.price : t \in ToSet(session[i].trades)} : i \in due}
       /\ Len(chart.quotes) = Cardinality({i \in due : session[i].tob # Null})
       /\ chart.trades # <<>> =>
            \E i \in due : /\ session[i].at = Last(chart.trades).at
                           /\ Head(tape) = Last(session[i].trades)

\* The line of the best bid is drawn at the price that was valid up to the next
\* quote, in steps, and not at all while there was no bid, although quotes drop
\* out of the window in between.
QuotesInSteps ==
  LET quotes == PriceSeries(session, n, Window).quotes
      d == Line([k \in DOMAIN quotes |-> [at |-> quotes[k].at, v |-> quotes[k].bid]])
      Drawn(k) == \E j \in DOMAIN d \ {1} : /\ d[j].op = "L"
                     /\ d[j].at = quotes[k + 1].at /\ d[j].v = quotes[k].bid
                     /\ d[j - 1].at = quotes[k].at /\ d[j - 1].v = quotes[k].bid
  IN /\ \A j \in DOMAIN d \ {1} : d[j].op = "L" => d[j].at = d[j - 1].at \/ d[j].v = d[j - 1].v
     /\ \A j \in DOMAIN d \ {1} : d[j].op = "L" /\ d[j].at > d[j - 1].at =>
          \E k \in 1 .. Len(quotes) - 1 : quotes[k].at = d[j - 1].at /\ quotes[k + 1].at = d[j].at
     /\ \A k \in 1 .. Len(quotes) - 1 :
          quotes[k].bid # Null /\ quotes[k + 1].bid # Null => Drawn(k)

\* The chart shows what happened in its window, trades and quotes.
ChartFaithful == TradesCharted /\ QuotesInSteps
=============================================================================
