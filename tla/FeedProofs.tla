----------------------------- MODULE FeedProofs -----------------------------
(***************************************************************************)
(* Safety of the browser's feed for every recording, every limit on frames *)
(* and history, and any number of connections, outages and messages.       *)
(***************************************************************************)
EXTENDS Feed, SumFacts, SequenceTheorems, TLAPS

-----------------------------------------------------------------------------
(* Connecting                                                              *)

\* What keeps the page from being stuck: timers and fetches.
Alive == fetches \in Nat /\ RetryArmed /\ ConnectingEnds

\* Every way out of a connection arms a retry, and every way to spend the start
\* timer or a fetch leaves another or ends the connecting state.
LEMMA AliveStep == Alive /\ [Next]_vars => Alive'
<1> SUFFICES ASSUME Alive, [Next]_vars PROVE Alive'
  OBVIOUS
<1> USE DEF Alive, RetryArmed, ConnectingEnds, playVars, connVars, gatewayVars
<1>1. CASE StartTimerFires
  BY <1>1 DEF StartTimerFires, UseReplay
<1>2. CASE FetchSucceeds
  BY <1>2 DEF FetchSucceeds
<1>3. CASE FetchFails
  BY <1>3 DEF FetchFails
<1>4. CASE Connect
  BY <1>4 DEF Connect
<1>5. CASE Accept
  BY <1>5 DEF Accept
<1>6. CASE OnClose
  BY <1>6 DEF OnClose, UseReplay
<1>7. CASE ReceiveStatus
  BY <1>7 DEF ReceiveStatus, SwitchToLive, UseReplay
<1>8. CASE ReceiveHistory
  BY <1>8 DEF ReceiveHistory
<1>9. CASE ReceiveFrame
  BY <1>9 DEF ReceiveFrame
<1>10. CASE UpstreamChanges \/ \E at \in Times : BroadcastBatch(at) \/ BroadcastBook(at)
  <2>1. UNCHANGED connVars /\ UNCHANGED playVars
    BY <1>10 DEF UpstreamChanges, BroadcastBatch, BroadcastBook
  <2> QED
    BY <2>1
<1>11. CASE \/ AnimationFrame \/ GoLive \/ TogglePlay \/ ChangeSpeed \/ Step
            \/ \E time \in Times : Seek(time)
  BY <1>11 DEF AnimationFrame, GoLive, TogglePlay, ChangeSpeed, Step, Seek, Gesture
<1>12. CASE UNCHANGED vars
  BY <1>12 DEF vars
<1> QED
  BY <1>1, <1>2, <1>3, <1>4, <1>5, <1>6, <1>7, <1>8, <1>9, <1>10, <1>11, <1>12 DEF Next, Receive

\* The page is never stuck.
LEMMA AliveInvariant == Spec => []Alive
<1>1. Init => Alive
  BY FeedAssumption DEF Init, Alive, RetryArmed, ConnectingEnds
<1> QED
  BY <1>1, AliveStep, PTL DEF Spec

\* A feed without a connection is about to try again, and one with a connection
\* never opens a second.
THEOREM RetryAlwaysArmed == Spec => []RetryArmed
<1>1. Alive => RetryArmed
  BY DEF Alive
<1> QED
  BY <1>1, AliveInvariant, PTL

\* A page that says "Connecting..." has a timer or a fetch to come that ends it.
THEOREM ConnectingAlwaysEnds == Spec => []ConnectingEnds
<1>1. Alive => ConnectingEnds
  BY DEF Alive
<1> QED
  BY <1>1, AliveInvariant, PTL

-----------------------------------------------------------------------------
(* Where frames come from                                                  *)

LiveFrames == [t : {"batch", "book"}, from : {"live"}, n : Nat, at : Times]
Recorded == [t : {"batch", "book"}, from : {"recording"}, n : Nat, at : Times]

Messages ==
  [t : {"status"}, up : BOOLEAN]
    \cup [t : {"history"}, batches : Seq(LiveFrames)]
    \cup [t : {"frame"}, frame : LiveFrames]

\* What the page shows is of one origin, the live one when it says so.
OneOrigin ==
  \/ frames \in Seq(LiveFrames)
  \/ source # "live" /\ frames \in Seq(Recorded)

\* What the gateway keeps and sends is live.
Origin ==
  /\ sent \in Nat
  /\ upstream \in BOOLEAN
  /\ history \in Seq(LiveFrames)
  /\ net \in Seq(Messages)
  /\ OneOrigin

\* push() keeps the origin of what it is given.
LEMMA TrimmedOrigin ==
  ASSUME NEW S, NEW f \in Seq(S)
  PROVE  Trimmed(f) \in Seq(S)
<1>1. Trim \in Nat
  BY FeedAssumption
<1>2. SubSeq(f, Trim + 1, Len(f)) \in Seq(S)
  BY <1>1, SubSeqProperties
<1> QED
  BY <1>2 DEF Trimmed

\* The recording is recorded.
LEMMA RecordingOrigin == RecordedFrames \in Seq(Recorded)
<1>1. /\ Recording \in Seq({"batch", "book"} \X Times)
      /\ DOMAIN Recording = 1 .. Len(Recording) /\ Len(Recording) \in Nat
  BY FeedAssumption DEF Times
<1>2. ASSUME NEW i \in DOMAIN Recording
      PROVE  [t |-> Recording[i][1], from |-> "recording", n |-> i, at |-> Recording[i][2]]
               \in Recorded
  <2>1. Recording[i] \in {"batch", "book"} \X Times
    BY <1>1
  <2> QED
    BY <1>1, <2>1 DEF Recorded
<1> QED
  BY <1>1, <1>2 DEF RecordedFrames

\* A message that is received is one that was sent, by its type.
LEMMA MessageReceived ==
  ASSUME Origin, NEW type, Received(type)
  PROVE  /\ net' \in Seq(Messages)
         /\ type = "history" => Head(net).batches \in Seq(LiveFrames)
         /\ type = "frame" => Head(net).frame \in LiveFrames
<1>1. Head(net) \in Messages /\ Tail(net) \in Seq(Messages) /\ Head(net).t = type
  BY DEF Origin, Received
<1>2. net' \in Seq(Messages)
  BY <1>1 DEF Received
<1>3. type = "history" => Head(net).batches \in Seq(LiveFrames)
  BY <1>1 DEF Messages
<1>4. type = "frame" => Head(net).frame \in LiveFrames
  BY <1>1 DEF Messages
<1> QED
  BY <1>2, <1>3, <1>4

\* What Sent() leaves on the way is messages, if what it adds is one.
LEMMA SentMessage ==
  ASSUME Origin, NEW m \in Messages
  PROVE  Sent(m) \in Seq(Messages)
BY DEF Origin, Sent

\* Live and recorded frames are never mixed: a recording replaces what was there,
\* and only while the feed is not live; the switch to live starts afresh.
LEMMA OriginStep == Origin /\ [Next]_vars => Origin'
<1> SUFFICES ASSUME Origin, [Next]_vars PROVE Origin'
  OBVIOUS
<1> USE DEF playVars, connVars, gatewayVars
<1>1. CASE FetchSucceeds
  <2>1. Trimmed(RecordedFrames) \in Seq(Recorded)
    BY RecordingOrigin, TrimmedOrigin
  <2> QED
    BY <1>1, <2>1 DEF FetchSucceeds, Origin, OneOrigin
<1>2. CASE FetchFails \/ Connect \/ StartTimerFires
  BY <1>2 DEF FetchFails, Connect, StartTimerFires, Origin, OneOrigin
<1>3. CASE Accept
  <2>1. [t |-> "status", up |-> upstream] \in Messages
    BY DEF Origin, Messages
  <2>2. [t |-> "history", batches |-> history] \in Messages
    BY DEF Origin, Messages
  <2>3. net' \in Seq(Messages)
    BY <1>3, <2>1, <2>2 DEF Accept
  <2> QED
    BY <1>3, <2>3 DEF Accept, Origin, OneOrigin
<1>4. CASE OnClose
  <2>1. net' \in Seq(Messages)
    BY <1>4 DEF OnClose
  <2> QED
    BY <1>4, <2>1 DEF OnClose, Origin, OneOrigin
<1>5. CASE ReceiveStatus
  <2>1. net' \in Seq(Messages)
    BY <1>5, MessageReceived DEF ReceiveStatus
  <2>2. <<>> \in Seq(LiveFrames)
    OBVIOUS
  <2>3. \/ frames' = <<>>
        \/ frames' = frames /\ source' = source
    BY <1>5 DEF ReceiveStatus, SwitchToLive
  <2>4. OneOrigin'
    BY <2>2, <2>3 DEF Origin, OneOrigin
  <2> QED
    BY <1>5, <2>1, <2>4 DEF ReceiveStatus, Origin
<1>6. CASE ReceiveHistory
  <2>1. net' \in Seq(Messages) /\ Head(net).batches \in Seq(LiveFrames)
    BY <1>6, MessageReceived DEF ReceiveHistory
  <2>2. Trimmed(Head(net).batches) \in Seq(LiveFrames)
    BY <2>1, TrimmedOrigin
  <2> QED
    BY <1>6, <2>1, <2>2 DEF ReceiveHistory, Origin, OneOrigin
<1>7. CASE ReceiveFrame
  <2>1. net' \in Seq(Messages) /\ Head(net).frame \in LiveFrames
    BY <1>7, MessageReceived DEF ReceiveFrame
  <2>2. CASE source = "live"
    <3>1. Append(frames, Head(net).frame) \in Seq(LiveFrames)
      BY <2>1, <2>2 DEF Origin, OneOrigin
    <3>2. frames' \in Seq(LiveFrames)
      BY <1>7, <2>2, <3>1, TrimmedOrigin DEF ReceiveFrame
    <3> QED
      BY <1>7, <2>1, <3>2 DEF ReceiveFrame, Origin, OneOrigin
  <2>3. CASE source # "live"
    BY <1>7, <2>1, <2>3 DEF ReceiveFrame, Origin, OneOrigin
  <2> QED
    BY <2>2, <2>3
<1>8. CASE UpstreamChanges
  <2>1. [t |-> "status", up |-> ~upstream] \in Messages
    BY DEF Origin, Messages
  <2>2. net' \in Seq(Messages) /\ upstream' \in BOOLEAN
    BY <1>8, <2>1, SentMessage DEF UpstreamChanges, Origin
  <2> QED
    BY <1>8, <2>2 DEF UpstreamChanges, Origin, OneOrigin
<1>9. ASSUME NEW at \in Times, BroadcastBatch(at)
      PROVE  Origin'
  <2> DEFINE f == LiveFrame("batch", sent + 1, at)
  <2>1. f \in LiveFrames
    BY DEF Origin, LiveFrame, LiveFrames
  <2> HIDE DEF f
  <2>2. [t |-> "frame", frame |-> f] \in Messages
    BY <2>1 DEF Messages
  <2>3. Append(history, f) \in Seq(LiveFrames) /\ Append(history, f) # <<>>
    BY <2>1 DEF Origin
  <2>4. Tail(Append(history, f)) \in Seq(LiveFrames)
    BY <2>3
  <2>5. history' \in Seq(LiveFrames)
    BY <1>9, <2>3, <2>4 DEF BroadcastBatch, f
  <2>6. net' \in Seq(Messages)
    BY <1>9, <2>2, SentMessage DEF BroadcastBatch, f
  <2> QED
    BY <1>9, <2>5, <2>6 DEF BroadcastBatch, Origin, OneOrigin
<1>10. ASSUME NEW at \in Times, BroadcastBook(at)
       PROVE  Origin'
  <2>1. LiveFrame("book", sent, at) \in LiveFrames
    BY DEF Origin, LiveFrame, LiveFrames
  <2>2. [t |-> "frame", frame |-> LiveFrame("book", sent, at)] \in Messages
    BY <2>1 DEF Messages
  <2>3. net' \in Seq(Messages)
    BY <1>10, <2>2, SentMessage DEF BroadcastBook
  <2> QED
    BY <1>10, <2>3 DEF BroadcastBook, Origin, OneOrigin
<1>11. CASE \/ AnimationFrame \/ GoLive \/ TogglePlay \/ ChangeSpeed \/ Step
            \/ \E time \in Times : Seek(time)
  BY <1>11 DEF AnimationFrame, GoLive, TogglePlay, ChangeSpeed, Step, Seek, Gesture, Origin,
               OneOrigin
<1>12. CASE UNCHANGED vars
  BY <1>12 DEF vars, Origin, OneOrigin
<1> QED
  BY <1>1, <1>2, <1>3, <1>4, <1>5, <1>6, <1>7, <1>8, <1>9, <1>10, <1>11, <1>12 DEF Next, Receive

\* At first there are no frames at all.
LEMMA InitOrigin == Init => Origin
<1>1. <<>> \in Seq(LiveFrames) /\ <<>> \in Seq(Messages)
  OBVIOUS
<1>2. 0 \in Nat /\ FALSE \in BOOLEAN
  OBVIOUS
<1> QED
  BY <1>1, <1>2, Zenon DEF Init, Origin, OneOrigin

\* Recorded and live frames never share the screen, and a live feed shows no
\* recorded frame, for every order of messages, fetches and lost connections.
THEOREM NeverMixed == Spec => []FramesUnmixed
<1>1. Origin => FramesUnmixed
  <2> SUFFICES ASSUME Origin PROVE FramesUnmixed
    OBVIOUS
  <2>1. CASE frames \in Seq(LiveFrames)
    <3>1. \A i \in DOMAIN frames : frames[i] \in LiveFrames
      BY <2>1
    <3>2. \A i \in DOMAIN frames : frames[i].from = "live"
      BY <3>1 DEF LiveFrames
    <3> QED
      BY <3>2 DEF FramesUnmixed
  <2>2. CASE source # "live" /\ frames \in Seq(Recorded)
    <3>1. \A i \in DOMAIN frames : frames[i] \in Recorded
      BY <2>2
    <3>2. \A i \in DOMAIN frames : frames[i].from = "recording"
      BY <3>1 DEF Recorded
    <3> QED
      BY <2>2, <3>2 DEF FramesUnmixed
  <2> QED
    BY <2>1, <2>2 DEF Origin, OneOrigin
<1> QED
  BY <1>1, InitOrigin, OriginStep, PTL DEF Spec

-----------------------------------------------------------------------------
(* No gap                                                                  *)

\* The numbers of a batch and of the frame before it differ by one; a book has
\* the number of the last batch.
Adds(f) == IF f.t = "batch" THEN 1 ELSE 0

Contiguous(s) == \A i \in 1 .. Len(s) - 1 : s[i + 1].n = s[i].n + Adds(s[i + 1])

IsFrame(s, i) == s[i].t = "frame"

\* Of messages s that end with number `last': the first frame in them follows
\* number l; if there is none, nothing was sent since l.
GoesOnFrom(s, last, l) ==
  /\ \A j \in DOMAIN s : IsFrame(s, j) /\ (\A k \in 1 .. j - 1 : ~IsFrame(s, k)) =>
       s[j].frame.n = l + Adds(s[j].frame)
  /\ (\A k \in DOMAIN s : ~IsFrame(s, k)) => l = last

\* The frames in them are contiguous, up to `last'.
RunsTo(s, last) ==
  /\ \A i, j \in DOMAIN s :
       i < j /\ IsFrame(s, i) /\ IsFrame(s, j) /\ (\A k \in i + 1 .. j - 1 : ~IsFrame(s, k)) =>
         s[j].frame.n = s[i].frame.n + Adds(s[j].frame)
  /\ \A i \in DOMAIN s :
       IsFrame(s, i) /\ (\A k \in i + 1 .. Len(s) : ~IsFrame(s, k)) => s[i].frame.n = last

\* A connection that is not open has nothing on the way and no live feed, and a
\* retry is due only without one.
Closed ==
  /\ ws # "open" => net = <<>> /\ source # "live"
  /\ retry => ws = "none"

\* The history the gateway keeps is contiguous up to what it sent last.
HistoryCurrent ==
  /\ Contiguous(history)
  /\ history # <<>> => history[Len(history)].n = sent

\* History comes right after the status a connection begins with, which decides
\* whether it is used; the frames on the way continue it.
HistoryFirst ==
  \A k \in DOMAIN net : net[k].t = "history" =>
    /\ \/ k = 1 /\ (source = "live" => frames = <<>>)
       \/ k = 2 /\ net[1].t = "status" /\ source # "live"
    /\ Contiguous(net[k].batches)
    /\ net[k].batches # <<>> =>
         GoesOnFrom(net, sent, net[k].batches[Len(net[k].batches)].n)

\* A live feed is contiguous, and the frames on the way continue it.
LiveGoesOn ==
  source = "live" =>
    /\ Contiguous(frames)
    /\ frames # <<>> => GoesOnFrom(net, sent, frames[Len(frames)].n)

Chain == Origin /\ Closed /\ HistoryCurrent /\ RunsTo(net, sent) /\ HistoryFirst /\ LiveGoesOn

\* A frame that follows the last keeps frames contiguous.
LEMMA AppendContiguous ==
  ASSUME NEW f \in Seq(LiveFrames), NEW g \in LiveFrames, Contiguous(f),
         f # <<>> => g.n = f[Len(f)].n + Adds(g)
  PROVE  Contiguous(Append(f, g))
<1>1. /\ Len(Append(f, g)) = Len(f) + 1 /\ Len(f) \in Nat
      /\ \A i \in 1 .. Len(f) : Append(f, g)[i] = f[i]
      /\ Append(f, g)[Len(f) + 1] = g
  OBVIOUS
<1>2. SUFFICES ASSUME NEW i \in 1 .. Len(f)
               PROVE  Append(f, g)[i + 1].n = Append(f, g)[i].n + Adds(Append(f, g)[i + 1])
  BY <1>1 DEF Contiguous
<1>3. CASE i = Len(f)
  BY <1>1, <1>3
<1>4. CASE i < Len(f)
  <2>1. i \in 1 .. Len(f) - 1 /\ i + 1 \in 1 .. Len(f)
    BY <1>1, <1>4
  <2>2. Append(f, g)[i] = f[i] /\ Append(f, g)[i + 1] = f[i + 1]
    BY <1>1, <2>1
  <2> QED
    BY <2>1, <2>2 DEF Contiguous
<1> QED
  BY <1>1, <1>3, <1>4

\* A suffix of contiguous frames is contiguous, and ends where they do.
LEMMA SuffixContiguous ==
  ASSUME NEW f \in Seq(LiveFrames), Contiguous(f), NEW m \in 1 .. Len(f)
  PROVE  LET rest == SubSeq(f, m, Len(f))
         IN /\ rest # <<>> /\ Contiguous(rest)
            /\ rest[Len(rest)] = f[Len(f)]
<1> DEFINE rest == SubSeq(f, m, Len(f))
<1>1. /\ Len(rest) = Len(f) - m + 1 /\ Len(f) \in Nat /\ m \in Nat
      /\ \A i \in 1 .. Len(f) - m + 1 : rest[i] = f[m + i - 1]
  BY SubSeqProperties
<1> HIDE DEF rest
<1>2. Contiguous(rest)
  <2> SUFFICES ASSUME NEW i \in 1 .. Len(rest) - 1
               PROVE  rest[i + 1].n = rest[i].n + Adds(rest[i + 1])
    BY DEF Contiguous
  <2>1. rest[i] = f[m + i - 1] /\ rest[i + 1] = f[m + i - 1 + 1] /\ m + i - 1 \in 1 .. Len(f) - 1
    BY <1>1
  <2> QED
    BY <2>1 DEF Contiguous
<1>3. rest # <<>> /\ rest[Len(rest)] = f[Len(f)]
  BY <1>1
<1> QED
  BY <1>2, <1>3 DEF rest

\* push() keeps frames contiguous and does not drop the last.
LEMMA TrimmedContiguous ==
  ASSUME NEW f \in Seq(LiveFrames), Contiguous(f)
  PROVE  /\ Contiguous(Trimmed(f))
         /\ Trimmed(f) # <<>> => f # <<>> /\ Trimmed(f)[Len(Trimmed(f))] = f[Len(f)]
<1>1. CASE Overflows(f)
  <2>1. Trim + 1 \in 1 .. Len(f) /\ f # <<>>
    BY <1>1, FeedAssumption DEF Overflows
  <2> QED
    BY <1>1, <2>1, SuffixContiguous DEF Trimmed
<1>2. CASE ~Overflows(f)
  BY <1>2 DEF Trimmed
<1> QED
  BY <1>1, <1>2

\* The elements of an Append.
LEMMA AppendFacts ==
  ASSUME NEW S, NEW s \in Seq(S), NEW m \in S
  PROVE  /\ Len(s) \in Nat /\ DOMAIN s = 1 .. Len(s)
         /\ Len(Append(s, m)) = Len(s) + 1 /\ DOMAIN Append(s, m) = 1 .. Len(s) + 1
         /\ \A i \in 1 .. Len(s) : Append(s, m)[i] = s[i]
         /\ Append(s, m)[Len(s) + 1] = m
OBVIOUS

\* The elements of a tail.
LEMMA TailFacts ==
  ASSUME NEW S, NEW s \in Seq(S), s # <<>>
  PROVE  /\ Len(s) \in Nat \ {0} /\ DOMAIN s = 1 .. Len(s)
         /\ Len(Tail(s)) = Len(s) - 1 /\ DOMAIN Tail(s) = 1 .. Len(s) - 1
         /\ \A i \in 1 .. Len(s) - 1 : Tail(s)[i] = s[i + 1]
         /\ Head(s) = s[1]
OBVIOUS

\* A frame is sent that follows the last.
LEMMA SendFrame ==
  ASSUME NEW s \in Seq(Messages), NEW m \in Messages, m.t = "frame",
         NEW last \in Nat, m.frame.n = last + Adds(m.frame), RunsTo(s, last)
  PROVE  /\ RunsTo(Append(s, m), m.frame.n)
         /\ \A l \in Nat : GoesOnFrom(s, last, l) => GoesOnFrom(Append(s, m), m.frame.n, l)
<1> DEFINE e == Append(s, m)
<1>1. /\ Len(s) \in Nat /\ DOMAIN s = 1 .. Len(s)
      /\ Len(e) = Len(s) + 1 /\ DOMAIN e = 1 .. Len(s) + 1
      /\ \A i \in 1 .. Len(s) : e[i] = s[i]
      /\ e[Len(s) + 1] = m
  BY AppendFacts
<1> HIDE DEF e
<1>2. IsFrame(e, Len(s) + 1) /\ \A i \in 1 .. Len(s) : IsFrame(e, i) <=> IsFrame(s, i)
  BY <1>1 DEF IsFrame
<1>3. ASSUME NEW i \in DOMAIN e, NEW j \in DOMAIN e, i < j, IsFrame(e, i), IsFrame(e, j),
             \A k \in i + 1 .. j - 1 : ~IsFrame(e, k)
      PROVE  e[j].frame.n = e[i].frame.n + Adds(e[j].frame)
  <2>1. CASE j <= Len(s)
    <3>1. i \in DOMAIN s /\ j \in DOMAIN s /\ IsFrame(s, i) /\ IsFrame(s, j)
      BY <1>1, <1>2, <1>3, <2>1
    <3>2. \A k \in i + 1 .. j - 1 : ~IsFrame(s, k)
      BY <1>1, <1>2, <1>3, <2>1
    <3>3. s[j].frame.n = s[i].frame.n + Adds(s[j].frame)
      BY <1>3, <3>1, <3>2 DEF RunsTo
    <3> QED
      BY <1>1, <3>1, <3>3
  <2>2. CASE j = Len(s) + 1
    <3>1. i \in DOMAIN s /\ IsFrame(s, i) /\ \A k \in i + 1 .. Len(s) : ~IsFrame(s, k)
      BY <1>1, <1>2, <1>3, <2>2
    <3>2. s[i].frame.n = last
      BY <3>1 DEF RunsTo
    <3> QED
      BY <1>1, <2>2, <3>1, <3>2
  <2> QED
    BY <1>1, <2>1, <2>2
<1>4. ASSUME NEW i \in DOMAIN e, IsFrame(e, i), \A k \in i + 1 .. Len(e) : ~IsFrame(e, k)
      PROVE  e[i].frame.n = m.frame.n
  BY <1>1, <1>2, <1>4
<1>5. ASSUME NEW l \in Nat, GoesOnFrom(s, last, l)
      PROVE  GoesOnFrom(e, m.frame.n, l)
  <2>1. ~ \A k \in DOMAIN e : ~IsFrame(e, k)
    BY <1>1, <1>2
  <2>2. ASSUME NEW j \in DOMAIN e, IsFrame(e, j), \A k \in 1 .. j - 1 : ~IsFrame(e, k)
        PROVE  e[j].frame.n = l + Adds(e[j].frame)
    <3>1. CASE j <= Len(s)
      <4>1. j \in DOMAIN s /\ IsFrame(s, j) /\ \A k \in 1 .. j - 1 : ~IsFrame(s, k)
        BY <1>1, <1>2, <2>2, <3>1
      <4> QED
        BY <1>1, <1>5, <4>1 DEF GoesOnFrom
    <3>2. CASE j = Len(s) + 1
      <4>1. \A k \in DOMAIN s : ~IsFrame(s, k)
        BY <1>1, <1>2, <2>2, <3>2
      <4>2. l = last
        BY <1>5, <4>1 DEF GoesOnFrom
      <4> QED
        BY <1>1, <3>2, <4>2
    <3> QED
      BY <1>1, <3>1, <3>2
  <2> QED
    BY <2>1, <2>2 DEF GoesOnFrom
<1> QED
  BY <1>3, <1>4, <1>5 DEF RunsTo, e

\* A message without a frame is sent.
LEMMA SendOther ==
  ASSUME NEW s \in Seq(Messages), NEW m \in Messages, m.t # "frame", NEW last \in Nat,
         RunsTo(s, last)
  PROVE  /\ RunsTo(Append(s, m), last)
         /\ \A l \in Nat : GoesOnFrom(s, last, l) => GoesOnFrom(Append(s, m), last, l)
<1> DEFINE e == Append(s, m)
<1>1. /\ Len(s) \in Nat /\ DOMAIN s = 1 .. Len(s)
      /\ Len(e) = Len(s) + 1 /\ DOMAIN e = 1 .. Len(s) + 1
      /\ \A i \in 1 .. Len(s) : e[i] = s[i]
      /\ e[Len(s) + 1] = m
  BY AppendFacts
<1> HIDE DEF e
<1>2. ~IsFrame(e, Len(s) + 1) /\ \A i \in 1 .. Len(s) : IsFrame(e, i) <=> IsFrame(s, i)
  BY <1>1 DEF IsFrame
<1>3. ASSUME NEW i \in DOMAIN e, NEW j \in DOMAIN e, i < j, IsFrame(e, i), IsFrame(e, j),
             \A k \in i + 1 .. j - 1 : ~IsFrame(e, k)
      PROVE  e[j].frame.n = e[i].frame.n + Adds(e[j].frame)
  <2>1. i \in DOMAIN s /\ j \in DOMAIN s /\ IsFrame(s, i) /\ IsFrame(s, j)
    BY <1>1, <1>2, <1>3
  <2>2. \A k \in i + 1 .. j - 1 : ~IsFrame(s, k)
    BY <1>1, <1>2, <1>3, <2>1
  <2>3. s[j].frame.n = s[i].frame.n + Adds(s[j].frame)
    BY <1>3, <2>1, <2>2 DEF RunsTo
  <2> QED
    BY <1>1, <2>1, <2>3
<1>4. ASSUME NEW i \in DOMAIN e, IsFrame(e, i), \A k \in i + 1 .. Len(e) : ~IsFrame(e, k)
      PROVE  e[i].frame.n = last
  <2>1. i \in DOMAIN s /\ IsFrame(s, i) /\ \A k \in i + 1 .. Len(s) : ~IsFrame(s, k)
    BY <1>1, <1>2, <1>4
  <2> QED
    BY <1>1, <2>1 DEF RunsTo
<1>5. ASSUME NEW l \in Nat, GoesOnFrom(s, last, l)
      PROVE  GoesOnFrom(e, last, l)
  <2>1. (\A k \in DOMAIN e : ~IsFrame(e, k)) => l = last
    BY <1>1, <1>2, <1>5 DEF GoesOnFrom
  <2>2. ASSUME NEW j \in DOMAIN e, IsFrame(e, j), \A k \in 1 .. j - 1 : ~IsFrame(e, k)
        PROVE  e[j].frame.n = l + Adds(e[j].frame)
    <3>1. j \in DOMAIN s /\ IsFrame(s, j) /\ \A k \in 1 .. j - 1 : ~IsFrame(s, k)
      BY <1>1, <1>2, <2>2
    <3> QED
      BY <1>1, <1>5, <3>1 DEF GoesOnFrom
  <2> QED
    BY <2>1, <2>2 DEF GoesOnFrom
<1> QED
  BY <1>3, <1>4, <1>5 DEF RunsTo, e

\* A message is received: the rest runs on, from its number if it is a frame.
LEMMA ReceiveOne ==
  ASSUME NEW s \in Seq(Messages), s # <<>>, NEW last \in Nat, RunsTo(s, last)
  PROVE  /\ RunsTo(Tail(s), last)
         /\ IsFrame(s, 1) =>
              /\ GoesOnFrom(Tail(s), last, s[1].frame.n)
              /\ \A l \in Nat : GoesOnFrom(s, last, l) => s[1].frame.n = l + Adds(s[1].frame)
         /\ ~IsFrame(s, 1) =>
              \A l \in Nat : GoesOnFrom(s, last, l) => GoesOnFrom(Tail(s), last, l)
<1> DEFINE e == Tail(s)
<1>1. /\ Len(s) \in Nat \ {0} /\ DOMAIN s = 1 .. Len(s)
      /\ Len(e) = Len(s) - 1 /\ DOMAIN e = 1 .. Len(s) - 1
      /\ \A i \in 1 .. Len(s) - 1 : e[i] = s[i + 1]
  BY TailFacts
<1> HIDE DEF e
<1>2. \A i \in 1 .. Len(s) - 1 : IsFrame(e, i) <=> IsFrame(s, i + 1)
  BY <1>1 DEF IsFrame
<1>3. ASSUME NEW i \in DOMAIN e, NEW j \in DOMAIN e, i < j, IsFrame(e, i), IsFrame(e, j),
             \A k \in i + 1 .. j - 1 : ~IsFrame(e, k)
      PROVE  e[j].frame.n = e[i].frame.n + Adds(e[j].frame)
  <2>1. i + 1 \in DOMAIN s /\ j + 1 \in DOMAIN s /\ IsFrame(s, i + 1) /\ IsFrame(s, j + 1)
    BY <1>1, <1>2, <1>3
  <2>2. ASSUME NEW k \in i + 1 + 1 .. j + 1 - 1
        PROVE  ~IsFrame(s, k)
    <3>1. k - 1 \in i + 1 .. j - 1 /\ k - 1 \in 1 .. Len(s) - 1 /\ k - 1 + 1 = k
      BY <1>1, <2>2
    <3> QED
      BY <1>2, <1>3, <3>1
  <2>3. s[j + 1].frame.n = s[i + 1].frame.n + Adds(s[j + 1].frame)
    BY <1>1, <1>3, <2>1, <2>2 DEF RunsTo
  <2> QED
    BY <1>1, <2>3
<1>4. ASSUME NEW i \in DOMAIN e, IsFrame(e, i), \A k \in i + 1 .. Len(e) : ~IsFrame(e, k)
      PROVE  e[i].frame.n = last
  <2>1. i + 1 \in DOMAIN s /\ IsFrame(s, i + 1)
    BY <1>1, <1>2, <1>4
  <2>2. ASSUME NEW k \in i + 1 + 1 .. Len(s)
        PROVE  ~IsFrame(s, k)
    <3>1. k - 1 \in i + 1 .. Len(e) /\ k - 1 \in 1 .. Len(s) - 1 /\ k - 1 + 1 = k
      BY <1>1, <2>2
    <3> QED
      BY <1>2, <1>4, <3>1
  <2>3. s[i + 1].frame.n = last
    BY <2>1, <2>2 DEF RunsTo
  <2> QED
    BY <1>1, <2>3
<1>5. RunsTo(e, last)
  BY <1>3, <1>4 DEF RunsTo
<1>6. ASSUME IsFrame(s, 1)
      PROVE  /\ GoesOnFrom(e, last, s[1].frame.n)
             /\ \A l \in Nat : GoesOnFrom(s, last, l) => s[1].frame.n = l + Adds(s[1].frame)
  <2>1. ASSUME NEW j \in DOMAIN e, IsFrame(e, j), \A k \in 1 .. j - 1 : ~IsFrame(e, k)
        PROVE  e[j].frame.n = s[1].frame.n + Adds(e[j].frame)
    <3>1. 1 \in DOMAIN s /\ j + 1 \in DOMAIN s /\ 1 < j + 1 /\ IsFrame(s, j + 1)
      BY <1>1, <1>2, <2>1
    <3>2. ASSUME NEW k \in 1 + 1 .. j + 1 - 1
          PROVE  ~IsFrame(s, k)
      <4>1. k - 1 \in 1 .. j - 1 /\ k - 1 \in 1 .. Len(s) - 1 /\ k - 1 + 1 = k
        BY <1>1, <3>2
      <4> QED
        BY <1>2, <2>1, <4>1
    <3>3. s[j + 1].frame.n = s[1].frame.n + Adds(s[j + 1].frame)
      BY <1>1, <1>6, <2>1, <3>1, <3>2 DEF RunsTo
    <3> QED
      BY <1>1, <3>3
  <2>2. ASSUME \A k \in DOMAIN e : ~IsFrame(e, k)
        PROVE  s[1].frame.n = last
    <3>1. ASSUME NEW k \in 1 + 1 .. Len(s)
          PROVE  ~IsFrame(s, k)
      <4>1. k - 1 \in DOMAIN e /\ k - 1 + 1 = k
        BY <1>1, <3>1
      <4> QED
        BY <1>1, <1>2, <2>2, <4>1
    <3>2. 1 \in DOMAIN s
      BY <1>1
    <3> QED
      BY <1>6, <3>1, <3>2 DEF RunsTo
  <2>3. \A l \in Nat : GoesOnFrom(s, last, l) => s[1].frame.n = l + Adds(s[1].frame)
    BY <1>1, <1>6 DEF GoesOnFrom
  <2> QED
    BY <2>1, <2>2, <2>3 DEF GoesOnFrom
<1>7. ASSUME ~IsFrame(s, 1), NEW l \in Nat, GoesOnFrom(s, last, l)
      PROVE  GoesOnFrom(e, last, l)
  <2>1. ASSUME NEW j \in DOMAIN e, IsFrame(e, j), \A k \in 1 .. j - 1 : ~IsFrame(e, k)
        PROVE  e[j].frame.n = l + Adds(e[j].frame)
    <3>1. j + 1 \in DOMAIN s /\ IsFrame(s, j + 1)
      BY <1>1, <1>2, <2>1
    <3>2. ASSUME NEW k \in 1 .. j + 1 - 1
          PROVE  ~IsFrame(s, k)
      <4>1. CASE k = 1
        BY <1>7, <4>1
      <4>2. CASE k # 1
        <5>1. k - 1 \in 1 .. j - 1 /\ k - 1 \in 1 .. Len(s) - 1 /\ k - 1 + 1 = k
          BY <1>1, <3>2, <4>2
        <5> QED
          BY <1>2, <2>1, <5>1
      <4> QED
        BY <4>1, <4>2
    <3>3. s[j + 1].frame.n = l + Adds(s[j + 1].frame)
      BY <1>1, <1>7, <2>1, <3>1, <3>2 DEF GoesOnFrom
    <3> QED
      BY <1>1, <3>3
  <2>2. ASSUME \A k \in DOMAIN e : ~IsFrame(e, k)
        PROVE  l = last
    <3>1. ASSUME NEW k \in DOMAIN s
          PROVE  ~IsFrame(s, k)
      <4>1. CASE k = 1
        BY <1>7, <4>1
      <4>2. CASE k # 1
        <5>1. k - 1 \in DOMAIN e /\ k - 1 + 1 = k
          BY <1>1, <3>1, <4>2
        <5> QED
          BY <1>1, <1>2, <2>2, <5>1
      <4> QED
        BY <4>1, <4>2
    <3> QED
      BY <1>7, <3>1 DEF GoesOnFrom
  <2> QED
    BY <2>1, <2>2 DEF GoesOnFrom
<1> QED
  BY <1>5, <1>6, <1>7 DEF e

\* Nothing is contiguous, and runs to any number.
LEMMA EmptyFacts ==
  ASSUME NEW last
  PROVE  Contiguous(<<>>) /\ RunsTo(<<>>, last)
BY DEF Contiguous, RunsTo

\* Numbers of frames, for GoesOnFrom.
LEMMA LastNumber ==
  ASSUME NEW f \in Seq(LiveFrames), f # <<>>
  PROVE  f[Len(f)] \in LiveFrames /\ f[Len(f)].n \in Nat
<1>1. f[Len(f)] \in LiveFrames
  OBVIOUS
<1> QED
  BY <1>1 DEF LiveFrames

\* A history on the way holds live frames.
LEMMA HistoryMessage ==
  ASSUME Origin, NEW k \in DOMAIN net, net[k].t = "history"
  PROVE  net[k].batches \in Seq(LiveFrames)
<1>1. net[k] \in Messages
  BY DEF Origin
<1> QED
  BY <1>1 DEF Messages

\* A step that ends a live feed, or leaves all that matters alone.
LEMMA QuietStep ==
  ASSUME Chain, Origin', UNCHANGED <<net, sent, history, ws, retry>>,
         source' # "live" \/ UNCHANGED <<frames, source>>
  PROVE  Chain'
<1>1. Closed' /\ HistoryCurrent'
  BY DEF Chain, Closed, HistoryCurrent
<1>2. RunsTo(net, sent)'
  BY DEF Chain
<1>3. HistoryFirst'
  BY DEF Chain, HistoryFirst
<1>4. LiveGoesOn'
  BY DEF Chain, LiveGoesOn
<1> QED
  BY <1>1, <1>2, <1>3, <1>4 DEF Chain

\* The gateway sends something, if there is a connection.
LEMMA SendStep ==
  ASSUME Chain, Origin', HistoryCurrent', UNCHANGED <<frames, source, ws, retry>>,
         NEW m \in Messages, m.t # "history", net' = Sent(m),
         IF m.t = "frame" THEN m.frame.n = sent + Adds(m.frame) /\ sent' = m.frame.n
                          ELSE sent' = sent
  PROVE  Chain'
<1>1. CASE ws # "open"
  <2>1. net' = <<>> /\ source' # "live" /\ net = <<>>
    BY <1>1 DEF Chain, Closed, Sent
  <2>2. RunsTo(net', sent')
    BY <2>1, EmptyFacts
  <2>3. HistoryFirst' /\ LiveGoesOn' /\ Closed'
    BY <1>1, <2>1 DEF Chain, HistoryFirst, LiveGoesOn, Closed
  <2> QED
    BY <2>2, <2>3 DEF Chain
<1>2. CASE ws = "open"
  <2>1. net \in Seq(Messages) /\ net' = Append(net, m) /\ sent \in Nat /\ RunsTo(net, sent)
    BY <1>2 DEF Sent, Chain, Origin
  <2>2. /\ RunsTo(net', sent')
        /\ \A l \in Nat : GoesOnFrom(net, sent, l) => GoesOnFrom(net', sent', l)
    <3>1. CASE m.t = "frame"
      BY <2>1, <3>1, SendFrame
    <3>2. CASE m.t # "frame"
      BY <2>1, <3>2, SendOther
    <3> QED
      BY <3>1, <3>2
  <2>3. /\ Len(net) \in Nat /\ DOMAIN net = 1 .. Len(net)
        /\ DOMAIN net' = 1 .. Len(net) + 1
        /\ \A i \in 1 .. Len(net) : net'[i] = net[i]
        /\ net'[Len(net) + 1] = m
    BY <2>1, AppendFacts
  <2>4. ASSUME NEW k \in DOMAIN net', net'[k].t = "history"
        PROVE  /\ \/ k = 1 /\ (source' = "live" => frames' = <<>>)
                  \/ k = 2 /\ net'[1].t = "status" /\ source' # "live"
               /\ Contiguous(net'[k].batches)
               /\ net'[k].batches # <<>> =>
                    GoesOnFrom(net', sent', net'[k].batches[Len(net'[k].batches)].n)
    <3>1. k \in DOMAIN net /\ net'[k] = net[k] /\ net[k].t = "history"
      BY <2>3, <2>4
    <3>2. net'[1] = net[1]
      BY <2>3, <3>1
    <3>3. net[k].batches # <<>> =>
            /\ net[k].batches[Len(net[k].batches)].n \in Nat
            /\ GoesOnFrom(net, sent, net[k].batches[Len(net[k].batches)].n)
      BY <3>1, HistoryMessage, LastNumber DEF Chain, HistoryFirst
    <3> QED
      BY <2>2, <3>1, <3>2, <3>3 DEF Chain, HistoryFirst
  <2>5. HistoryFirst'
    BY <2>4 DEF HistoryFirst
  <2>6. LiveGoesOn'
    <3>1. source = "live" /\ frames # <<>> => frames[Len(frames)].n \in Nat
      BY LastNumber DEF Chain, Origin, OneOrigin
    <3> QED
      BY <2>2, <3>1 DEF Chain, LiveGoesOn
  <2>7. Closed'
    BY <1>2 DEF Chain, Closed
  <2> QED
    BY <2>2, <2>5, <2>6, <2>7 DEF Chain
<1> QED
  BY <1>1, <1>2

\* The history of the gateway goes on with every batch.
LEMMA HistoryStep ==
  ASSUME Chain, NEW at \in Times, BroadcastBatch(at)
  PROVE  HistoryCurrent'
<1> DEFINE f == LiveFrame("batch", sent + 1, at)
           all == Append(history, f)
<1>1. sent \in Nat /\ history \in Seq(LiveFrames)
  BY DEF Chain, Origin
<1>2. f \in LiveFrames /\ f.n = sent + 1 /\ Adds(f) = 1
  BY <1>1 DEF LiveFrame, LiveFrames, Adds
<1>3. history' = (IF Len(all) > HistoryMax THEN Tail(all) ELSE all) /\ sent' = sent + 1
  BY DEF BroadcastBatch
<1> HIDE DEF f
<1>4. Contiguous(all)
  BY <1>1, <1>2, AppendContiguous DEF Chain, HistoryCurrent
<1>5. all \in Seq(LiveFrames) /\ Len(all) = Len(history) + 1 /\ all[Len(all)] = f
      /\ Len(history) \in Nat
  BY <1>1, <1>2
<1> HIDE DEF all
<1>6. CASE Len(all) > HistoryMax
  <2>1. 2 \in 1 .. Len(all) /\ Tail(all) = SubSeq(all, 2, Len(all))
    BY <1>5, <1>6, FeedAssumption, TailIsSubSeq
  <2> QED
    BY <1>2, <1>3, <1>4, <1>5, <1>6, <2>1, SuffixContiguous DEF HistoryCurrent
<1>7. CASE ~(Len(all) > HistoryMax)
  BY <1>2, <1>3, <1>4, <1>5, <1>7 DEF HistoryCurrent
<1> QED
  BY <1>6, <1>7

\* Something is received: what follows it.
LEMMA ReceivedFacts ==
  ASSUME Chain, NEW type, Received(type)
  PROVE  /\ net \in Seq(Messages) /\ net # <<>> /\ net' = Tail(net) /\ net[1].t = type
         /\ Head(net) = net[1] /\ sent \in Nat /\ ws = "open" /\ 1 \in DOMAIN net
         /\ DOMAIN net' = 1 .. Len(net) - 1 /\ DOMAIN net = 1 .. Len(net) /\ Len(net) \in Nat
         /\ \A i \in 1 .. Len(net) - 1 : net'[i] = net[i + 1]
         /\ RunsTo(net, sent)
<1>1. net \in Seq(Messages) /\ sent \in Nat /\ RunsTo(net, sent)
  BY DEF Chain, Origin
<1>2. net # <<>> /\ net' = Tail(net) /\ Head(net).t = type
  BY DEF Received
<1>3. ws = "open"
  BY <1>2 DEF Chain, Closed
<1> QED
  BY <1>1, <1>2, <1>3, TailFacts

\* A status is received: it may start the live feed, with nothing to show yet.
LEMMA StatusStep ==
  ASSUME Chain, Origin', ReceiveStatus
  PROVE  Chain'
<1> USE DEF playVars
<1>1. Received("status") /\ UNCHANGED <<ws, retry, sent, history>>
  BY DEF ReceiveStatus
<1>2. /\ net \in Seq(Messages) /\ net # <<>> /\ net' = Tail(net) /\ net[1].t = "status"
      /\ sent \in Nat /\ ws = "open" /\ RunsTo(net, sent)
      /\ DOMAIN net' = 1 .. Len(net) - 1 /\ DOMAIN net = 1 .. Len(net) /\ Len(net) \in Nat
      /\ \A i \in 1 .. Len(net) - 1 : net'[i] = net[i + 1]
  BY <1>1, ReceivedFacts
<1>3. /\ RunsTo(net', sent)
      /\ \A l \in Nat : GoesOnFrom(net, sent, l) => GoesOnFrom(net', sent, l)
  BY <1>2, ReceiveOne DEF IsFrame
<1>4. \/ frames' = <<>> /\ source' = "live" /\ source # "live"
      \/ UNCHANGED <<frames, source>>
  BY DEF ReceiveStatus, SwitchToLive
<1>5. ASSUME NEW k \in DOMAIN net', net'[k].t = "history"
      PROVE  /\ k = 1 /\ (source' = "live" => frames' = <<>>)
             /\ Contiguous(net'[k].batches)
             /\ net'[k].batches # <<>> =>
                  GoesOnFrom(net', sent, net'[k].batches[Len(net'[k].batches)].n)
  <2>1. k + 1 \in DOMAIN net /\ net[k + 1] = net'[k] /\ k + 1 # 1
    BY <1>2, <1>5
  <2>2. k + 1 = 2 /\ source # "live" /\ Contiguous(net'[k].batches)
    BY <1>5, <2>1 DEF Chain, HistoryFirst
  <2>3. net'[k].batches # <<>> =>
          /\ net'[k].batches[Len(net'[k].batches)].n \in Nat
          /\ GoesOnFrom(net, sent, net'[k].batches[Len(net'[k].batches)].n)
    BY <1>5, <2>1, HistoryMessage, LastNumber DEF Chain, HistoryFirst
  <2> QED
    BY <1>2, <1>3, <1>4, <1>5, <2>2, <2>3
<1>6. HistoryFirst'
  BY <1>1, <1>5 DEF HistoryFirst
<1>7. LiveGoesOn'
  <2>1. CASE frames' = <<>> /\ source' = "live"
    BY <2>1, EmptyFacts DEF LiveGoesOn
  <2>2. CASE UNCHANGED <<frames, source>>
    <3>1. source = "live" /\ frames # <<>> => frames[Len(frames)].n \in Nat
      BY LastNumber DEF Chain, Origin, OneOrigin
    <3> QED
      BY <1>1, <1>3, <2>2, <3>1 DEF Chain, LiveGoesOn
  <2> QED
    BY <1>4, <2>1, <2>2
<1>8. Closed' /\ HistoryCurrent'
  BY <1>1, <1>2 DEF Chain, Closed, HistoryCurrent
<1> QED
  BY <1>1, <1>3, <1>6, <1>7, <1>8 DEF Chain

\* Once history or a frame is the next message, there is no history behind it.
LEMMA NoMoreHistory ==
  ASSUME Chain, NEW type, type # "status", Received(type)
  PROVE  \A k \in DOMAIN net' : net'[k].t # "history"
<1> SUFFICES ASSUME NEW k \in DOMAIN net', net'[k].t = "history" PROVE FALSE
  OBVIOUS
<1>1. k + 1 \in DOMAIN net /\ net[k + 1] = net'[k] /\ k + 1 # 1 /\ net[1].t = type
  BY ReceivedFacts
<1> QED
  BY <1>1 DEF Chain, HistoryFirst

\* History is received: it is shown if nothing else is, and what is behind it goes on from it.
LEMMA HistoryReceived ==
  ASSUME Chain, Origin', ReceiveHistory
  PROVE  Chain'
<1> USE DEF playVars, connVars
<1>1. Received("history") /\ UNCHANGED <<ws, retry, sent, history>>
  BY DEF ReceiveHistory
<1>2. /\ net \in Seq(Messages) /\ net # <<>> /\ net' = Tail(net) /\ net[1].t = "history"
      /\ sent \in Nat /\ ws = "open" /\ RunsTo(net, sent) /\ 1 \in DOMAIN net
      /\ Head(net) = net[1]
  BY <1>1, ReceivedFacts
<1>3. /\ RunsTo(net', sent)
      /\ \A l \in Nat : GoesOnFrom(net, sent, l) => GoesOnFrom(net', sent, l)
  BY <1>2, ReceiveOne DEF IsFrame
<1>4. HistoryFirst'
  BY <1>1, NoMoreHistory DEF HistoryFirst
<1> DEFINE all == net[1].batches
<1>5. /\ source = "live" => frames = <<>>
      /\ all \in Seq(LiveFrames) /\ Contiguous(all)
      /\ all # <<>> => GoesOnFrom(net, sent, all[Len(all)].n)
  BY <1>2, HistoryMessage DEF Chain, HistoryFirst
<1>6. source' = source /\ (source = "live" => frames' = Trimmed(all))
  BY <1>2, <1>5 DEF ReceiveHistory
<1> HIDE DEF all
<1>7. LiveGoesOn'
  <2> SUFFICES ASSUME source = "live"
               PROVE  /\ Contiguous(frames')
                      /\ frames' # <<>> => GoesOnFrom(net', sent, frames'[Len(frames')].n)
    BY <1>1, <1>6 DEF LiveGoesOn
  <2>1. Contiguous(frames') /\ (frames' # <<>> => all # <<>> /\ frames'[Len(frames')] = all[Len(all)])
    BY <1>5, <1>6, TrimmedContiguous
  <2>2. all # <<>> => all[Len(all)].n \in Nat
    BY <1>5, LastNumber
  <2> QED
    BY <1>3, <1>5, <2>1, <2>2
<1>8. Closed' /\ HistoryCurrent'
  BY <1>1, <1>2 DEF Chain, Closed, HistoryCurrent
<1> QED
  BY <1>1, <1>3, <1>4, <1>7, <1>8 DEF Chain

\* A frame is received: it follows the last one shown.
LEMMA FrameReceived ==
  ASSUME Chain, Origin', ReceiveFrame
  PROVE  Chain'
<1> USE DEF connVars
<1>1. Received("frame") /\ UNCHANGED <<ws, retry, sent, history, source>>
  BY DEF ReceiveFrame
<1>2. /\ net \in Seq(Messages) /\ net # <<>> /\ net' = Tail(net) /\ net[1].t = "frame"
      /\ sent \in Nat /\ ws = "open" /\ RunsTo(net, sent) /\ Head(net) = net[1]
  BY <1>1, ReceivedFacts
<1> DEFINE f == net[1].frame
<1>3. /\ RunsTo(net', sent) /\ GoesOnFrom(net', sent, f.n)
      /\ \A l \in Nat : GoesOnFrom(net, sent, l) => f.n = l + Adds(f)
  BY <1>2, ReceiveOne DEF IsFrame
<1>4. HistoryFirst'
  BY <1>1, NoMoreHistory DEF HistoryFirst
<1>5. f \in LiveFrames
  BY <1>1, <1>2, MessageReceived DEF Chain
<1>6. source = "live" => frames' = Trimmed(Append(frames, f)) /\ frames \in Seq(LiveFrames)
  BY <1>2 DEF ReceiveFrame, Chain, Origin, OneOrigin
<1> HIDE DEF f
<1>7. LiveGoesOn'
  <2> SUFFICES ASSUME source = "live"
               PROVE  /\ Contiguous(frames')
                      /\ frames' # <<>> => GoesOnFrom(net', sent, frames'[Len(frames')].n)
    BY <1>1 DEF LiveGoesOn
  <2>1. Contiguous(frames) /\ (frames # <<>> => f.n = frames[Len(frames)].n + Adds(f))
    BY <1>3, <1>6, LastNumber DEF Chain, LiveGoesOn
  <2>2. Contiguous(Append(frames, f))
    BY <1>5, <1>6, <2>1, AppendContiguous
  <2>3. Append(frames, f) \in Seq(LiveFrames) /\ Append(frames, f)[Len(Append(frames, f))] = f
    BY <1>5, <1>6
  <2>4. Contiguous(frames') /\ (frames' # <<>> => frames'[Len(frames')] = f)
    BY <1>6, <2>2, <2>3, TrimmedContiguous
  <2> QED
    BY <1>3, <2>4
<1>8. Closed' /\ HistoryCurrent'
  BY <1>1, <1>2 DEF Chain, Closed, HistoryCurrent
<1> QED
  BY <1>1, <1>3, <1>4, <1>7, <1>8 DEF Chain

\* A new connection begins with status and history.
LEMMA AcceptStep ==
  ASSUME Chain, Origin', Accept
  PROVE  Chain'
<1> USE DEF playVars
<1>1. /\ source # "live" /\ UNCHANGED <<source, sent, history, retry>> /\ ws = "opening"
      /\ ws' = "open" /\ sent \in Nat
  BY DEF Accept, Chain, Closed, Origin
<1> DEFINE m1 == [t |-> "status", up |-> upstream]
           m2 == [t |-> "history", batches |-> history]
<1>2. /\ net' = <<m1, m2>> /\ DOMAIN net' = 1 .. 2
      /\ net'[1] = m1 /\ net'[2] = m2
  BY DEF Accept
<1>3. m1.t = "status" /\ m2.t = "history" /\ m2.batches = history
  OBVIOUS
<1> HIDE DEF m1, m2
<1>4. \A k \in DOMAIN net' : ~IsFrame(net', k)
  BY <1>2, <1>3 DEF IsFrame
<1>5. RunsTo(net', sent) /\ GoesOnFrom(net', sent, sent)
  BY <1>4 DEF RunsTo, GoesOnFrom
<1>6. HistoryFirst'
  BY <1>1, <1>2, <1>3, <1>5 DEF HistoryFirst, Chain, HistoryCurrent
<1>7. Closed' /\ HistoryCurrent' /\ LiveGoesOn'
  BY <1>1 DEF Chain, Closed, HistoryCurrent, LiveGoesOn
<1> QED
  BY <1>1, <1>5, <1>6, <1>7 DEF Chain

\* What is shown live, what is on the way and what the gateway keeps fit together
\* at every step.
LEMMA ChainStep == Chain /\ [Next]_vars => Chain'
<1> SUFFICES ASSUME Chain, [Next]_vars PROVE Chain'
  OBVIOUS
<1> USE DEF playVars, connVars, gatewayVars
<1>0. Origin'
  BY OriginStep DEF Chain
<1>1. CASE FetchSucceeds \/ FetchFails \/ StartTimerFires
  BY <1>0, <1>1, QuietStep DEF FetchSucceeds, FetchFails, StartTimerFires
<1>2. CASE Connect
  <2>1. /\ ws = "none" /\ net = <<>> /\ source # "live"
        /\ \/ ws' = "opening" /\ ~retry'
           \/ UNCHANGED <<ws, retry>>
        /\ UNCHANGED <<net, sent, history, frames, source>>
    BY <1>2 DEF Connect, Chain, Closed
  <2>2. Closed' /\ HistoryCurrent' /\ HistoryFirst' /\ LiveGoesOn' /\ RunsTo(net, sent)'
    BY <2>1 DEF Chain, Closed, HistoryCurrent, HistoryFirst, LiveGoesOn
  <2> QED
    BY <1>0, <2>2 DEF Chain
<1>3. CASE Accept
  BY <1>0, <1>3, AcceptStep
<1>4. CASE OnClose
  <2>1. /\ net' = <<>> /\ source' # "live" /\ ws' = "none" /\ UNCHANGED <<sent, history>>
    BY <1>4 DEF OnClose
  <2>2. RunsTo(net', sent')
    BY <2>1, EmptyFacts
  <2>3. Closed' /\ HistoryCurrent' /\ HistoryFirst' /\ LiveGoesOn'
    BY <2>1 DEF Chain, Closed, HistoryCurrent, HistoryFirst, LiveGoesOn
  <2> QED
    BY <1>0, <2>2, <2>3 DEF Chain
<1>5. CASE Receive
  BY <1>0, <1>5, StatusStep, HistoryReceived, FrameReceived DEF Receive
<1>6. CASE UpstreamChanges
  <2>1. [t |-> "status", up |-> ~upstream] \in Messages
    BY DEF Chain, Origin, Messages
  <2>2. HistoryCurrent'
    BY <1>6 DEF UpstreamChanges, Chain, HistoryCurrent
  <2> QED
    BY <1>0, <1>6, <2>1, <2>2, SendStep DEF UpstreamChanges
<1>7. ASSUME NEW at \in Times, BroadcastBatch(at)
      PROVE  Chain'
  <2> DEFINE f == LiveFrame("batch", sent + 1, at)
  <2>1. f \in LiveFrames /\ f.n = sent + 1 /\ Adds(f) = 1
    BY DEF Chain, Origin, LiveFrame, LiveFrames, Adds
  <2>2. net' = Sent([t |-> "frame", frame |-> f]) /\ sent' = sent + 1
        /\ UNCHANGED <<frames, source, ws, retry>>
    BY <1>7 DEF BroadcastBatch
  <2>3. HistoryCurrent'
    BY <1>7, HistoryStep
  <2> HIDE DEF f
  <2>4. [t |-> "frame", frame |-> f] \in Messages
    BY <2>1 DEF Messages
  <2> QED
    BY <1>0, <2>1, <2>2, <2>3, <2>4, SendStep
<1>8. ASSUME NEW at \in Times, BroadcastBook(at)
      PROVE  Chain'
  <2> DEFINE f == LiveFrame("book", sent, at)
  <2>1. f \in LiveFrames /\ f.n = sent /\ Adds(f) = 0 /\ sent \in Nat
    BY DEF Chain, Origin, LiveFrame, LiveFrames, Adds
  <2>2. net' = Sent([t |-> "frame", frame |-> f]) /\ sent' = sent
        /\ UNCHANGED <<frames, source, ws, retry, history>>
    BY <1>8 DEF BroadcastBook
  <2>3. HistoryCurrent'
    BY <2>2 DEF Chain, HistoryCurrent
  <2> HIDE DEF f
  <2>4. [t |-> "frame", frame |-> f] \in Messages
    BY <2>1 DEF Messages
  <2> QED
    BY <1>0, <2>1, <2>2, <2>3, <2>4, SendStep
<1>9. CASE \/ AnimationFrame \/ GoLive \/ TogglePlay \/ ChangeSpeed \/ Step
           \/ \E time \in Times : Seek(time)
  <2>1. UNCHANGED <<net, sent, history, ws, retry, frames, source>>
    BY <1>9 DEF AnimationFrame, GoLive, TogglePlay, ChangeSpeed, Step, Seek, Gesture
  <2> QED
    BY <1>0, <2>1, QuietStep
<1>10. CASE UNCHANGED vars
  BY <1>0, <1>10, QuietStep DEF vars
<1> QED
  BY <1>1, <1>2, <1>3, <1>4, <1>5, <1>6, <1>7, <1>8, <1>9, <1>10 DEF Next

\* The frames of a live feed are what the gateway sent, in order and without a
\* gap, across reconnects, history, trims and outages of the exchange.
THEOREM LiveAlwaysContiguous == Spec => []LiveContiguous
<1>1. Init => Chain
  <2> SUFFICES ASSUME Init PROVE Chain
    OBVIOUS
  <2>1. Origin
    BY InitOrigin
  <2>2. net = <<>> /\ history = <<>> /\ frames = <<>> /\ source = "connecting" /\ ~retry /\ ws # "open"
    BY DEF Init
  <2>3. RunsTo(net, sent) /\ Contiguous(history)
    BY <2>2, EmptyFacts
  <2> QED
    BY <2>1, <2>2, <2>3 DEF Chain, Closed, HistoryCurrent, HistoryFirst, LiveGoesOn
<1>2. Chain => LiveContiguous
  BY DEF Chain, LiveGoesOn, LiveContiguous, Contiguous, Adds
<1> QED
  BY <1>1, <1>2, ChainStep, PTL DEF Spec

-----------------------------------------------------------------------------
(* The binary search of indexAt()                                          *)

\* One round of it, with s for the rounds that may follow.
Round(f, time, s, window) ==
  LET lo == window[1]
      hi == window[2]
      mid == (lo + hi) \div 2
      later == s[<<mid + 1, hi>>]
  IN IF lo > hi THEN -1
     ELSE IF f[mid + 1].at <= time
          THEN IF later = -1 THEN mid ELSE later
          ELSE s[<<lo, mid - 1>>]

Windows(n) == (0 .. n) \X (-1 .. n - 1)

Searches(f, time, s) == s = [w \in Windows(Len(f)) |-> Round(f, time, s, w)]

\* The number of places in a window, less one if any.
Width(w) == IF w[1] > w[2] THEN 0 ELSE w[2] - w[1] + 1

\* indexAt() searches the window of all the frames.
LEMMA IndexAtIs ==
  ASSUME NEW time
  PROVE  IndexAt(time) = (CHOOSE s : Searches(frames, time, s))[<<0, Len(frames) - 1>>]
  BY Zenon DEF IndexAt, Searches, Round, Windows

\* The halves of a window are windows, and smaller.
LEMMA Halves ==
  ASSUME NEW n \in Nat, NEW w \in Windows(n), w[1] <= w[2]
  PROVE  LET mid == (w[1] + w[2]) \div 2
         IN /\ mid \in 0 .. n - 1
            /\ <<mid + 1, w[2]>> \in Windows(n) /\ <<w[1], mid - 1>> \in Windows(n)
            /\ Width(<<mid + 1, w[2]>>) < Width(w) /\ Width(<<w[1], mid - 1>>) < Width(w)
            /\ Width(w) \in Nat /\ Width(w) <= n
<1> DEFINE lo == w[1]
           hi == w[2]
           mid == (lo + hi) \div 2
<1>1. lo \in 0 .. n /\ hi \in -1 .. n - 1 /\ lo <= hi
  BY DEF Windows
<1> HIDE DEF lo, hi
<1>2. mid \in Int /\ lo <= mid /\ mid <= hi
  BY <1>1
<1> HIDE DEF mid
<1>3. <<mid + 1, hi>> \in Windows(n) /\ <<lo, mid - 1>> \in Windows(n)
  BY <1>1, <1>2 DEF Windows
<1>4. Width(<<mid + 1, hi>>) = IF mid + 1 > hi THEN 0 ELSE hi - (mid + 1) + 1
  BY DEF Width
<1>5. Width(<<lo, mid - 1>>) = IF lo > mid - 1 THEN 0 ELSE mid - 1 - lo + 1
  BY DEF Width
<1>6. Width(w) = hi - lo + 1
  BY <1>1 DEF Width, lo, hi
<1> QED
  BY <1>1, <1>2, <1>3, <1>4, <1>5, <1>6 DEF lo, hi, mid

\* No window is wider than the frames.
LEMMA WidthType ==
  ASSUME NEW n \in Nat, NEW w \in Windows(n)
  PROVE  Width(w) \in 0 .. n
  BY DEF Windows, Width

\* A round depends on the results of smaller windows only ...
LEMMA RoundLocal ==
  ASSUME NEW f, NEW time, Len(f) \in Nat, NEW w \in Windows(Len(f)), NEW s, NEW t,
         \A v \in Windows(Len(f)) : Width(v) < Width(w) => s[v] = t[v]
  PROVE  Round(f, time, s, w) = Round(f, time, t, w)
<1>1. CASE w[1] > w[2]
  BY <1>1 DEF Round
<1>2. CASE ~(w[1] > w[2])
  <2>1. w[1] <= w[2]
    BY <1>2 DEF Windows
  <2> DEFINE mid == (w[1] + w[2]) \div 2
  <2>2. s[<<mid + 1, w[2]>>] = t[<<mid + 1, w[2]>>] /\ s[<<w[1], mid - 1>>] = t[<<w[1], mid - 1>>]
    BY <2>1, Halves
  <2> QED
    BY <2>2 DEF Round
<1> QED
  BY <1>1, <1>2

\* ... and its own result is one when theirs are.
LEMMA RoundType ==
  ASSUME NEW f, NEW time, Len(f) \in Nat, NEW w \in Windows(Len(f)), NEW s,
         \A v \in Windows(Len(f)) : Width(v) < Width(w) => s[v] \in -1 .. Len(f) - 1
  PROVE  Round(f, time, s, w) \in -1 .. Len(f) - 1
<1>1. CASE w[1] > w[2]
  BY <1>1 DEF Round
<1>2. CASE ~(w[1] > w[2])
  <2>1. w[1] <= w[2]
    BY <1>2 DEF Windows
  <2> DEFINE mid == (w[1] + w[2]) \div 2
  <2>2. /\ s[<<mid + 1, w[2]>>] \in -1 .. Len(f) - 1 /\ s[<<w[1], mid - 1>>] \in -1 .. Len(f) - 1
        /\ mid \in -1 .. Len(f) - 1
    BY <2>1, Halves
  <2> HIDE DEF mid
  <2>3. Round(f, time, s, w) \in {mid, s[<<mid + 1, w[2]>>], s[<<w[1], mid - 1>>]}
    BY <1>2 DEF Round, mid
  <2> QED
    BY <2>2, <2>3
<1> QED
  BY <1>1, <1>2

\* The search is well defined: windows shrink.
LEMMA SearchExists ==
  ASSUME NEW f, NEW time, Len(f) \in Nat
  PROVE  \E s : Searches(f, time, s)
<1> DEFINE W == Windows(Len(f))
           Upto(s, n) == /\ s = [w \in W |-> s[w]]
                         /\ \A w \in W : Width(w) < n => s[w] = Round(f, time, s, w)
           S == {n \in Nat : \E s : Upto(s, n)}
<1>0. \A w \in W : Width(w) \in 0 .. Len(f)
  BY WidthType
<1>1. 0 \in S
  <2> DEFINE s == [w \in W |-> 0]
  <2>1. Upto(s, 0)
    BY <1>0
  <2> QED
    BY <2>1
<1>2. ASSUME NEW n \in Nat, n \in S PROVE n + 1 \in S
  <2>1. PICK s : Upto(s, n)
    BY <1>2
  <2> DEFINE t == [w \in W |-> IF Width(w) < n THEN s[w] ELSE Round(f, time, s, w)]
  <2>2. t = [w \in W |-> t[w]] /\ \A w \in W : t[w] = IF Width(w) < n THEN s[w] ELSE Round(f, time, s, w)
    OBVIOUS
  <2> HIDE DEF t
  <2>3. \A w \in W : t[w] = Round(f, time, s, w) \/ ~(Width(w) < n)
    BY <2>1, <2>2
  <2>4. ASSUME NEW w \in W, Width(w) < n + 1
        PROVE  t[w] = Round(f, time, t, w)
    <3>1. Width(w) \in Nat
      BY <1>0
    <3>2. t[w] = Round(f, time, s, w)
      BY <2>1, <2>2
    <3>3. \A v \in W : Width(v) < Width(w) => s[v] = t[v]
      BY <1>0, <2>2, <2>4, <3>1
    <3>4. Round(f, time, s, w) = Round(f, time, t, w)
      BY <3>3, RoundLocal
    <3> QED
      BY <3>2, <3>4
  <2>5. Upto(t, n + 1)
    BY <2>2, <2>4
  <2> HIDE DEF Upto
  <2> QED
    BY <2>5
<1>3. Len(f) + 1 \in S
  <2> HIDE DEF S
  <2> QED
    BY <1>1, <1>2, NatSetInduction
<1>4. PICK s : Upto(s, Len(f) + 1)
  BY <1>3
<1>5. \A w \in W : s[w] = Round(f, time, s, w)
  BY <1>0, <1>4
<1>6. [w \in W |-> s[w]] = [w \in W |-> Round(f, time, s, w)]
  BY <1>5
<1>7. s = [w \in W |-> Round(f, time, s, w)]
  BY <1>4, <1>6
<1> QED
  BY <1>7 DEF Searches

\* Every window yields a frame, zero-based, or none.
LEMMA SearchType ==
  ASSUME NEW f, NEW time, Len(f) \in Nat, NEW s, Searches(f, time, s)
  PROVE  \A w \in Windows(Len(f)) : s[w] \in -1 .. Len(f) - 1
<1> DEFINE W == Windows(Len(f))
           S == {n \in Nat : \A w \in W : Width(w) < n => s[w] \in -1 .. Len(f) - 1}
<1>0. \A w \in W : Width(w) \in 0 .. Len(f)
  BY WidthType
<1>1. 0 \in S
  BY <1>0
<1>2. ASSUME NEW n \in Nat, n \in S PROVE n + 1 \in S
  <2>1. ASSUME NEW w \in W, Width(w) < n + 1
        PROVE  s[w] \in -1 .. Len(f) - 1
    <3>1. \A v \in W : Width(v) < Width(w) => s[v] \in -1 .. Len(f) - 1
      BY <1>0, <1>2, <2>1
    <3>2. s[w] = Round(f, time, s, w)
      BY DEF Searches
    <3>3. Round(f, time, s, w) \in -1 .. Len(f) - 1
      BY <3>1, RoundType
    <3> QED
      BY <3>2, <3>3
  <2> QED
    BY <2>1
<1>3. Len(f) + 1 \in S
  <2> HIDE DEF S
  <2> QED
    BY <1>1, <1>2, NatSetInduction
<1> QED
  BY <1>0, <1>3

\* indexAt() finds a frame, or -1.
LEMMA IndexAtType ==
  ASSUME NEW time, Len(frames) \in Nat
  PROVE  IndexAt(time) \in -1 .. Len(frames) - 1
<1> DEFINE s == CHOOSE x : Searches(frames, time, x)
<1>1. Searches(frames, time, s)
  BY SearchExists
<1>2. IndexAt(time) = s[<<0, Len(frames) - 1>>]
  BY IndexAtIs
<1> HIDE DEF s
<1>3. <<0, Len(frames) - 1>> \in Windows(Len(frames))
  BY DEF Windows
<1> QED
  BY <1>1, <1>2, <1>3, SearchType

-----------------------------------------------------------------------------
(* Fields                                                                  *)

\* push() drops Trim frames once, however many it is given: this is a recording
\* that it brings down to the bound.  The one that is shipped has 3092 frames, and
\* MAX_FRAMES is 20000.
RecordingFits == Len(Recording) <= MaxFrames + 2 * Trim

\* The gateway's history is bounded, kept or on the way.
HistoryFits ==
  /\ Len(history) <= HistoryMax
  /\ \A k \in DOMAIN net : net[k].t = "history" => Len(net[k].batches) <= HistoryMax

\* What playback works on.
PlayOK ==
  /\ Len(frames) <= MaxFrames + Trim
  /\ clockMode \in {"follow", "play", "pause"}
  /\ vt \in 0 .. LastTick
  /\ cursor \in 0 .. Len(frames)
  /\ forced \in Seq(Frame)

\* The connection.
ConnOK ==
  /\ source \in {"connecting", "live", "replay"}
  /\ ws \in {"none", "opening", "open"}
  /\ exchangeUp \in BOOLEAN /\ retry \in BOOLEAN /\ startTimer \in BOOLEAN
  /\ fetches \in Nat

Fields == Origin /\ HistoryFits /\ PlayOK /\ ConnOK

\* Frames of either origin are frames.
LEMMA OriginFrames == OneOrigin => frames \in Seq(Frame)
<1>1. LiveFrames \subseteq Frame /\ Recorded \subseteq Frame
  BY DEF LiveFrames, Recorded, Frame
<1>2. Seq(LiveFrames) \subseteq Seq(Frame) /\ Seq(Recorded) \subseteq Seq(Frame)
  BY <1>1
<1> QED
  BY <1>2 DEF OneOrigin

\* push() leaves no more frames than it should.
LEMMA TrimmedFits ==
  ASSUME NEW S, NEW f \in Seq(S), Len(f) <= MaxFrames + 2 * Trim
  PROVE  Len(Trimmed(f)) \in Nat /\ Len(Trimmed(f)) <= MaxFrames + Trim
<1>1. Trim \in Nat \ {0} /\ MaxFrames \in Nat /\ Len(f) \in Nat
  BY FeedAssumption
<1>2. CASE Overflows(f)
  <2>1. Trim + 1 \in 1 .. Len(f)
    BY <1>1, <1>2 DEF Overflows
  <2>2. Len(SubSeq(f, Trim + 1, Len(f))) = Len(f) - Trim
    BY <1>1, <2>1, SubSeqProperties
  <2>3. Len(Trimmed(f)) = Len(f) - Trim
    BY <1>2, <2>2 DEF Trimmed
  <2> QED
    BY <1>1, <2>1, <2>3
<1>3. CASE ~Overflows(f)
  BY <1>1, <1>3 DEF Overflows, Trimmed
<1> QED
  BY <1>2, <1>3

\* The cursor moves along when frames are dropped in front of it.
LEMMA TrimmedCursorFits ==
  ASSUME NEW S, NEW f \in Seq(S), NEW c \in 0 .. Len(f)
  PROVE  TrimmedCursor(f, c) \in 0 .. Len(Trimmed(f))
<1>1. Trim \in Nat \ {0} /\ MaxFrames \in Nat /\ Len(f) \in Nat
  BY FeedAssumption
<1>2. CASE Overflows(f)
  <2>1. Trim + 1 \in 1 .. Len(f)
    BY <1>1, <1>2 DEF Overflows
  <2>2. Len(SubSeq(f, Trim + 1, Len(f))) = Len(f) - Trim
    BY <1>1, <2>1, SubSeqProperties
  <2>3. Len(Trimmed(f)) = Len(f) - Trim
    BY <1>2, <2>2 DEF Trimmed
  <2>4. TrimmedCursor(f, c) = IF c > Trim THEN c - Trim ELSE 0
    BY <1>2 DEF TrimmedCursor
  <2> QED
    BY <1>1, <2>1, <2>3, <2>4
<1>3. CASE ~Overflows(f)
  BY <1>3 DEF TrimmedCursor, Trimmed
<1> QED
  BY <1>2, <1>3

\* Times of frames.
LEMMA TimesOfFrames ==
  ASSUME NEW f \in Seq(Frame)
  PROVE  /\ FirstAt(f) \in 0 .. MaxTime /\ LastAt(f) \in 0 .. MaxTime
         /\ MaxTime \in Nat /\ LoopMargin \in Nat
         /\ 0 .. MaxTime \subseteq 0 .. LastTick /\ LastTick \in Nat
<1>1. MaxTime \in Nat /\ LoopMargin \in Nat
  BY FeedAssumption
<1>2. \A i \in 1 .. Len(f) : f[i].at \in 1 .. MaxTime
  <2>1. \A i \in 1 .. Len(f) : f[i] \in Frame
    OBVIOUS
  <2> QED
    BY <2>1 DEF Frame, Times
<1>3. CASE f = <<>>
  BY <1>1, <1>3 DEF FirstAt, LastAt, LastTick
<1>4. CASE f # <<>>
  <2>1. 1 \in 1 .. Len(f) /\ Len(f) \in 1 .. Len(f) /\ Head(f) = f[1]
    BY <1>4
  <2>2. FirstAt(f) = f[1].at /\ LastAt(f) = f[Len(f)].at
    BY <1>4, <2>1 DEF FirstAt, LastAt, Last
  <2> QED
    BY <1>1, <1>2, <2>1, <2>2 DEF LastTick
<1> QED
  BY <1>3, <1>4

\* The least of the places ahead.
LEMMA MinOf ==
  ASSUME NEW T, T \subseteq Nat, T # {}
  PROVE  Min(T) \in T
<1>1. \E x \in T : \A y \in T : x <= y
  BY NatMin
<1> QED
  BY <1>1 DEF Min

\* takeNew() moves the cursor on, and not beyond the frames.
LEMMA TakenFits ==
  ASSUME Len(frames) \in Nat, NEW from \in 0 .. Len(frames), NEW limit
  PROVE  TakenUpTo(from, limit) \in 0 .. Len(frames)
<1> DEFINE later == {i \in from + 1 .. Len(frames) : frames[i].at > limit}
<1>1. later \subseteq from + 1 .. Len(frames) /\ later \subseteq Nat
  OBVIOUS
<1>2. TakenUpTo(from, limit) = IF later = {} THEN Len(frames) ELSE Min(later) - 1
  BY DEF TakenUpTo
<1> HIDE DEF later
<1>3. later # {} => Min(later) \in from + 1 .. Len(frames)
  BY <1>1, MinOf
<1> QED
  BY <1>2, <1>3

\* seek() stays within the recording's times and frames.
LEMMA SeekFits ==
  ASSUME frames \in Seq(Frame), NEW time \in Int, NEW mode \in {"follow", "play", "pause"},
         SeekTo(time, mode)
  PROVE  /\ clockMode' \in {"follow", "play", "pause"} /\ vt' \in 0 .. LastTick
         /\ cursor' \in 0 .. Len(frames)
<1>1. /\ FirstAt(frames) \in 0 .. MaxTime /\ LastAt(frames) \in 0 .. MaxTime
      /\ MaxTime \in Nat /\ 0 .. MaxTime \subseteq 0 .. LastTick
  BY TimesOfFrames
<1>2. Clamped(time) \in 0 .. MaxTime
  BY <1>1 DEF Clamped
<1>3. Len(frames) \in Nat
  OBVIOUS
<1>4. IndexAt(Clamped(time)) \in -1 .. Len(frames) - 1
  BY <1>3, IndexAtType
<1>5. clockMode' = mode /\ vt' = Clamped(time) /\ cursor' = IndexAt(Clamped(time)) + 1
  BY DEF SeekTo, Play
<1>6. vt' \in 0 .. LastTick
  BY <1>1, <1>2, <1>5
<1>7. cursor' \in 0 .. Len(frames)
  BY <1>3, <1>4, <1>5
<1> QED
  BY <1>5, <1>6, <1>7

\* The gateway bounds its history, and what it sends of it.
LEMMA HistoryFitsStep ==
  ASSUME Origin, HistoryFits, [Next]_vars
  PROVE  HistoryFits'
<1>0. /\ history \in Seq(LiveFrames) /\ net \in Seq(Messages) /\ HistoryMax \in Nat \ {0}
      /\ Len(history) <= HistoryMax
      /\ \A k \in 1 .. Len(net) : net[k].t = "history" => Len(net[k].batches) <= HistoryMax
  BY FeedAssumption DEF Origin, HistoryFits
<1>1. ASSUME UNCHANGED <<history, net>> PROVE HistoryFits'
  BY <1>1 DEF HistoryFits
<1>2. ASSUME NEW m, m.t # "history", net' = Sent(m), m \in Messages
      PROVE  \A k \in DOMAIN net' : net'[k].t = "history" => Len(net'[k].batches) <= HistoryMax
  <2>1. CASE net' = net
    BY <1>0, <2>1
  <2>2. CASE net' = Append(net, m)
    <3>1. /\ DOMAIN net' = 1 .. Len(net) + 1 /\ Len(net) \in Nat /\ net'[Len(net) + 1] = m
          /\ \A k \in 1 .. Len(net) : net'[k] = net[k]
      BY <1>0, <2>2
    <3> QED
      BY <1>0, <1>2, <3>1
  <2> QED
    BY <1>2, <2>1, <2>2 DEF Sent
<1>3. CASE Accept
  <2> DEFINE a == [t |-> "status", up |-> upstream]
             b == [t |-> "history", batches |-> history]
  <2>1. net' = <<a, b>> /\ history' = history
    BY <1>3 DEF Accept
  <2>2. DOMAIN net' = 1 .. 2 /\ net'[1] = a /\ net'[2] = b /\ a.t # "history" /\ b.batches = history
    BY <2>1
  <2> HIDE DEF a, b
  <2> QED
    BY <1>0, <2>1, <2>2 DEF HistoryFits
<1>4. CASE OnClose
  <2>1. net' = <<>> /\ history' = history
    BY <1>4 DEF OnClose
  <2> QED
    BY <1>0, <2>1 DEF HistoryFits
<1>5. ASSUME NEW type, Received(type), history' = history PROVE HistoryFits'
  <2>1. net # <<>> /\ net' = Tail(net)
    BY <1>5 DEF Received
  <2>2. /\ Len(net) \in Nat \ {0} /\ DOMAIN net' = 1 .. Len(net) - 1
        /\ \A k \in 1 .. Len(net) - 1 : net'[k] = net[k + 1]
    BY <1>0, <2>1
  <2> QED
    BY <1>0, <1>5, <2>2 DEF HistoryFits
<1>6. CASE Receive
  <2>1. /\ history' = history
        /\ Received("status") \/ Received("history") \/ Received("frame")
    BY <1>6 DEF Receive, ReceiveStatus, ReceiveHistory, ReceiveFrame
  <2> QED
    BY <1>5, <2>1
<1>7. CASE UpstreamChanges
  <2>1. net' = Sent([t |-> "status", up |-> ~upstream]) /\ history' = history
    BY <1>7 DEF UpstreamChanges
  <2>2. [t |-> "status", up |-> ~upstream] \in Messages
    BY DEF Messages
  <2> QED
    BY <1>0, <1>2, <2>1, <2>2 DEF HistoryFits
<1>8. ASSUME NEW at \in Times, BroadcastBatch(at) PROVE HistoryFits'
  <2> DEFINE f == LiveFrame("batch", sent + 1, at)
             all == Append(history, f)
  <2>1. /\ history' = IF Len(all) > HistoryMax THEN Tail(all) ELSE all
        /\ net' = Sent([t |-> "frame", frame |-> f])
    BY <1>8 DEF BroadcastBatch
  <2>2. f \in LiveFrames
    BY DEF Origin, LiveFrame, LiveFrames
  <2> HIDE DEF f
  <2>3. [t |-> "frame", frame |-> f] \in Messages
    BY <2>2 DEF Messages
  <2>4. all \in Seq(LiveFrames) /\ Len(all) = Len(history) + 1 /\ Len(history) \in Nat
    BY <1>0, <2>2
  <2>5. Len(Tail(all)) = Len(history)
    BY <2>4
  <2>6. Len(history') <= HistoryMax
    BY <1>0, <2>1, <2>4, <2>5
  <2> QED
    BY <1>2, <2>1, <2>3, <2>6 DEF HistoryFits
<1>9. ASSUME NEW at \in Times, BroadcastBook(at) PROVE HistoryFits'
  <2> DEFINE f == LiveFrame("book", sent, at)
  <2>1. net' = Sent([t |-> "frame", frame |-> f]) /\ history' = history
    BY <1>9 DEF BroadcastBook
  <2>2. f \in LiveFrames
    BY DEF Origin, LiveFrame, LiveFrames
  <2> HIDE DEF f
  <2>3. [t |-> "frame", frame |-> f] \in Messages
    BY <2>2 DEF Messages
  <2> QED
    BY <1>0, <1>2, <2>1, <2>3 DEF HistoryFits
<1>10. CASE StartTimerFires \/ FetchSucceeds \/ FetchFails \/ Connect
  BY <1>1, <1>10 DEF StartTimerFires, FetchSucceeds, FetchFails, Connect, gatewayVars
<1>11. CASE \/ AnimationFrame \/ GoLive \/ TogglePlay \/ ChangeSpeed \/ Step
            \/ \E time \in Times : Seek(time)
  BY <1>1, <1>11 DEF AnimationFrame, GoLive, TogglePlay, ChangeSpeed, Step, Seek, Gesture, gatewayVars
<1>12. CASE UNCHANGED vars
  BY <1>1, <1>12 DEF vars, gatewayVars
<1> QED
  BY <1>3, <1>4, <1>6, <1>7, <1>8, <1>9, <1>10, <1>11, <1>12 DEF Next

\* Status, timers and retries keep their types.
LEMMA ConnStep ==
  ASSUME Origin, ConnOK, [Next]_vars
  PROVE  ConnOK'
<1> USE DEF ConnOK, playVars, connVars, gatewayVars
<1>1. CASE StartTimerFires
  <2>1. fetches' \in {fetches, fetches + 1}
    BY <1>1 DEF StartTimerFires, UseReplay
  <2>2. startTimer' = FALSE /\ UNCHANGED <<source, ws, exchangeUp, retry>>
    BY <1>1 DEF StartTimerFires
  <2>3. fetches' \in Nat
    BY <2>1
  <2> QED
    BY <2>2, <2>3
<1>2. CASE FetchSucceeds
  BY <1>2 DEF FetchSucceeds
<1>3. CASE FetchFails
  BY <1>3 DEF FetchFails
<1>4. CASE Connect
  BY <1>4 DEF Connect
<1>5. CASE Accept
  BY <1>5 DEF Accept
<1>6. CASE OnClose
  <2>1. fetches' \in {fetches, fetches + 1}
    BY <1>6 DEF OnClose, UseReplay
  <2>2. /\ ws' = "none" /\ exchangeUp' = FALSE /\ retry' = TRUE /\ UNCHANGED startTimer
        /\ source' = IF source = "live" THEN "replay" ELSE source
    BY <1>6 DEF OnClose
  <2>3. fetches' \in Nat
    BY <2>1
  <2> QED
    BY <2>2, <2>3
<1>7. CASE ReceiveStatus
  <2>1. Head(net) \in Messages /\ Head(net).t = "status"
    BY <1>7 DEF ReceiveStatus, Received, Origin
  <2>2. Head(net).up \in BOOLEAN
    BY <2>1 DEF Messages
  <2> QED
    BY <1>7, <2>2 DEF ReceiveStatus, SwitchToLive, UseReplay
<1>8. CASE ReceiveHistory
  BY <1>8 DEF ReceiveHistory
<1>9. CASE ReceiveFrame
  BY <1>9 DEF ReceiveFrame
<1>10. CASE UpstreamChanges \/ \E at \in Times : BroadcastBatch(at) \/ BroadcastBook(at)
  <2>1. UNCHANGED connVars /\ UNCHANGED playVars
    BY <1>10 DEF UpstreamChanges, BroadcastBatch, BroadcastBook
  <2> QED
    BY <2>1
<1>11. CASE \/ AnimationFrame \/ GoLive \/ TogglePlay \/ ChangeSpeed \/ Step
            \/ \E time \in Times : Seek(time)
  BY <1>11 DEF AnimationFrame, GoLive, TogglePlay, ChangeSpeed, Step, Seek, Gesture
<1>12. CASE UNCHANGED vars
  BY <1>12 DEF vars
<1> QED
  BY <1>1, <1>2, <1>3, <1>4, <1>5, <1>6, <1>7, <1>8, <1>9, <1>10, <1>11, <1>12 DEF Next, Receive

\* A domain tells the length.
LEMMA SameLength ==
  ASSUME NEW m \in Nat, NEW n \in Nat, 1 .. m = 1 .. n
  PROVE  m = n
<1>1. ASSUME m < n PROVE FALSE
  <2>1. n \in 1 .. n /\ ~(n \in 1 .. m)
    BY <1>1
  <2> QED
    BY <2>1
<1>2. ASSUME n < m PROVE FALSE
  <2>1. m \in 1 .. m /\ ~(m \in 1 .. n)
    BY <1>2
  <2> QED
    BY <2>1
<1> QED
  BY <1>1, <1>2

\* Every step leaves the clock, the cursor and the number of frames in range.
LEMMA PlayStep ==
  ASSUME RecordingFits, Origin, HistoryFits, PlayOK, [Next]_vars
  PROVE  PlayOK'
<1>0. /\ frames \in Seq(Frame) /\ Len(frames) \in Nat /\ Trim \in Nat \ {0} /\ MaxFrames \in Nat
      /\ HistoryMax \in Nat /\ HistoryMax <= MaxFrames
  BY OriginFrames, FeedAssumption DEF Origin
<1>1. ASSUME UNCHANGED playVars PROVE PlayOK'
  BY <1>1 DEF PlayOK, playVars
<1>2. CASE FetchSucceeds
  <2>1. CASE UNCHANGED playVars
    BY <1>1, <2>1
  <2>2. CASE source # "live"
    <3>1. /\ frames' = Trimmed(RecordedFrames) /\ cursor' = 0 /\ clockMode' = "play"
          /\ vt' = FirstAt(frames') /\ UNCHANGED forced
      BY <1>2, <2>2 DEF FetchSucceeds
    <3>2. RecordedFrames \in Seq(Frame)
      <4>1. Recorded \subseteq Frame
        BY DEF Recorded, Frame
      <4> QED
        BY <4>1, RecordingOrigin
    <3>3. Len(RecordedFrames) <= MaxFrames + 2 * Trim
      <4>1. /\ DOMAIN RecordedFrames = DOMAIN Recording
            /\ DOMAIN RecordedFrames = 1 .. Len(RecordedFrames) /\ Len(RecordedFrames) \in Nat
            /\ DOMAIN Recording = 1 .. Len(Recording) /\ Len(Recording) \in Nat
        BY <3>2, FeedAssumption DEF RecordedFrames
      <4> HIDE DEF RecordedFrames
      <4>2. Len(RecordedFrames) = Len(Recording)
        BY <4>1, SameLength
      <4> QED
        BY <4>2 DEF RecordingFits
    <3>4. Len(frames') \in Nat /\ Len(frames') <= MaxFrames + Trim
      BY <3>1, <3>2, <3>3, TrimmedFits
    <3>5. frames' \in Seq(Frame)
      BY <3>1, <3>2, TrimmedOrigin
    <3>6. FirstAt(frames') \in 0 .. LastTick
      BY <3>5, TimesOfFrames
    <3> QED
      BY <3>1, <3>4, <3>6 DEF PlayOK
  <2> QED
    BY <1>2, <2>1, <2>2 DEF FetchSucceeds
<1>3. CASE OnClose
  <2>1. UNCHANGED <<frames, vt, cursor, forced>> /\ clockMode' \in {"pause", clockMode}
    BY <1>3 DEF OnClose
  <2> QED
    BY <2>1 DEF PlayOK
<1>4. CASE ReceiveStatus
  <2>1. CASE UNCHANGED playVars
    BY <1>1, <2>1
  <2>2. CASE SwitchToLive
    <3>1. frames' = <<>> /\ cursor' = 0 /\ clockMode' = "follow" /\ vt' = 0 /\ forced' = forced
      BY <2>2 DEF SwitchToLive
    <3>2. Len(frames') = 0 /\ LastTick \in Nat
      BY <1>0, <3>1, TimesOfFrames
    <3> QED
      BY <1>0, <3>1, <3>2 DEF PlayOK
  <2> QED
    BY <1>4, <2>1, <2>2 DEF ReceiveStatus
<1>5. CASE ReceiveHistory
  <2>1. CASE UNCHANGED playVars
    BY <1>1, <2>1
  <2>2. CASE source = "live" /\ frames = <<>>
    <3> DEFINE all == Head(net).batches
    <3>1. /\ frames' = Trimmed(all) /\ clockMode' = "follow" /\ vt' = LastAt(frames')
          /\ cursor' = Len(frames') /\ UNCHANGED forced
      BY <1>5, <2>2 DEF ReceiveHistory
    <3>2. /\ net # <<>> /\ net \in Seq(Messages) /\ Head(net).t = "history"
      BY <1>5 DEF ReceiveHistory, Received, Origin
    <3>3. Head(net) \in Messages /\ Head(net) = net[1] /\ 1 \in DOMAIN net
      BY <3>2
    <3>4. all \in Seq(LiveFrames)
      BY <3>2, <3>3 DEF Messages
    <3>5. Len(all) <= HistoryMax
      BY <3>2, <3>3 DEF HistoryFits
    <3> HIDE DEF all
    <3>6. all \in Seq(Frame)
      <4>1. LiveFrames \subseteq Frame
        BY DEF LiveFrames, Frame
      <4> QED
        BY <3>4, <4>1
    <3>7. Len(all) \in Nat /\ Len(all) <= MaxFrames + 2 * Trim
      BY <1>0, <3>5, <3>6
    <3>8. Len(frames') \in Nat /\ Len(frames') <= MaxFrames + Trim
      BY <3>1, <3>6, <3>7, TrimmedFits
    <3>9. frames' \in Seq(Frame)
      BY <3>1, <3>6, TrimmedOrigin
    <3>10. LastAt(frames') \in 0 .. LastTick
      BY <3>9, TimesOfFrames
    <3> QED
      BY <3>1, <3>8, <3>10 DEF PlayOK
  <2> QED
    BY <1>5, <2>1, <2>2 DEF ReceiveHistory
<1>6. CASE ReceiveFrame
  <2>1. CASE UNCHANGED <<frames, cursor>>
    BY <1>6, <2>1 DEF ReceiveFrame, PlayOK
  <2>2. CASE source = "live"
    <3> DEFINE all == Append(frames, Head(net).frame)
    <3>1. /\ frames' = Trimmed(all) /\ cursor' = TrimmedCursor(all, cursor)
          /\ UNCHANGED <<clockMode, vt, forced>>
      BY <1>6, <2>2 DEF ReceiveFrame
    <3>2. all \in Seq(frames \cup Frame \cup {Head(net).frame}) 
      BY <1>0
    <3>3. Len(all) = Len(frames) + 1
      BY <1>0
    <3> HIDE DEF all
    <3>4. Len(frames) <= MaxFrames + Trim /\ cursor \in 0 .. Len(frames)
      BY DEF PlayOK
    <3>5. Len(all) <= MaxFrames + 2 * Trim /\ cursor \in 0 .. Len(all)
      BY <1>0, <3>3, <3>4
    <3>6. Len(frames') <= MaxFrames + Trim
      BY <3>1, <3>2, <3>5, TrimmedFits
    <3>7. cursor' \in 0 .. Len(frames')
      BY <3>1, <3>2, <3>5, TrimmedCursorFits
    <3> QED
      BY <3>1, <3>6, <3>7 DEF PlayOK
  <2> QED
    BY <1>6, <2>1, <2>2 DEF ReceiveFrame
<1>7. /\ FirstAt(frames) \in 0 .. LastTick /\ LastAt(frames) \in 0 .. LastTick
      /\ LastTick \in Nat /\ vt \in 0 .. LastTick
      /\ cursor \in 0 .. Len(frames) /\ forced \in Seq(Frame) /\ clockMode \in {"follow", "play", "pause"}
  BY <1>0, TimesOfFrames DEF PlayOK
<1>8. ASSUME UNCHANGED frames, NEW mode \in {"follow", "play", "pause"}, NEW time \in 0 .. LastTick,
             NEW at \in 0 .. Len(frames), Play(mode, time, at), forced' \in Seq(Frame)
      PROVE  PlayOK'
  BY <1>8 DEF Play, PlayOK
<1>9. Len(frames) \in 0 .. Len(frames)
  BY <1>0
<1>10. ASSUME Follow, UNCHANGED <<frames, forced>> PROVE PlayOK'
  BY <1>7, <1>8, <1>9, <1>10 DEF Follow
<1>11. ASSUME NEW time \in Int, NEW mode \in {"follow", "play", "pause"}, SeekTo(time, mode),
              UNCHANGED <<frames, forced>>
       PROVE  PlayOK'
  <2>1. clockMode' \in {"follow", "play", "pause"} /\ vt' \in 0 .. LastTick /\ cursor' \in 0 .. Len(frames)
    BY <1>0, <1>11, SeekFits
  <2> QED
    BY <1>11, <2>1 DEF PlayOK
<1>12. CASE AnimationFrame
  <2>0. frames' = frames /\ forced' \in Seq(Frame)
    BY <1>12 DEF AnimationFrame
  <2>1. CASE Play("follow", LastAt(frames), Len(frames))
    BY <1>7, <1>8, <1>9, <2>0, <2>1
  <2>2. ASSUME NEW now \in vt .. LastTick, NEW time \in 0 .. LastTick, NEW from \in 0 .. Len(frames),
               Play("play", time, TakenUpTo(from, time))
        PROVE  PlayOK'
    <3>1. TakenUpTo(from, time) \in 0 .. Len(frames)
      BY <1>0, TakenFits
    <3> QED
      BY <1>8, <2>0, <2>2, <3>1
  <2>3. ASSUME NEW now \in vt .. LastTick,
               \/ Play("play", FirstAt(frames), TakenUpTo(0, FirstAt(frames)))
               \/ Follow
               \/ Play("play", now, TakenUpTo(cursor, now))
        PROVE  PlayOK'
    <3>1. now \in 0 .. LastTick /\ 0 \in 0 .. Len(frames)
      BY <1>0, <1>7
    <3>2. CASE Follow
      BY <2>1, <3>2 DEF Follow
    <3> QED
      BY <1>7, <2>2, <2>3, <3>1, <3>2
  <2>4. CASE UNCHANGED <<clockMode, vt, cursor>>
    BY <2>0, <2>4 DEF PlayOK
  <2>5. \/ Play("follow", LastAt(frames), Len(frames))
        \/ \E now \in vt .. LastTick :
             \/ Play("play", FirstAt(frames), TakenUpTo(0, FirstAt(frames)))
             \/ Follow
             \/ Play("play", now, TakenUpTo(cursor, now))
        \/ UNCHANGED <<clockMode, vt, cursor>>
    BY ONLY <1>12, Zenon DEF AnimationFrame
  <2> QED
    BY <2>1, <2>3, <2>4, <2>5
<1>13. CASE \E time \in Times : Seek(time)
  <2>1. PICK time \in Times : Seek(time)
    BY <1>13
  <2> DEFINE mode == IF clockMode = "follow" THEN "pause" ELSE clockMode
  <2>2. SeekTo(time, mode) /\ UNCHANGED <<frames, forced>>
    BY <2>1 DEF Seek, Gesture
  <2>3. mode \in {"follow", "play", "pause"} /\ time \in Int
    BY <1>7 DEF Times
  <2> HIDE DEF mode
  <2> QED
    BY <1>11, <2>2, <2>3
<1>14. CASE GoLive
  <2>1. Follow \/ SeekTo(FirstAt(frames), "play")
    BY <1>14 DEF GoLive
  <2>2. UNCHANGED <<frames, forced>> /\ FirstAt(frames) \in Int
    BY <1>7, <1>14 DEF GoLive, Gesture
  <2> QED
    BY <1>10, <1>11, <2>1, <2>2
<1>15. CASE TogglePlay
  <2> DEFINE mode == IF clockMode = "pause" THEN "play" ELSE "pause"
  <2>1. Follow \/ Play(mode, vt, cursor)
    BY <1>15 DEF TogglePlay
  <2>2. UNCHANGED <<frames, forced>> /\ mode \in {"follow", "play", "pause"}
    BY <1>15 DEF TogglePlay, Gesture
  <2> HIDE DEF mode
  <2> QED
    BY <1>7, <1>8, <1>10, <2>1, <2>2
<1>16. CASE ChangeSpeed
  <2> DEFINE mode == IF clockMode = "follow" THEN "play" ELSE clockMode
  <2>1. Play(mode, vt, cursor) /\ UNCHANGED <<frames, forced>>
    BY <1>16 DEF ChangeSpeed, Gesture
  <2>2. mode \in {"follow", "play", "pause"}
    BY <1>7
  <2> HIDE DEF mode
  <2> QED
    BY <1>7, <1>8, <2>1, <2>2
<1>17. CASE Step
  <2> DEFINE ahead == {i \in cursor + 1 .. Len(frames) : frames[i].t = "batch"}
             to == IF ahead = {} THEN Len(frames) ELSE Min(ahead)
  <2>1. /\ Play("pause", IF to > cursor THEN frames[to].at ELSE vt, to)
        /\ forced' = IF ahead = {} THEN forced ELSE Append(forced, frames[to])
        /\ UNCHANGED frames
    BY <1>17 DEF Step, Gesture
  <2>2. ahead \subseteq cursor + 1 .. Len(frames) /\ ahead \subseteq Nat
    BY <1>7
  <2> HIDE DEF ahead
  <2>3. ahead # {} => Min(ahead) \in cursor + 1 .. Len(frames)
    BY <2>2, MinOf
  <2>4. to = IF ahead = {} THEN Len(frames) ELSE Min(ahead)
    OBVIOUS
  <2> HIDE DEF to
  <2>5. to \in 0 .. Len(frames) /\ (to > cursor => to \in 1 .. Len(frames)) /\ (ahead # {} => to > cursor)
    BY <1>0, <1>7, <2>3, <2>4
  <2>6. to > cursor => frames[to] \in Frame /\ frames[to].at \in 0 .. LastTick
    <3>1. ASSUME to > cursor PROVE frames[to] \in Frame
      BY <1>0, <2>5, <3>1
    <3>2. ASSUME to > cursor PROVE frames[to].at \in 1 .. MaxTime
      BY <3>1, <3>2 DEF Frame, Times
    <3>3. 0 .. MaxTime \subseteq 0 .. LastTick /\ MaxTime \in Nat
      BY <1>0, TimesOfFrames
    <3> QED
      BY <3>1, <3>2, <3>3
  <2>7. (IF to > cursor THEN frames[to].at ELSE vt) \in 0 .. LastTick
    BY <1>7, <2>6
  <2>8. forced' \in Seq(Frame)
    BY <1>7, <2>1, <2>5, <2>6
  <2> QED
    BY <1>8, <2>1, <2>5, <2>7, <2>8
<1>18. CASE \/ StartTimerFires \/ FetchFails \/ Connect \/ Accept \/ UpstreamChanges
            \/ \E at \in Times : BroadcastBatch(at) \/ BroadcastBook(at)
  <2>1. UNCHANGED <<frames, clockMode, vt, cursor, forced>>
    BY <1>18 DEF StartTimerFires, FetchFails, Connect, Accept, UpstreamChanges, BroadcastBatch,
                 BroadcastBook, playVars
  <2> QED
    BY <2>1 DEF PlayOK
<1>19. CASE UNCHANGED vars
  BY <1>1, <1>19 DEF vars
<1> QED
  BY <1>2, <1>3, <1>4, <1>5, <1>6, <1>12, <1>13, <1>14, <1>15, <1>16, <1>17, <1>18, <1>19
     DEF Next, Receive

\* The feed starts without frames.
LEMMA InitFields == Init => Fields
<1> SUFFICES ASSUME Init PROVE Fields
  OBVIOUS
<1>1. Origin
  BY InitOrigin
<1>2. /\ frames = <<>> /\ history = <<>> /\ net = <<>> /\ forced = <<>> /\ vt = 0 /\ cursor = 0
      /\ clockMode = "follow"
  BY DEF Init
<1>3. /\ source = "connecting" /\ exchangeUp = FALSE /\ retry = FALSE
      /\ startTimer = GatewayReachable
      /\ ws = (IF GatewayReachable THEN "opening" ELSE "none")
      /\ fetches = (IF GatewayReachable THEN 0 ELSE 1)
  BY DEF Init
<1>4. HistoryFits
  BY <1>2, FeedAssumption DEF HistoryFits
<1>5. PlayOK
  <2>1. Len(frames) = 0 /\ LastTick \in Nat /\ MaxFrames \in Nat /\ Trim \in Nat
    BY <1>2, FeedAssumption DEF LastTick
  <2> QED
    BY <1>2, <2>1 DEF PlayOK
<1>6. ConnOK
  BY <1>3, FeedAssumption DEF ConnOK
<1> QED
  BY <1>1, <1>4, <1>5, <1>6 DEF Fields

\* The parts together are inductive.
LEMMA FieldsStep == RecordingFits /\ Fields /\ [Next]_vars => Fields'
<1> SUFFICES ASSUME RecordingFits, Fields, [Next]_vars PROVE Fields'
  OBVIOUS
<1>1. Origin /\ HistoryFits /\ PlayOK /\ ConnOK
  BY DEF Fields
<1>2. Origin'
  BY <1>1, OriginStep
<1>3. HistoryFits'
  BY <1>1, HistoryFitsStep
<1>4. PlayOK'
  BY <1>1, PlayStep
<1>5. ConnOK'
  BY <1>1, ConnStep
<1> QED
  BY <1>2, <1>3, <1>4, <1>5 DEF Fields

\* The cursor always stays within the frames, which push() trims, seek() and
\* step() move it over and a change of source replaces; and push() keeps the
\* frames bounded, with a history the gateway bounds and a recording that fits.
THEOREM FieldsAlwaysTyped ==
  ASSUME RecordingFits
  PROVE  Spec => []TypeOK
<1>1. Fields /\ [Next]_vars => Fields'
  BY FieldsStep
<1>2. Fields => TypeOK
  <2> SUFFICES ASSUME Fields PROVE TypeOK
    OBVIOUS
  <2>1. frames \in Seq(Frame) /\ upstream \in BOOLEAN
    BY OriginFrames DEF Fields, Origin
  <2>2. /\ Len(frames) <= MaxFrames + Trim
        /\ clockMode \in {"follow", "play", "pause"}
        /\ vt \in 0 .. LastTick
        /\ cursor \in 0 .. Len(frames)
        /\ forced \in Seq(Frame)
    BY DEF Fields, PlayOK
  <2>3. /\ source \in {"connecting", "live", "replay"} /\ ws \in {"none", "opening", "open"}
        /\ exchangeUp \in BOOLEAN /\ retry \in BOOLEAN /\ startTimer \in BOOLEAN
        /\ fetches \in Nat
    BY DEF Fields, ConnOK
  <2> QED
    BY <2>1, <2>2, <2>3 DEF TypeOK
<1> QED
  BY <1>1, <1>2, InitFields, PTL DEF Spec
=============================================================================
