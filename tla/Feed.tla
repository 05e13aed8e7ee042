-------------------------------- MODULE Feed --------------------------------
(***************************************************************************)
(* The browser's feed (web/src/feed.ts): one connection to the gateway, a  *)
(* recording to fall back on, and a clock that follows, plays or pauses.   *)
(* The requests of the trade ticket are in Ticket.                         *)
(*                                                                         *)
(* Callbacks run to completion one at a time: one action each.  What is    *)
(* awaited (the fetch of the recording), timed (start, retry) or received  *)
(* is an action of its own.  The gateway is modelled as far as the browser *)
(* sees it (web/gateway/server.ts): what it sends to a new connection and  *)
(* what it broadcasts.                                                     *)
(*                                                                         *)
(* Times are abstract: a batch carries the clock of the exchange and a     *)
(* book frame that of the gateway, so frames may be out of order by time.  *)
(* Rosters, the recording flag and render notifications are left out.      *)
(***************************************************************************)
EXTENDS Integers, Sequences, FiniteSets, SequencesExt

CONSTANTS
  GatewayReachable,   \* GATEWAY_REACHABLE
  MaxFrames, Trim,    \* MAX_FRAMES and TRIM
  HistoryMax,         \* HISTORY_MAX
  LoopMargin,         \* a replay starts over this long after its last frame
  Recording,          \* the frames of the recording, as <<t, at>>
  \* Bounds:
  MaxTime,            \* time stamps of live frames
  MaxSent,            \* batches the gateway gets from the exchange
  MaxBooks,           \* withheld books the gateway flushes
  MaxConnects,        \* connections the browser makes
  MaxChanges,         \* times the exchange comes up or goes down
  MaxGestures         \* uses of the playback controls

ASSUME FeedAssumption ==
  /\ GatewayReachable \in BOOLEAN
  /\ {MaxFrames, Trim, HistoryMax, MaxTime} \subseteq Nat \ {0}
  /\ HistoryMax <= MaxFrames
  /\ {LoopMargin, MaxSent, MaxBooks, MaxConnects, MaxChanges, MaxGestures}
       \subseteq Nat
  /\ Recording \in Seq({"batch", "book"} \X (1 .. MaxTime))

VARIABLES
  frames, source, exchangeUp, clockMode, vt, cursor, forced,  \* fields of Feed
  ws,            \* "none", "opening" or "open"
  retry,         \* the retry timer is set
  startTimer,    \* the 2500 ms timer of start() is set
  fetches,       \* calls of useReplay() that await their fetch
  net,           \* messages from the gateway on the way to the browser
  upstream,      \* the gateway's exchangeUp
  history, sent, books,  \* the gateway's history; batches and books sent so far
  connects, changes, gestures   \* counters for the bounds

playVars == <<frames, source, clockMode, vt, cursor, forced>>
connVars == <<exchangeUp, ws, retry, startTimer, fetches, connects>>
gatewayVars == <<net, upstream, history, sent, books, changes>>
vars == <<playVars, connVars, gatewayVars, gestures>>

Times == 1 .. MaxTime
LastTick == MaxTime + LoopMargin + 1

\* A live frame: number n is that of the last batch up to and including it.
LiveFrame(t, n, at) == [t |-> t, from |-> "live", n |-> n, at |-> at]

RecordedFrames ==
  [i \in DOMAIN Recording |->
     [t |-> Recording[i][1], from |-> "recording", n |-> i, at |-> Recording[i][2]]]

FirstAt(f) == IF f = <<>> THEN 0 ELSE Head(f).at
LastAt(f) == IF f = <<>> THEN 0 ELSE Last(f).at

\* indexAt(), zero-based as in the code; -1 if it finds nothing.
IndexAt(time) ==
  LET search[window \in (0 .. Len(frames)) \X (-1 .. Len(frames) - 1)] ==
        LET lo == window[1]
            hi == window[2]
            mid == (lo + hi) \div 2
            later == search[<<mid + 1, hi>>]
        IN IF lo > hi THEN -1
           ELSE IF frames[mid + 1].at <= time
                THEN IF later = -1 THEN mid ELSE later
                ELSE search[<<lo, mid - 1>>]
  IN search[<<0, Len(frames) - 1>>]

\* push(): the frames and the cursor afterwards.
Overflows(f) == Len(f) > MaxFrames + Trim

Trimmed(f) == IF Overflows(f) THEN SubSeq(f, Trim + 1, Len(f)) ELSE f

\* The cursor stays where it was: a mutant.
TrimmedCursorKept(f, c) == c

TrimmedCursor(f, c) == IF Overflows(f) THEN (IF c > Trim THEN c - Trim ELSE 0) ELSE c

Init ==
  /\ frames = <<>>
  /\ source = "connecting"
  /\ exchangeUp = FALSE
  /\ clockMode = "follow"
  /\ vt = 0
  /\ cursor = 0
  /\ forced = <<>>
  /\ ws = (IF GatewayReachable THEN "opening" ELSE "none")
  /\ retry = FALSE
  /\ startTimer = GatewayReachable
  /\ fetches = (IF GatewayReachable THEN 0 ELSE 1)
  /\ net = <<>>
  /\ upstream = FALSE
  /\ history = <<>>
  /\ sent = 0
  /\ books = 0
  /\ connects = (IF GatewayReachable THEN 1 ELSE 0)
  /\ changes = 0
  /\ gestures = 0

-----------------------------------------------------------------------------
(* The recording and the connection                                        *)

\* useReplay() up to its await: it returns at once when the feed is live.
UseReplay(src) == IF src = "live" THEN fetches ELSE fetches + 1

StartTimerFires ==
  /\ startTimer
  /\ startTimer' = FALSE
  /\ fetches' = IF source = "connecting" THEN UseReplay(source) ELSE fetches
  /\ UNCHANGED <<playVars, exchangeUp, ws, retry, connects, gatewayVars, gestures>>

\* useReplay() without its reset(): a mutant.
FetchSucceedsAppending ==
  /\ fetches > 0
  /\ fetches' = fetches - 1
  /\ IF source = "live"
     THEN UNCHANGED playVars
     ELSE /\ frames' = Trimmed(frames \o RecordedFrames)
          /\ source' = "replay"
          /\ clockMode' = "play"
          /\ vt' = FirstAt(frames')
          /\ UNCHANGED <<cursor, forced>>
  /\ UNCHANGED <<exchangeUp, ws, retry, startTimer, connects, gatewayVars, gestures>>

\* The rest of useReplay() when the recording has come.
FetchSucceeds ==
  /\ fetches > 0
  /\ fetches' = fetches - 1
  /\ IF source = "live"
     THEN UNCHANGED playVars
     ELSE /\ frames' = Trimmed(RecordedFrames)
          /\ cursor' = 0
          /\ source' = "replay"
          /\ clockMode' = "play"
          /\ vt' = FirstAt(frames')
          /\ UNCHANGED forced
  /\ UNCHANGED <<exchangeUp, ws, retry, startTimer, connects, gatewayVars, gestures>>

\* The error is swallowed: a mutant.
FetchFailsSilently ==
  /\ fetches > 0
  /\ fetches' = fetches - 1
  /\ UNCHANGED <<playVars, exchangeUp, ws, retry, startTimer, connects, gatewayVars,
                 gestures>>

\* Its catch: the recording cannot be had.
FetchFails ==
  /\ fetches > 0
  /\ fetches' = fetches - 1
  /\ source' = "replay"
  /\ UNCHANGED <<frames, clockMode, vt, cursor, forced, exchangeUp, ws, retry, startTimer,
                 connects, gatewayVars, gestures>>

\* The retry timer fires: connect().
Connect ==
  /\ retry
  /\ connects < MaxConnects
  /\ \/ retry' = FALSE /\ ws' = "opening"
     \/ UNCHANGED <<retry, ws>>           \* the constructor throws: scheduleRetry()
  /\ connects' = connects + 1
  /\ UNCHANGED <<playVars, exchangeUp, startTimer, fetches, gatewayVars, gestures>>

\* The gateway's connection handler: status and history, before anything else.
Accept ==
  /\ ws = "opening"
  /\ ws' = "open"
  /\ net' = <<[t |-> "status", up |-> upstream], [t |-> "history", batches |-> history]>>
  /\ UNCHANGED <<playVars, exchangeUp, retry, startTimer, fetches, connects, upstream, history,
                 sent, books, changes, gestures>>

\* No retry is scheduled: a mutant.
OnCloseGivingUp ==
  /\ ws \in {"opening", "open"}
  /\ ws' = "none"
  /\ net' = <<>>
  /\ exchangeUp' = FALSE
  /\ source' = IF source = "live" THEN "replay" ELSE source
  /\ fetches' = IF source = "live" /\ frames = <<>> THEN UseReplay("replay") ELSE fetches
  /\ clockMode' = IF source = "live" /\ frames # <<>> /\ clockMode = "follow"
                  THEN "pause" ELSE clockMode
  /\ UNCHANGED <<frames, vt, cursor, forced, retry, startTimer, connects, upstream, history, sent,
                 books, changes, gestures>>

\* ws.onclose.  What was on the way is lost.
OnClose ==
  /\ ws \in {"opening", "open"}
  /\ ws' = "none"
  /\ net' = <<>>
  /\ exchangeUp' = FALSE
  /\ source' = IF source = "live" THEN "replay" ELSE source
  /\ fetches' = IF source = "live" /\ frames = <<>> THEN UseReplay("replay") ELSE fetches
  /\ clockMode' = IF source = "live" /\ frames # <<>> /\ clockMode = "follow"
                  THEN "pause" ELSE clockMode
  /\ retry' = TRUE
  /\ UNCHANGED <<frames, vt, cursor, forced, startTimer, connects, upstream, history, sent, books,
                 changes, gestures>>

-----------------------------------------------------------------------------
(* Messages                                                                *)

\* Add m to what is on the way, if there is a connection.
Sent(m) == IF ws = "open" THEN Append(net, m) ELSE net

Received(type) == net # <<>> /\ Head(net).t = type /\ net' = Tail(net)

\* switchToLive() that keeps what was there: a mutant.
SwitchToLiveKeeping ==
  /\ UNCHANGED <<frames, cursor>>
  /\ source' = "live"
  /\ clockMode' = "follow"
  /\ vt' = 0
  /\ UNCHANGED forced

SwitchToLive ==
  /\ frames' = <<>>
  /\ cursor' = 0
  /\ source' = "live"
  /\ clockMode' = "follow"
  /\ vt' = 0
  /\ UNCHANGED forced

ReceiveStatus ==
  LET up == Head(net).up
  IN /\ Received("status")
     /\ exchangeUp' = up
     /\ IF up /\ source # "live" THEN SwitchToLive ELSE UNCHANGED playVars
     /\ fetches' = IF ~up /\ source = "live" /\ frames = <<>> THEN UseReplay(source) ELSE fetches
     /\ UNCHANGED <<ws, retry, startTimer, connects, upstream, history, sent, books, changes,
                    gestures>>

\* push() and setFollow().
ReceiveHistory ==
  LET all == Head(net).batches
  IN /\ Received("history")
     /\ IF source = "live" /\ frames = <<>>
        THEN /\ frames' = Trimmed(all)
             /\ clockMode' = "follow"
             /\ vt' = LastAt(frames')
             /\ cursor' = Len(frames')
             /\ UNCHANGED <<source, forced>>
        ELSE UNCHANGED playVars
     /\ UNCHANGED <<connVars, upstream, history, sent, books, changes, gestures>>

\* A batch or a book.
ReceiveFrame ==
  /\ Received("frame")
  /\ IF source = "live"
     THEN LET all == Append(frames, Head(net).frame)
          IN frames' = Trimmed(all) /\ cursor' = TrimmedCursor(all, cursor)
     ELSE UNCHANGED <<frames, cursor>>
  /\ UNCHANGED <<source, clockMode, vt, forced, connVars, upstream, history, sent, books, changes,
                 gestures>>

\* The gateway's stream of telemetry begins or ends.
UpstreamChanges ==
  /\ changes < MaxChanges
  /\ changes' = changes + 1
  /\ upstream' = ~upstream
  /\ net' = Sent([t |-> "status", up |-> ~upstream])
  /\ UNCHANGED <<playVars, connVars, history, sent, books, gestures>>

\* The gateway broadcasts what the exchange did ...
BroadcastBatch(at) ==
  LET f == LiveFrame("batch", sent + 1, at)
      all == Append(history, f)
  IN /\ upstream
     /\ sent < MaxSent
     /\ sent' = sent + 1
     /\ history' = IF Len(all) > HistoryMax THEN Tail(all) ELSE all
     /\ net' = Sent([t |-> "frame", frame |-> f])
     /\ UNCHANGED <<playVars, connVars, upstream, books, changes, gestures>>

\* ... and, from a timer, a book it had withheld.
BroadcastBook(at) ==
  /\ sent > 0
  /\ books < MaxBooks
  /\ books' = books + 1
  /\ net' = Sent([t |-> "frame", frame |-> LiveFrame("book", sent, at)])
  /\ UNCHANGED <<playVars, connVars, upstream, history, sent, changes, gestures>>

-----------------------------------------------------------------------------
(* Playback                                                                *)

Play(mode, time, at) == clockMode' = mode /\ vt' = time /\ cursor' = at

Follow == Play("follow", LastAt(frames), Len(frames))

\* takeNew()'s loop from `from' up to the first frame later than `limit'.
TakenUpTo(from, limit) ==
  LET later == {i \in from + 1 .. Len(frames) : frames[i].at > limit}
  IN IF later = {} THEN Len(frames) ELSE Min(later) - 1

\* One animation frame: tick() and then takeNew().  While playing, vt moves on
\* by any amount.
AnimationFrame ==
  /\ \/ /\ clockMode = "follow"
        /\ Play("follow", LastAt(frames), Len(frames))
     \/ /\ clockMode = "play"
        /\ \E now \in vt .. LastTick :
             \/ /\ source = "replay" /\ frames # <<>> /\ now > LastAt(frames) + LoopMargin
                /\ Play("play", FirstAt(frames), TakenUpTo(0, FirstAt(frames)))
             \/ /\ source = "live" /\ now >= LastAt(frames)
                /\ Follow
             \/ /\ ~(source = "replay" /\ frames # <<>> /\ now > LastAt(frames) + LoopMargin)
                /\ ~(source = "live" /\ now >= LastAt(frames))
                /\ Play("play", now, TakenUpTo(cursor, now))
     \/ /\ clockMode = "pause"
        /\ UNCHANGED <<clockMode, vt, cursor>>
  /\ forced' = <<>>
  /\ UNCHANGED <<frames, source, connVars, gatewayVars, gestures>>

Gesture ==
  /\ gestures < MaxGestures
  /\ gestures' = gestures + 1
  /\ UNCHANGED <<frames, source, connVars, gatewayVars>>

Clamped(time) ==
  LET least == IF time < FirstAt(frames) THEN FirstAt(frames) ELSE time
  IN IF least > LastAt(frames) THEN LastAt(frames) ELSE least

\* seek(), with the clock in the mode given.
SeekTo(time, mode) == Play(mode, Clamped(time), IndexAt(Clamped(time)) + 1)

\* The slider, with at least two frames to slide over.
Seek(time) ==
  /\ Gesture
  /\ Len(frames) >= 2
  /\ SeekTo(time, IF clockMode = "follow" THEN "pause" ELSE clockMode)
  /\ UNCHANGED forced

GoLive ==
  /\ Gesture
  /\ ~(source = "live" /\ clockMode = "follow")
  /\ IF source = "live" THEN Follow ELSE SeekTo(FirstAt(frames), "play")
  /\ UNCHANGED forced

TogglePlay ==
  /\ Gesture
  /\ IF clockMode = "pause" /\ source = "live" /\ vt >= LastAt(frames)
     THEN Follow
     ELSE Play(IF clockMode = "pause" THEN "play" ELSE "pause", vt, cursor)
  /\ UNCHANGED forced

\* setSpeed(): any speed but 1 leaves the live edge.
ChangeSpeed ==
  /\ Gesture
  /\ Play(IF clockMode = "follow" THEN "play" ELSE clockMode, vt, cursor)
  /\ UNCHANGED forced

\* step(), which the page offers when paused: on to the next batch.
Step ==
  LET ahead == {i \in cursor + 1 .. Len(frames) : frames[i].t = "batch"}
      to == IF ahead = {} THEN Len(frames) ELSE Min(ahead)
  IN /\ Gesture
     /\ clockMode = "pause"
     /\ Play("pause", IF to > cursor THEN frames[to].at ELSE vt, to)
     /\ forced' = IF ahead = {} THEN forced ELSE Append(forced, frames[to])

-----------------------------------------------------------------------------
Receive == ReceiveStatus \/ ReceiveHistory \/ ReceiveFrame

Next ==
  \/ StartTimerFires
  \/ FetchSucceeds
  \/ FetchFails
  \/ Connect
  \/ Accept
  \/ OnClose
  \/ Receive
  \/ UpstreamChanges
  \/ \E at \in Times : BroadcastBatch(at) \/ BroadcastBook(at)
  \/ AnimationFrame
  \/ \E time \in Times : Seek(time)
  \/ GoLive
  \/ TogglePlay
  \/ ChangeSpeed
  \/ Step

\* Timers fire, fetches settle one way or the other and what the gateway sent
\* is received.  Nobody has to use the page, and the exchange may stay away.
Fairness ==
  /\ WF_vars(StartTimerFires)
  /\ WF_vars(FetchSucceeds \/ FetchFails)
  /\ WF_vars(Connect)
  /\ WF_vars(Receive)

Spec == Init /\ [][Next]_vars /\ Fairness

-----------------------------------------------------------------------------
(* Properties                                                              *)

Frame == [t : {"batch", "book"}, from : {"live", "recording"}, n : Nat, at : Times]

\* The fields have their types; in particular the cursor, which trimming, seeks,
\* steps and changes of source all move, stays within the frames, and push()
\* keeps the number of those bounded, however long the feed runs.
TypeOK ==
  /\ frames \in Seq(Frame) /\ Len(frames) <= MaxFrames + Trim
  /\ source \in {"connecting", "live", "replay"}
  /\ clockMode \in {"follow", "play", "pause"}
  /\ vt \in 0 .. LastTick
  /\ cursor \in 0 .. Len(frames)
  /\ forced \in Seq(Frame)
  /\ ws \in {"none", "opening", "open"}
  /\ {exchangeUp, retry, startTimer, upstream} \subseteq BOOLEAN
  /\ fetches \in Nat

\* Recorded and live frames never share the screen, although the recording is
\* fetched while the connection comes and goes; and a live feed shows no
\* recorded frame.
FramesUnmixed ==
  /\ \A i, j \in DOMAIN frames : frames[i].from = frames[j].from
  /\ source = "live" => \A i \in DOMAIN frames : frames[i].from = "live"

\* Across reconnects, history, trims and outages of the exchange, the frames of
\* a live feed are what the gateway sent, in order and without a gap.
LiveContiguous ==
  source = "live" => \A i \in 1 .. Len(frames) - 1 :
    frames[i + 1].n = frames[i].n + (IF frames[i + 1].t = "batch" THEN 1 ELSE 0)

\* A feed that has no connection is about to try again, and one that has, or is
\* getting one, is not: it never opens a second.
RetryArmed == GatewayReachable => (retry <=> ws = "none")

\* While the page says "Connecting...", its start timer or a fetch of the
\* recording is still to come, and either ends that state, whatever becomes of
\* the gateway, of the exchange and of the recording.
ConnectingEnds == source = "connecting" => startTimer \/ fetches > 0

\* The banner of App.tsx: the page says that the exchange is not running, and
\* shows a recording, only when it does not know better.
BannerTruthful == source = "replay" => ~exchangeUp

\* web/README.md: when the exchange is not running, the site replays the
\* recording, rather than an empty live feed.
ReplaysWhenDown ==
  (source = "live" /\ ~exchangeUp /\ frames = <<>>)
    ~> (source = "replay" \/ exchangeUp \/ frames # <<>>)
=============================================================================
