---------------------------- MODULE GatewayProofs ----------------------------
(***************************************************************************)
(* Safety of the gateway for any orders, any number of operations, faults, *)
(* pages and recordings, and any limit on history and resting orders.      *)
(***************************************************************************)
EXTENDS Gateway, SeqFacts, SumFacts, FiniteSetTheorems, TLAPS

-----------------------------------------------------------------------------
(* One subscription                                                        *)

CallRecords ==
  [st : {"free", "opening", "open", "broken"}, alive : BOOLEAN, ended : BOOLEAN,
   events : SUBSET {"error", "end"}, wire : Seq(Nat)]

\* What the phases of a call mean: one that is broken has an event to come, both
\* until the first has come, and "end" as long as there is data.
CallShape(c) ==
  /\ c.st \in {"free", "opening"} => ~c.alive /\ ~c.ended /\ c.wire = <<>>
  /\ c.st = "open" => ~c.ended
  /\ c.st # "broken" => c.events = {}
  /\ c.st = "broken" => /\ c.events # {}
                        /\ ~c.ended => c.events = {"error", "end"}
                        /\ "end" \notin c.events => c.wire = <<>>
  /\ c.ended => ~c.alive

Active(c) == c.st # "free" /\ ~c.ended

\* There is one call at a time, and a timer exactly when it does not count any more.
Connected ==
  /\ calls \in [1 .. 2 -> CallRecords]
  /\ \A k \in 1 .. 2 : CallShape(calls[k])
  /\ \A j, k \in 1 .. 2 : calls[j].st # "free" /\ calls[k].st # "free" => j = k
  /\ timers = IF \E k \in 1 .. 2 : Active(calls[k]) THEN 0 ELSE 1

\* A call changes and stays what it is, as far as subscriptions are concerned.
LEMMA CallStep ==
  ASSUME Connected, timers' = timers,
         calls' \in [1 .. 2 -> CallRecords],
         \A k \in 1 .. 2 : /\ CallShape(calls'[k])
                           /\ calls'[k].st = "free" <=> calls[k].st = "free"
                           /\ Active(calls'[k]) <=> Active(calls[k])
  PROVE  Connected'
BY DEF Connected

\* The exchange executes something: its record goes to the call, if that is open.
LEMMA ExecuteEffect ==
  ASSUME NEW r, Execute(r)
  PROVE  /\ UNCHANGED <<timers, faults>>
         /\ log' = Append(log, Record(r.op, r.node, IF r.op = "submit" THEN r.order ELSE Null))
         /\ calls' = [k \in DOMAIN calls |->
                        IF calls[k].st = "open" THEN [calls[k] EXCEPT !.wire = Append(@, Len(log'))]
                        ELSE calls[k]]
BY DEF Execute, Publish

LEMMA ExecuteConnected ==
  ASSUME Connected, IsSeq(log), NEW r, Execute(r)
  PROVE  Connected' /\ IsSeq(log)' /\ Len(log') = Len(log) + 1 /\ Len(log) \in Nat
<1> DEFINE rec == Record(r.op, r.node, IF r.op = "submit" THEN r.order ELSE Null)
<1>1. log' = Append(log, rec) /\ timers' = timers
  BY ExecuteEffect
<1>2. calls' = [k \in DOMAIN calls |->
                  IF calls[k].st = "open" THEN [calls[k] EXCEPT !.wire = Append(@, Len(log'))]
                  ELSE calls[k]]
  BY ExecuteEffect
<1> HIDE DEF rec
<1>3. IsSeq(log') /\ Len(log') = Len(log) + 1 /\ Len(log) \in Nat
  BY <1>1, SeqAppend
<1>4. calls \in [1 .. 2 -> CallRecords]
  BY DEF Connected
<1>5. ASSUME NEW k \in 1 .. 2
      PROVE  /\ calls'[k] \in CallRecords /\ CallShape(calls'[k])
             /\ calls'[k].st = "free" <=> calls[k].st = "free"
             /\ Active(calls'[k]) <=> Active(calls[k])
  <2>1. calls[k] \in CallRecords /\ CallShape(calls[k])
    BY <1>4 DEF Connected
  <2>2. CASE calls[k].st = "open"
    <3>1. calls'[k] = [calls[k] EXCEPT !.wire = Append(calls[k].wire, Len(log'))]
      BY <1>2, <1>4, <2>2
    <3>2. Append(calls[k].wire, Len(log')) \in Seq(Nat)
      BY <1>3, <2>1 DEF CallRecords
    <3> QED
      BY <2>1, <2>2, <3>1, <3>2 DEF CallRecords, CallShape, Active
  <2>3. CASE calls[k].st # "open"
    BY <1>2, <1>4, <2>1, <2>3
  <2> QED
    BY <2>2, <2>3
<1>6. calls' \in [1 .. 2 -> CallRecords]
  BY <1>2, <1>4, <1>5
<1>7. Connected'
  BY <1>1, <1>5, <1>6, CallStep
<1> QED
  BY <1>3, <1>7

\* A stream breaks, and loses some of what was under way.
LEMMA BrokenCall ==
  ASSUME NEW c \in CallRecords, CallShape(c), c.st \in {"opening", "open"},
         NEW n \in 0 .. Len(c.wire)
  PROVE  /\ Broken(c, n) \in CallRecords /\ CallShape(Broken(c, n))
         /\ Broken(c, n).st # "free" /\ Active(Broken(c, n)) /\ Active(c)
         /\ Broken(c, n).wire = SubSeq(c.wire, 1, n) \/ Broken(c, n).wire = <<>>
         /\ Broken(c, n).alive = c.alive
<1>1. c.wire \in Seq(Nat)
  BY DEF CallRecords
<1>2. SubSeq(c.wire, 1, n) \in Seq(Nat)
  BY <1>1
<1>3. <<>> \in Seq(Nat)
  OBVIOUS
<1> DEFINE w == IF c.alive THEN SubSeq(c.wire, 1, n) ELSE <<>>
<1>4. w \in Seq(Nat)
  BY <1>2, <1>3
<1>5. Broken(c, n) = [c EXCEPT !.st = "broken", !.events = {"error", "end"}, !.wire = w]
  BY DEF Broken, CallRecords
<1>6. w = SubSeq(c.wire, 1, n) \/ w = <<>>
  OBVIOUS
<1> HIDE DEF w
<1> QED
  BY <1>4, <1>5, <1>6 DEF CallRecords, CallShape, Active

LEMMA StopsConnected ==
  ASSUME Connected, IsSeq(log), Stops
  PROVE  /\ Connected'
         /\ \A k \in 1 .. 2 : \/ calls'[k].wire = calls[k].wire
                              \/ calls'[k].wire = <<>>
                              \/ \E n \in 0 .. Len(calls[k].wire) :
                                   calls'[k].wire = SubSeq(calls[k].wire, 1, n)
         /\ \A k \in 1 .. 2 : calls'[k].alive = calls[k].alive
<1>1. calls \in [1 .. 2 -> CallRecords]
  BY DEF Connected
<1>2. Len(log) \in Nat
  BY SeqAppend
<1>3. PICK m \in 0 .. Len(log) :
        calls' = [k \in DOMAIN calls |->
                    IF calls[k].st \in {"opening", "open"}
                    THEN Broken(calls[k], IF m < Len(calls[k].wire) THEN m ELSE Len(calls[k].wire))
                    ELSE calls[k]]
  BY DEF Stops
<1>4. ASSUME NEW k \in 1 .. 2
      PROVE  /\ calls'[k] \in CallRecords /\ CallShape(calls'[k])
             /\ calls'[k].st = "free" <=> calls[k].st = "free"
             /\ Active(calls'[k]) <=> Active(calls[k])
             /\ \/ calls'[k].wire = calls[k].wire
                \/ calls'[k].wire = <<>>
                \/ \E n \in 0 .. Len(calls[k].wire) : calls'[k].wire = SubSeq(calls[k].wire, 1, n)
             /\ calls'[k].alive = calls[k].alive
  <2>1. calls[k] \in CallRecords /\ CallShape(calls[k])
    BY <1>1 DEF Connected
  <2>2. Len(calls[k].wire) \in Nat
    BY <2>1 DEF CallRecords
  <2> DEFINE n == IF m < Len(calls[k].wire) THEN m ELSE Len(calls[k].wire)
  <2>3. n \in 0 .. Len(calls[k].wire)
    BY <1>2, <1>3, <2>2
  <2>4. CASE calls[k].st \in {"opening", "open"}
    <3>1. calls'[k] = Broken(calls[k], n)
      BY <1>1, <1>3, <2>4
    <3> HIDE DEF n
    <3> QED
      BY <2>1, <2>3, <2>4, <3>1, BrokenCall
  <2>5. CASE calls[k].st \notin {"opening", "open"}
    BY <1>1, <1>3, <2>1, <2>5
  <2> QED
    BY <2>4, <2>5
<1>5. calls' \in [1 .. 2 -> CallRecords]
  BY <1>1, <1>3, <1>4
<1>6. timers' = timers
  BY DEF Stops
<1>7. Connected'
  BY <1>4, <1>5, <1>6, CallStep
<1> QED
  BY <1>4, <1>7

\* One call changes, to c.
LEMMA OneCallStep ==
  ASSUME Connected, timers' = timers, NEW k \in 1 .. 2, NEW c \in CallRecords,
         calls' = [calls EXCEPT ![k] = c], CallShape(c),
         c.st = "free" <=> calls[k].st = "free", Active(c) <=> Active(calls[k])
  PROVE  Connected' /\ calls'[k] = c /\ \A j \in 1 .. 2 : j # k => calls'[j] = calls[j]
<1>1. calls \in [1 .. 2 -> CallRecords]
  BY DEF Connected
<1>2. /\ calls' \in [1 .. 2 -> CallRecords] /\ calls'[k] = c
      /\ \A j \in 1 .. 2 : j # k => calls'[j] = calls[j]
  BY <1>1
<1>3. ASSUME NEW j \in 1 .. 2
      PROVE  /\ CallShape(calls'[j])
             /\ calls'[j].st = "free" <=> calls[j].st = "free"
             /\ Active(calls'[j]) <=> Active(calls[j])
  <2>1. CASE j = k
    BY <1>2, <2>1
  <2>2. CASE j # k
    BY <1>2, <2>2 DEF Connected
  <2> QED
    BY <2>1, <2>2
<1> QED
  BY <1>2, <1>3, CallStep

LEMMA SubscribeConnected ==
  ASSUME Connected, NEW k \in 1 .. 2, Subscribe(k)
  PROVE  Connected' /\ \A j \in 1 .. 2 : calls'[j].wire = calls[j].wire /\ calls'[j].alive = calls[j].alive
<1>1. calls \in [1 .. 2 -> CallRecords] /\ calls[k] \in CallRecords /\ CallShape(calls[k])
  BY DEF Connected
<1>2. /\ timers > 0 /\ timers' = timers - 1 /\ calls[k].st = "free"
      /\ calls' = [calls EXCEPT ![k].st = "opening"]
      /\ \A j \in 1 .. 2 : calls[j].st # "broken"
  BY <1>1 DEF Subscribe
<1>3. timers = 1 /\ timers' = 0 /\ \A j \in 1 .. 2 : ~Active(calls[j])
  BY <1>2 DEF Connected
<1>4. \A j \in 1 .. 2 : calls[j].st = "free"
  <2> TAKE j \in 1 .. 2
  <2>1. calls[j] \in CallRecords /\ CallShape(calls[j])
    BY <1>1 DEF Connected
  <2> QED
    BY <1>2, <1>3, <2>1 DEF CallRecords, CallShape, Active
<1>5. /\ calls'[k] = [calls[k] EXCEPT !.st = "opening"]
      /\ \A j \in 1 .. 2 : j # k => calls'[j] = calls[j]
  BY <1>1, <1>2
<1>6. /\ calls'[k] \in CallRecords /\ CallShape(calls'[k]) /\ Active(calls'[k])
      /\ calls'[k].wire = calls[k].wire /\ calls'[k].alive = calls[k].alive
  BY <1>1, <1>2, <1>5 DEF CallRecords, CallShape, Active
<1>7. calls' \in [1 .. 2 -> CallRecords]
  BY <1>1, <1>2, <1>6
<1>8. Connected'
  BY <1>3, <1>4, <1>5, <1>6, <1>7 DEF Connected
<1> QED
  BY <1>5, <1>6, <1>8

LEMMA OpensConnected ==
  ASSUME Connected, NEW k \in 1 .. 2, Opens(k)
  PROVE  Connected' /\ \A j \in 1 .. 2 : calls'[j].wire = calls[j].wire /\ calls'[j].alive = calls[j].alive
<1>1. calls \in [1 .. 2 -> CallRecords] /\ calls[k] \in CallRecords /\ CallShape(calls[k])
  BY DEF Connected
<1> DEFINE c == [calls[k] EXCEPT !.st = "open"]
<1>2. calls[k].st = "opening" /\ calls' = [calls EXCEPT ![k] = c] /\ timers' = timers
  BY <1>1 DEF Opens
<1>3. /\ c \in CallRecords /\ CallShape(c) /\ c.st # "free" /\ Active(c) /\ Active(calls[k])
      /\ c.wire = calls[k].wire /\ c.alive = calls[k].alive
  BY <1>1, <1>2 DEF CallRecords, CallShape, Active
<1> HIDE DEF c
<1>4. Connected' /\ calls'[k] = c /\ \A j \in 1 .. 2 : j # k => calls'[j] = calls[j]
  BY <1>2, <1>3, OneCallStep
<1> QED
  BY <1>3, <1>4

LEMMA FailsConnected ==
  ASSUME Connected, NEW k \in 1 .. 2, Fails(k)
  PROVE  /\ Connected'
         /\ \A j \in 1 .. 2 : \/ calls'[j].wire = calls[j].wire
                              \/ calls'[j].wire = <<>>
                              \/ \E n \in 0 .. Len(calls[j].wire) :
                                   calls'[j].wire = SubSeq(calls[j].wire, 1, n)
         /\ \A j \in 1 .. 2 : calls'[j].alive = calls[j].alive
<1>1. calls \in [1 .. 2 -> CallRecords] /\ calls[k] \in CallRecords /\ CallShape(calls[k])
  BY DEF Connected
<1>2. PICK n \in 0 .. Len(calls[k].wire) : calls' = [calls EXCEPT ![k] = Broken(calls[k], n)]
  BY <1>1 DEF Fails
<1>3. calls[k].st \in {"opening", "open"} /\ timers' = timers
  BY DEF Fails
<1> DEFINE c == Broken(calls[k], n)
<1>4. /\ c \in CallRecords /\ CallShape(c) /\ c.st # "free" /\ Active(c) /\ Active(calls[k])
      /\ c.wire = SubSeq(calls[k].wire, 1, n) \/ c.wire = <<>>
      /\ c.alive = calls[k].alive
  BY <1>1, <1>2, <1>3, BrokenCall
<1>5. calls' = [calls EXCEPT ![k] = c]
  BY <1>2
<1> HIDE DEF c
<1>6. Connected' /\ calls'[k] = c /\ \A j \in 1 .. 2 : j # k => calls'[j] = calls[j]
  BY <1>3, <1>4, <1>5, OneCallStep
<1> QED
  BY <1>2, <1>4, <1>6

LEMMA OnMetadataConnected ==
  ASSUME Connected, NEW k \in 1 .. 2, OnMetadata(k)
  PROVE  Connected' /\ calls'[k].alive /\ \A j \in 1 .. 2 : calls'[j].wire = calls[j].wire
<1>1. calls \in [1 .. 2 -> CallRecords] /\ calls[k] \in CallRecords /\ CallShape(calls[k])
  BY DEF Connected
<1> DEFINE c == [calls[k] EXCEPT !.alive = TRUE]
<1>2. calls[k].st = "open" /\ calls' = [calls EXCEPT ![k] = c] /\ timers' = timers
  BY <1>1 DEF OnMetadata
<1>3. /\ c \in CallRecords /\ CallShape(c) /\ c.st # "free" /\ Active(c) /\ Active(calls[k])
      /\ c.wire = calls[k].wire /\ c.alive
  BY <1>1, <1>2 DEF CallRecords, CallShape, Active
<1> HIDE DEF c
<1>4. Connected' /\ calls'[k] = c /\ \A j \in 1 .. 2 : j # k => calls'[j] = calls[j]
  BY <1>2, <1>3, OneCallStep
<1> QED
  BY <1>3, <1>4

LEMMA OnDataConnected ==
  ASSUME Connected, NEW k \in 1 .. 2, NEW due, OnData(k, due)
  PROVE  /\ Connected' /\ calls[k].wire # <<>> /\ calls'[k].wire = Tail(calls[k].wire)
         /\ \A j \in 1 .. 2 : j # k => calls'[j] = calls[j]
         /\ calls'[k].alive = calls[k].alive
<1>1. calls \in [1 .. 2 -> CallRecords] /\ calls[k] \in CallRecords /\ CallShape(calls[k])
  BY DEF Connected
<1>2. /\ calls[k].wire # <<>> /\ calls' = [calls EXCEPT ![k].wire = Tail(@)] /\ timers' = timers
  BY DEF OnData
<1> DEFINE c == [calls[k] EXCEPT !.wire = Tail(calls[k].wire)]
<1>3. calls' = [calls EXCEPT ![k] = c]
  BY <1>1, <1>2
<1>4. Tail(calls[k].wire) \in Seq(Nat)
  BY <1>1, <1>2 DEF CallRecords
<1>5. /\ c \in CallRecords /\ CallShape(c) /\ c.st = calls[k].st
      /\ Active(c) <=> Active(calls[k])
      /\ c.wire = Tail(calls[k].wire) /\ c.alive = calls[k].alive
  BY <1>1, <1>2, <1>4 DEF CallRecords, CallShape, Active
<1> HIDE DEF c
<1>6. Connected' /\ calls'[k] = c /\ \A j \in 1 .. 2 : j # k => calls'[j] = calls[j]
  BY <1>2, <1>3, <1>5, OneCallStep
<1> QED
  BY <1>2, <1>5, <1>6

LEMMA OnEventConnected ==
  ASSUME Connected, NEW k \in 1 .. 2, NEW e \in {"error", "end"}, OnEvent(k, e)
  PROVE  /\ Connected'
         /\ \A j \in 1 .. 2 : calls'[j].wire = calls[j].wire
         /\ \A j \in 1 .. 2 : j # k => calls'[j] = calls[j]
         /\ calls[k].st = "broken"
<1>1. calls \in [1 .. 2 -> CallRecords] /\ calls[k] \in CallRecords /\ CallShape(calls[k])
  BY DEF Connected
<1>a. e \in calls[k].events /\ (e = "end" => calls[k].wire = <<>>)
  BY DEF OnEvent
<1>4. calls[k].st = "broken"
  BY <1>1, <1>a DEF CallShape
<1> DEFINE free == [st |-> "free", alive |-> FALSE, ended |-> FALSE, events |-> {}, wire |-> <<>>]
           kept == [calls[k] EXCEPT !.events = calls[k].events \ {e}, !.ended = TRUE, !.alive = FALSE]
           c == IF calls[k].events = {e} /\ calls[k].wire = <<>> THEN free ELSE kept
<1>2. calls' = [calls EXCEPT ![k] = c]
  BY DEF OnEvent
<1>3. timers' = IF calls[k].ended THEN timers ELSE timers + 1
  BY DEF OnEvent, Down
<1>5. free \in CallRecords /\ CallShape(free) /\ ~Active(free) /\ free.wire = <<>>
  <2>1. <<>> \in Seq(Nat)
    OBVIOUS
  <2> QED
    BY <2>1 DEF CallRecords, CallShape, Active
<1>6. \/ calls[k].events = {e} /\ calls[k].wire = <<>>
      \/ kept \in CallRecords /\ CallShape(kept) /\ ~Active(kept) /\ kept.wire = calls[k].wire
  <2>1. kept \in CallRecords
    BY <1>1 DEF CallRecords
  <2>2. /\ kept.st = "broken" /\ kept.ended /\ ~kept.alive
        /\ kept.events = calls[k].events \ {e} /\ kept.wire = calls[k].wire
    BY <1>1, <1>4 DEF CallRecords
  <2>3. CASE calls[k].events # {e}
    <3>1. kept.events # {}
      BY <1>a, <2>2, <2>3
    <3>2. "end" \notin kept.events => kept.wire = <<>>
      BY <1>1, <1>4, <1>a, <2>2 DEF CallShape
    <3> HIDE DEF kept
    <3> QED
      BY <2>1, <2>2, <3>1, <3>2 DEF CallShape, Active
  <2>4. CASE calls[k].events = {e} /\ calls[k].wire # <<>>
    <3>1. e = "error" /\ "end" \notin calls[k].events
      BY <1>a, <2>4
    <3> QED
      BY <1>1, <1>4, <2>4, <3>1 DEF CallShape
  <2> QED
    BY <2>3, <2>4
<1>7. c \in CallRecords /\ CallShape(c) /\ ~Active(c) /\ c.wire = calls[k].wire
  BY <1>5, <1>6
<1> HIDE DEF c
<1>8. calls'[k] = c /\ \A j \in 1 .. 2 : j # k => calls'[j] = calls[j]
  BY <1>1, <1>2
<1>9. calls' \in [1 .. 2 -> CallRecords]
  BY <1>1, <1>2, <1>7
<1>10. \A j \in 1 .. 2 : j # k => calls[j].st = "free" /\ ~Active(calls[j])
  BY <1>4 DEF Connected, Active
<1>11. timers' = 1
  <2>1. CASE calls[k].ended
    BY <1>3, <1>10, <2>1 DEF Connected, Active
  <2>2. CASE ~calls[k].ended
    BY <1>3, <1>4, <2>2 DEF Connected, Active
  <2> QED
    BY <2>1, <2>2
<1>12. \A j \in 1 .. 2 : CallShape(calls'[j]) /\ ~Active(calls'[j])
  BY <1>7, <1>8, <1>10 DEF Connected
<1>13. \A i, j \in 1 .. 2 : calls'[i].st # "free" /\ calls'[j].st # "free" => i = j
  BY <1>8, <1>10
<1>14. Connected'
  BY <1>9, <1>11, <1>12, <1>13 DEF Connected
<1> QED
  BY <1>4, <1>7, <1>8, <1>14
\* What a step does to the stream, once and for all.
ShrinkOnly ==
  \A k \in 1 .. 2 : \/ calls'[k].wire = calls[k].wire
                    \/ calls'[k].wire = <<>>
                    \/ \E n \in 0 .. Len(calls[k].wire) :
                         calls'[k].wire = SubSeq(calls[k].wire, 1, n)

Executes == \E r : Execute(r) /\ UNCHANGED <<normalizerVars, exchangeUp, history, recordVars, page>>

\* The steps that execute nothing and deliver nothing.
QuietStep ==
  /\ UNCHANGED <<log, done>>
  /\ \/ Stops
     \/ \E k \in 1 .. 2 : Subscribe(k) \/ Opens(k) \/ Fails(k) \/ OnMetadata(k)
                          \/ \E e \in {"error", "end"} : OnEvent(k, e)
     \/ (Restarts \/ OnRequest) /\ UNCHANGED <<calls, timers, history, recordVars, page, exchangeUp>>
     \/ (FlushBook \/ OnConnection \/ OnCloseOfPage \/ SetRecording) /\ UNCHANGED <<calls, timers>>
     \/ UNCHANGED vars

LEMMA StepKinds ==
  ASSUME Connected, [Next]_vars
  PROVE  Executes \/ QuietStep \/ \E k \in 1 .. 2 : \E due \in BOOLEAN : OnData(k, due)
<1>1. DOMAIN calls = 1 .. 2
  BY DEF Connected
<1>2. CASE BotActs
  BY <1>2 DEF BotActs, Executes
<1>3. CASE ExecutesRequest
  BY <1>3 DEF ExecutesRequest, Executes
<1>4. CASE Stops
  BY <1>4 DEF Stops, QuietStep, normalizerVars
<1>5. CASE Restarts
  BY <1>5 DEF Restarts, QuietStep, normalizerVars, streamVars
<1>6. CASE OnRequest
  BY <1>6 DEF OnRequest, QuietStep, normalizerVars, streamVars, exchangeVars
<1>7. CASE FlushBook
  BY <1>7 DEF FlushBook, QuietStep, streamVars, exchangeVars
<1>8. CASE OnConnection
  BY <1>8 DEF OnConnection, QuietStep, normalizerVars, streamVars, exchangeVars
<1>9. CASE OnCloseOfPage
  BY <1>9 DEF OnCloseOfPage, QuietStep, normalizerVars, streamVars, exchangeVars
<1>10. CASE SetRecording
  BY <1>10 DEF SetRecording, QuietStep, normalizerVars, streamVars, exchangeVars
<1>11. CASE UNCHANGED vars
  BY <1>11 DEF vars, QuietStep, normalizerVars, exchangeVars
<1>12. ASSUME NEW k \in 1 .. 2, Telemetry(k)
       PROVE  QuietStep \/ \E due \in BOOLEAN : OnData(k, due)
  <2>1. CASE Subscribe(k)
    BY <2>1 DEF Subscribe, QuietStep, normalizerVars, exchangeVars
  <2>2. CASE Opens(k)
    BY <2>2 DEF Opens, QuietStep, normalizerVars, exchangeVars
  <2>3. CASE Fails(k)
    BY <2>3 DEF Fails, QuietStep, normalizerVars, exchangeVars
  <2>4. CASE OnMetadata(k)
    BY <2>4 DEF OnMetadata, QuietStep, normalizerVars, exchangeVars
  <2>5. ASSUME NEW e \in {"error", "end"}, OnEvent(k, e)
        PROVE  QuietStep
    BY <2>5 DEF OnEvent, QuietStep, normalizerVars, exchangeVars
  <2> QED
    BY <1>12, <2>1, <2>2, <2>3, <2>4, <2>5 DEF Telemetry
<1> QED
  BY <1>1, <1>2, <1>3, <1>4, <1>5, <1>6, <1>7, <1>8, <1>9, <1>10, <1>11, <1>12 DEF Next

LEMMA QuietConnected ==
  ASSUME Connected, IsSeq(log), QuietStep
  PROVE  Connected' /\ ShrinkOnly
<1>1. CASE Stops
  BY <1>1, StopsConnected DEF ShrinkOnly
<1>2. ASSUME NEW k \in 1 .. 2,
             Subscribe(k) \/ Opens(k) \/ Fails(k) \/ OnMetadata(k)
             \/ \E e \in {"error", "end"} : OnEvent(k, e)
      PROVE  Connected' /\ ShrinkOnly
  BY <1>2, SubscribeConnected, OpensConnected, FailsConnected, OnMetadataConnected,
     OnEventConnected DEF ShrinkOnly
<1>3. CASE UNCHANGED <<calls, timers>>
  BY <1>3 DEF Connected, ShrinkOnly, CallShape, Active
<1>4. UNCHANGED vars => UNCHANGED <<calls, timers>>
  BY DEF vars, streamVars
<1> QED
  BY <1>1, <1>2, <1>3, <1>4 DEF QuietStep

\* Connected, and the log is a sequence.
Streams == Connected /\ IsSeq(log)

LEMMA InitStreams ==
  ASSUME Init
  PROVE  Streams
<1>1. calls = [k \in 1 .. 2 |-> [st |-> "free", alive |-> FALSE, ended |-> FALSE,
                                 events |-> {}, wire |-> <<>>]] /\ timers = 1 /\ log = <<>>
  BY DEF Init
<1>2. <<>> \in Seq(Nat)
  OBVIOUS
<1>3. calls \in [1 .. 2 -> CallRecords] /\ \A k \in 1 .. 2 : CallShape(calls[k]) /\ ~Active(calls[k])
  BY <1>1, <1>2 DEF CallRecords, CallShape, Active
<1>4. IsSeq(log)
  BY <1>1, <1>2 DEF IsSeq
<1> QED
  BY <1>1, <1>3, <1>4 DEF Streams, Connected

LEMMA NextStreams ==
  ASSUME Streams, [Next]_vars
  PROVE  Streams'
<1>1. CASE Executes
  BY <1>1, ExecuteConnected DEF Streams, Executes
<1>2. CASE QuietStep
  <2>1. log' = log
    BY <1>2 DEF QuietStep
  <2> QED
    BY <1>2, <2>1, QuietConnected DEF Streams, IsSeq
<1>3. ASSUME NEW k \in 1 .. 2, NEW due, OnData(k, due)
      PROVE  Streams'
  <2>1. log' = log
    BY <1>3 DEF OnData, exchangeVars
  <2> QED
    BY <1>3, <2>1, OnDataConnected DEF Streams, IsSeq
<1> QED
  BY <1>1, <1>2, <1>3, StepKinds DEF Streams

\* The calls of the gateway stay in phase with its timers (subscribeTelemetry).
THEOREM StreamsAlways == Spec => []Streams
<1>1. Init => Streams
  BY InitStreams
<1>2. Streams /\ [Next]_vars => Streams'
  BY NextStreams
<1> QED
  BY <1>1, <1>2, PTL DEF Spec

\* However the exchange and its streams fail, the gateway has exactly one
\* subscription or one timer that will make one (subscribeTelemetry, once, down).
THEOREM AlwaysOneSubscription == Spec => []OneSubscription
<1>1. Streams => OneSubscription
  <2> SUFFICES ASSUME Streams PROVE OneSubscription
    OBVIOUS
  <2> DEFINE A == {k \in DOMAIN calls : calls[k].st # "free" /\ ~calls[k].ended}
  <2>1. A = {k \in 1 .. 2 : Active(calls[k])}
    BY DEF Streams, Connected, Active
  <2>2. \A j, k \in 1 .. 2 : Active(calls[j]) /\ Active(calls[k]) => j = k
    BY DEF Streams, Connected, Active
  <2>3. CASE A = {}
    <3>1. timers = 1
      BY <2>1, <2>3 DEF Streams, Connected
    <3>2. Cardinality(A) = 0
      BY <2>3, FS_EmptySet
    <3> QED
      BY <3>1, <3>2 DEF OneSubscription
  <2>4. CASE A # {}
    <3>1. PICK k : k \in A
      BY <2>4
    <3>2. A = {k}
      BY <2>1, <2>2, <3>1
    <3>3. timers = 0
      BY <2>1, <3>1 DEF Streams, Connected
    <3>4. Cardinality(A) = 1
      BY <3>2, FS_Singleton
    <3> QED
      BY <3>3, <3>4 DEF OneSubscription
  <2> QED
    BY <2>3, <2>4
<1> QED
  BY <1>1, StreamsAlways, PTL
-----------------------------------------------------------------------------
(* Status                                                                  *)

IsPage(p) ==
  \E S : p \in [open : BOOLEAN, up : BOOLEAN, recording : BOOLEAN, frames : Seq(S), live : Nat]

StatusKnown ==
  /\ IsPage(page) /\ exchangeUp \in BOOLEAN /\ recording \in BOOLEAN
  /\ page.open => page.up = exchangeUp /\ page.recording = recording
  /\ exchangeUp => \E k \in 1 .. 2 : calls[k].alive

\* The pages are told, or there are none.
LEMMA StatusAfterKnown ==
  ASSUME IsPage(page), NEW up \in BOOLEAN, NEW records \in BOOLEAN
  PROVE  LET p == StatusAfter(up, records)
         IN /\ IsPage(p) /\ p.open = page.open /\ p.frames = page.frames /\ p.live = page.live
            /\ p.open => p.up = up /\ p.recording = records
<1>1. PICK S : page \in [open : BOOLEAN, up : BOOLEAN, recording : BOOLEAN, frames : Seq(S),
                         live : Nat]
  BY DEF IsPage
<1>2. CASE page.open
  <2> DEFINE p == [page EXCEPT !.up = up, !.recording = records]
  <2>1. p \in [open : BOOLEAN, up : BOOLEAN, recording : BOOLEAN, frames : Seq(S), live : Nat]
    BY <1>1
  <2>2. /\ p.open = page.open /\ p.frames = page.frames /\ p.live = page.live
        /\ p.up = up /\ p.recording = records
    BY <1>1
  <2>3. StatusAfter(up, records) = p
    BY <1>2 DEF StatusAfter
  <2> HIDE DEF p
  <2> QED
    BY <2>1, <2>2, <2>3 DEF IsPage
<1>3. CASE ~page.open
  BY <1>1, <1>3 DEF StatusAfter, IsPage
<1> QED
  BY <1>2, <1>3

\* A frame is sent to the pages there are.
LEMMA PageAfterEffect ==
  ASSUME IsPage(page), NEW frame
  PROVE  LET p == PageAfter(frame)
         IN /\ IsPage(p) /\ p.open = page.open /\ p.up = page.up /\ p.recording = page.recording
            /\ ~page.open => p = page
            /\ page.open => p.frames = Append(page.frames, frame) /\ p.live = page.live + 1
<1>1. PICK S : page \in [open : BOOLEAN, up : BOOLEAN, recording : BOOLEAN, frames : Seq(S),
                         live : Nat]
  BY DEF IsPage
<1>2. CASE page.open
  <2> DEFINE f == Append(page.frames, frame)
             l == page.live + 1
             p == [page EXCEPT !.frames = f, !.live = l]
             T == S \cup {frame}
  <2>1. page.frames \in Seq(T) /\ frame \in T
    BY <1>1
  <2>2. f \in Seq(T) /\ l \in Nat
    BY <1>1, <2>1
  <2>3. PageAfter(frame) = p
    BY <1>2 DEF PageAfter
  <2> HIDE DEF f, l, T
  <2>4. p \in [open : BOOLEAN, up : BOOLEAN, recording : BOOLEAN, frames : Seq(T), live : Nat]
    BY <1>1, <2>2
  <2>5. /\ p.open = page.open /\ p.frames = f /\ p.live = l
        /\ p.up = page.up /\ p.recording = page.recording
    BY <1>1
  <2> HIDE DEF p
  <2> QED
    BY <1>2, <2>3, <2>4, <2>5 DEF IsPage, f, l
<1>3. CASE ~page.open
  BY <1>3 DEF PageAfter
<1> QED
  BY <1>2, <1>3

LEMMA QuietStatus ==
  ASSUME Streams, Streams', StatusKnown, IsSeq(history), QuietStep
  PROVE  StatusKnown'
<1>0. /\ Connected /\ IsSeq(log) /\ IsPage(page) /\ exchangeUp \in BOOLEAN /\ recording \in BOOLEAN
      /\ (page.open => page.up = exchangeUp /\ page.recording = recording)
      /\ (exchangeUp => \E k \in 1 .. 2 : calls[k].alive)
  BY DEF Streams, StatusKnown
<1>1. CASE /\ UNCHANGED <<exchangeUp, recording, page>>
           /\ \A k \in 1 .. 2 : calls'[k].alive = calls[k].alive
  BY <1>0, <1>1 DEF StatusKnown, IsPage
<1>2. CASE Stops
  BY <1>0, <1>1, <1>2, StopsConnected DEF Stops, recordVars
<1>3. ASSUME NEW k \in 1 .. 2, Subscribe(k)
      PROVE  StatusKnown'
  BY <1>0, <1>1, <1>3, SubscribeConnected DEF Subscribe, recordVars
<1>4. ASSUME NEW k \in 1 .. 2, Opens(k)
      PROVE  StatusKnown'
  BY <1>0, <1>1, <1>4, OpensConnected DEF Opens, recordVars
<1>5. ASSUME NEW k \in 1 .. 2, Fails(k)
      PROVE  StatusKnown'
  BY <1>0, <1>1, <1>5, FailsConnected DEF Fails, recordVars
<1>6. ASSUME NEW k \in 1 .. 2, OnMetadata(k)
      PROVE  StatusKnown'
  <2>1. calls'[k].alive
    BY <1>0, <1>6, OnMetadataConnected
  <2>2. exchangeUp' = TRUE /\ page' = StatusAfter(TRUE, recording) /\ recording' = recording
    BY <1>6 DEF OnMetadata, recordVars
  <2>3. IsPage(page') /\ (page'.open => page'.up = TRUE /\ page'.recording = recording)
    BY <1>0, <2>2, StatusAfterKnown
  <2> QED
    BY <1>0, <2>1, <2>2, <2>3 DEF StatusKnown
<1>7. ASSUME NEW k \in 1 .. 2, NEW e \in {"error", "end"}, OnEvent(k, e)
      PROVE  StatusKnown'
  <2>1. recording' = recording
    BY <1>7 DEF OnEvent, recordVars
  <2>2. Down(k)
    BY <1>7 DEF OnEvent
  <2>3. CASE calls[k].ended
    <3>1. UNCHANGED <<exchangeUp, page>>
      BY <2>2, <2>3 DEF Down
    <3>2. ~calls[k].alive
      BY <1>0, <2>3 DEF Connected, CallShape
    <3>3. \A j \in 1 .. 2 : j # k => calls'[j] = calls[j]
      BY <1>0, <1>7, OnEventConnected
    <3>4. exchangeUp' => \E j \in 1 .. 2 : calls'[j].alive
      BY <1>0, <3>1, <3>2, <3>3
    <3> QED
      BY <1>0, <2>1, <3>1, <3>4 DEF StatusKnown, IsPage
  <2>4. CASE ~calls[k].ended
    <3>1. /\ exchangeUp' = FALSE
          /\ page' = IF calls[k].alive \/ exchangeUp THEN StatusAfter(FALSE, recording) ELSE page
      BY <2>2, <2>4 DEF Down
    <3>2. IsPage(page') /\ (page'.open => page'.up = FALSE /\ page'.recording = recording)
      <4>1. CASE page' = StatusAfter(FALSE, recording)
        BY <1>0, <4>1, StatusAfterKnown
      <4>2. CASE page' = page /\ ~exchangeUp
        BY <1>0, <4>2
      <4> QED
        BY <3>1, <4>1, <4>2
    <3> QED
      BY <1>0, <2>1, <3>1, <3>2 DEF StatusKnown
  <2> QED
    BY <2>3, <2>4
<1>8. CASE UNCHANGED calls /\ UNCHANGED <<exchangeUp, page, recording>>
  BY <1>1, <1>8
<1>9. CASE FlushBook /\ UNCHANGED calls
  <2>1. /\ UNCHANGED <<exchangeUp, recording>>
        /\ page' = PageAfter([t |-> "book", book |-> pendingBook])
    BY <1>9 DEF FlushBook
  <2>2. IsPage(page') /\ page'.open = page.open /\ page'.up = page.up /\ page'.recording = page.recording
    BY <1>0, <2>1, PageAfterEffect
  <2> QED
    BY <1>0, <1>9, <2>1, <2>2 DEF StatusKnown
<1>10. CASE OnConnection /\ UNCHANGED calls
  <2>1. /\ UNCHANGED <<exchangeUp, recording>>
        /\ page' = [open |-> TRUE, up |-> exchangeUp, recording |-> recording,
                    frames |-> history, live |-> 0]
    BY <1>10 DEF OnConnection, recordVars
  <2>2. PICK S : history \in Seq(S)
    BY DEF IsSeq
  <2>3. page' \in [open : BOOLEAN, up : BOOLEAN, recording : BOOLEAN, frames : Seq(S), live : Nat]
    BY <1>0, <2>1, <2>2
  <2> QED
    BY <1>0, <1>10, <2>1, <2>3 DEF StatusKnown, IsPage
<1>11. CASE OnCloseOfPage /\ UNCHANGED calls
  <2>1. /\ UNCHANGED <<exchangeUp, recording>>
        /\ page' = [page EXCEPT !.open = FALSE, !.frames = <<>>, !.live = 0, !.up = FALSE,
                                !.recording = FALSE]
    BY <1>11 DEF OnCloseOfPage, recordVars
  <2>2. PICK S : page \in [open : BOOLEAN, up : BOOLEAN, recording : BOOLEAN, frames : Seq(S),
                           live : Nat]
    BY <1>0 DEF IsPage
  <2>3. <<>> \in Seq(S)
    OBVIOUS
  <2>4. /\ page' \in [open : BOOLEAN, up : BOOLEAN, recording : BOOLEAN, frames : Seq(S), live : Nat]
        /\ page'.open = FALSE
    BY <2>1, <2>2, <2>3
  <2> QED
    BY <1>0, <1>11, <2>1, <2>4 DEF StatusKnown, IsPage
<1>12. CASE SetRecording /\ UNCHANGED calls
  <2>1. /\ exchangeUp' = exchangeUp /\ recording' = ~recording
        /\ page' = StatusAfter(exchangeUp, ~recording)
    BY <1>12 DEF SetRecording
  <2>2. (~recording) \in BOOLEAN
    BY <1>0
  <2>3. IsPage(page') /\ (page'.open => page'.up = exchangeUp /\ page'.recording = ~recording)
    BY <1>0, <2>1, <2>2, StatusAfterKnown
  <2> QED
    BY <1>0, <1>12, <2>1, <2>2, <2>3 DEF StatusKnown
<1>13. CASE UNCHANGED vars
  BY <1>8, <1>13 DEF vars, streamVars, recordVars
<1> QED
  BY <1>2, <1>3, <1>4, <1>5, <1>6, <1>7, <1>8, <1>9, <1>10, <1>11, <1>12, <1>13
  DEF QuietStep, recordVars

LEMMA ExecutesStatus ==
  ASSUME Streams, StatusKnown, Executes
  PROVE  StatusKnown'
<1>1. PICK r : Execute(r) /\ UNCHANGED <<exchangeUp, recording, page>>
  BY DEF Executes, recordVars
<1>2. calls \in [1 .. 2 -> CallRecords]
  BY DEF Streams, Connected
<1>3. calls' = [k \in DOMAIN calls |->
                  IF calls[k].st = "open" THEN [calls[k] EXCEPT !.wire = Append(@, Len(log'))]
                  ELSE calls[k]]
  BY <1>1, ExecuteEffect
<1>4. \A k \in 1 .. 2 : calls'[k].alive = calls[k].alive
  BY <1>2, <1>3 DEF CallRecords
<1> QED
  BY <1>1, <1>4 DEF StatusKnown, IsPage

LEMMA OnDataStatus ==
  ASSUME Streams, StatusKnown, NEW k \in 1 .. 2, NEW due, OnData(k, due)
  PROVE  StatusKnown'
<1>1. PICK batch : page' = PageAfter(batch)
  BY DEF OnData
<1>2. UNCHANGED <<exchangeUp, recording>>
  BY DEF OnData
<1>3. IsPage(page') /\ page'.open = page.open /\ page'.up = page.up /\ page'.recording = page.recording
  BY <1>1, PageAfterEffect DEF StatusKnown
<1>4. \A j \in 1 .. 2 : calls'[j].alive = calls[j].alive
  BY OnDataConnected DEF Streams
<1> QED
  BY <1>2, <1>3, <1>4 DEF StatusKnown
-----------------------------------------------------------------------------
(* Order                                                                   *)

Increasing(s) == \A i, j \in DOMAIN s : i < j => s[i] < s[j]

\* The operations under way are new to the normalizer, and in order.
Fresh(w, d, n) ==
  /\ Increasing(w)
  /\ \A i \in DOMAIN w : w[i] <= n /\ \A j \in DOMAIN d : d[j] < w[i]

InOrder ==
  /\ done \in Seq(Nat) /\ Increasing(done)
  /\ \A i \in DOMAIN done : done[i] <= Len(log)
  /\ \A k \in 1 .. 2 : Fresh(calls[k].wire, done, Len(log))

LEMMA FreshShrinks ==
  ASSUME NEW w \in Seq(Nat), NEW d \in Seq(Nat), NEW n \in Nat, Fresh(w, d, n), NEW v,
         \/ v = w
         \/ v = <<>>
         \/ \E m \in 0 .. Len(w) : v = SubSeq(w, 1, m)
  PROVE  Fresh(v, d, n)
<1>1. CASE v = <<>>
  BY <1>1 DEF Fresh, Increasing
<1>2. ASSUME NEW m \in 0 .. Len(w), v = SubSeq(w, 1, m)
      PROVE  Fresh(v, d, n)
  <2>1. DOMAIN v = 1 .. m /\ \A i \in 1 .. m : v[i] = w[i]
    BY <1>2
  <2>2. DOMAIN w = 1 .. Len(w) /\ 1 .. m \subseteq 1 .. Len(w)
    OBVIOUS
  <2> QED
    BY <2>1, <2>2 DEF Fresh, Increasing
<1> QED
  BY <1>1, <1>2

LEMMA FreshAppend ==
  ASSUME NEW w \in Seq(Nat), NEW d \in Seq(Nat), NEW n \in Nat, Fresh(w, d, n),
         \A j \in DOMAIN d : d[j] <= n
  PROVE  Fresh(Append(w, n + 1), d, n + 1)
<1> DEFINE v == Append(w, n + 1)
<1>1. /\ DOMAIN v = 1 .. Len(w) + 1 /\ DOMAIN w = 1 .. Len(w) /\ Len(w) \in Nat
      /\ \A i \in 1 .. Len(w) : v[i] = w[i] /\ v[i] \in Nat
      /\ v[Len(w) + 1] = n + 1
  OBVIOUS
<1> HIDE DEF v
<1>2. \A i \in 1 .. Len(w) : v[i] <= n
  BY <1>1 DEF Fresh
<1>3. Increasing(v)
  <2> SUFFICES ASSUME NEW i \in DOMAIN v, NEW j \in DOMAIN v, i < j PROVE v[i] < v[j]
    BY DEF Increasing
  <2>1. CASE j = Len(w) + 1
    <3>1. i \in 1 .. Len(w)
      BY <1>1, <2>1
    <3> QED
      BY <1>1, <1>2, <2>1, <3>1
  <2>2. CASE j # Len(w) + 1
    <3>1. i \in 1 .. Len(w) /\ j \in 1 .. Len(w)
      BY <1>1, <2>2
    <3> QED
      BY <1>1, <3>1 DEF Fresh, Increasing
  <2> QED
    BY <2>1, <2>2
<1>4. ASSUME NEW i \in DOMAIN v
      PROVE  v[i] <= n + 1 /\ \A j \in DOMAIN d : d[j] < v[i]
  <2>1. CASE i = Len(w) + 1
    BY <1>1, <2>1
  <2>2. CASE i # Len(w) + 1
    <3>1. i \in 1 .. Len(w)
      BY <1>1, <1>4, <2>2
    <3> QED
      BY <1>1, <1>2, <3>1 DEF Fresh
  <2> QED
    BY <2>1, <2>2
<1> QED
  BY <1>3, <1>4 DEF Fresh, v

LEMMA FreshLater ==
  ASSUME NEW w \in Seq(Nat), NEW d \in Seq(Nat), NEW n \in Nat, Fresh(w, d, n)
  PROVE  Fresh(w, d, n + 1)
<1>1. \A i \in DOMAIN w : w[i] \in Nat
  OBVIOUS
<1> QED
  BY <1>1 DEF Fresh

\* The first of the operations under way reaches the normalizer.
LEMMA FreshTail ==
  ASSUME NEW w \in Seq(Nat), w # <<>>, NEW d \in Seq(Nat), NEW n \in Nat, Fresh(w, d, n),
         Increasing(d), \A j \in DOMAIN d : d[j] <= n
  PROVE  LET e == Append(d, Head(w))
         IN /\ e \in Seq(Nat) /\ Increasing(e) /\ \A j \in DOMAIN e : e[j] <= n
            /\ Fresh(Tail(w), e, n)
<1> DEFINE h == Head(w)
           e == Append(d, h)
           v == Tail(w)
<1>1. /\ e \in Seq(Nat) /\ DOMAIN d = 1 .. Len(d) /\ DOMAIN e = 1 .. Len(d) + 1 /\ Len(d) \in Nat
      /\ h \in Nat /\ h = w[1]
      /\ \A i \in 1 .. Len(d) : e[i] = d[i] /\ e[i] \in Nat
      /\ e[Len(d) + 1] = h
  OBVIOUS
<1>2. /\ v \in Seq(Nat) /\ DOMAIN v = 1 .. Len(w) - 1 /\ DOMAIN w = 1 .. Len(w)
      /\ Len(w) \in Nat /\ Len(w) > 0
      /\ \A i \in 1 .. Len(w) - 1 : v[i] = w[i + 1] /\ i + 1 \in DOMAIN w
  OBVIOUS
<1> HIDE DEF h, e, v
<1>3. h <= n /\ \A j \in DOMAIN d : d[j] < h
  <2>1. 1 \in DOMAIN w
    BY <1>2
  <2> QED
    BY <1>1, <2>1 DEF Fresh
<1>4. Increasing(e)
  <2> SUFFICES ASSUME NEW i \in DOMAIN e, NEW j \in DOMAIN e, i < j PROVE e[i] < e[j]
    BY DEF Increasing
  <2>1. CASE j = Len(d) + 1
    <3>1. i \in 1 .. Len(d)
      BY <1>1, <2>1
    <3> QED
      BY <1>1, <1>3, <2>1, <3>1
  <2>2. CASE j # Len(d) + 1
    <3>1. i \in 1 .. Len(d) /\ j \in 1 .. Len(d)
      BY ONLY <1>1, <2>2, i \in DOMAIN e, j \in DOMAIN e, i < j
    <3> QED
      BY <1>1, <3>1 DEF Increasing
  <2> QED
    BY <2>1, <2>2
<1>5. \A j \in DOMAIN e : e[j] <= n
  <2> TAKE j \in DOMAIN e
  <2>1. j = Len(d) + 1 \/ j \in DOMAIN d
    BY <1>1
  <2> QED
    BY <1>1, <1>3, <2>1
<1>6. Increasing(v)
  <2> SUFFICES ASSUME NEW i \in DOMAIN v, NEW j \in DOMAIN v, i < j PROVE v[i] < v[j]
    BY DEF Increasing
  <2>a. i \in 1 .. Len(w) - 1 /\ j \in 1 .. Len(w) - 1
    BY <1>2
  <2>b. i + 1 < j + 1
    BY <1>2, <2>a
  <2>1. i + 1 \in DOMAIN w /\ j + 1 \in DOMAIN w /\ i + 1 < j + 1
    BY <1>2, <2>a, <2>b
  <2> QED
    BY <1>2, <2>1 DEF Fresh, Increasing
<1>7. ASSUME NEW i \in DOMAIN v
      PROVE  v[i] <= n /\ \A j \in DOMAIN e : e[j] < v[i]
  <2>1. v[i] = w[i + 1] /\ i + 1 \in DOMAIN w /\ 1 \in DOMAIN w /\ 1 < i + 1
    BY <1>2, <1>7
  <2>2. v[i] <= n /\ h < v[i] /\ \A j \in DOMAIN d : d[j] < v[i]
    BY <1>1, <2>1 DEF Fresh, Increasing
  <2>3. \A j \in DOMAIN e : j = Len(d) + 1 \/ j \in DOMAIN d
    BY <1>1
  <2> QED
    BY <1>1, <2>2, <2>3
<1> QED
  BY <1>1, <1>4, <1>5, <1>6, <1>7 DEF Fresh, h, e, v

LEMMA InitInOrder ==
  ASSUME Init
  PROVE  InOrder
<1>1. done = <<>> /\ \A k \in 1 .. 2 : calls[k].wire = <<>>
  BY DEF Init
<1>2. done \in Seq(Nat)
  BY <1>1
<1> QED
  BY <1>1, <1>2 DEF InOrder, Fresh, Increasing

LEMMA NextInOrder ==
  ASSUME Streams, InOrder, [Next]_vars
  PROVE  InOrder'
<1>0. /\ Connected /\ IsSeq(log) /\ Len(log) \in Nat /\ calls \in [1 .. 2 -> CallRecords]
      /\ \A k \in 1 .. 2 : calls[k].wire \in Seq(Nat)
  <2>1. Connected /\ IsSeq(log) /\ calls \in [1 .. 2 -> CallRecords]
    BY DEF Streams, Connected
  <2>2. Len(log) \in Nat
    BY <2>1, SeqAppend
  <2>3. \A k \in 1 .. 2 : calls[k].wire \in Seq(Nat)
    BY <2>1 DEF CallRecords
  <2> QED
    BY <2>1, <2>2, <2>3
<1>1. CASE Executes
  <2>1. PICK r : Execute(r) /\ done' = done
    BY <1>1 DEF Executes, normalizerVars
  <2>2. Len(log') = Len(log) + 1
    BY <1>0, <2>1, ExecuteConnected
  <2>3. calls' = [k \in DOMAIN calls |->
                    IF calls[k].st = "open" THEN [calls[k] EXCEPT !.wire = Append(@, Len(log'))]
                    ELSE calls[k]]
    BY <2>1, ExecuteEffect
  <2>4. \A i \in DOMAIN done : done[i] <= Len(log) /\ done[i] \in Nat
    BY DEF InOrder
  <2>5. ASSUME NEW k \in 1 .. 2
        PROVE  Fresh(calls'[k].wire, done, Len(log) + 1)
    <3>1. Fresh(calls[k].wire, done, Len(log)) /\ done \in Seq(Nat)
      BY DEF InOrder
    <3>2. CASE calls[k].st = "open"
      <4>1. calls'[k].wire = Append(calls[k].wire, Len(log) + 1)
        BY <1>0, <2>2, <2>3, <3>2 DEF CallRecords
      <4> QED
        BY <1>0, <2>4, <3>1, <4>1, FreshAppend
    <3>3. CASE calls[k].st # "open"
      <4>1. calls'[k].wire = calls[k].wire
        BY <1>0, <2>3, <3>3
      <4> QED
        BY <1>0, <3>1, <4>1, FreshLater
    <3> QED
      BY <3>2, <3>3
  <2>6. \A i \in DOMAIN done : done[i] <= Len(log) + 1
    BY <1>0, <2>4
  <2> QED
    BY <2>1, <2>2, <2>5, <2>6 DEF InOrder
<1>2. CASE QuietStep
  <2>1. UNCHANGED <<log, done>> /\ ShrinkOnly
    BY <1>0, <1>2, QuietConnected DEF QuietStep
  <2>2. \A k \in 1 .. 2 : Fresh(calls'[k].wire, done, Len(log))
    BY <1>0, <2>1, FreshShrinks DEF ShrinkOnly, InOrder
  <2> QED
    BY <2>1, <2>2 DEF InOrder
<1>3. ASSUME NEW k \in 1 .. 2, NEW due, OnData(k, due)
      PROVE  InOrder'
  <2>1. log' = log /\ done' = Append(done, Head(calls[k].wire))
    BY <1>3 DEF OnData, exchangeVars
  <2>2. /\ calls[k].wire # <<>> /\ calls'[k].wire = Tail(calls[k].wire)
        /\ \A j \in 1 .. 2 : j # k => calls'[j] = calls[j]
    BY <1>0, <1>3, OnDataConnected
  <2>3. /\ done' \in Seq(Nat) /\ Increasing(done') /\ \A j \in DOMAIN done' : done'[j] <= Len(log)
        /\ Fresh(calls'[k].wire, done', Len(log))
    BY <1>0, <2>1, <2>2, FreshTail DEF InOrder
  <2>4. \A j \in 1 .. 2 : j # k => calls[j].wire = <<>>
    <3> TAKE j \in 1 .. 2
    <3> HAVE j # k
    <3>1. calls[k].st # "free"
      BY <1>0, <2>2 DEF Connected, CallShape
    <3>2. calls[j].st = "free"
      BY <1>0, <3>1 DEF Connected
    <3> QED
      BY <1>0, <3>2 DEF Connected, CallShape
  <2>5. \A j \in 1 .. 2 : j # k => Fresh(calls'[j].wire, done', Len(log))
    BY <2>2, <2>4 DEF Fresh, Increasing
  <2> QED
    BY <2>1, <2>3, <2>5 DEF InOrder
<1> QED
  BY <1>0, <1>1, <1>2, <1>3, StepKinds
-----------------------------------------------------------------------------
(* Views                                                                   *)

\* Counted from its end, the batches of f are the last operations of d.
Numbered(f, d) ==
  \A i \in DOMAIN f : IsBatch(f[i]) =>
    LET k == BatchesFrom(f, i)
    IN k <= Len(d) /\ f[i].n = d[Len(d) + 1 - k]

LEMMA BatchesFinite ==
  ASSUME NEW f, IsSeq(f), NEW i \in Int
  PROVE  /\ IsFiniteSet({j \in i .. Len(f) : IsBatch(f[j])}) /\ BatchesFrom(f, i) \in Nat
         /\ i \in 1 .. Len(f) /\ IsBatch(f[i]) => BatchesFrom(f, i) >= 1
<1> DEFINE B == {j \in i .. Len(f) : IsBatch(f[j])}
<1>1. Len(f) \in Nat
  BY SeqAppend
<1>2. IsFiniteSet(i .. Len(f)) /\ B \in SUBSET (i .. Len(f))
  BY <1>1, FS_Interval
<1>3. IsFiniteSet(B)
  BY <1>2, FS_Subset
<1>4. Cardinality(B) \in Nat
  BY <1>3, FS_CardinalityType
<1>5. ASSUME i \in 1 .. Len(f), IsBatch(f[i])
      PROVE  Cardinality(B) # 0
  <2>1. i \in B
    BY <1>1, <1>5
  <2> QED
    BY <1>3, <2>1, FS_EmptySet
<1> QED
  BY <1>3, <1>4, <1>5 DEF BatchesFrom

LEMMA BatchesAppend ==
  ASSUME NEW f, IsSeq(f), NEW b, NEW i \in 1 .. Len(f) + 1
  PROVE  BatchesFrom(Append(f, b), i) = IF IsBatch(b) THEN BatchesFrom(f, i) + 1 ELSE BatchesFrom(f, i)
<1> DEFINE g == Append(f, b)
           B == {j \in i .. Len(f) : IsBatch(f[j])}
           C == {j \in i .. Len(g) : IsBatch(g[j])}
<1>1. /\ Len(f) \in Nat /\ Len(g) = Len(f) + 1 /\ g[Len(f) + 1] = b
      /\ \A j \in 1 .. Len(f) : g[j] = f[j]
  BY SeqAppend
<1> HIDE DEF g
<1>2. IsFiniteSet(B)
  BY BatchesFinite
<1>3. Len(f) + 1 \notin B
  BY <1>1
<1>4. \A j \in i .. Len(f) + 1 : j = Len(f) + 1 \/ (j \in 1 .. Len(f) /\ j \in i .. Len(f))
  BY <1>1
<1>5. \A j \in i .. Len(f) : j \in i .. Len(f) + 1 /\ j \in 1 .. Len(f)
  BY <1>1
<1>6. Len(f) + 1 \in i .. Len(f) + 1
  BY <1>1
<1>7. CASE IsBatch(b)
  <2>1. C = B \cup {Len(f) + 1}
    BY <1>1, <1>4, <1>5, <1>6, <1>7
  <2>2. Cardinality(C) = Cardinality(B) + 1
    BY <1>2, <1>3, <2>1, FS_AddElement
  <2> QED
    BY <1>7, <2>2 DEF BatchesFrom, g
<1>8. CASE ~IsBatch(b)
  <2>1. C = B
    BY <1>1, <1>4, <1>5, <1>8
  <2> QED
    BY <1>8, <2>1 DEF BatchesFrom, g
<1> QED
  BY <1>7, <1>8

LEMMA NumberedBook ==
  ASSUME NEW f, IsSeq(f), NEW d, Numbered(f, d), NEW b, ~IsBatch(b)
  PROVE  Numbered(Append(f, b), d)
<1>1. /\ Len(f) \in Nat /\ DOMAIN f = 1 .. Len(f) /\ DOMAIN Append(f, b) = 1 .. Len(f) + 1
      /\ Append(f, b)[Len(f) + 1] = b
      /\ \A j \in 1 .. Len(f) : Append(f, b)[j] = f[j]
  BY SeqAppend
<1>2. \A i \in 1 .. Len(f) : BatchesFrom(Append(f, b), i) = BatchesFrom(f, i)
  BY <1>1, BatchesAppend
<1>3. \A i \in 1 .. Len(f) + 1 : i = Len(f) + 1 \/ i \in 1 .. Len(f)
  BY <1>1
<1> QED
  BY <1>1, <1>2, <1>3 DEF Numbered

LEMMA NumberedBatch ==
  ASSUME NEW f, IsSeq(f), NEW d \in Seq(Nat), Numbered(f, d), NEW b, IsBatch(b), b.n \in Nat
  PROVE  Numbered(Append(f, b), Append(d, b.n))
<1> DEFINE g == Append(f, b)
           e == Append(d, b.n)
<1>1. /\ Len(f) \in Nat /\ DOMAIN f = 1 .. Len(f) /\ DOMAIN g = 1 .. Len(f) + 1
      /\ g[Len(f) + 1] = b
      /\ \A j \in 1 .. Len(f) : g[j] = f[j]
  BY SeqAppend
<1>2. \A i \in 1 .. Len(f) + 1 : BatchesFrom(g, i) = BatchesFrom(f, i) + 1
  BY BatchesAppend
<1>3. /\ Len(e) = Len(d) + 1 /\ Len(d) \in Nat /\ e[Len(d) + 1] = b.n
      /\ \A j \in 1 .. Len(d) : e[j] = d[j]
  OBVIOUS
<1> HIDE DEF g, e
<1>4. ASSUME NEW i \in 1 .. Len(f) + 1, IsBatch(g[i])
      PROVE  BatchesFrom(g, i) <= Len(e) /\ g[i].n = e[Len(e) + 1 - BatchesFrom(g, i)]
  <2>1. CASE i = Len(f) + 1
    <3>1. {j \in i .. Len(f) : IsBatch(f[j])} = {}
      BY <1>1, <2>1
    <3>2. BatchesFrom(g, i) = 1
      BY <1>2, <3>1, FS_EmptySet DEF BatchesFrom
    <3> QED
      BY <1>1, <1>3, <2>1, <3>2
  <2>2. CASE i # Len(f) + 1
    <3>1. i \in 1 .. Len(f) /\ IsBatch(f[i]) /\ g[i] = f[i]
      BY <1>1, <1>4, <2>2
    <3> DEFINE k == BatchesFrom(f, i)
    <3>a. i \in Int
      BY <3>1
    <3>2. k \in Nat /\ k >= 1
      BY <3>1, <3>a, BatchesFinite
    <3>3. k <= Len(d) /\ f[i].n = d[Len(d) + 1 - k]
      BY <1>1, <3>1 DEF Numbered
    <3>4. BatchesFrom(g, i) = k + 1
      BY <1>2
    <3> HIDE DEF k
    <3>5. Len(d) + 1 - k \in 1 .. Len(d) /\ Len(e) + 1 - (k + 1) = Len(d) + 1 - k
      BY <1>3, <3>2, <3>3
    <3>6. g[i].n = e[Len(d) + 1 - k]
      BY <1>3, <3>1, <3>3, <3>5
    <3>7. k + 1 <= Len(e)
      BY <1>3, <3>2, <3>3
    <3> QED
      BY <3>4, <3>5, <3>6, <3>7
  <2> QED
    BY <2>1, <2>2
<1> QED
  BY <1>1, <1>4 DEF Numbered, g, e

\* The history is the last of what the normalizer was given.
LastOf(h, d) ==
  /\ IsSeq(h) /\ Len(h) <= Len(d)
  /\ \A i \in DOMAIN h : IsBatch(h[i]) /\ h[i].n = d[Len(d) - Len(h) + i]

LEMMA HistoryNumbered ==
  ASSUME NEW h, NEW d \in Seq(Nat), LastOf(h, d)
  PROVE  Numbered(h, d)
<1>1. IsSeq(h) /\ Len(h) \in Nat /\ DOMAIN h = 1 .. Len(h) /\ Len(h) <= Len(d) /\ Len(d) \in Nat
  BY SeqAppend DEF LastOf
<1>2. ASSUME NEW i \in 1 .. Len(h)
      PROVE  BatchesFrom(h, i) <= Len(d) /\ h[i].n = d[Len(d) + 1 - BatchesFrom(h, i)]
  <2>1. \A j \in i .. Len(h) : j \in 1 .. Len(h)
    BY <1>1
  <2>2. {j \in i .. Len(h) : IsBatch(h[j])} = i .. Len(h)
    BY <1>1, <2>1 DEF LastOf
  <2>a. i \in Int /\ Len(h) \in Int /\ ~(i > Len(h))
    BY <1>1
  <2>b. Cardinality(i .. Len(h)) = Len(h) - i + 1
    BY <2>a, FS_Interval
  <2>3. BatchesFrom(h, i) = Len(h) - i + 1
    BY <2>2, <2>b DEF BatchesFrom
  <2>4. Len(d) + 1 - (Len(h) - i + 1) = Len(d) - Len(h) + i
    BY <1>1
  <2>5. h[i].n = d[Len(d) - Len(h) + i]
    BY <1>1 DEF LastOf
  <2> QED
    BY <1>1, <2>3, <2>4, <2>5
<1> QED
  BY <1>1, <1>2 DEF Numbered

LEMMA LastOfAppend ==
  ASSUME NEW h, NEW d \in Seq(Nat), LastOf(h, d), NEW b, IsBatch(b), b.n \in Nat
  PROVE  LastOf(Append(h, b), Append(d, b.n)) /\ LastOf(Tail(Append(h, b)), Append(d, b.n))
<1> DEFINE g == Append(h, b)
           e == Append(d, b.n)
<1>1. IsSeq(h) /\ Len(h) <= Len(d)
  BY DEF LastOf
<1>2. /\ IsSeq(g) /\ Len(h) \in Nat /\ DOMAIN h = 1 .. Len(h) /\ Len(g) = Len(h) + 1
      /\ DOMAIN g = 1 .. Len(h) + 1 /\ g[Len(h) + 1] = b
      /\ \A j \in 1 .. Len(h) : g[j] = h[j]
  BY <1>1, SeqAppend
<1>3. /\ Len(e) = Len(d) + 1 /\ Len(d) \in Nat /\ e[Len(d) + 1] = b.n
      /\ \A j \in 1 .. Len(d) : e[j] = d[j]
  OBVIOUS
<1> HIDE DEF g, e
<1>4. ASSUME NEW i \in 1 .. Len(h) + 1
      PROVE  IsBatch(g[i]) /\ g[i].n = e[Len(e) - Len(g) + i]
  <2>1. CASE i = Len(h) + 1
    <3>1. Len(e) - Len(g) + i = Len(d) + 1
      BY <1>2, <1>3, <2>1
    <3> QED
      BY <1>2, <1>3, <2>1, <3>1
  <2>2. CASE i # Len(h) + 1
    <3>1. i \in 1 .. Len(h) /\ Len(e) - Len(g) + i = Len(d) - Len(h) + i
      BY <1>2, <1>3, <2>2
    <3>2. Len(d) - Len(h) + i \in 1 .. Len(d)
      BY <1>1, <1>2, <1>3, <3>1
    <3> QED
      BY <1>2, <1>3, <3>1, <3>2 DEF LastOf
  <2> QED
    BY <2>1, <2>2
<1>5. LastOf(g, e)
  BY <1>1, <1>2, <1>3, <1>4 DEF LastOf
<1>6. g # <<>>
  BY <1>2
<1> DEFINE t == Tail(g)
<1>7. /\ IsSeq(t) /\ Len(t) = Len(h) /\ DOMAIN t = 1 .. Len(h)
      /\ \A i \in 1 .. Len(h) : t[i] = g[i + 1]
  BY <1>2, <1>6, SeqTail
<1> HIDE DEF t
<1>8. ASSUME NEW i \in 1 .. Len(h)
      PROVE  IsBatch(t[i]) /\ t[i].n = e[Len(e) - Len(t) + i]
  <2>1. i + 1 \in 1 .. Len(h) + 1 /\ Len(e) - Len(g) + (i + 1) = Len(e) - Len(t) + i
    BY <1>2, <1>3, <1>7
  <2> QED
    BY <1>4, <1>7, <2>1
<1>9. LastOf(t, e)
  <2>1. Len(t) <= Len(e)
    BY <1>1, <1>2, <1>3, <1>7
  <2> QED
    BY <1>7, <1>8, <2>1 DEF LastOf
<1> QED
  BY <1>5, <1>9 DEF g, e, t
\* A batch carries the number of its operation.
LEMMA BatchNumber ==
  ASSUME NEW raw, NEW n, NEW book
  PROVE  LET b == [Normalize(raw, n).batch EXCEPT !.book = book]
         IN IsBatch(b) /\ b.n = n
<1>1. PICK q, op, o, ts, tob :
        Normalize(raw, n).batch = [t |-> "batch", seq |-> q, op |-> op, order |-> o,
                                   trades |-> ts, tob |-> tob, book |-> Null, n |-> n]
  BY DEF Normalize
<1> QED
  BY <1>1 DEF IsBatch

-----------------------------------------------------------------------------
(* Recordings                                                              *)

\* Counted from their ends, a recording and what a page was sent live agree as
\* far as both go.
Agree(r, p) ==
  \A i \in Nat : i < p.live /\ i < Len(r) => r[Len(r) - i] = p.frames[Len(p.frames) - i]

Mirrored ==
  /\ IsSeq(recorder)
  /\ page.live <= Len(page.frames)
  /\ page.open /\ recording => Agree(recorder, page)

LEMMA AgreeAppend ==
  ASSUME NEW r, IsSeq(r), NEW p, IsPage(p), NEW q, IsPage(q), NEW b,
         q.frames = Append(p.frames, b), q.live = p.live + 1, p.live <= Len(p.frames)
  PROVE  /\ q.live <= Len(q.frames)
         /\ Agree(r, p) => Agree(Append(r, b), q)
<1>1. IsSeq(p.frames) /\ p.live \in Nat
  BY DEF IsPage, IsSeq
<1> DEFINE s == Append(r, b)
           f == p.frames
           g == Append(f, b)
<1>2. /\ Len(r) \in Nat /\ Len(s) = Len(r) + 1 /\ s[Len(r) + 1] = b
      /\ \A i \in 1 .. Len(r) : s[i] = r[i]
  BY SeqAppend
<1>3. /\ Len(f) \in Nat /\ Len(g) = Len(f) + 1 /\ g[Len(f) + 1] = b
      /\ \A i \in 1 .. Len(f) : g[i] = f[i]
  BY <1>1, SeqAppend
<1>4. q.live <= Len(q.frames)
  BY <1>1, <1>3
<1> HIDE DEF s, g
<1>5. ASSUME Agree(r, p), NEW i \in Nat, i < p.live + 1, i < Len(s)
      PROVE  s[Len(s) - i] = g[Len(g) - i]
  <2>1. CASE i = 0
    BY <1>2, <1>3, <2>1
  <2>2. CASE i # 0
    <3> DEFINE j == i - 1
    <3>1. j \in Nat /\ j < p.live /\ j < Len(r)
      BY <1>1, <1>2, <1>5, <2>2
    <3>2. r[Len(r) - j] = f[Len(f) - j]
      BY <1>5, <3>1 DEF Agree
    <3>3. /\ Len(s) - i = Len(r) - j /\ Len(r) - j \in 1 .. Len(r)
          /\ Len(g) - i = Len(f) - j /\ Len(f) - j \in 1 .. Len(f)
      BY <1>1, <1>2, <1>3, <3>1
    <3> HIDE DEF j
    <3> QED
      BY <1>2, <1>3, <3>2, <3>3
  <2> QED
    BY <2>1, <2>2
<1> QED
  BY <1>4, <1>5 DEF Agree, s, g

\* One of two sequences that agree from their ends is a suffix of the other.
LEMMA AgreeSuffix ==
  ASSUME NEW r, IsSeq(r), NEW p, IsPage(p), p.live <= Len(p.frames), Agree(r, p)
  PROVE  LET seen == SubSeq(p.frames, Len(p.frames) - p.live + 1, Len(p.frames))
         IN IsSuffix(r, seen) \/ IsSuffix(seen, r)
<1> DEFINE f == p.frames
           m == p.live
           seen == SubSeq(f, Len(f) - m + 1, Len(f))
<1>1. PICK S : f \in Seq(S)
  BY DEF IsPage
<1>2. PICK R : r \in Seq(R)
  BY DEF IsSeq
<1>3. m \in Nat /\ Len(f) \in Nat /\ m <= Len(f) /\ Len(r) \in Nat
  BY <1>1, <1>2 DEF IsPage
<1>4. /\ seen \in Seq(S) /\ Len(seen) = m
      /\ \A i \in 1 .. m : seen[i] = f[Len(f) - m + i]
  <2>1. Len(f) - m + 1 \in 1 .. Len(f) + 1
    BY <1>3
  <2>2. \A i \in 1 .. m : (Len(f) - m + 1) + i - 1 = Len(f) - m + i
    BY <1>3
  <2>3. Len(f) - (Len(f) - m + 1) + 1 = m
    BY <1>3
  <2> DEFINE c == Len(f) - m + 1
  <2>4. c \in Int /\ Len(f) \in Int /\ \A i \in c .. Len(f) : f[i] \in S
    BY <1>1, <1>3, <2>1
  <2>5. /\ SubSeq(f, c, Len(f)) \in Seq(S)
        /\ Len(SubSeq(f, c, Len(f))) = IF c <= Len(f) THEN Len(f) - c + 1 ELSE 0
        /\ \A i \in 1 .. Len(f) - c + 1 : SubSeq(f, c, Len(f))[i] = f[c + i - 1]
    BY <2>4, SubSeqProperties
  <2>6. (IF c <= Len(f) THEN Len(f) - c + 1 ELSE 0) = m
    BY <1>3
  <2> QED
    BY <2>2, <2>3, <2>5, <2>6
<1> HIDE DEF seen
<1> DEFINE a == Reverse(r)
           b == Reverse(seen)
<1>5. Len(a) = Len(r) /\ DOMAIN a = 1 .. Len(r) /\ \A i \in 1 .. Len(r) : a[i] = r[(Len(r) - i) + 1]
  BY <1>3 DEF Reverse
<1>6. Len(b) = m /\ DOMAIN b = 1 .. m /\ \A i \in 1 .. m : b[i] = seen[(m - i) + 1]
  BY <1>3, <1>4 DEF Reverse
<1> HIDE DEF a, b
<1>7. ASSUME NEW i \in 1 .. Len(r), i \in 1 .. m
      PROVE  a[i] = b[i]
  <2>1. i - 1 \in Nat /\ i - 1 < m /\ i - 1 < Len(r)
    BY <1>3, <1>7
  <2>2. r[Len(r) - (i - 1)] = f[Len(f) - (i - 1)]
    BY <2>1 DEF Agree
  <2>3. /\ (Len(r) - i) + 1 = Len(r) - (i - 1)
        /\ (m - i) + 1 \in 1 .. m
        /\ Len(f) - m + ((m - i) + 1) = Len(f) - (i - 1)
    BY <1>3, <1>7
  <2> QED
    BY <1>4, <1>5, <1>6, <1>7, <2>2, <2>3
<1>8. CASE Len(r) <= m
  <2>1. \A i \in 1 .. Len(r) : a[i] = b[i]
    BY <1>3, <1>7, <1>8
  <2>2. SubSeq(a, 1, Len(a)) = SubSeq(b, 1, Len(a))
    BY <1>3, <1>5, <1>6, <1>8, <2>1 DEF SubSeq
  <2>3. IsSuffix(r, seen)
    BY <1>5, <1>6, <1>8, <2>2 DEF IsSuffix, IsPrefix, a, b
  <2> QED
    BY <2>3 DEF seen
<1>9. CASE m < Len(r)
  <2>1. \A i \in 1 .. m : a[i] = b[i]
    BY <1>3, <1>7, <1>9
  <2>2. SubSeq(b, 1, Len(b)) = SubSeq(a, 1, Len(b))
    BY <1>3, <1>5, <1>6, <1>9, <2>1 DEF SubSeq
  <2>3. Len(b) <= Len(a)
    BY <1>3, <1>5, <1>6, <1>9
  <2>4. IsSuffix(seen, r)
    BY <2>2, <2>3 DEF IsSuffix, IsPrefix, a, b
  <2> QED
    BY <2>4 DEF seen
<1> QED
  BY <1>3, <1>8, <1>9
-----------------------------------------------------------------------------
(* The invariant                                                           *)

Views ==
  /\ LastOf(history, done) /\ Len(history) <= HistoryMax
  /\ page.open => Numbered(page.frames, done)

GatewayInv == Streams /\ StatusKnown /\ InOrder /\ Views /\ Mirrored

LEMMA InitGateway ==
  ASSUME Init
  PROVE  GatewayInv
<1>1. /\ exchangeUp = FALSE /\ history = <<>> /\ recording = FALSE /\ recorder = <<>> /\ done = <<>>
      /\ page = [open |-> FALSE, up |-> FALSE, recording |-> FALSE, frames |-> <<>>, live |-> 0]
  BY DEF Init
<1>2. <<>> \in Seq(Nat) /\ Len(<<>>) = 0 /\ DOMAIN <<>> = {}
  OBVIOUS
<1>3. page \in [open : BOOLEAN, up : BOOLEAN, recording : BOOLEAN, frames : Seq(Nat), live : Nat]
  BY <1>1, <1>2
<1>4. StatusKnown
  BY <1>1, <1>3 DEF StatusKnown, IsPage
<1>5. HistoryMax \in Nat
  BY GatewayAssumption
<1>6. Views
  BY <1>1, <1>2, <1>5 DEF Views, LastOf, IsSeq
<1>7. Mirrored
  BY <1>1, <1>2 DEF Mirrored, IsSeq
<1> QED
  BY <1>4, <1>6, <1>7, InitStreams, InitInOrder DEF GatewayInv

\* Nothing that the views are made of changes but perhaps the status of the page.
LEMMA ViewsUnchanged ==
  ASSUME GatewayInv, UNCHANGED <<history, done, recording, recorder>>,
         page'.open = page.open, page'.frames = page.frames, page'.live = page.live
  PROVE  Views' /\ Mirrored'
BY DEF GatewayInv, Views, Mirrored, Agree

LEMMA OnDataViews ==
  ASSUME GatewayInv, NEW k \in 1 .. 2, NEW due, OnData(k, due), IsPage(page')
  PROVE  Views' /\ Mirrored'
<1>0. /\ IsPage(page) /\ LastOf(history, done) /\ Len(history) <= HistoryMax
      /\ page.open => Numbered(page.frames, done)
      /\ IsSeq(recorder) /\ page.live <= Len(page.frames)
      /\ page.open /\ recording => Agree(recorder, page)
      /\ done \in Seq(Nat) /\ IsSeq(history) /\ IsSeq(page.frames)
  BY DEF GatewayInv, Views, Mirrored, StatusKnown, InOrder, LastOf, IsPage, IsSeq
<1>1. calls[k].wire \in Seq(Nat) /\ calls[k].wire # <<>>
  BY OnDataConnected DEF GatewayInv, Streams, Connected, CallRecords
<1> DEFINE n == Head(calls[k].wire)
<1>2. n \in Nat
  BY <1>1
<1>3. PICK book :
        LET batch == [Normalize(log[n], n).batch EXCEPT !.book = book]
            all == Append(history, batch)
        IN /\ history' = IF Len(all) > HistoryMax THEN Tail(all) ELSE all
           /\ page' = PageAfter(batch)
           /\ recorder' = Recorded(batch)
  BY DEF OnData
<1>4. done' = Append(done, n) /\ recording' = recording
  BY DEF OnData
<1> DEFINE b == [Normalize(log[n], n).batch EXCEPT !.book = book]
           all == Append(history, b)
<1>5. IsBatch(b) /\ b.n = n
  BY BatchNumber
<1>6. /\ history' = IF Len(all) > HistoryMax THEN Tail(all) ELSE all
      /\ page' = PageAfter(b)
      /\ recorder' = Recorded(b)
  BY <1>3
<1> HIDE DEF b, n
<1>7. LastOf(all, done') /\ LastOf(Tail(all), done')
  BY <1>0, <1>2, <1>4, <1>5, LastOfAppend
<1>8. LastOf(history', done') /\ Len(history') <= HistoryMax
  <2>1. HistoryMax \in Nat
    BY GatewayAssumption
  <2>2. Len(history) \in Nat /\ IsSeq(all) /\ Len(all) = Len(history) + 1
    BY <1>0, SeqAppend
  <2>3. CASE Len(all) > HistoryMax
    <3>1. all # <<>>
      BY <2>1, <2>2
    <3>2. Len(Tail(all)) = Len(all) - 1
      BY <2>2, <3>1, SeqTail
    <3> HIDE DEF all
    <3> QED
      BY <1>0, <1>6, <1>7, <2>1, <2>2, <2>3, <3>2
  <2>4. CASE ~(Len(all) > HistoryMax)
    <3> HIDE DEF all
    <3> QED
      BY <1>6, <1>7, <2>1, <2>2, <2>4
  <2> QED
    BY <2>3, <2>4
<1>9. /\ page'.open = page.open
      /\ ~page.open => page' = page
      /\ page.open => page'.frames = Append(page.frames, b) /\ page'.live = page.live + 1
  BY <1>0, <1>6, PageAfterEffect
<1>10. page'.open => Numbered(page'.frames, done')
  BY <1>0, <1>2, <1>4, <1>5, <1>9, NumberedBatch
<1>11. recorder' = (IF recording THEN Append(recorder, b) ELSE recorder) /\ IsSeq(recorder')
  BY <1>0, <1>6, SeqAppend DEF Recorded
<1>12. /\ page'.live <= Len(page'.frames)
       /\ page'.open /\ recording' => Agree(recorder', page')
  BY <1>0, <1>4, <1>9, <1>11, AgreeAppend
<1> QED
  BY <1>8, <1>10, <1>11, <1>12 DEF Views, Mirrored

LEMMA FlushBookViews ==
  ASSUME GatewayInv, FlushBook, IsPage(page')
  PROVE  Views' /\ Mirrored'
<1> DEFINE b == [t |-> "book", book |-> pendingBook]
<1>0. /\ IsPage(page) /\ IsSeq(recorder) /\ page.live <= Len(page.frames)
      /\ page.open /\ recording => Agree(recorder, page)
      /\ IsSeq(page.frames)
  BY DEF GatewayInv, Mirrored, StatusKnown, IsPage, IsSeq
<1>1. ~IsBatch(b)
  BY DEF IsBatch
<1>2. UNCHANGED <<history, done, recording>> /\ page' = PageAfter(b) /\ recorder' = Recorded(b)
  BY DEF FlushBook
<1> HIDE DEF b
<1>3. /\ page'.open = page.open
      /\ ~page.open => page' = page
      /\ page.open => page'.frames = Append(page.frames, b) /\ page'.live = page.live + 1
  BY <1>0, <1>2, PageAfterEffect
<1>4. page'.open => Numbered(page'.frames, done)
  BY <1>0, <1>1, <1>3, NumberedBook DEF GatewayInv, Views
<1>5. recorder' = (IF recording THEN Append(recorder, b) ELSE recorder) /\ IsSeq(recorder')
  BY <1>0, <1>2, SeqAppend DEF Recorded
<1>6. /\ page'.live <= Len(page'.frames)
      /\ page'.open /\ recording' => Agree(recorder', page')
  <2>1. CASE page.open
    <3>1. /\ page'.live <= Len(page'.frames)
          /\ Agree(recorder, page) => Agree(Append(recorder, b), page')
      BY <1>0, <1>3, <2>1, AgreeAppend
    <3> QED
      BY <1>0, <1>2, <1>5, <2>1, <3>1
  <2>2. CASE ~page.open
    BY <1>0, <1>3, <2>2
  <2> QED
    BY <2>1, <2>2
<1> QED
  BY <1>2, <1>4, <1>5, <1>6 DEF GatewayInv, Views, Mirrored

LEMMA OnConnectionViews ==
  ASSUME GatewayInv, OnConnection
  PROVE  Views' /\ Mirrored'
<1>1. /\ UNCHANGED <<history, done, recording, recorder>>
      /\ page' = [open |-> TRUE, up |-> exchangeUp, recording |-> recording,
                  frames |-> history, live |-> 0]
  BY DEF OnConnection, normalizerVars, recordVars
<1>2. done \in Seq(Nat) /\ LastOf(history, done) /\ IsSeq(history) /\ Len(history) \in Nat
  BY SeqAppend DEF GatewayInv, Views, InOrder, LastOf
<1>3. Numbered(history, done)
  BY <1>2, HistoryNumbered
<1>4. page'.frames = history /\ page'.live = 0
  BY <1>1
<1>5. Agree(recorder, page')
  BY <1>4 DEF Agree
<1> QED
  BY <1>1, <1>2, <1>3, <1>4, <1>5 DEF GatewayInv, Views, Mirrored

LEMMA OnCloseOfPageViews ==
  ASSUME GatewayInv, OnCloseOfPage
  PROVE  Views' /\ Mirrored'
<1>1. /\ UNCHANGED <<history, done, recording, recorder>>
      /\ page' = [page EXCEPT !.open = FALSE, !.frames = <<>>, !.live = 0, !.up = FALSE,
                              !.recording = FALSE]
  BY DEF OnCloseOfPage, normalizerVars, recordVars
<1>2. PICK S : page \in [open : BOOLEAN, up : BOOLEAN, recording : BOOLEAN, frames : Seq(S),
                         live : Nat]
  BY DEF GatewayInv, StatusKnown, IsPage
<1>3. page'.open = FALSE /\ page'.frames = <<>> /\ page'.live = 0 /\ Len(<<>>) = 0
  BY <1>1, <1>2
<1> QED
  BY <1>1, <1>3 DEF GatewayInv, Views, Mirrored

LEMMA SetRecordingViews ==
  ASSUME GatewayInv, SetRecording
  PROVE  Views' /\ Mirrored'
<1>1. /\ UNCHANGED <<history, done>> /\ recorder' = <<>>
      /\ page' = StatusAfter(exchangeUp, ~recording)
  BY DEF SetRecording, normalizerVars
<1>2. IsPage(page) /\ exchangeUp \in BOOLEAN /\ (~recording) \in BOOLEAN
  BY DEF GatewayInv, StatusKnown
<1>3. page'.open = page.open /\ page'.frames = page.frames /\ page'.live = page.live
  BY <1>1, <1>2, StatusAfterKnown
<1>4. <<>> \in Seq(Nat) /\ Len(<<>>) = 0
  OBVIOUS
<1>5. IsSeq(recorder') /\ Agree(recorder', page')
  BY <1>1, <1>4 DEF IsSeq, Agree
<1> QED
  BY <1>1, <1>3, <1>5 DEF GatewayInv, Views, Mirrored

LEMMA QuietViews ==
  ASSUME GatewayInv, IsPage(page'), QuietStep
  PROVE  Views' /\ Mirrored'
<1>0. done' = done /\ IsPage(page) /\ exchangeUp \in BOOLEAN /\ recording \in BOOLEAN
  BY DEF QuietStep, GatewayInv, StatusKnown
<1>1. CASE UNCHANGED <<history, recording, recorder, page>>
  BY <1>0, <1>1, ViewsUnchanged
<1>2. CASE Stops
  BY <1>1, <1>2 DEF Stops, recordVars
<1>3. ASSUME NEW k \in 1 .. 2, Subscribe(k) \/ Opens(k) \/ Fails(k)
      PROVE  Views' /\ Mirrored'
  BY <1>1, <1>3 DEF Subscribe, Opens, Fails, recordVars
<1>4. ASSUME NEW k \in 1 .. 2, OnMetadata(k)
      PROVE  Views' /\ Mirrored'
  <2>1. UNCHANGED <<history, recording, recorder>> /\ page' = StatusAfter(TRUE, recording)
    BY <1>4 DEF OnMetadata, recordVars
  <2>2. page'.open = page.open /\ page'.frames = page.frames /\ page'.live = page.live
    BY <1>0, <2>1, StatusAfterKnown
  <2> QED
    BY <1>0, <2>1, <2>2, ViewsUnchanged
<1>5. ASSUME NEW k \in 1 .. 2, NEW e, OnEvent(k, e)
      PROVE  Views' /\ Mirrored'
  <2>1. UNCHANGED <<history, recording, recorder>> /\ Down(k)
    BY <1>5 DEF OnEvent, recordVars
  <2>2. page' = page \/ page' = StatusAfter(FALSE, recording)
    BY <2>1 DEF Down
  <2>3. page'.open = page.open /\ page'.frames = page.frames /\ page'.live = page.live
    BY <1>0, <2>2, StatusAfterKnown
  <2> QED
    BY <1>0, <2>1, <2>3, ViewsUnchanged
<1>6. UNCHANGED vars => UNCHANGED <<history, recording, recorder, page>>
  BY DEF vars, recordVars
<1> QED
  BY <1>1, <1>2, <1>3, <1>4, <1>5, <1>6, FlushBookViews, OnConnectionViews, OnCloseOfPageViews,
     SetRecordingViews DEF QuietStep, recordVars

LEMMA NextGateway ==
  ASSUME GatewayInv, [Next]_vars
  PROVE  GatewayInv'
<1>1. Streams /\ StatusKnown /\ Connected /\ InOrder /\ Streams' /\ InOrder' /\ IsSeq(history)
  BY NextStreams, NextInOrder DEF GatewayInv, Streams, Views, LastOf
<1>2. CASE Executes
  <2>1. StatusKnown'
    BY <1>1, <1>2, ExecutesStatus
  <2>2. UNCHANGED <<history, done, recording, recorder, page>>
    BY <1>2 DEF Executes, normalizerVars, recordVars
  <2> QED
    BY <1>1, <2>1, <2>2, ViewsUnchanged DEF GatewayInv
<1>3. CASE QuietStep
  <2>1. StatusKnown'
    BY <1>1, <1>3, QuietStatus
  <2> QED
    BY <1>1, <1>3, <2>1, QuietViews DEF GatewayInv, StatusKnown
<1>4. ASSUME NEW k \in 1 .. 2, NEW due, OnData(k, due)
      PROVE  GatewayInv'
  <2>1. StatusKnown'
    BY <1>1, <1>4, OnDataStatus
  <2> QED
    BY <1>1, <1>4, <2>1, OnDataViews DEF GatewayInv, StatusKnown
<1> QED
  BY <1>1, <1>2, <1>3, <1>4, StepKinds

\* The inductive invariant of the gateway (server.ts).
THEOREM GatewayInvariant == Spec => []GatewayInv
<1>1. Init => GatewayInv
  BY InitGateway
<1>2. GatewayInv /\ [Next]_vars => GatewayInv'
  BY NextGateway
<1> QED
  BY <1>1, <1>2, PTL DEF Spec

\* What the pages are told of the connection and of the recording is what the
\* gateway knows, and it claims a connection only while a call is alive (status,
\* broadcast, down).
THEOREM StatusAlwaysTruthful == Spec => []StatusTruthful
<1>1. GatewayInv => StatusTruthful
  BY DEF GatewayInv, Streams, Connected, StatusKnown, StatusTruthful
<1> QED
  BY <1>1, GatewayInvariant, PTL

\* Whatever breaks, a page is shown every operation at most once, in order and
\* without a gap in what the gateway was given (history, broadcast).
THEOREM ViewAlwaysInOrder == Spec => []ViewInOrder
<1>1. GatewayInv => ViewInOrder
  <2> SUFFICES ASSUME GatewayInv PROVE ViewInOrder
    OBVIOUS
  <2>1. done \in Seq(Nat) /\ Increasing(done)
    BY DEF GatewayInv, InOrder
  <2>2. ASSUME NEW i \in 1 .. Len(done) - 1
        PROVE  done[i] < done[i + 1]
    <3>1. i \in DOMAIN done /\ i + 1 \in DOMAIN done /\ i < i + 1
      BY <2>1
    <3> QED
      BY <2>1, <3>1 DEF Increasing
  <2>3. page.open => Numbered(page.frames, done)
    BY DEF GatewayInv, Views
  <2> QED
    BY <2>2, <2>3 DEF ViewInOrder, Numbered
<1> QED
  BY <1>1, GatewayInvariant, PTL

\* A recording holds the frames a page was sent meanwhile, withheld books too,
\* in their order (record, setRecording).
THEOREM RecordingAlwaysFaithful == Spec => []RecordingFaithful
<1>1. GatewayInv => RecordingFaithful
  <2> SUFFICES ASSUME GatewayInv, page.open, recording
               PROVE  LET seen == SubSeq(page.frames, Len(page.frames) - page.live + 1,
                                         Len(page.frames))
                      IN IsSuffix(recorder, seen) \/ IsSuffix(seen, recorder)
    BY DEF RecordingFaithful
  <2>1. IsSeq(recorder) /\ IsPage(page) /\ page.live <= Len(page.frames) /\ Agree(recorder, page)
    BY DEF GatewayInv, StatusKnown, Mirrored
  <2> QED
    BY <2>1, AgreeSuffix
<1> QED
  BY <1>1, GatewayInvariant, PTL

-----------------------------------------------------------------------------
(* Folds                                                                   *)

\* FoldLeft takes the places of a sequence one by one, from the last.
LEMMA MaxOfPlaces ==
  ASSUME NEW n \in Nat, NEW s \in SUBSET (1 .. n), s # {}
  PROVE  Max(s) \in s /\ \A x \in s : x <= Max(s)
<1> DEFINE T == {y \in Nat : \A x \in s : x <= y}
<1>1. n \in T
  OBVIOUS
<1>2. PICK u \in T : \A y \in T : u <= y
  <2>1. T # {} /\ T \subseteq Nat
    BY <1>1
  <2> HIDE DEF T
  <2> QED
    BY <2>1, NatMin
<1>3. u \in s
  <2> SUFFICES ASSUME u \notin s PROVE FALSE
    OBVIOUS
  <2>1. PICK x \in s : TRUE
    OBVIOUS
  <2>2. x \in 1 .. n /\ x <= u /\ u \in Nat
    BY <1>2
  <2>3. u - 1 \in Nat
    BY <2>2
  <2>4. \A y \in s : y <= u - 1
    <3> TAKE y \in s
    <3>1. y <= u /\ y # u /\ y \in Int
      BY <1>2
    <3> QED
      BY <2>2, <3>1
  <2>5. u <= u - 1
    BY <1>2, <2>3, <2>4
  <2> QED
    BY <2>2, <2>5
<1>4. \E x \in s : \A y \in s : x >= y
  <2>1. \A y \in s : u >= y
    BY <1>2
  <2> QED
    BY <1>3, <2>1
<1>5. Max(s) \in s /\ \A y \in s : Max(s) >= y
  BY <1>4, Zenon DEF Max
<1> QED
  BY <1>5

LEMMA MaxOfPrefix ==
  ASSUME NEW k \in Nat
  PROVE  /\ 1 .. k + 1 # {} /\ Max(1 .. k + 1) = k + 1
         /\ (1 .. k + 1) \ {k + 1} = 1 .. k
<1>1. k + 1 \in Nat /\ 1 .. k + 1 \in SUBSET (1 .. k + 1) /\ k + 1 \in 1 .. k + 1
  OBVIOUS
<1>2. Max(1 .. k + 1) \in 1 .. k + 1 /\ k + 1 <= Max(1 .. k + 1)
  BY <1>1, MaxOfPlaces
<1> QED
  BY <1>1, <1>2

\* A selection from f by places, as a fold.
SelectOver(f, P, it) ==
  it = [s \in SUBSET DOMAIN f |->
          IF s = {} THEN <<>>
          ELSE IF Max(s) \in P THEN Append(it[s \ {Max(s)}], f[Max(s)]) ELSE it[s \ {Max(s)}]]

\* The fold is well defined.
LEMMA SelectExists ==
  ASSUME NEW f, NEW P, NEW n \in Nat, DOMAIN f = 1 .. n
  PROVE  \E it : SelectOver(f, P, it)
<1> DEFINE D == SUBSET (1 .. n)
           Round(it, s) == IF s = {} THEN <<>>
                           ELSE IF Max(s) \in P THEN Append(it[s \ {Max(s)}], f[Max(s)])
                           ELSE it[s \ {Max(s)}]
           Upto(it, m) == /\ it = [s \in D |-> it[s]]
                          /\ \A s \in D : s \subseteq 1 .. m => it[s] = Round(it, s)
           N == {m \in Nat : \E it : Upto(it, m)}
<1>0. ASSUME NEW m \in Nat, NEW s \in D, s \subseteq 1 .. m + 1, s # {}
      PROVE  s \ {Max(s)} \in D /\ s \ {Max(s)} \subseteq 1 .. m
  <2>1. Max(s) \in s /\ \A x \in s : x <= Max(s)
    BY <1>0, MaxOfPlaces
  <2>2. ASSUME NEW x \in s, x # Max(s) PROVE x \in 1 .. m
    <3>1. x <= Max(s) /\ x \in 1 .. m + 1 /\ Max(s) \in 1 .. m + 1
      BY <1>0, <2>1
    <3> QED
      BY <2>2, <3>1
  <2> QED
    BY <2>2
<1>1. 0 \in N
  <2> DEFINE it == [s \in D |-> <<>>]
  <2>1. it = [s \in D |-> it[s]]
    OBVIOUS
  <2>2. ASSUME NEW s \in D, s \subseteq 1 .. 0 PROVE s = {} /\ it[s] = <<>>
    BY <2>2
  <2>3. Upto(it, 0)
    BY <2>1, <2>2
  <2> HIDE DEF Upto
  <2> QED
    BY <2>3
<1>2. ASSUME NEW m \in Nat, m \in N PROVE m + 1 \in N
  <2>1. PICK it : Upto(it, m)
    BY <1>2
  <2> DEFINE new == [s \in D |-> IF s \subseteq 1 .. m THEN it[s] ELSE Round(it, s)]
  <2>2. new = [s \in D |-> new[s]]
    OBVIOUS
  <2>3. \A s \in D : new[s] = IF s \subseteq 1 .. m THEN it[s] ELSE Round(it, s)
    OBVIOUS
  <2> HIDE DEF new
  <2>4. ASSUME NEW s \in D, s \subseteq 1 .. m + 1 PROVE new[s] = Round(new, s)
    <3>1. new[s] = Round(it, s)
      BY <2>1, <2>3
    <3>2. CASE s = {}
      BY <3>1, <3>2
    <3>3. CASE s # {}
      <4>1. new[s \ {Max(s)}] = it[s \ {Max(s)}]
        BY <1>0, <2>3, <2>4, <3>3
      <4> QED
        BY <3>1, <4>1
    <3> QED
      BY <3>2, <3>3
  <2>5. Upto(new, m + 1)
    BY <2>2, <2>4
  <2> HIDE DEF Upto
  <2> QED
    BY <2>5
<1>3. n \in N
  <2> HIDE DEF N
  <2> QED
    BY <1>1, <1>2, NatSetInduction
<1>4. PICK it : Upto(it, n)
  BY <1>3
<1>5. \A s \in D : it[s] = Round(it, s)
  BY <1>4
<1>6. [s \in D |-> it[s]] = [s \in D |-> Round(it, s)]
  BY <1>5
<1>7. it = [s \in D |-> Round(it, s)]
  BY <1>4, <1>6
<1> QED
  BY <1>7 DEF SelectOver

\* r holds what f has at the places P, in the same order.
IsSelection(r, f, P) ==
  /\ IsSeq(r)
  /\ \E g \in [1 .. Len(r) -> P] :
       /\ \A i, j \in 1 .. Len(r) : i < j => g[i] < g[j]
       /\ \A j \in 1 .. Len(r) : r[j] = f[g[j]]
       /\ \A i \in P : \E j \in 1 .. Len(r) : g[j] = i

\* One more place to select from.
LEMMA SelectionGrows ==
  ASSUME NEW f, NEW k \in Nat, NEW P, P \subseteq 1 .. k, NEW r, IsSelection(r, f, P)
  PROVE  IsSelection(Append(r, f[k + 1]), f, P \cup {k + 1})
<1> DEFINE v == Append(r, f[k + 1])
           Q == P \cup {k + 1}
<1>1. PICK g \in [1 .. Len(r) -> P] :
        /\ \A i, j \in 1 .. Len(r) : i < j => g[i] < g[j]
        /\ \A j \in 1 .. Len(r) : r[j] = f[g[j]]
        /\ \A i \in P : \E j \in 1 .. Len(r) : g[j] = i
  BY DEF IsSelection
<1>2. /\ IsSeq(v) /\ Len(r) \in Nat /\ Len(v) = Len(r) + 1
      /\ \A i \in 1 .. Len(r) : v[i] = r[i]
      /\ v[Len(r) + 1] = f[k + 1]
  BY SeqAppend DEF IsSelection
<1> DEFINE n == Len(r)
           h == [i \in 1 .. n + 1 |-> IF i = n + 1 THEN k + 1 ELSE g[i]]
<1>3. \A i \in 1 .. n : g[i] \in P /\ g[i] \in 1 .. k
  OBVIOUS
<1>4. /\ h \in [1 .. n + 1 -> Q] /\ h[n + 1] = k + 1
      /\ \A i \in 1 .. n : h[i] = g[i] /\ i \in 1 .. n + 1
  BY <1>2, <1>3
<1> HIDE DEF h, v
<1>5. \A i \in 1 .. n + 1 : i \in 1 .. n \/ i = n + 1
  BY <1>2
<1>6. ASSUME NEW i \in 1 .. n + 1, NEW j \in 1 .. n + 1, i < j PROVE h[i] < h[j]
  <2>1. i \in 1 .. n
    BY <1>2, <1>6
  <2>2. CASE j = n + 1
    BY <1>3, <1>4, <2>1, <2>2
  <2>3. CASE j \in 1 .. n
    BY <1>1, <1>4, <1>6, <2>1, <2>3
  <2> QED
    BY <1>5, <2>2, <2>3
<1>7. \A j \in 1 .. n + 1 : v[j] = f[h[j]]
  BY <1>1, <1>2, <1>4, <1>5
<1>8. \A i \in Q : \E j \in 1 .. n + 1 : h[j] = i
  <2>1. n + 1 \in 1 .. n + 1
    BY <1>2
  <2> QED
    BY <1>1, <1>4, <2>1
<1>9. Len(v) = n + 1
  BY <1>2
<1> HIDE DEF n, Q
<1> QED
  BY <1>2, <1>4, <1>6, <1>7, <1>8, <1>9 DEF IsSelection, v, Q

\* The fold selects.
LEMMA SelectIs ==
  ASSUME NEW f, NEW n \in Nat, DOMAIN f = 1 .. n, NEW P, P \subseteq 1 .. n,
         NEW it, SelectOver(f, P, it)
  PROVE  IsSelection(it[DOMAIN f], f, P)
<1> DEFINE N == {k \in Nat : k <= n => IsSelection(it[1 .. k], f, P \cap (1 .. k))}
<1>0. \A s \in SUBSET (1 .. n) :
        it[s] = IF s = {} THEN <<>>
                ELSE IF Max(s) \in P THEN Append(it[s \ {Max(s)}], f[Max(s)])
                ELSE it[s \ {Max(s)}]
  BY DEF SelectOver
<1>1. 0 \in N
  <2>1. 1 .. 0 = {} /\ {} \in SUBSET (1 .. n)
    OBVIOUS
  <2>2. it[{}] = <<>>
    BY <1>0
  <2>3. IsSeq(<<>>) /\ Len(<<>>) = 0
    BY SeqEmpty
  <2>4. P \cap {} = {}
    OBVIOUS
  <2>5. IsSelection(<<>>, f, {})
    <3> DEFINE g == [i \in {} |-> 0]
    <3>1. g \in [1 .. Len(<<>>) -> {}] /\ 1 .. Len(<<>>) = {}
      BY <2>1, <2>3
    <3> QED
      BY <2>3, <3>1 DEF IsSelection
  <2>6. IsSelection(it[1 .. 0], f, P \cap (1 .. 0))
    BY <2>1, <2>2, <2>4, <2>5
  <2> QED
    BY <2>6
<1>2. ASSUME NEW k \in Nat, k \in N PROVE k + 1 \in N
  <2> SUFFICES ASSUME k + 1 <= n PROVE IsSelection(it[1 .. k + 1], f, P \cap (1 .. k + 1))
    OBVIOUS
  <2>1. /\ 1 .. k + 1 # {} /\ Max(1 .. k + 1) = k + 1 /\ (1 .. k + 1) \ {k + 1} = 1 .. k
        /\ 1 .. k + 1 \in SUBSET (1 .. n)
    <3>1. 1 .. k + 1 \in SUBSET (1 .. n)
      OBVIOUS
    <3> HIDE DEF N
    <3> QED
      BY <3>1, MaxOfPrefix
  <2>2. it[1 .. k + 1] = IF k + 1 \in P THEN Append(it[1 .. k], f[k + 1]) ELSE it[1 .. k]
    BY <1>0, <2>1
  <2>3. IsSelection(it[1 .. k], f, P \cap (1 .. k))
    BY <1>2
  <2>4. CASE k + 1 \in P
    <3>1. P \cap (1 .. k + 1) = (P \cap (1 .. k)) \cup {k + 1}
      BY <2>4
    <3>2. P \cap (1 .. k) \subseteq 1 .. k
      OBVIOUS
    <3> DEFINE R == P \cap (1 .. k)
               r == it[1 .. k]
    <3>3. IsSelection(r, f, R) /\ R \subseteq 1 .. k
      BY <2>3, <3>2
    <3> HIDE DEF N, R, r
    <3>4. IsSelection(Append(r, f[k + 1]), f, R \cup {k + 1})
      BY <3>3, SelectionGrows
    <3> QED
      BY <2>2, <2>4, <3>1, <3>4 DEF R, r
  <2>5. CASE k + 1 \notin P
    <3>1. P \cap (1 .. k + 1) = P \cap (1 .. k)
      BY <2>5
    <3> QED
      BY <2>2, <2>3, <2>5, <3>1
  <2> QED
    BY <2>4, <2>5
<1>3. n \in N
  <2> HIDE DEF N
  <2> QED
    BY <1>1, <1>2, NatSetInduction
<1>4. P \cap (1 .. n) = P
  OBVIOUS
<1>a. n <= n
  OBVIOUS
<1>5. IsSelection(it[1 .. n], f, P \cap (1 .. n))
  BY <1>3, <1>a
<1> QED
  BY <1>4, <1>5

-----------------------------------------------------------------------------
(* The book of the exchange                                                *)

Filled(orders) == {i \in DOMAIN orders : orders[i].quantity > 0}
Others(orders, id) == {i \in DOMAIN orders : orders[i].orderId # id}

PresentOver(f, it) ==
  it = [s \in SUBSET DOMAIN f |->
          IF s = {} THEN <<>>
          ELSE IF f[Max(s)].quantity > 0 THEN Append(it[s \ {Max(s)}], f[Max(s)])
          ELSE it[s \ {Max(s)}]]

WithoutOver(f, id, it) ==
  it = [s \in SUBSET DOMAIN f |->
          IF s = {} THEN <<>>
          ELSE IF f[Max(s)].orderId # id THEN Append(it[s \ {Max(s)}], f[Max(s)])
          ELSE it[s \ {Max(s)}]]

LEMMA PresentIs ==
  ASSUME NEW f
  PROVE  Engine!Present(f) = (CHOOSE it : PresentOver(f, it))[DOMAIN f]
BY Zenon DEF Engine!Present, Engine!FoldLeft, Engine!MapThenFoldSet, Engine!Max, Max, PresentOver

LEMMA WithoutIs ==
  ASSUME NEW f, NEW id
  PROVE  Engine!Without(f, id) = (CHOOSE it : WithoutOver(f, id, it))[DOMAIN f]
BY Zenon DEF Engine!Without, Engine!FoldLeft, Engine!MapThenFoldSet, Engine!Max, Max, WithoutOver

\* What is present is selected, ...
LEMMA PresentSelects ==
  ASSUME NEW f, NEW n \in Nat, DOMAIN f = 1 .. n
  PROVE  IsSelection(Engine!Present(f), f, Filled(f))
<1> DEFINE P == Filled(f)
<1>1. P \subseteq 1 .. n /\ \A i \in 1 .. n : i \in P <=> f[i].quantity > 0
  BY DEF Filled
<1> HIDE DEF P
<1>2. ASSUME NEW s \in SUBSET (1 .. n), s # {} PROVE Max(s) \in P <=> f[Max(s)].quantity > 0
  BY <1>1, <1>2, MaxOfPlaces
<1>3. ASSUME NEW it PROVE SelectOver(f, P, it) <=> PresentOver(f, it)
  <2>1. ASSUME NEW s \in SUBSET (1 .. n)
        PROVE  (IF s = {} THEN <<>>
                ELSE IF Max(s) \in P THEN Append(it[s \ {Max(s)}], f[Max(s)])
                ELSE it[s \ {Max(s)}])
               = (IF s = {} THEN <<>>
                  ELSE IF f[Max(s)].quantity > 0 THEN Append(it[s \ {Max(s)}], f[Max(s)])
                  ELSE it[s \ {Max(s)}])
    BY <1>2
  <2>2. [s \in SUBSET (1 .. n) |-> IF s = {} THEN <<>>
                ELSE IF Max(s) \in P THEN Append(it[s \ {Max(s)}], f[Max(s)])
                ELSE it[s \ {Max(s)}]]
        = [s \in SUBSET (1 .. n) |-> IF s = {} THEN <<>>
                  ELSE IF f[Max(s)].quantity > 0 THEN Append(it[s \ {Max(s)}], f[Max(s)])
                  ELSE it[s \ {Max(s)}]]
    BY <2>1
  <2> QED
    BY <2>2, Zenon DEF SelectOver, PresentOver
<1>4. \E it : PresentOver(f, it)
  BY <1>3, SelectExists
<1> DEFINE it == CHOOSE x : PresentOver(f, x)
<1>5. PresentOver(f, it)
  BY <1>4, Zenon
<1>6. Engine!Present(f) = it[DOMAIN f]
  BY PresentIs
<1> HIDE DEF it
<1>7. IsSelection(it[DOMAIN f], f, P)
  BY <1>1, <1>3, <1>5, SelectIs
<1> QED
  BY <1>6, <1>7 DEF P

\* ... and so is what a cancel leaves.
LEMMA WithoutSelects ==
  ASSUME NEW f, NEW n \in Nat, DOMAIN f = 1 .. n, NEW id
  PROVE  IsSelection(Engine!Without(f, id), f, Others(f, id))
<1> DEFINE P == Others(f, id)
<1>1. P \subseteq 1 .. n /\ \A i \in 1 .. n : i \in P <=> f[i].orderId # id
  BY DEF Others
<1> HIDE DEF P
<1>2. ASSUME NEW s \in SUBSET (1 .. n), s # {} PROVE Max(s) \in P <=> f[Max(s)].orderId # id
  BY <1>1, <1>2, MaxOfPlaces
<1>3. ASSUME NEW it PROVE SelectOver(f, P, it) <=> WithoutOver(f, id, it)
  <2>1. ASSUME NEW s \in SUBSET (1 .. n)
        PROVE  (IF s = {} THEN <<>>
                ELSE IF Max(s) \in P THEN Append(it[s \ {Max(s)}], f[Max(s)])
                ELSE it[s \ {Max(s)}])
               = (IF s = {} THEN <<>>
                  ELSE IF f[Max(s)].orderId # id THEN Append(it[s \ {Max(s)}], f[Max(s)])
                  ELSE it[s \ {Max(s)}])
    BY <1>2
  <2>2. [s \in SUBSET (1 .. n) |-> IF s = {} THEN <<>>
                ELSE IF Max(s) \in P THEN Append(it[s \ {Max(s)}], f[Max(s)])
                ELSE it[s \ {Max(s)}]]
        = [s \in SUBSET (1 .. n) |-> IF s = {} THEN <<>>
                  ELSE IF f[Max(s)].orderId # id THEN Append(it[s \ {Max(s)}], f[Max(s)])
                  ELSE it[s \ {Max(s)}]]
    BY <2>1
  <2> QED
    BY <2>2, Zenon DEF SelectOver, WithoutOver
<1>4. \E it : WithoutOver(f, id, it)
  BY <1>3, SelectExists
<1> DEFINE it == CHOOSE x : WithoutOver(f, id, x)
<1>5. WithoutOver(f, id, it)
  BY <1>4, Zenon
<1>6. Engine!Without(f, id) = it[DOMAIN f]
  BY WithoutIs
<1> HIDE DEF it
<1>7. IsSelection(it[DOMAIN f], f, P)
  BY <1>1, <1>3, <1>5, SelectIs
<1> QED
  BY <1>6, <1>7 DEF P

\* Sums of quantities are numbers.
QuantityOver(f, it) ==
  it = [s \in SUBSET DOMAIN f |-> IF s = {} THEN 0 ELSE f[Pick(s)].quantity + it[s \ {Pick(s)}]]

LEMMA QuantityIs ==
  ASSUME NEW f
  PROVE  Engine!TotalQuantity(f) = (CHOOSE it : QuantityOver(f, it))[DOMAIN f]
BY Zenon DEF Engine!TotalQuantity, Engine!FoldSeq, Engine!FoldFunction, Engine!FoldFunctionOnSet,
             Engine!MapThenFoldSet, Pick, QuantityOver

LEMMA QuantityType ==
  ASSUME NEW f, NEW n \in Nat, DOMAIN f = 1 .. n, \A i \in 1 .. n : f[i].quantity \in Nat
  PROVE  Engine!TotalQuantity(f) \in Nat
<1> DEFINE w == [i \in 1 .. n |-> f[i].quantity]
           S == 1 .. n
<1>1. IsFiniteSet(S) /\ w \in [S -> Nat] /\ \A i \in S : w[i] = f[i].quantity
  BY FS_Interval
<1> HIDE DEF w, S
<1>2. ASSUME NEW s \in SUBSET S, s # {} PROVE w[Pick(s)] = f[Pick(s)].quantity
  BY <1>1, <1>2, PickFacts
<1>3. ASSUME NEW it PROVE SumOver(w, S, it) <=> QuantityOver(f, it)
  <2>1. ASSUME NEW s \in SUBSET S
        PROVE  (IF s = {} THEN 0 ELSE w[Pick(s)] + it[s \ {Pick(s)}])
               = (IF s = {} THEN 0 ELSE f[Pick(s)].quantity + it[s \ {Pick(s)}])
    BY <1>2
  <2>2. [s \in SUBSET S |-> IF s = {} THEN 0 ELSE w[Pick(s)] + it[s \ {Pick(s)}]]
        = [s \in SUBSET S |-> IF s = {} THEN 0 ELSE f[Pick(s)].quantity + it[s \ {Pick(s)}]]
    BY <2>1
  <2>3. DOMAIN f = S
    BY DEF S
  <2> QED
    BY <2>2, <2>3, Zenon DEF SumOver, QuantityOver
<1>4. PICK i0 \in [SUBSET S -> Nat] : SumOver(w, S, i0)
  BY <1>1, SumExists
<1> DEFINE it == CHOOSE x : QuantityOver(f, x)
<1>5. QuantityOver(f, it)
  BY <1>3, <1>4, Zenon
<1>6. Engine!TotalQuantity(f) = it[DOMAIN f]
  BY QuantityIs
<1> HIDE DEF it
<1>7. Sums(w, S, it)
  <2>1. SumOver(w, S, it)
    BY <1>3, <1>5
  <2> QED
    BY <2>1 DEF SumOver, Sums
<1>8. S \in SUBSET S /\ \A x \in S : w[x] = w[x]
  OBVIOUS
<1>9. it[S] \in Nat
  BY <1>1, <1>7, <1>8, SumLocal
<1> QED
  BY <1>6, <1>9 DEF S

\* Into a sequence, and out of it.
LEMMA CatFacts ==
  ASSUME NEW S, NEW s \in Seq(S), NEW t \in Seq(S)
  PROVE  /\ s \o t \in Seq(S) /\ Len(s \o t) = Len(s) + Len(t)
         /\ \A i \in 1 .. Len(s) : (s \o t)[i] = s[i]
         /\ \A i \in 1 .. Len(t) : (s \o t)[Len(s) + i] = t[i]
<1>1. s \o t \in Seq(S)
  OBVIOUS
<1>2. IsSeq(s) /\ IsSeq(t)
  BY DEF IsSeq
<1> QED
  BY <1>1, <1>2, SeqConcat

LEMMA InsertFacts ==
  ASSUME NEW S, NEW s \in Seq(S), NEW p \in 1 .. Len(s) + 1, NEW e \in S
  PROVE  LET r == Engine!InsertAt(s, p, e)
         IN /\ r \in Seq(S) /\ Len(r) = Len(s) + 1
            /\ \A j \in 1 .. p - 1 : r[j] = s[j]
            /\ r[p] = e
            /\ \A j \in p .. Len(s) : r[j + 1] = s[j]
<1> DEFINE c == p - 1
<1>0. Len(s) \in Nat /\ c \in Nat /\ c <= Len(s) /\ p = c + 1
  OBVIOUS
<1> HIDE DEF c
<1> DEFINE a == SubSeq(s, 1, c)
           b == SubSeq(s, c + 1, Len(s))
           d == a \o <<e>>
           r == d \o b
<1>1. Len(s) \in Nat /\ c \in Nat /\ c <= Len(s)
  BY <1>0
<1>2. a \in Seq(S) /\ Len(a) = c /\ \A j \in 1 .. c : a[j] = s[j]
  BY <1>1, SubSeqProperties
<1>3. b \in Seq(S) /\ Len(b) = Len(s) - c /\ \A j \in 1 .. Len(s) - c : b[j] = s[c + j]
  <2>1. \A i \in c + 1 .. Len(s) : s[i] \in S
    BY <1>1
  <2>2. /\ b \in Seq(S) /\ Len(b) = IF c + 1 <= Len(s) THEN Len(s) - (c + 1) + 1 ELSE 0
        /\ \A i \in 1 .. Len(s) - (c + 1) + 1 : b[i] = s[(c + 1) + i - 1]
    BY <1>1, <2>1, SubSeqProperties
  <2> QED
    BY <1>1, <2>2
<1>4. <<e>> \in Seq(S) /\ Len(<<e>>) = 1 /\ <<e>>[1] = e
  OBVIOUS
<1>5. Engine!InsertAt(s, c + 1, e) = r
  <2>1. (c + 1) - 1 = c
    BY <1>1
  <2> QED
    BY <2>1 DEF Engine!InsertAt, a, b
<1> HIDE DEF a, b
<1>6. d \in Seq(S) /\ Len(d) = c + 1 /\ (\A j \in 1 .. c : d[j] = s[j]) /\ d[c + 1] = e
  <2>1. /\ d \in Seq(S) /\ Len(d) = Len(a) + Len(<<e>>)
        /\ \A i \in 1 .. Len(a) : d[i] = a[i]
        /\ \A i \in 1 .. Len(<<e>>) : d[Len(a) + i] = <<e>>[i]
    BY <1>2, <1>4, CatFacts
  <2>2. 1 \in 1 .. Len(<<e>>)
    BY <1>4
  <2> HIDE DEF d
  <2> QED
    BY <1>1, <1>2, <1>4, <2>1, <2>2
<1> HIDE DEF d
<1>7. /\ r \in Seq(S) /\ Len(r) = Len(d) + Len(b)
      /\ \A i \in 1 .. Len(d) : r[i] = d[i]
      /\ \A i \in 1 .. Len(b) : r[Len(d) + i] = b[i]
  <2>1. d \in Seq(S) /\ b \in Seq(S)
    BY <1>3, <1>6
  <2> QED
    BY ONLY <2>1, CatFacts
<1> HIDE DEF r
<1>8. Len(r) = Len(s) + 1
  BY <1>1, <1>3, <1>6, <1>7
<1>9. \A j \in 1 .. c : r[j] = s[j]
  <2> TAKE j \in 1 .. c
  <2>1. j \in 1 .. Len(d)
    BY <1>1, <1>6
  <2> QED
    BY <1>6, <1>7, <2>1
<1>10. r[c + 1] = e
  <2>1. c + 1 \in 1 .. Len(d)
    BY <1>1, <1>6
  <2> QED
    BY <1>6, <1>7, <2>1
<1>11. \A j \in c + 1 .. Len(s) : r[j + 1] = s[j]
  <2> TAKE j \in c + 1 .. Len(s)
  <2> DEFINE i == j - c
  <2>1. i \in 1 .. Len(b) /\ i \in 1 .. Len(s) - c /\ Len(d) + i = j + 1 /\ c + i = j
    BY <1>1, <1>3, <1>6
  <2> HIDE DEF i
  <2>2. r[Len(d) + i] = b[i] /\ b[i] = s[c + i]
    BY <1>3, <1>7, <2>1
  <2> QED
    BY <2>1, <2>2
<1> QED
  BY <1>0, <1>5, <1>7, <1>8, <1>9, <1>10, <1>11 DEF c

LEMMA RemoveFacts ==
  ASSUME NEW S, NEW s \in Seq(S), NEW i \in 1 .. Len(s)
  PROVE  LET r == RemoveAt(s, i)
         IN /\ r \in Seq(S) /\ Len(r) = Len(s) - 1
            /\ \A j \in 1 .. i - 1 : r[j] = s[j]
            /\ \A j \in i + 1 .. Len(s) : r[j - 1] = s[j]
<1> DEFINE a == SubSeq(s, 1, i - 1)
           b == SubSeq(s, i + 1, Len(s))
           r == a \o b
<1>1. Len(s) \in Nat /\ i \in Nat /\ 1 <= i /\ i <= Len(s)
  OBVIOUS
<1>2. a \in Seq(S) /\ Len(a) = i - 1 /\ \A j \in 1 .. i - 1 : a[j] = s[j]
  BY <1>1, SubSeqProperties
<1>3. b \in Seq(S) /\ Len(b) = Len(s) - i /\ \A j \in 1 .. Len(s) - i : b[j] = s[i + j]
  <2>1. \A k \in i + 1 .. Len(s) : s[k] \in S
    BY <1>1
  <2>2. /\ b \in Seq(S) /\ Len(b) = IF i + 1 <= Len(s) THEN Len(s) - (i + 1) + 1 ELSE 0
        /\ \A k \in 1 .. Len(s) - (i + 1) + 1 : b[k] = s[(i + 1) + k - 1]
    BY <1>1, <2>1, SubSeqProperties
  <2> QED
    BY <1>1, <2>2
<1>5. RemoveAt(s, i) = r
  BY DEF RemoveAt
<1> HIDE DEF a, b
<1>4. /\ r \in Seq(S) /\ Len(r) = Len(a) + Len(b)
      /\ \A j \in 1 .. Len(a) : r[j] = a[j]
      /\ \A j \in 1 .. Len(b) : r[Len(a) + j] = b[j]
  <2>1. a \in Seq(S) /\ b \in Seq(S)
    BY <1>2, <1>3
  <2> QED
    BY ONLY <2>1, CatFacts
<1> HIDE DEF r
<1>6. Len(r) = Len(s) - 1
  BY <1>1, <1>2, <1>3, <1>4
<1>7. \A j \in 1 .. i - 1 : r[j] = s[j]
  BY <1>2, <1>4
<1>8. \A j \in i + 1 .. Len(s) : r[j - 1] = s[j]
  <2> TAKE j \in i + 1 .. Len(s)
  <2> DEFINE k == j - i
  <2>1. k \in 1 .. Len(b) /\ k \in 1 .. Len(s) - i /\ Len(a) + k = j - 1 /\ i + k = j
    BY <1>1, <1>2, <1>3
  <2> HIDE DEF k
  <2>2. r[Len(a) + k] = b[k] /\ b[k] = s[i + k]
    BY <1>3, <1>4, <2>1
  <2> QED
    BY <2>1, <2>2
<1> QED
  BY <1>4, <1>5, <1>6, <1>7, <1>8

BookOrder == [orderId : Nat, price : Nat, quantity : Nat \ {0}]

\* No order is twice in a queue, and none in two.
Once(s) == \A i, j \in DOMAIN s : s[i].orderId = s[j].orderId => i = j
Apart(s, t) == \A i \in DOMAIN s : \A j \in DOMAIN t : s[i].orderId # t[j].orderId

BookInv ==
  /\ queue \in [{"BID", "ASK"} -> Seq(BookOrder)]
  /\ used \subseteq Nat /\ IsFiniteSet(used)
  /\ \A s \in {"BID", "ASK"} : /\ Once(queue[s])
                               /\ \A i \in DOMAIN queue[s] : queue[s][i].orderId \in used
  /\ \A s, o \in {"BID", "ASK"} : s # o => Apart(queue[s], queue[o])

\* What a selection holds has the type of what it is taken from.
LEMMA SelectionType ==
  ASSUME NEW r, NEW f, NEW P, IsSelection(r, f, P), NEW T, \A i \in P : f[i] \in T
  PROVE  r \in Seq(T)
<1>1. PICK g \in [1 .. Len(r) -> P] : \A j \in 1 .. Len(r) : r[j] = f[g[j]]
  BY DEF IsSelection
<1>2. PICK S : r \in Seq(S)
  BY DEF IsSelection, IsSeq
<1>3. \A j \in 1 .. Len(r) : r[j] \in T
  BY <1>1
<1> QED
  BY <1>2, <1>3

LEMMA BookOrderType ==
  ASSUME NEW s \in Seq(BookOrder)
  PROVE  \A i \in DOMAIN s : /\ s[i] \in BookOrder /\ s[i].quantity \in Nat /\ s[i].quantity > 0
                              /\ s[i].orderId \in Nat
<1>1. \A i \in DOMAIN s : s[i] \in BookOrder
  OBVIOUS
<1>2. \A o \in BookOrder : o.quantity \in Nat /\ o.quantity > 0 /\ o.orderId \in Nat
  BY DEF BookOrder
<1> QED
  BY <1>1, <1>2

LEMMA EngineCardinality ==
  ASSUME NEW S
  PROVE  Engine!Cardinality(S) = Cardinality(S)
BY Zenon DEF Engine!Cardinality, Cardinality

LEMMA TakenRange ==
  ASSUME NEW orders \in Seq(BookOrder), NEW i \in DOMAIN orders, NEW side, NEW type, NEW limit,
         NEW quantity \in Nat
  PROVE  Engine!Taken(orders, i, side, type, limit, quantity) \in 0 .. orders[i].quantity
<1> DEFINE p == SubSeq(orders, 1, i - 1)
           a == Engine!TotalQuantity(p)
<1>1. orders[i].quantity \in Nat
  BY BookOrderType
<1>2. p \in Seq(BookOrder) /\ Len(p) = i - 1 /\ i \in Nat /\ i >= 1
  <2>1. i \in Nat /\ 1 <= i /\ i <= Len(orders) /\ Len(orders) \in Nat
    OBVIOUS
  <2> QED
    BY <2>1, SubSeqProperties
<1>3. a \in Nat
  <2>1. i - 1 \in Nat /\ DOMAIN p = 1 .. i - 1
    BY <1>2
  <2>2. \A j \in 1 .. i - 1 : p[j].quantity \in Nat
    <3> HIDE DEF p
    <3> QED
      BY <1>2, <2>1, BookOrderType
  <2> HIDE DEF p
  <2> QED
    BY <2>1, <2>2, QuantityType
<1>4. Engine!Taken(orders, i, side, type, limit, quantity)
        \in {0, Engine!Clamp(quantity - a, 0, orders[i].quantity)}
  BY DEF Engine!Taken
<1> HIDE DEF a
<1>5. Engine!Clamp(quantity - a, 0, orders[i].quantity) \in 0 .. orders[i].quantity
  BY <1>1, <1>3 DEF Engine!Clamp
<1> QED
  BY <1>1, <1>4, <1>5

\* What a submission takes from the orders of the other side, ...
FillsOf(makers, taken, side, id) ==
  [i \in DOMAIN makers |->
     [price |-> makers[i].price, quantity |-> taken[i], aggressorSide |-> side,
      aggressorOrderId |-> id, restingOrderId |-> makers[i].orderId]]

FillsMatch(r, makers, taken) ==
  /\ IsSeq(r)
  /\ \A j \in DOMAIN r : \E i \in DOMAIN makers :
       /\ r[j].restingOrderId = makers[i].orderId /\ r[j].quantity = taken[i]
       /\ taken[i] > 0
  /\ \A i \in DOMAIN makers : taken[i] > 0 =>
       \E j \in DOMAIN r : r[j].restingOrderId = makers[i].orderId /\ r[j].quantity = taken[i]
  /\ Once(makers) => \A i, j \in DOMAIN r : r[i].restingOrderId = r[j].restingOrderId => i = j

LEMMA FillFacts ==
  ASSUME NEW makers \in Seq(BookOrder), NEW taken \in [DOMAIN makers -> Nat], NEW side, NEW id \in Nat
  PROVE  FillsMatch(Engine!Present(FillsOf(makers, taken, side, id)), makers, taken)
<1> DEFINE f == FillsOf(makers, taken, side, id)
           P == Filled(f)
           r == Engine!Present(f)
<1>1. /\ Len(makers) \in Nat /\ DOMAIN f = 1 .. Len(makers) /\ DOMAIN makers = 1 .. Len(makers)
      /\ \A i \in DOMAIN makers : f[i].quantity = taken[i] /\ f[i].restingOrderId = makers[i].orderId
  BY DEF FillsOf
<1> HIDE DEF f
<1>2. IsSelection(r, f, P)
  BY <1>1, PresentSelects
<1>3. P = {i \in DOMAIN makers : taken[i] > 0}
  BY <1>1 DEF Filled
<1> HIDE DEF P, r
<1>4. /\ IsSeq(r)
      /\ \E g \in [1 .. Len(r) -> P] :
           /\ \A i, j \in 1 .. Len(r) : i < j => g[i] < g[j]
           /\ \A j \in 1 .. Len(r) : r[j] = f[g[j]]
           /\ \A i \in P : \E j \in 1 .. Len(r) : g[j] = i
  BY <1>2 DEF IsSelection
<1>5. PICK g \in [1 .. Len(r) -> P] :
        /\ \A i, j \in 1 .. Len(r) : i < j => g[i] < g[j]
        /\ \A j \in 1 .. Len(r) : r[j] = f[g[j]]
        /\ \A i \in P : \E j \in 1 .. Len(r) : g[j] = i
  BY <1>4
<1>6. DOMAIN r = 1 .. Len(r) /\ Len(r) \in Nat
  BY <1>4, SeqBasics
<1>7. \A j \in 1 .. Len(r) : g[j] \in DOMAIN makers /\ taken[g[j]] > 0 /\ g[j] \in Nat
  BY <1>1, <1>3
<1>8. \A j \in 1 .. Len(r) : r[j].restingOrderId = makers[g[j]].orderId /\ r[j].quantity = taken[g[j]]
  BY <1>1, <1>5, <1>7
<1>9. \A i \in DOMAIN makers : taken[i] > 0 =>
        \E j \in DOMAIN r : r[j].restingOrderId = makers[i].orderId /\ r[j].quantity = taken[i]
  BY <1>3, <1>5, <1>6, <1>8
<1>10. ASSUME Once(makers), NEW i \in 1 .. Len(r), NEW j \in 1 .. Len(r),
              r[i].restingOrderId = r[j].restingOrderId
       PROVE  i = j
  <2>1. g[i] = g[j]
    BY <1>7, <1>8, <1>10 DEF Once
  <2> QED
    BY <1>5, <1>6, <1>7, <2>1
<1>11. \A j \in DOMAIN r : \E i \in DOMAIN makers :
         /\ r[j].restingOrderId = makers[i].orderId /\ r[j].quantity = taken[i]
         /\ taken[i] > 0
  BY <1>6, <1>7, <1>8
<1> QED
  BY <1>4, <1>6, <1>9, <1>10, <1>11 DEF r, f, FillsMatch

\* ... and what it leaves of them.
LeftOf(makers, taken) ==
  [i \in DOMAIN makers |-> [makers[i] EXCEPT !.quantity = @ - taken[i]]]

LEMMA LeftFacts ==
  ASSUME NEW makers \in Seq(BookOrder), NEW taken \in [DOMAIN makers -> Nat],
         \A i \in DOMAIN makers : taken[i] <= makers[i].quantity
  PROVE  LET r == Engine!Present(LeftOf(makers, taken))
         IN /\ r \in Seq(BookOrder)
            /\ \A j \in DOMAIN r : \E i \in DOMAIN makers :
                 /\ r[j].orderId = makers[i].orderId
                 /\ r[j].quantity = makers[i].quantity - taken[i]
            /\ \A i \in DOMAIN makers : taken[i] < makers[i].quantity =>
                 \E j \in DOMAIN r : /\ r[j].orderId = makers[i].orderId
                                     /\ r[j].quantity = makers[i].quantity - taken[i]
            /\ Once(makers) => Once(r)
<1> DEFINE f == LeftOf(makers, taken)
           P == Filled(f)
           r == Engine!Present(f)
<1>0. \A i \in DOMAIN makers : /\ makers[i] \in BookOrder /\ makers[i].quantity \in Nat
                               /\ taken[i] \in Nat /\ taken[i] <= makers[i].quantity
  BY BookOrderType
<1>1. /\ Len(makers) \in Nat /\ DOMAIN f = 1 .. Len(makers) /\ DOMAIN makers = 1 .. Len(makers)
      /\ \A i \in DOMAIN makers :
           /\ f[i].quantity = makers[i].quantity - taken[i] /\ f[i].orderId = makers[i].orderId
           /\ taken[i] < makers[i].quantity => f[i] \in BookOrder
  <2>1. ASSUME NEW i \in DOMAIN makers
        PROVE  /\ f[i].quantity = makers[i].quantity - taken[i] /\ f[i].orderId = makers[i].orderId
               /\ taken[i] < makers[i].quantity => f[i] \in BookOrder
    <3> DEFINE q == makers[i].quantity - taken[i]
    <3>1. f[i] = [makers[i] EXCEPT !.quantity = q]
      BY DEF LeftOf
    <3>2. q \in Nat /\ (taken[i] < makers[i].quantity => q \in Nat \ {0}) /\ makers[i] \in BookOrder
      BY <1>0
    <3> HIDE DEF q, f
    <3>3. f[i].quantity = q /\ f[i].orderId = makers[i].orderId /\ (q \in Nat \ {0} => f[i] \in BookOrder)
      BY <3>1, <3>2 DEF BookOrder
    <3> QED
      BY <3>2, <3>3 DEF q
  <2>2. DOMAIN f = DOMAIN makers
    BY DEF LeftOf
  <2> HIDE DEF f
  <2> QED
    BY <2>1, <2>2
<1> HIDE DEF f
<1>2. IsSelection(r, f, P)
  BY <1>1, PresentSelects
<1>3. P = {i \in DOMAIN makers : taken[i] < makers[i].quantity}
  BY <1>0, <1>1 DEF Filled
<1> HIDE DEF P, r
<1>4. /\ IsSeq(r)
      /\ \E g \in [1 .. Len(r) -> P] :
           /\ \A i, j \in 1 .. Len(r) : i < j => g[i] < g[j]
           /\ \A j \in 1 .. Len(r) : r[j] = f[g[j]]
           /\ \A i \in P : \E j \in 1 .. Len(r) : g[j] = i
  BY <1>2 DEF IsSelection
<1>5. PICK g \in [1 .. Len(r) -> P] :
        /\ \A i, j \in 1 .. Len(r) : i < j => g[i] < g[j]
        /\ \A j \in 1 .. Len(r) : r[j] = f[g[j]]
        /\ \A i \in P : \E j \in 1 .. Len(r) : g[j] = i
  BY <1>4
<1>6. DOMAIN r = 1 .. Len(r) /\ Len(r) \in Nat
  BY <1>4, SeqBasics
<1>7. \A j \in 1 .. Len(r) : g[j] \in DOMAIN makers /\ g[j] \in Nat
  BY <1>1, <1>3
<1>8. \A j \in 1 .. Len(r) : /\ r[j].orderId = makers[g[j]].orderId
                             /\ r[j].quantity = makers[g[j]].quantity - taken[g[j]]
  BY <1>1, <1>5, <1>7
<1>9. \A i \in DOMAIN makers : taken[i] < makers[i].quantity =>
        \E j \in DOMAIN r : /\ r[j].orderId = makers[i].orderId
                            /\ r[j].quantity = makers[i].quantity - taken[i]
  <2> SUFFICES ASSUME NEW i \in DOMAIN makers, taken[i] < makers[i].quantity
               PROVE  \E j \in DOMAIN r : /\ r[j].orderId = makers[i].orderId
                                           /\ r[j].quantity = makers[i].quantity - taken[i]
    OBVIOUS
  <2>1. i \in P
    BY <1>3
  <2>2. PICK j \in 1 .. Len(r) : g[j] = i
    BY <1>5, <2>1
  <2> QED
    BY <1>6, <1>8, <2>2
<1>10. ASSUME Once(makers), NEW i \in 1 .. Len(r), NEW j \in 1 .. Len(r), r[i].orderId = r[j].orderId
       PROVE  i = j
  <2>1. g[i] = g[j]
    BY <1>7, <1>8, <1>10 DEF Once
  <2> QED
    BY <1>5, <1>6, <1>7, <2>1
<1>11. \A j \in DOMAIN r : \E i \in DOMAIN makers :
         /\ r[j].orderId = makers[i].orderId
         /\ r[j].quantity = makers[i].quantity - taken[i]
  BY <1>6, <1>7, <1>8
<1>12. r \in Seq(BookOrder)
  BY <1>1, <1>2, <1>3, SelectionType
<1>13. Once(makers) => Once(r)
  BY <1>6, <1>10 DEF Once
<1> QED
  BY <1>9, <1>11, <1>12, <1>13 DEF r, f

\* A cancel.
LEMMA WithoutFacts ==
  ASSUME NEW orders \in Seq(BookOrder), NEW id
  PROVE  LET r == Engine!Without(orders, id)
         IN /\ r \in Seq(BookOrder)
            /\ \A j \in DOMAIN r : \E i \in DOMAIN orders : r[j] = orders[i] /\ orders[i].orderId # id
            /\ \A i \in DOMAIN orders : orders[i].orderId # id => \E j \in DOMAIN r : r[j] = orders[i]
            /\ Once(orders) => Once(r)
<1> DEFINE P == Others(orders, id)
           r == Engine!Without(orders, id)
<1>1. Len(orders) \in Nat /\ DOMAIN orders = 1 .. Len(orders) /\ \A i \in DOMAIN orders : orders[i] \in BookOrder
  OBVIOUS
<1>2. IsSelection(r, orders, P)
  BY <1>1, WithoutSelects
<1>3. P = {i \in DOMAIN orders : orders[i].orderId # id}
  BY DEF Others
<1> HIDE DEF P, r
<1>4. /\ IsSeq(r)
      /\ \E g \in [1 .. Len(r) -> P] :
           /\ \A i, j \in 1 .. Len(r) : i < j => g[i] < g[j]
           /\ \A j \in 1 .. Len(r) : r[j] = orders[g[j]]
           /\ \A i \in P : \E j \in 1 .. Len(r) : g[j] = i
  BY <1>2 DEF IsSelection
<1>5. PICK g \in [1 .. Len(r) -> P] :
        /\ \A i, j \in 1 .. Len(r) : i < j => g[i] < g[j]
        /\ \A j \in 1 .. Len(r) : r[j] = orders[g[j]]
        /\ \A i \in P : \E j \in 1 .. Len(r) : g[j] = i
  BY <1>4
<1>6. DOMAIN r = 1 .. Len(r) /\ Len(r) \in Nat
  BY <1>4, SeqBasics
<1>7. \A j \in 1 .. Len(r) : g[j] \in DOMAIN orders /\ orders[g[j]].orderId # id /\ g[j] \in Nat
  BY <1>1, <1>3
<1>8. \A j \in DOMAIN r : \E i \in DOMAIN orders : r[j] = orders[i] /\ orders[i].orderId # id
  BY <1>5, <1>6, <1>7
<1>9. \A i \in DOMAIN orders : orders[i].orderId # id => \E j \in DOMAIN r : r[j] = orders[i]
  BY <1>3, <1>5, <1>6
<1>10. ASSUME Once(orders), NEW i \in 1 .. Len(r), NEW j \in 1 .. Len(r), r[i].orderId = r[j].orderId
       PROVE  i = j
  <2>1. g[i] = g[j]
    BY <1>5, <1>7, <1>10 DEF Once
  <2> QED
    BY <1>5, <1>6, <1>7, <2>1
<1>11. r \in Seq(BookOrder)
  BY <1>1, <1>2, <1>3, SelectionType
<1>12. Once(orders) => Once(r)
  BY <1>6, <1>10 DEF Once
<1> QED
  BY <1>8, <1>9, <1>11, <1>12 DEF r

\* An order that comes to rest.
LEMMA EnqueueFacts ==
  ASSUME NEW orders \in Seq(BookOrder), NEW s, NEW o \in BookOrder
  PROVE  LET r == Engine!Enqueue(orders, s, o)
         IN /\ r \in Seq(BookOrder)
            /\ \A j \in DOMAIN r : r[j] = o \/ \E i \in DOMAIN orders : r[j] = orders[i]
            /\ \A i \in DOMAIN orders : \E j \in DOMAIN r : r[j] = orders[i]
            /\ \E j \in DOMAIN r : r[j] = o
            /\ Once(orders) /\ (\A i \in DOMAIN orders : orders[i].orderId # o.orderId) => Once(r)
<1> DEFINE ahead == {i \in DOMAIN orders : IF s = "BID" THEN orders[i].price >= o.price
                                           ELSE orders[i].price <= o.price}
           c == Cardinality(ahead)
           r == Engine!InsertAt(orders, c + 1, o)
           n == Len(orders)
<1>1. n \in Nat /\ DOMAIN orders = 1 .. n
  OBVIOUS
<1>2. c \in 0 .. n
  <2>1. IsFiniteSet(1 .. n) /\ Cardinality(1 .. n) = n
    BY <1>1, FS_Interval
  <2>2. ahead \subseteq 1 .. n
    BY <1>1
  <2> HIDE DEF ahead
  <2>3. c <= n /\ IsFiniteSet(ahead)
    BY <2>1, <2>2, FS_Subset
  <2>4. c \in Nat
    BY <2>3, FS_CardinalityType
  <2> QED
    BY <1>1, <2>3, <2>4
<1>3. Engine!Enqueue(orders, s, o) = r
  <2>1. Engine!Cardinality(ahead) = Cardinality(ahead)
    BY EngineCardinality
  <2>2. Engine!Enqueue(orders, s, o) = Engine!InsertAt(orders, Engine!Cardinality(ahead) + 1, o)
    BY DEF Engine!Enqueue
  <2> HIDE DEF ahead
  <2> QED
    BY <2>1, <2>2
<1> HIDE DEF c, ahead
<1>4. /\ r \in Seq(BookOrder) /\ Len(r) = n + 1
      /\ \A j \in 1 .. c : r[j] = orders[j]
      /\ r[c + 1] = o
      /\ \A j \in c + 1 .. n : r[j + 1] = orders[j]
  <2> HIDE DEF BookOrder
  <2> DEFINE p == c + 1
  <2>1. orders \in Seq(BookOrder) /\ p \in 1 .. Len(orders) + 1 /\ o \in BookOrder /\ c = p - 1
    BY <1>1, <1>2
  <2>2. r = Engine!InsertAt(orders, p, o)
    OBVIOUS
  <2> HIDE DEF p
  <2>3. /\ r \in Seq(BookOrder) /\ Len(r) = n + 1
        /\ \A j \in 1 .. p - 1 : r[j] = orders[j]
        /\ r[p] = o
        /\ \A j \in p .. n : r[j + 1] = orders[j]
    BY ONLY <2>1, <2>2, InsertFacts
  <2> QED
    BY <2>1, <2>3 DEF p
<1> HIDE DEF r
<1>5. DOMAIN r = 1 .. n + 1 /\ c + 1 \in DOMAIN r /\ c \in Nat /\ c <= n
  BY <1>1, <1>2, <1>4
<1> DEFINE Of(j) == IF j <= c THEN j ELSE j - 1
<1> HIDE DEF n
<1>6. \A j \in DOMAIN r : j = c + 1 \/ (Of(j) \in 1 .. n /\ r[j] = orders[Of(j)] /\ j # c + 1)
  <2> TAKE j \in DOMAIN r
  <2>1. CASE j <= c
    <3>1. j \in 1 .. c /\ j \in 1 .. n /\ j # c + 1
      BY <1>1, <1>5, <2>1
    <3> QED
      BY <1>4, <2>1, <3>1
  <2>2. CASE j > c + 1
    <3>1. j - 1 \in c + 1 .. n /\ j - 1 \in 1 .. n /\ (j - 1) + 1 = j /\ ~(j <= c) /\ j # c + 1
      BY <1>1, <1>5, <2>2
    <3>2. r[(j - 1) + 1] = orders[j - 1]
      BY <1>4, <3>1
    <3> QED
      BY <3>1, <3>2
  <2> QED
    BY <1>1, <1>5, <2>1, <2>2
<1>7. \A i \in 1 .. n : \E j \in DOMAIN r : r[j] = orders[i]
  <2> TAKE i \in 1 .. n
  <2>1. CASE i <= c
    <3>1. i \in 1 .. c /\ i \in DOMAIN r
      BY <1>1, <1>5, <2>1
    <3> QED
      BY <1>4, <3>1
  <2>2. CASE i > c
    <3>1. i \in c + 1 .. n /\ i + 1 \in DOMAIN r
      BY <1>1, <1>5, <2>2
    <3> QED
      BY <1>4, <3>1
  <2> QED
    BY <1>1, <1>5, <2>1, <2>2
<1>8. ASSUME Once(orders), \A i \in DOMAIN orders : orders[i].orderId # o.orderId PROVE Once(r)
  <2> SUFFICES ASSUME NEW i \in DOMAIN r, NEW j \in DOMAIN r, r[i].orderId = r[j].orderId PROVE i = j
    BY DEF Once
  <2>1. CASE i = c + 1 \/ j = c + 1
    BY <1>1, <1>4, <1>6, <1>8, <2>1
  <2>2. CASE i # c + 1 /\ j # c + 1
    <3>1. Of(i) = Of(j)
      <4> HIDE DEF Of
      <4> QED
        BY <1>1, <1>6, <1>8, <2>2 DEF Once
    <3> QED
      BY <1>1, <1>5, <2>2, <3>1
  <2> QED
    BY <2>1, <2>2
<1>9. \A j \in DOMAIN r : r[j] = o \/ \E i \in DOMAIN orders : r[j] = orders[i]
  BY <1>1, <1>4, <1>6
<1> QED
  BY <1>1, <1>3, <1>4, <1>5, <1>7, <1>8, <1>9

\* The orders that rest, as a record tells of them.
After(q) ==
  {[id |-> o.orderId, remaining |-> o.quantity] : o \in ToSet(q["BID"]) \cup ToSet(q["ASK"])}

Entry(q, s, i) == [id |-> q[s][i].orderId, remaining |-> q[s][i].quantity]

LEMMA AfterMeaning ==
  ASSUME NEW q, NEW a
  PROVE  a \in After(q) <=> \E s \in {"BID", "ASK"} : \E i \in DOMAIN q[s] : a = Entry(q, s, i)
BY DEF After, Entry, ToSet

LEMMA AfterIds ==
  ASSUME BookInv
  PROVE  /\ \A a, b \in After(queue) : a.id = b.id => a = b
         /\ \A a \in After(queue) : a.id \in used /\ a.remaining \in Nat \ {0} /\ a.id \in Nat
                                    /\ a = [id |-> a.id, remaining |-> a.remaining]
<1>1. \A s \in {"BID", "ASK"} : \A i \in DOMAIN queue[s] :
        queue[s][i].quantity \in Nat \ {0} /\ queue[s][i].orderId \in used
  BY BookOrderType DEF BookInv
<1>2. used \subseteq Nat
  BY DEF BookInv
<1>3. ASSUME NEW a \in After(queue)
      PROVE  a.id \in used /\ a.remaining \in Nat \ {0} /\ a.id \in Nat
             /\ a = [id |-> a.id, remaining |-> a.remaining]
  <2>1. PICK s \in {"BID", "ASK"} : \E i \in DOMAIN queue[s] : a = Entry(queue, s, i)
    BY AfterMeaning
  <2>a. PICK i \in DOMAIN queue[s] : a = Entry(queue, s, i)
    BY <2>1
  <2>2. a.id = queue[s][i].orderId /\ a.remaining = queue[s][i].quantity
        /\ a = [id |-> a.id, remaining |-> a.remaining]
    BY <2>a DEF Entry
  <2> QED
    BY <1>1, <1>2, <2>2
<1>4. ASSUME NEW a \in After(queue), NEW b \in After(queue), a.id = b.id
      PROVE  a = b
  <2>1. PICK s \in {"BID", "ASK"} : \E i \in DOMAIN queue[s] : a = Entry(queue, s, i)
    BY AfterMeaning
  <2>a. PICK i \in DOMAIN queue[s] : a = Entry(queue, s, i)
    BY <2>1
  <2>2. PICK o \in {"BID", "ASK"} : \E j \in DOMAIN queue[o] : b = Entry(queue, o, j)
    BY AfterMeaning
  <2>b. PICK j \in DOMAIN queue[o] : b = Entry(queue, o, j)
    BY <2>2
  <2>3. queue[s][i].orderId = queue[o][j].orderId
    BY <1>4, <2>a, <2>b DEF Entry
  <2>4. s = o
    BY <2>3 DEF BookInv, Apart
  <2>5. i = j
    BY <2>3, <2>4 DEF BookInv, Once
  <2> QED
    BY <2>a, <2>b, <2>4, <2>5
<1> QED
  BY <1>3, <1>4

-----------------------------------------------------------------------------
(* A submission                                                            *)

SubmitShape(s, o, taken, id, side, price, quantity) ==
  /\ s # o /\ id \notin used /\ used' = used \cup {id} /\ reply'.orderId = id
  /\ \A i \in DOMAIN queue[o] : taken[i] <= queue[o][i].quantity
  /\ trades' = Engine!Present(FillsOf(queue[o], taken, side, id))
  /\ \/ /\ reply'.status \in {"QUEUED", "PARTIAL"}
        /\ reply'.filledQuantity \in Nat /\ reply'.filledQuantity < quantity
        /\ queue' = [queue EXCEPT
             ![o] = Engine!Present(LeftOf(queue[o], taken)),
             ![s] = Engine!Enqueue(@, s, [orderId |-> id, price |-> price,
                                          quantity |-> quantity - reply'.filledQuantity])]
     \/ /\ reply'.status \notin {"QUEUED", "PARTIAL"}
        /\ queue' = [queue EXCEPT ![o] = Engine!Present(LeftOf(queue[o], taken)), ![s] = @]

LEMMA SubmitTakes ==
  ASSUME BookInv, NEW id \in Nat, NEW side \in {"BID", "ASK"}, NEW type, NEW price, NEW quantity \in Nat,
         Engine!Submit(id, side, type, price, quantity)
  PROVE  \E s, o \in {"BID", "ASK"} : \E taken \in [DOMAIN queue[o] -> Nat] :
           SubmitShape(s, o, taken, id, side, price, quantity)
<1> DEFINE s == Engine!Own(side)
           o == Engine!Other(s)
           makers == queue[o]
           taken == [i \in DOMAIN makers |-> Engine!Taken(makers, i, s, type, price, quantity)]
           fills == Engine!Present([i \in DOMAIN makers |->
                      [price |-> makers[i].price, quantity |-> taken[i],
                       aggressorSide |-> side, aggressorOrderId |-> id,
                       restingOrderId |-> makers[i].orderId]])
           left == Engine!Present([i \in DOMAIN makers |->
                     [makers[i] EXCEPT !.quantity = @ - taken[i]]])
           filled == Engine!TotalQuantity(fills)
           rests == filled < quantity /\ type # "MARKET"
<1>1. /\ id \notin used
      /\ used' = used \cup {id}
      /\ queue' = [queue EXCEPT
           ![o] = left,
           ![s] = IF rests
                  THEN Engine!Enqueue(@, s, [orderId |-> id, price |-> price,
                                             quantity |-> quantity - filled])
                  ELSE @]
      /\ trades' = fills
      /\ \E n : reply' = [orderId |-> id,
                  status |-> CASE filled = quantity -> "FILLED"
                               [] rests /\ filled = 0 -> "QUEUED"
                               [] rests /\ filled > 0 -> "PARTIAL"
                               [] OTHER -> "REJECTED",
                  filledQuantity |-> filled,
                  filledNotional |-> n,
                  cancelSuccessful |-> FALSE]
  <2> HIDE DEF taken, fills, left, filled
  <2> QED
    BY Zenon DEF Engine!Submit, taken, fills, left, filled
<1>2. s \in {"BID", "ASK"} /\ o \in {"BID", "ASK"} /\ s # o
  BY DEF Engine!Own, Engine!Other
<1> HIDE DEF s, o
<1>3. makers \in Seq(BookOrder) /\ queue[s] \in Seq(BookOrder) /\ queue \in [{"BID", "ASK"} -> Seq(BookOrder)]
  BY <1>2 DEF BookInv
<1>4. \A i \in DOMAIN makers : taken[i] \in 0 .. makers[i].quantity
  BY <1>3, TakenRange
<1>5. \A i \in DOMAIN makers : makers[i].quantity \in Nat
  BY <1>3, BookOrderType
<1>6. taken \in [DOMAIN makers -> Nat] /\ \A i \in DOMAIN makers : taken[i] <= makers[i].quantity
  <2>1. DOMAIN taken = DOMAIN makers /\ taken = [i \in DOMAIN makers |-> taken[i]]
    OBVIOUS
  <2> HIDE DEF taken, makers
  <2> QED
    BY <1>4, <1>5, <2>1
<1>7. fills = Engine!Present(FillsOf(makers, taken, side, id)) /\ left = Engine!Present(LeftOf(makers, taken))
  <2> HIDE DEF taken, makers
  <2> QED
    BY Zenon DEF FillsOf, LeftOf
<1> HIDE DEF taken, left, fills
<1>8. filled \in Nat
  <2> DEFINE r == Engine!Present(FillsOf(makers, taken, side, id))
  <2>1. /\ IsSeq(r)
        /\ \A j \in DOMAIN r : \E i \in DOMAIN makers :
             /\ r[j].restingOrderId = makers[i].orderId /\ r[j].quantity = taken[i]
             /\ taken[i] > 0
    BY <1>3, <1>6, FillFacts DEF FillsMatch
  <2> HIDE DEF r
  <2>2. Len(r) \in Nat /\ DOMAIN r = 1 .. Len(r)
    BY <2>1, SeqBasics
  <2>3. \A j \in 1 .. Len(r) : r[j].quantity \in Nat
    BY <1>6, <2>1, <2>2
  <2>4. Engine!TotalQuantity(r) \in Nat
    BY <2>2, <2>3, QuantityType
  <2> QED
    BY <1>7, <2>4 DEF r
<1> HIDE DEF filled
<1>9. reply'.orderId = id /\ reply'.filledQuantity = filled
      /\ reply'.status = (CASE filled = quantity -> "FILLED"
                               [] rests /\ filled = 0 -> "QUEUED"
                               [] rests /\ filled > 0 -> "PARTIAL"
                               [] OTHER -> "REJECTED")
  BY <1>1
<1>10. CASE rests
  <2>1. filled < quantity
    BY <1>10
  <2>2. filled = 0 \/ filled > 0
    BY <1>8
  <2>3. ~(filled = quantity) /\ ~(filled = 0 /\ filled > 0)
    BY <1>8, <2>1
  <2>4. reply'.status \in {"QUEUED", "PARTIAL"}
    BY <1>9, <1>10, <2>2, <2>3
  <2>5. queue' = [queue EXCEPT
           ![o] = left,
           ![s] = Engine!Enqueue(@, s, [orderId |-> id, price |-> price,
                                             quantity |-> quantity - filled])]
    BY <1>1, <1>10, Zenon
  <2> QED
    BY <1>1, <1>2, <1>6, <1>7, <1>8, <1>9, <2>1, <2>4, <2>5, Zenon DEF SubmitShape
<1>11. CASE ~rests
  <2>1. reply'.status \notin {"QUEUED", "PARTIAL"}
    BY <1>9, <1>11
  <2>2. queue' = [queue EXCEPT ![o] = left, ![s] = @]
    BY <1>1, <1>11, Zenon
  <2> QED
    BY <1>1, <1>2, <1>6, <1>7, <1>9, <2>1, <2>2, Zenon DEF SubmitShape
<1> QED
  BY <1>10, <1>11

\* What the queues hold afterwards.
SubmitOutcome(s, o, taken, id, side, quantity) ==
  /\ s # o /\ id \notin used /\ used' = used \cup {id} /\ reply'.orderId = id
  /\ \A i \in DOMAIN queue[o] : taken[i] <= queue[o][i].quantity
  /\ trades' = Engine!Present(FillsOf(queue[o], taken, side, id))
  /\ queue' \in [{"BID", "ASK"} -> Seq(BookOrder)]
  /\ queue'[o] = Engine!Present(LeftOf(queue[o], taken))
  /\ Once(queue'[s]) /\ Once(queue'[o])
  /\ \A i \in DOMAIN queue[s] : \E j \in DOMAIN queue'[s] : queue'[s][j] = queue[s][i]
  /\ \/ /\ reply'.status \in {"QUEUED", "PARTIAL"}
        /\ reply'.filledQuantity \in Nat /\ reply'.filledQuantity < quantity
        /\ \A j \in DOMAIN queue'[s] :
             \/ /\ queue'[s][j].orderId = id
                /\ queue'[s][j].quantity = quantity - reply'.filledQuantity
             \/ \E i \in DOMAIN queue[s] : queue'[s][j] = queue[s][i]
        /\ \E j \in DOMAIN queue'[s] :
             /\ queue'[s][j].orderId = id
             /\ queue'[s][j].quantity = quantity - reply'.filledQuantity
     \/ /\ reply'.status \notin {"QUEUED", "PARTIAL"}
        /\ queue'[s] = queue[s]

SubmitOutcomes(id, side, quantity) ==
  \E s, o \in {"BID", "ASK"} : \E taken \in [DOMAIN queue[o] -> Nat] :
    SubmitOutcome(s, o, taken, id, side, quantity)

LEMMA SubmitQueues ==
  ASSUME BookInv, NEW id \in Nat, NEW side \in {"BID", "ASK"}, NEW type, NEW price \in Nat,
         NEW quantity \in Nat, Engine!Submit(id, side, type, price, quantity)
  PROVE  SubmitOutcomes(id, side, quantity)
<1>0. SUFFICES \E s, o \in {"BID", "ASK"} : \E taken \in [DOMAIN queue[o] -> Nat] :
                 SubmitOutcome(s, o, taken, id, side, quantity)
  BY DEF SubmitOutcomes
<1>1. PICK s \in {"BID", "ASK"}, o \in {"BID", "ASK"} : \E taken \in [DOMAIN queue[o] -> Nat] :
           SubmitShape(s, o, taken, id, side, price, quantity)
  BY SubmitTakes, ZenonT(60)
<1>2. PICK taken \in [DOMAIN queue[o] -> Nat] : SubmitShape(s, o, taken, id, side, price, quantity)
  BY <1>1
<1>a. /\ s # o /\ id \notin used /\ used' = used \cup {id} /\ reply'.orderId = id
      /\ \A i \in DOMAIN queue[o] : taken[i] <= queue[o][i].quantity
      /\ trades' = Engine!Present(FillsOf(queue[o], taken, side, id))
  BY <1>2 DEF SubmitShape
<1> DEFINE left == Engine!Present(LeftOf(queue[o], taken))
           filled == reply'.filledQuantity
           new == [orderId |-> id, price |-> price, quantity |-> quantity - filled]
           behind == Engine!Enqueue(queue[s], s, new)
<1>3. /\ queue \in [{"BID", "ASK"} -> Seq(BookOrder)] /\ queue[s] \in Seq(BookOrder)
      /\ queue[o] \in Seq(BookOrder) /\ Once(queue[s]) /\ Once(queue[o])
      /\ \A i \in DOMAIN queue[s] : queue[s][i].orderId \in used
  BY DEF BookInv
<1>4. left \in Seq(BookOrder) /\ Once(left)
  BY <1>a, <1>3, LeftFacts
<1>5. \A j \in DOMAIN queue[s] : queue[s][j].orderId # id
  BY <1>a, <1>3
<1> HIDE DEF left
<1>6. CASE reply'.status \in {"QUEUED", "PARTIAL"}
  <2>1. filled \in Nat /\ filled < quantity /\ queue' = [queue EXCEPT ![o] = left, ![s] = behind]
    BY <1>2, <1>6, Zenon DEF left, SubmitShape
  <2>2. new \in BookOrder /\ new.orderId = id /\ new.quantity = quantity - filled
    <3>1. quantity - filled \in Nat \ {0}
      BY <2>1
    <3> QED
      BY <3>1 DEF BookOrder
  <2> HIDE DEF new
  <2>3. /\ behind \in Seq(BookOrder)
        /\ \A j \in DOMAIN behind : behind[j] = new \/ \E i \in DOMAIN queue[s] : behind[j] = queue[s][i]
        /\ \A i \in DOMAIN queue[s] : \E j \in DOMAIN behind : behind[j] = queue[s][i]
        /\ \E j \in DOMAIN behind : behind[j] = new
        /\ Once(queue[s]) /\ (\A i \in DOMAIN queue[s] : queue[s][i].orderId # new.orderId) => Once(behind)
    BY <1>3, <2>2, EnqueueFacts
  <2> HIDE DEF behind
  <2>4. Once(behind)
    BY <1>3, <1>5, <2>2, <2>3
  <2>5. queue'[s] = behind /\ queue'[o] = left
    BY <1>a, <1>3, <2>1
  <2>6. queue' \in [{"BID", "ASK"} -> Seq(BookOrder)]
    BY <1>3, <1>4, <2>1, <2>3
  <2>7. \A j \in DOMAIN behind : \/ behind[j].orderId = id /\ behind[j].quantity = quantity - filled
                                 \/ \E i \in DOMAIN queue[s] : behind[j] = queue[s][i]
    BY <2>2, <2>3
  <2>8. \E j \in DOMAIN behind : behind[j].orderId = id /\ behind[j].quantity = quantity - filled
    BY <2>2, <2>3
  <2> WITNESS s \in {"BID", "ASK"}, o \in {"BID", "ASK"}
  <2> WITNESS taken \in [DOMAIN queue[o] -> Nat]
  <2>10. queue'[o] = Engine!Present(LeftOf(queue[o], taken)) /\ Once(queue'[s]) /\ Once(queue'[o])
    BY <1>4, <2>4, <2>5 DEF left
  <2> QED
    BY <1>6, <2>1, <2>3, <2>5, <2>6, <2>7, <2>8, <1>a, <2>10, Zenon DEF filled, SubmitOutcome
<1>7. CASE reply'.status \notin {"QUEUED", "PARTIAL"}
  <2>1. queue' = [queue EXCEPT ![o] = left, ![s] = queue[s]]
    BY <1>2, <1>7, Zenon DEF left, SubmitShape
  <2>2. queue'[s] = queue[s] /\ queue'[o] = left /\ queue' \in [{"BID", "ASK"} -> Seq(BookOrder)]
    BY <1>a, <1>3, <1>4, <2>1
  <2>3. \A i \in DOMAIN queue[s] : \E j \in DOMAIN queue'[s] : queue'[s][j] = queue[s][i]
    BY <2>2
  <2> WITNESS s \in {"BID", "ASK"}, o \in {"BID", "ASK"}
  <2> WITNESS taken \in [DOMAIN queue[o] -> Nat]
  <2>10. queue'[o] = Engine!Present(LeftOf(queue[o], taken)) /\ Once(queue'[s]) /\ Once(queue'[o])
    BY <1>3, <1>4, <2>2 DEF left
  <2> QED
    BY <1>7, <1>a, <2>2, <2>3, <2>10, Zenon DEF SubmitOutcome
<1> QED
  BY <1>6, <1>7

\* What a record says: an order came to rest, with this much of it; a trade of it
\* hit an order; a cancel named one.
Rests(r) == r.op = "submit" /\ r.reply.status \in {"QUEUED", "PARTIAL"}
Rest(r) == r.order.quantity - r.reply.filledQuantity
Hit(r, j, id) == r.trades[j].restingOrderId = id
Untouched(r, id) == (\A j \in DOMAIN r.trades : ~Hit(r, j, id)) /\ (r.op = "cancel" => id # r.reply.orderId)

\* Its trades are with different orders of those that rested before, ...
TradesFollow(prev, r) ==
  /\ IsSeq(r.trades)
  /\ \A j \in DOMAIN r.trades :
       \E b \in prev : Hit(r, j, b.id) /\ r.trades[j].quantity \in 1 .. b.remaining
  /\ \A i, j \in DOMAIN r.trades : r.trades[i].restingOrderId = r.trades[j].restingOrderId => i = j
  /\ r.op = "cancel" => r.trades = <<>>

\* ... what rests afterwards came to rest with it or is what it left of one of
\* those, ...
AfterFollows(prev, r) ==
  \A a \in r.after :
    \/ Rests(r) /\ a.id = r.reply.orderId /\ a.remaining = Rest(r)
    \/ \E b \in prev :
         /\ b.id = a.id
         /\ \/ a.remaining = b.remaining /\ Untouched(r, a.id)
            \/ \E j \in DOMAIN r.trades : Hit(r, j, a.id) /\ a.remaining = b.remaining - r.trades[j].quantity

\* ... and nothing else is gone.
BeforeFollows(prev, r) ==
  /\ \A b \in prev :
       /\ Untouched(r, b.id) => b \in r.after
       /\ \A j \in DOMAIN r.trades : Hit(r, j, b.id) /\ r.trades[j].quantity < b.remaining =>
            [id |-> b.id, remaining |-> b.remaining - r.trades[j].quantity] \in r.after
  /\ Rests(r) => /\ [id |-> r.reply.orderId, remaining |-> Rest(r)] \in r.after /\ Rest(r) \in Nat \ {0}
                 /\ \A b \in prev : b.id # r.reply.orderId
  /\ r.op = "cancel" /\ ~r.reply.cancelSuccessful => \A b \in prev : b.id # r.reply.orderId

Orders2(S) == /\ \A a \in S : a.id \in Nat /\ a.remaining \in Nat \ {0} /\ a = [id |-> a.id, remaining |-> a.remaining]
              /\ \A a, b \in S : a.id = b.id => a = b

Follows(prev, r) ==
  /\ TradesFollow(prev, r) /\ AfterFollows(prev, r) /\ BeforeFollows(prev, r)
  /\ Orders2(prev) /\ Orders2(r.after)

LEMMA OrdersDiffer == BookInv => Orders2(After(queue))
BY AfterIds DEF Orders2

LEMMA OrdersDifferNext == (BookInv => Orders2(After(queue)))'
BY OrdersDiffer, PTL

LEMMA SubmitFollows ==
  ASSUME BookInv, NEW id \in Nat, NEW side \in {"BID", "ASK"}, NEW type, NEW price \in Nat,
         NEW quantity \in Nat, Engine!Submit(id, side, type, price, quantity),
         NEW r, r.op = "submit", r.reply = reply', r.trades = trades', r.order.quantity = quantity,
         r.after = After(queue')
  PROVE  /\ BookInv' /\ Follows(After(queue), r)
         /\ used' = used \cup {id} /\ id \notin used /\ r.reply.orderId = id
<1>0. SubmitOutcomes(id, side, quantity)
  BY SubmitQueues
<1>1. PICK s \in {"BID", "ASK"}, o \in {"BID", "ASK"} : \E taken \in [DOMAIN queue[o] -> Nat] :
        SubmitOutcome(s, o, taken, id, side, quantity)
  BY <1>0 DEF SubmitOutcomes
<1>2. PICK taken \in [DOMAIN queue[o] -> Nat] : SubmitOutcome(s, o, taken, id, side, quantity)
  BY <1>1
<1> DEFINE rest == quantity - reply'.filledQuantity
           rests == reply'.status \in {"QUEUED", "PARTIAL"}
           makers == queue[o]
           T == trades'
           left == queue'[o]
           own == queue'[s]
\* The book.
<1>3. /\ queue \in [{"BID", "ASK"} -> Seq(BookOrder)] /\ makers \in Seq(BookOrder)
      /\ queue[s] \in Seq(BookOrder) /\ Once(queue[s]) /\ Once(makers)
      /\ \A i \in DOMAIN queue[s] : queue[s][i].orderId \in used
      /\ \A i \in DOMAIN makers : makers[i].orderId \in used
      /\ Apart(queue[s], makers) /\ used \subseteq Nat /\ IsFiniteSet(used)
      /\ taken \in [DOMAIN makers -> Nat]
  BY <1>2 DEF BookInv, SubmitOutcome
<1>4. /\ \A x \in {"BID", "ASK"} : x = s \/ x = o
      /\ s # o /\ id \notin used /\ used' = used \cup {id} /\ reply'.orderId = id
      /\ \A i \in DOMAIN makers : taken[i] <= makers[i].quantity
  BY <1>2 DEF SubmitOutcome
<1>5. /\ left \in Seq(BookOrder)
      /\ \A j \in DOMAIN left : \E i \in DOMAIN makers :
           left[j].orderId = makers[i].orderId /\ left[j].quantity = makers[i].quantity - taken[i]
      /\ \A i \in DOMAIN makers : taken[i] < makers[i].quantity =>
           \E j \in DOMAIN left : /\ left[j].orderId = makers[i].orderId
                                  /\ left[j].quantity = makers[i].quantity - taken[i]
      /\ Once(left)
  <2>1. left = Engine!Present(LeftOf(makers, taken))
    BY <1>2 DEF SubmitOutcome
  <2>2. makers \in Seq(BookOrder) /\ taken \in [DOMAIN makers -> Nat] /\ Once(makers)
    BY <1>3
  <2> HIDE DEF left, makers
  <2> QED
    BY ONLY <1>4, <2>1, <2>2, LeftFacts
<1>6. /\ IsSeq(T)
      /\ \A j \in DOMAIN T : \E i \in DOMAIN makers :
           /\ T[j].restingOrderId = makers[i].orderId /\ T[j].quantity = taken[i]
           /\ taken[i] > 0
      /\ \A i \in DOMAIN makers : taken[i] > 0 =>
           \E j \in DOMAIN T : T[j].restingOrderId = makers[i].orderId /\ T[j].quantity = taken[i]
      /\ \A i, j \in DOMAIN T : T[i].restingOrderId = T[j].restingOrderId => i = j
  <2>1. T = Engine!Present(FillsOf(makers, taken, side, id))
    BY <1>2 DEF SubmitOutcome
  <2>2. makers \in Seq(BookOrder) /\ taken \in [DOMAIN makers -> Nat] /\ Once(makers)
    BY <1>3
  <2> HIDE DEF T, makers
  <2>3. FillsMatch(T, makers, taken)
    BY <2>1, <2>2, FillFacts
  <2> QED
    BY <2>2, <2>3 DEF FillsMatch
<1>7. /\ own \in Seq(BookOrder) /\ Once(own)
      /\ \A i \in DOMAIN queue[s] : \E j \in DOMAIN own : own[j] = queue[s][i]
      /\ \A j \in DOMAIN own : \/ rests /\ own[j].orderId = id /\ own[j].quantity = rest
                               \/ \E i \in DOMAIN queue[s] : own[j] = queue[s][i]
      /\ rests => /\ rest \in Nat \ {0}
                  /\ \E j \in DOMAIN own : own[j].orderId = id /\ own[j].quantity = rest
  <2>1. own \in Seq(BookOrder) /\ Once(own) /\ \A i \in DOMAIN queue[s] : \E j \in DOMAIN own : own[j] = queue[s][i]
    BY <1>2 DEF SubmitOutcome
  <2>2. CASE rests
    <3>1. rest \in Nat \ {0}
      BY <1>2, <2>2 DEF SubmitOutcome
    <3> QED
      BY <1>2, <2>1, <2>2, <3>1 DEF SubmitOutcome
  <2>3. CASE ~rests
    BY <1>2, <2>1, <2>3 DEF SubmitOutcome
  <2> QED
    BY <2>2, <2>3
<1>8. queue' \in [{"BID", "ASK"} -> Seq(BookOrder)]
  BY <1>2 DEF SubmitOutcome
<1>a. \A i \in DOMAIN makers : makers[i].quantity \in Nat /\ makers[i].quantity > 0 /\ makers[i].orderId \in Nat /\ taken[i] \in Nat
  BY <1>3, BookOrderType
<1>b. \A q : \A a : a \in After(q) <=> \E x \in {"BID", "ASK"} : \E i \in DOMAIN q[x] : a = Entry(q, x, i)
  BY AfterMeaning
<1> HIDE DEF rests, rest, makers, T, left, own
<1>9. BookInv'
  <2>1. \A j \in DOMAIN own : own[j].orderId \in used'
    BY <1>3, <1>4, <1>7
  <2>2. \A j \in DOMAIN left : left[j].orderId \in used'
    BY <1>3, <1>4, <1>5
  <2>3. Apart(own, left) /\ Apart(left, own)
    <3>1. ASSUME NEW j \in DOMAIN own, NEW k \in DOMAIN left, own[j].orderId = left[k].orderId PROVE FALSE
      <4>1. PICK i \in DOMAIN makers : left[k].orderId = makers[i].orderId
        BY <1>5
      <4>2. left[k].orderId # id
        BY <1>3, <1>4, <4>1
      <4>3. PICK m \in DOMAIN queue[s] : own[j] = queue[s][m]
        BY <1>7, <3>1, <4>2
      <4> QED
        BY <1>3, <3>1, <4>1, <4>3 DEF Apart
    <3> QED
      BY <3>1 DEF Apart
  <2>4. used' \subseteq Nat /\ IsFiniteSet(used')
    BY <1>3, <1>4, FS_AddElement
  <2>5. \A x \in {"BID", "ASK"} : Once(queue'[x]) /\ \A i \in DOMAIN queue'[x] : queue'[x][i].orderId \in used'
    BY <1>4, <1>5, <1>7, <2>1, <2>2 DEF own, left
  <2>6. \A x, y \in {"BID", "ASK"} : x # y => Apart(queue'[x], queue'[y])
    BY <1>4, <2>3 DEF own, left
  <2> QED
    BY <1>8, <2>4, <2>5, <2>6 DEF BookInv, Once, Apart
\* The orders.
<1>10. Orders2(After(queue)) /\ Orders2(After(queue')) /\ \A a \in After(queue) : a.id \in used
  <2>1. Orders2(After(queue)) /\ \A a \in After(queue) : a.id \in used
    BY AfterIds DEF Orders2
  <2> QED
    BY <1>9, <2>1, OrdersDifferNext DEF Orders2, After
<1>11. /\ r.op = "submit" /\ r.reply.orderId = id /\ r.trades = T
       /\ Rests(r) <=> rests
       /\ Rest(r) = rest
  BY <1>4 DEF Rests, Rest, T, rests, rest
\* Every order that rested, and what becomes of it.
<1>12. ASSUME NEW b \in After(queue)
       PROVE  \/ \E i \in DOMAIN queue[s] : b.id = queue[s][i].orderId /\ b.remaining = queue[s][i].quantity
              \/ \E i \in DOMAIN makers : b.id = makers[i].orderId /\ b.remaining = makers[i].quantity
  <2>1. PICK x \in {"BID", "ASK"} : \E i \in DOMAIN queue[x] : b = Entry(queue, x, i)
    BY <1>b
  <2>2. \E i \in DOMAIN queue[x] : b.id = queue[x][i].orderId /\ b.remaining = queue[x][i].quantity
    BY <2>1 DEF Entry
  <2> QED
    BY <1>4, <2>2 DEF makers
<1>13. ASSUME NEW a \in After(queue')
       PROVE  \/ \E j \in DOMAIN own : a.id = own[j].orderId /\ a.remaining = own[j].quantity
              \/ \E j \in DOMAIN left : a.id = left[j].orderId /\ a.remaining = left[j].quantity
  <2>1. PICK x \in {"BID", "ASK"} : \E i \in DOMAIN queue'[x] : a = Entry(queue', x, i)
    BY <1>b
  <2>2. \E i \in DOMAIN queue'[x] : a.id = queue'[x][i].orderId /\ a.remaining = queue'[x][i].quantity
    BY <2>1 DEF Entry
  <2> QED
    BY <1>4, <2>2 DEF own, left
<1>14. \A i \in DOMAIN queue[s] : [id |-> queue[s][i].orderId, remaining |-> queue[s][i].quantity] \in After(queue)
  BY <1>b DEF Entry
<1>15. \A i \in DOMAIN makers : [id |-> makers[i].orderId, remaining |-> makers[i].quantity] \in After(queue)
  BY <1>b DEF Entry, makers
<1>16. \A j \in DOMAIN own : [id |-> own[j].orderId, remaining |-> own[j].quantity] \in After(queue')
  BY <1>b DEF Entry, own
<1>17. \A j \in DOMAIN left : [id |-> left[j].orderId, remaining |-> left[j].quantity] \in After(queue')
  BY <1>b DEF Entry, left
\* Orders of the own side are not hit; those of the other side that are hit are
\* hit for what is taken.
<1>18. \A j \in DOMAIN T : \A i \in DOMAIN queue[s] : T[j].restingOrderId # queue[s][i].orderId
  BY <1>3, <1>6 DEF Apart
<1>19. ASSUME NEW j \in DOMAIN T, NEW i \in DOMAIN makers, T[j].restingOrderId = makers[i].orderId
       PROVE  T[j].quantity = taken[i] /\ taken[i] > 0
  <2>1. PICK k \in DOMAIN makers : T[j].restingOrderId = makers[k].orderId /\ T[j].quantity = taken[k] /\ taken[k] > 0
    BY <1>6
  <2>2. k = i
    BY <1>3, <1>19, <2>1 DEF Once
  <2> QED
    BY <2>1, <2>2
<1>20. TradesFollow(After(queue), r)
  <2>1. ASSUME NEW j \in DOMAIN T
        PROVE  \E b \in After(queue) : T[j].restingOrderId = b.id /\ T[j].quantity \in 1 .. b.remaining
    <3>1. PICK k \in DOMAIN makers : T[j].restingOrderId = makers[k].orderId /\ T[j].quantity = taken[k] /\ taken[k] > 0
      BY <1>6
    <3> DEFINE b == [id |-> makers[k].orderId, remaining |-> makers[k].quantity]
    <3>2. b \in After(queue) /\ b.id = T[j].restingOrderId /\ b.remaining = makers[k].quantity
      BY <1>15, <3>1
    <3>3. taken[k] \in 1 .. makers[k].quantity
      BY <1>4, <1>a, <3>1
    <3> QED
      BY <3>1, <3>2, <3>3
  <2> QED
    BY <1>6, <1>11, <2>1 DEF TradesFollow, Hit
<1>21. AfterFollows(After(queue), r)
  <2> SUFFICES ASSUME NEW a \in After(queue'), ~(rests /\ a.id = id /\ a.remaining = rest)
               PROVE  \E b \in After(queue) :
                        /\ b.id = a.id
                        /\ \/ a.remaining = b.remaining /\ \A j \in DOMAIN T : T[j].restingOrderId # a.id
                           \/ \E j \in DOMAIN T : T[j].restingOrderId = a.id /\ a.remaining = b.remaining - T[j].quantity
    BY <1>11 DEF AfterFollows, Hit, Untouched
  <2>1. ASSUME NEW j \in DOMAIN own, a.id = own[j].orderId, a.remaining = own[j].quantity
        PROVE  \E b \in After(queue) : b.id = a.id /\ a.remaining = b.remaining /\ \A k \in DOMAIN T : T[k].restingOrderId # a.id
    <3>1. PICK i \in DOMAIN queue[s] : own[j] = queue[s][i]
      BY <1>7, <2>1
    <3> DEFINE b == [id |-> queue[s][i].orderId, remaining |-> queue[s][i].quantity]
    <3>2. b \in After(queue) /\ b.id = a.id /\ b.remaining = a.remaining
      BY <1>14, <2>1, <3>1
    <3>3. \A k \in DOMAIN T : T[k].restingOrderId # a.id
      BY <1>18, <2>1, <3>1
    <3> QED
      BY <3>2, <3>3
  <2>2. ASSUME NEW k \in DOMAIN left, a.id = left[k].orderId, a.remaining = left[k].quantity
        PROVE  \E b \in After(queue) :
                        /\ b.id = a.id
                        /\ \/ a.remaining = b.remaining /\ \A j \in DOMAIN T : T[j].restingOrderId # a.id
                           \/ \E j \in DOMAIN T : T[j].restingOrderId = a.id /\ a.remaining = b.remaining - T[j].quantity
    <3>1. PICK i \in DOMAIN makers : left[k].orderId = makers[i].orderId /\ left[k].quantity = makers[i].quantity - taken[i]
      BY <1>5
    <3> DEFINE b == [id |-> makers[i].orderId, remaining |-> makers[i].quantity]
    <3>2. b \in After(queue) /\ b.id = a.id /\ b.remaining = makers[i].quantity
      BY <1>15, <2>2, <3>1
    <3> HIDE DEF b
    <3>3. a.remaining = b.remaining - taken[i]
      BY <2>2, <3>1, <3>2
    <3>4. CASE taken[i] = 0
      <4>1. \A j \in DOMAIN T : T[j].restingOrderId # a.id
        BY <1>19, <2>2, <3>1, <3>4
      <4>2. a.remaining = b.remaining
        BY <1>a, <3>2, <3>3, <3>4
      <4> QED
        BY <3>2, <4>1, <4>2
    <3>5. CASE taken[i] # 0
      <4>1. taken[i] > 0
        BY <1>a, <3>5
      <4>2. PICK j \in DOMAIN T : T[j].restingOrderId = makers[i].orderId /\ T[j].quantity = taken[i]
        BY <1>6, <4>1
      <4> QED
        BY <2>2, <3>1, <3>2, <3>3, <4>2
    <3> QED
      BY <3>4, <3>5
  <2> QED
    BY <1>13, <2>1, <2>2
<1>22. BeforeFollows(After(queue), r)
  <2>1. ASSUME NEW b \in After(queue), \A j \in DOMAIN T : T[j].restingOrderId # b.id
        PROVE  b \in After(queue')
    <3>0. b = [id |-> b.id, remaining |-> b.remaining]
      BY <1>10 DEF Orders2
    <3>1. ASSUME NEW i \in DOMAIN queue[s], b.id = queue[s][i].orderId, b.remaining = queue[s][i].quantity
          PROVE  b \in After(queue')
      <4>1. PICK j \in DOMAIN own : own[j] = queue[s][i]
        BY <1>7
      <4> QED
        BY <1>16, <3>0, <3>1, <4>1
    <3>2. ASSUME NEW i \in DOMAIN makers, b.id = makers[i].orderId, b.remaining = makers[i].quantity
          PROVE  b \in After(queue')
      <4>1. taken[i] = 0
        <5>1. ~(taken[i] > 0)
          BY <1>6, <2>1, <3>2
        <5> QED
          BY <1>a, <5>1
      <4>2. taken[i] < makers[i].quantity /\ makers[i].quantity - taken[i] = makers[i].quantity
        BY <1>a, <4>1
      <4>3. PICK j \in DOMAIN left : left[j].orderId = makers[i].orderId /\ left[j].quantity = makers[i].quantity
        BY <1>5, <4>2
      <4> QED
        BY <1>17, <3>0, <3>2, <4>3
    <3> QED
      BY <1>12, <3>1, <3>2
  <2>2. ASSUME NEW b \in After(queue), NEW j \in DOMAIN T, T[j].restingOrderId = b.id, T[j].quantity < b.remaining
        PROVE  [id |-> b.id, remaining |-> b.remaining - T[j].quantity] \in After(queue')
    <3>1. PICK i \in DOMAIN makers : b.id = makers[i].orderId /\ b.remaining = makers[i].quantity
      BY <1>12, <1>18, <2>2
    <3>2. T[j].quantity = taken[i]
      BY <1>19, <2>2, <3>1
    <3>3. PICK k \in DOMAIN left : left[k].orderId = makers[i].orderId /\ left[k].quantity = makers[i].quantity - taken[i]
      BY <1>5, <2>2, <3>1, <3>2
    <3> QED
      BY <1>17, <3>1, <3>2, <3>3
  <2>3. ASSUME rests
        PROVE  [id |-> id, remaining |-> rest] \in After(queue') /\ rest \in Nat \ {0}
    BY <1>7, <1>16, <2>3
  <2>4. \A b \in After(queue) : b.id # id
    BY <1>4, <1>10
  <2> QED
    BY <1>11, <2>1, <2>2, <2>3, <2>4 DEF BeforeFollows, Untouched, Hit
<1> QED
  BY <1>4, <1>9, <1>10, <1>11, <1>20, <1>21, <1>22 DEF Follows

-----------------------------------------------------------------------------
(* A cancel                                                                *)

LEMMA CancelFollows ==
  ASSUME BookInv, NEW id, Engine!Cancel(id),
         NEW r, r.op = "cancel", r.reply = reply', r.trades = trades', r.after = After(queue')
  PROVE  /\ BookInv' /\ Follows(After(queue), r)
         /\ used' = used
<1>1. /\ queue \in [{"BID", "ASK"} -> Seq(BookOrder)] /\ used \subseteq Nat /\ IsFiniteSet(used)
      /\ \A s \in {"BID", "ASK"} : /\ queue[s] \in Seq(BookOrder) /\ Once(queue[s])
                                   /\ \A i \in DOMAIN queue[s] : queue[s][i].orderId \in used
  BY DEF BookInv
<1>2. /\ queue' = [s \in {"BID", "ASK"} |-> Engine!Without(queue[s], id)]
      /\ reply'.orderId = id /\ trades' = <<>> /\ used' = used
      /\ reply'.cancelSuccessful <=>
           \E s \in {"BID", "ASK"} : \E i \in DOMAIN queue[s] : queue[s][i].orderId = id
  BY DEF Engine!Cancel, Engine!Sides
<1>3. ASSUME NEW s \in {"BID", "ASK"}
      PROVE  /\ queue'[s] \in Seq(BookOrder)
             /\ \A j \in DOMAIN queue'[s] : \E i \in DOMAIN queue[s] :
                  queue'[s][j] = queue[s][i] /\ queue[s][i].orderId # id
             /\ \A i \in DOMAIN queue[s] : queue[s][i].orderId # id =>
                  \E j \in DOMAIN queue'[s] : queue'[s][j] = queue[s][i]
             /\ Once(queue'[s])
  <2>1. queue'[s] = Engine!Without(queue[s], id)
    BY <1>2
  <2>2. queue[s] \in Seq(BookOrder) /\ Once(queue[s])
    BY <1>1
  <2> DEFINE u == queue[s]
             v == queue'[s]
  <2>3. v = Engine!Without(u, id) /\ u \in Seq(BookOrder) /\ Once(u)
    BY <2>1, <2>2
  <2> HIDE DEF u, v
  <2>4. /\ v \in Seq(BookOrder)
        /\ \A j \in DOMAIN v : \E i \in DOMAIN u : v[j] = u[i] /\ u[i].orderId # id
        /\ \A i \in DOMAIN u : u[i].orderId # id => \E j \in DOMAIN v : v[j] = u[i]
        /\ Once(v)
    BY <2>3, WithoutFacts
  <2> QED
    BY <2>4 DEF u, v
<1>4. queue' \in [{"BID", "ASK"} -> Seq(BookOrder)]
  BY <1>2, <1>3
<1>5. \A x, y \in {"BID", "ASK"} : x # y => Apart(queue'[x], queue'[y])
  <2> SUFFICES ASSUME NEW x \in {"BID", "ASK"}, NEW y \in {"BID", "ASK"}, x # y,
                      NEW i \in DOMAIN queue'[x], NEW j \in DOMAIN queue'[y],
                      queue'[x][i].orderId = queue'[y][j].orderId
               PROVE  FALSE
    BY DEF Apart
  <2>1. PICK m \in DOMAIN queue[x] : queue'[x][i] = queue[x][m]
    BY <1>3
  <2>2. PICK n \in DOMAIN queue[y] : queue'[y][j] = queue[y][n]
    BY <1>3
  <2>3. Apart(queue[x], queue[y])
    BY DEF BookInv
  <2> QED
    BY <2>1, <2>2, <2>3 DEF Apart
<1>6. \A x \in {"BID", "ASK"} : \A j \in DOMAIN queue'[x] : queue'[x][j].orderId \in used
  <2> TAKE x \in {"BID", "ASK"}
  <2> TAKE j \in DOMAIN queue'[x]
  <2>1. PICK m \in DOMAIN queue[x] : queue'[x][j] = queue[x][m]
    BY <1>3
  <2> QED
    BY <1>1, <2>1
<1>7. BookInv'
  BY <1>1, <1>2, <1>3, <1>4, <1>5, <1>6 DEF BookInv, Once, Apart
<1>8. Orders2(After(queue)) /\ Orders2(After(queue'))
  BY <1>7, OrdersDiffer, OrdersDifferNext DEF Orders2, After
<1>b. \A q : \A a : a \in After(q) <=> \E x \in {"BID", "ASK"} : \E i \in DOMAIN q[x] : a = Entry(q, x, i)
  BY AfterMeaning
<1>9. \A a : a \in After(queue') <=> a \in After(queue) /\ a.id # id
  <2> TAKE a
  <2>1. ASSUME a \in After(queue') PROVE a \in After(queue) /\ a.id # id
    <3>1. PICK x \in {"BID", "ASK"} : \E i \in DOMAIN queue'[x] : a = Entry(queue', x, i)
      BY <1>b, <2>1
    <3>2. PICK i \in DOMAIN queue'[x] : a = Entry(queue', x, i)
      BY <3>1
    <3>3. PICK m \in DOMAIN queue[x] : queue'[x][i] = queue[x][m] /\ queue[x][m].orderId # id
      BY <1>3
    <3>4. a = Entry(queue, x, m) /\ a.id # id
      BY <3>2, <3>3 DEF Entry
    <3> QED
      BY <1>b, <3>4
  <2>2. ASSUME a \in After(queue), a.id # id PROVE a \in After(queue')
    <3>1. PICK x \in {"BID", "ASK"} : \E i \in DOMAIN queue[x] : a = Entry(queue, x, i)
      BY <1>b, <2>2
    <3>2. PICK i \in DOMAIN queue[x] : a = Entry(queue, x, i)
      BY <3>1
    <3>3. queue[x][i].orderId # id
      BY <2>2, <3>2 DEF Entry
    <3>4. PICK m \in DOMAIN queue'[x] : queue'[x][m] = queue[x][i]
      BY <1>3, <3>3
    <3>5. a = Entry(queue', x, m)
      BY <3>2, <3>4 DEF Entry
    <3> QED
      BY <1>b, <3>5
  <2> QED
    BY <2>1, <2>2
<1>10. r.reply.orderId = id /\ r.trades = <<>> /\ ~Rests(r) /\ DOMAIN r.trades = {} /\ IsSeq(r.trades)
  <2>1. DOMAIN <<>> = {} /\ IsSeq(<<>>)
    BY SeqEmpty
  <2> QED
    BY <1>2, <2>1 DEF Rests
<1>11. TradesFollow(After(queue), r)
  BY <1>10 DEF TradesFollow
<1>12. AfterFollows(After(queue), r)
  BY <1>9, <1>10 DEF AfterFollows, Untouched
<1>13. BeforeFollows(After(queue), r)
  <2>1. ASSUME NEW b \in After(queue), b.id = id PROVE r.reply.cancelSuccessful
    <3>1. PICK x \in {"BID", "ASK"} : \E i \in DOMAIN queue[x] : b = Entry(queue, x, i)
      BY <1>b
    <3>2. \E i \in DOMAIN queue[x] : queue[x][i].orderId = id
      BY <2>1, <3>1 DEF Entry
    <3> QED
      BY <1>2, <3>2
  <2> QED
    BY <1>9, <1>10, <2>1 DEF BeforeFollows, Untouched
<1> QED
  BY <1>2, <1>7, <1>8, <1>11, <1>12, <1>13 DEF Follows

-----------------------------------------------------------------------------
(* The log                                                                 *)

\* What rested before an operation of the log, and after its last in a life.
BeforeIn(L, i) == IF i > 1 /\ L[i - 1].life = L[i].life THEN L[i - 1].after ELSE {}
LastAfter(L, l) == IF Len(L) > 0 /\ L[Len(L)].life = l THEN L[Len(L)].after ELSE {}

RecordKnown(r) ==
  /\ r.op \in {"submit", "cancel"} /\ r.life \in Nat \ {0}
  /\ r.op = "submit" => r.node \in Nodes /\ r.reply.orderId \in Nat

\* Ids are given once in a life, ...
IdsOnce(L) ==
  \A i, j \in DOMAIN L :
    L[i].op = "submit" /\ L[j].op = "submit" /\ L[i].life = L[j].life
      /\ L[i].reply.orderId = L[j].reply.orderId => i = j

MadeToRest(r, l, id) == Rests(r) /\ r.life = l /\ r.reply.orderId = id

\* ... what rests came to rest in the same life, ...
Origins(L) ==
  \A i \in DOMAIN L : \A a \in L[i].after : \E k \in 1 .. i : MadeToRest(L[k], L[i].life, a.id)

\* ... and from then on there is less and less of it.
Shrinks(L) ==
  \A i, j \in DOMAIN L : i <= j /\ L[i].life = L[j].life => \A a \in L[j].after :
    \/ \E b \in L[i].after : b.id = a.id /\ b.remaining >= a.remaining
    \/ \E k \in i + 1 .. j : MadeToRest(L[k], L[j].life, a.id)

LogSound(L) ==
  /\ IsSeq(L)
  /\ \A i \in DOMAIN L : RecordKnown(L[i]) /\ Follows(BeforeIn(L, i), L[i])
  /\ \A i, j \in DOMAIN L : i <= j => L[i].life <= L[j].life
  /\ IdsOnce(L) /\ Origins(L) /\ Shrinks(L)

\* What an operation leaves of an order is not more than there was.
LEMMA FollowsShrinks ==
  ASSUME NEW prev, NEW r, Follows(prev, r), r.life \in Nat, NEW a \in r.after
  PROVE  \/ MadeToRest(r, r.life, a.id)
         \/ \E b \in prev : b.id = a.id /\ b.remaining >= a.remaining
<1>1. AfterFollows(prev, r) /\ TradesFollow(prev, r) /\ Orders2(prev) /\ Orders2(r.after)
  BY DEF Follows
<1>2. CASE Rests(r) /\ a.id = r.reply.orderId
  BY <1>2 DEF MadeToRest
<1>3. ASSUME NEW b \in prev, b.id = a.id, a.remaining = b.remaining
      PROVE  b.remaining >= a.remaining
  <2>1. b.remaining \in Nat
    BY <1>1 DEF Orders2
  <2> QED
    BY <1>3, <2>1
<1>4. ASSUME NEW b \in prev, b.id = a.id, NEW j \in DOMAIN r.trades, Hit(r, j, a.id),
             a.remaining = b.remaining - r.trades[j].quantity
      PROVE  b.remaining >= a.remaining
  <2>1. PICK c \in prev : Hit(r, j, c.id) /\ r.trades[j].quantity \in 1 .. c.remaining
    BY <1>1 DEF TradesFollow
  <2>2. b.remaining \in Nat /\ c.remaining \in Nat
    BY <1>1 DEF Orders2
  <2>3. r.trades[j].quantity \in Nat
    BY <2>1, <2>2
  <2> QED
    BY <1>4, <2>2, <2>3
<1>5. \/ Rests(r) /\ a.id = r.reply.orderId
      \/ \E b \in prev : /\ b.id = a.id
                         /\ \/ a.remaining = b.remaining
                            \/ \E j \in DOMAIN r.trades : Hit(r, j, a.id) /\ a.remaining = b.remaining - r.trades[j].quantity
  BY <1>1 DEF AfterFollows
<1> QED
  BY <1>2, <1>3, <1>4, <1>5

LEMMA LogGrows ==
  ASSUME NEW L, LogSound(L), NEW r, RecordKnown(r), \A i \in DOMAIN L : L[i].life <= r.life,
         Follows(LastAfter(L, r.life), r),
         r.op = "submit" => \A i \in DOMAIN L : L[i].op = "submit" /\ L[i].life = r.life =>
                                                 L[i].reply.orderId # r.reply.orderId
  PROVE  LogSound(Append(L, r))
<1> DEFINE M == Append(L, r)
           n == Len(L) + 1
<1>1. /\ IsSeq(M) /\ Len(L) \in Nat /\ DOMAIN L = 1 .. Len(L) /\ Len(M) = n /\ DOMAIN M = 1 .. n
      /\ \A i \in 1 .. Len(L) : M[i] = L[i]
      /\ M[n] = r
  BY SeqAppend DEF LogSound
<1> HIDE DEF M
<1>2. /\ \A i \in DOMAIN L : RecordKnown(L[i]) /\ Follows(BeforeIn(L, i), L[i])
      /\ \A i, j \in DOMAIN L : i <= j => L[i].life <= L[j].life
      /\ IdsOnce(L) /\ Origins(L) /\ Shrinks(L)
  BY DEF LogSound
<1>3. \A i \in 1 .. n : i \in 1 .. Len(L) \/ i = n
  BY <1>1
<1>4. /\ n \in Nat /\ n > 0 /\ n - 1 = Len(L) /\ \A i \in 1 .. Len(L) : i \in 1 .. n /\ i < n
      /\ \A i \in 1 .. Len(L) : n - 1 \in 1 .. Len(L) /\ i <= n - 1
      /\ n \in 1 .. n
  BY <1>1
<1> HIDE DEF n
<1>5. BeforeIn(M, n) = LastAfter(L, r.life)
  <2>1. CASE Len(L) > 0
    <3>1. n - 1 \in 1 .. Len(L) /\ n > 1
      BY <1>1, <1>4, <2>1
    <3>2. M[n - 1] = L[Len(L)]
      BY <1>1, <1>4, <3>1
    <3> QED
      BY <1>1, <2>1, <3>1, <3>2 DEF BeforeIn, LastAfter
  <2>2. CASE ~(Len(L) > 0)
    <3>1. ~(n > 1)
      BY <1>1, <1>4, <2>2
    <3> QED
      BY <2>2, <3>1 DEF BeforeIn, LastAfter
  <2> QED
    BY <2>1, <2>2
<1>6. ASSUME NEW i \in 1 .. Len(L) PROVE BeforeIn(M, i) = BeforeIn(L, i)
  <2>1. i > 1 => i - 1 \in 1 .. Len(L)
    BY <1>1
  <2> QED
    BY <1>1, <2>1 DEF BeforeIn
<1>7. \A i \in 1 .. n : RecordKnown(M[i]) /\ Follows(BeforeIn(M, i), M[i])
  BY <1>1, <1>2, <1>3, <1>5, <1>6
<1>8. ASSUME NEW i \in 1 .. n, NEW j \in 1 .. n, i <= j PROVE M[i].life <= M[j].life
  <2>1. CASE j = n
    <3>1. r.life \in Nat
      BY DEF RecordKnown
    <3> QED
      BY <1>1, <1>3, <2>1, <3>1
  <2>2. CASE j # n
    BY <1>1, <1>2, <1>3, <1>4, <1>8, <2>2
  <2> QED
    BY <2>1, <2>2
<1>9. IdsOnce(M)
  BY <1>1, <1>2, <1>3 DEF IdsOnce
\* What rests after r, seen from the operation before.
<1>10. ASSUME NEW a \in r.after, ~MadeToRest(r, r.life, a.id)
       PROVE  /\ n - 1 \in 1 .. Len(L) /\ L[n - 1].life = r.life
              /\ \E b \in L[n - 1].after : b.id = a.id /\ b.remaining >= a.remaining
  <2>1. r.life \in Nat
    BY DEF RecordKnown
  <2>2. \E b \in LastAfter(L, r.life) : b.id = a.id /\ b.remaining >= a.remaining
    BY <1>10, <2>1, FollowsShrinks
  <2>3. Len(L) > 0 /\ L[Len(L)].life = r.life
    BY <2>2 DEF LastAfter
  <2> QED
    BY <1>1, <1>4, <2>2, <2>3 DEF LastAfter
<1>11. Origins(M)
  <2>1. ASSUME NEW a \in r.after
        PROVE  \E k \in 1 .. n : MadeToRest(M[k], r.life, a.id)
    <3>1. CASE MadeToRest(r, r.life, a.id)
      BY <1>1, <1>4, <3>1
    <3>2. CASE ~MadeToRest(r, r.life, a.id)
      <4>1. PICK b \in L[n - 1].after : b.id = a.id
        BY <1>10, <3>2
      <4>2. n - 1 \in DOMAIN L /\ L[n - 1].life = r.life
        BY <1>1, <1>10, <3>2
      <4>3. PICK k \in 1 .. n - 1 : MadeToRest(L[k], r.life, a.id)
        BY <1>2, <4>1, <4>2 DEF Origins
      <4>4. k \in 1 .. Len(L) /\ k \in 1 .. n
        BY <1>1, <1>4
      <4> QED
        BY <1>1, <4>3, <4>4
    <3> QED
      BY <3>1, <3>2
  <2>2. ASSUME NEW i \in 1 .. Len(L), NEW a \in L[i].after
        PROVE  \E k \in 1 .. i : MadeToRest(M[k], L[i].life, a.id)
    <3>1. PICK k \in 1 .. i : MadeToRest(L[k], L[i].life, a.id)
      BY <1>1, <1>2 DEF Origins
    <3>2. k \in 1 .. Len(L)
      BY <1>1
    <3> QED
      BY <1>1, <3>1, <3>2
  <2> QED
    BY <1>1, <1>3, <2>1, <2>2 DEF Origins
<1>12. Shrinks(M)
  <2>1. ASSUME NEW i \in 1 .. Len(L), NEW j \in 1 .. Len(L), i <= j, L[i].life = L[j].life, NEW a \in L[j].after
        PROVE  \/ \E b \in L[i].after : b.id = a.id /\ b.remaining >= a.remaining
               \/ \E k \in i + 1 .. j : MadeToRest(M[k], L[j].life, a.id)
    <3>1. CASE \E b \in L[i].after : b.id = a.id /\ b.remaining >= a.remaining
      BY <3>1
    <3>2. CASE \E k \in i + 1 .. j : MadeToRest(L[k], L[j].life, a.id)
      <4>1. PICK k \in i + 1 .. j : MadeToRest(L[k], L[j].life, a.id)
        BY <3>2
      <4>2. k \in 1 .. Len(L)
        BY <1>1
      <4> QED
        BY <1>1, <4>1, <4>2
    <3> QED
      BY <1>1, <1>2, <2>1, <3>1, <3>2 DEF Shrinks
  <2>2. ASSUME NEW i \in 1 .. Len(L), L[i].life = r.life, NEW a \in r.after
        PROVE  \/ \E b \in L[i].after : b.id = a.id /\ b.remaining >= a.remaining
               \/ \E k \in i + 1 .. n : MadeToRest(M[k], r.life, a.id)
    <3>0. i \in Nat /\ i < n
      BY <1>4
    <3>1. CASE MadeToRest(r, r.life, a.id)
      <4>1. n \in i + 1 .. n
        BY <1>4, <3>0
      <4> QED
        BY <1>1, <3>1, <4>1
    <3>2. CASE ~MadeToRest(r, r.life, a.id)
      <4>1. /\ n - 1 \in 1 .. Len(L) /\ L[n - 1].life = r.life /\ i <= n - 1
            /\ \E b \in L[n - 1].after : b.id = a.id /\ b.remaining >= a.remaining
        BY <1>4, <1>10, <3>2
      <4>2. PICK b \in L[n - 1].after : b.id = a.id /\ b.remaining >= a.remaining
        BY <4>1
      <4>3. \/ \E c \in L[i].after : c.id = b.id /\ c.remaining >= b.remaining
            \/ \E k \in i + 1 .. n - 1 : MadeToRest(M[k], L[n - 1].life, b.id)
        BY <2>1, <2>2, <4>1, <4>2
      <4>4. CASE \E c \in L[i].after : c.id = b.id /\ c.remaining >= b.remaining
        <5>1. PICK c \in L[i].after : c.id = b.id /\ c.remaining >= b.remaining
          BY <4>4
        <5>2. Orders2(L[i].after) /\ Orders2(L[n - 1].after) /\ Orders2(r.after)
          BY <1>1, <1>2, <4>1 DEF Follows
        <5>3. c.remaining \in Nat /\ b.remaining \in Nat /\ a.remaining \in Nat
          BY <4>2, <5>1, <5>2 DEF Orders2
        <5>4. c.remaining >= a.remaining
          BY <4>2, <5>1, <5>3
        <5> QED
          BY <4>2, <5>1, <5>4
      <4>5. CASE \E k \in i + 1 .. n - 1 : MadeToRest(M[k], L[n - 1].life, b.id)
        <5>1. PICK k \in i + 1 .. n - 1 : MadeToRest(M[k], r.life, a.id)
          BY <4>1, <4>2, <4>5
        <5>2. k \in i + 1 .. n
          BY <1>4, <3>0
        <5> QED
          BY <5>1, <5>2
      <4> QED
        BY <4>3, <4>4, <4>5
    <3> QED
      BY <3>1, <3>2
  <2>3. ASSUME NEW a \in r.after
        PROVE  \E b \in r.after : b.id = a.id /\ b.remaining >= a.remaining
    <3>1. a.remaining \in Nat
      BY DEF Follows, Orders2
    <3> QED
      BY <3>1
  <2> SUFFICES ASSUME NEW i \in 1 .. n, NEW j \in 1 .. n, i <= j, M[i].life = M[j].life, NEW a \in M[j].after
               PROVE  \/ \E b \in M[i].after : b.id = a.id /\ b.remaining >= a.remaining
                      \/ \E k \in i + 1 .. j : MadeToRest(M[k], M[j].life, a.id)
    BY <1>1 DEF Shrinks
  <2>4. CASE j # n
    <3>1. i \in 1 .. Len(L) /\ j \in 1 .. Len(L)
      BY <1>1, <1>3, <1>4, <2>4
    <3>2. M[i] = L[i] /\ M[j] = L[j]
      BY <1>1, <3>1
    <3>3. i <= j /\ L[i].life = L[j].life /\ a \in L[j].after
      BY <3>2
    <3>4. \/ \E b \in L[i].after : b.id = a.id /\ b.remaining >= a.remaining
          \/ \E k \in i + 1 .. j : MadeToRest(M[k], L[j].life, a.id)
      BY <2>1, <3>1, <3>3
    <3> QED
      BY <3>2, <3>4
  <2>5. CASE j = n /\ i # n
    <3>1. i \in 1 .. Len(L)
      BY <1>3, <2>5
    <3> QED
      BY <1>1, <2>2, <2>5, <3>1
  <2>6. CASE j = n /\ i = n
    BY <1>1, <2>3, <2>6
  <2> QED
    BY <2>4, <2>5, <2>6
<1> QED
  BY <1>1, <1>7, <1>8, <1>9, <1>11, <1>12 DEF LogSound, M

Request(r) ==
  \/ r.op = "submit" /\ r.order \in Orders /\ r.node = r.order.node
  \/ r.op = "cancel"

ExchangeInv ==
  /\ BookInv /\ LogSound(log) /\ life \in Nat \ {0}
  /\ \A i \in DOMAIN log : log[i].life <= life
  /\ After(queue) = LastAfter(log, life)
  /\ \A i \in DOMAIN log : log[i].op = "submit" /\ log[i].life = life => log[i].reply.orderId \in used
  /\ \A r \in inflight : Request(r)

LEMMA RequestMeaning ==
  /\ \A o \in Orders : Request(SubmitRequest(o))
  /\ \A node, id : Request(CancelRequest(node, id))
BY DEF Request, SubmitRequest, CancelRequest

LEMMA ExchangeSteps ==
  ASSUME Connected, \A r \in inflight : Request(r), [Next]_vars
  PROVE  \/ (\E r : Request(r) /\ Execute(r)) /\ \A r \in inflight' : Request(r)
         \/ Restarts
         \/ UNCHANGED <<queue, used, life, log>> /\ \A r \in inflight' : Request(r)
<1>0. DOMAIN calls = 1 .. 2
  BY DEF Connected
<1>1. CASE BotActs
  BY <1>1, RequestMeaning DEF BotActs
<1>2. CASE ExecutesRequest
  BY <1>2 DEF ExecutesRequest
<1>3. CASE Stops
  BY <1>3 DEF Stops
<1>4. CASE FlushBook \/ OnConnection \/ OnCloseOfPage \/ SetRecording
  BY <1>4 DEF FlushBook, OnConnection, OnCloseOfPage, SetRecording, exchangeVars
<1>5. CASE OnRequest
  <2>1. PICK r \in {SubmitRequest(o) : o \in {x \in Orders : x.node = "human"}}
              \cup {CancelRequest("human", id) : id \in DOMAIN Shown.open} :
          inflight' = inflight \cup {r}
    BY <1>5 DEF OnRequest
  <2>2. Request(r)
    BY RequestMeaning
  <2>3. UNCHANGED <<queue, used, life, log>>
    BY <1>5 DEF OnRequest, exchangeVars
  <2> QED
    BY <2>1, <2>2, <2>3
<1>6. ASSUME NEW k \in 1 .. 2, Telemetry(k)
      PROVE  UNCHANGED <<queue, used, life, log, inflight>>
  <2>1. CASE Subscribe(k) \/ Opens(k) \/ Fails(k) \/ OnMetadata(k)
    <3>1. UNCHANGED exchangeVars /\ UNCHANGED inflight
      BY <2>1, Zenon DEF Subscribe, Opens, Fails, OnMetadata
    <3> QED
      BY <3>1 DEF exchangeVars
  <2>2. ASSUME NEW due, OnData(k, due) PROVE UNCHANGED <<queue, used, life, log, inflight>>
    <3>1. UNCHANGED exchangeVars /\ UNCHANGED inflight
      BY <2>2, Zenon DEF OnData
    <3> QED
      BY <3>1 DEF exchangeVars
  <2>3. ASSUME NEW e, OnEvent(k, e) PROVE UNCHANGED <<queue, used, life, log, inflight>>
    BY <2>3 DEF OnEvent, exchangeVars
  <2> QED
    BY <1>6, <2>1, <2>2, <2>3 DEF Telemetry
<1>7. CASE UNCHANGED vars
  BY <1>7 DEF vars, exchangeVars
<1> QED
  BY <1>0, <1>1, <1>2, <1>3, <1>4, <1>5, <1>6, <1>7 DEF Next

\* The record of an operation.
LEMMA RecordFacts ==
  ASSUME NEW op, NEW node, NEW o, NEW r, r = Record(op, node, o)
  PROVE  /\ r.op = op /\ r.node = node /\ r.order = o /\ r.reply = reply' /\ r.trades = trades'
         /\ r.life = life /\ r.after = After(queue')
BY DEF Record, After

LEMMA EngineFacts ==
  ASSUME NEW r, Execute(r)
  PROVE  /\ r.op = "submit" => Engine!Submit(Cardinality(used), r.order.side, r.order.type,
                                              r.order.price, r.order.quantity)
         /\ r.op # "submit" => Engine!Cancel(r.id)
         /\ life' = life
         /\ log' = Append(log, Record(r.op, r.node, IF r.op = "submit" THEN r.order ELSE Null))
BY DEF Execute, Publish

LEMMA ExecutesLog ==
  ASSUME ExchangeInv, NEW q, Request(q), Execute(q)
  PROVE  /\ BookInv' /\ LogSound(log') /\ life' = life
         /\ \A i \in DOMAIN log' : log'[i].life <= life
         /\ After(queue') = LastAfter(log', life)
         /\ \A i \in DOMAIN log' : log'[i].op = "submit" /\ log'[i].life = life => log'[i].reply.orderId \in used'
<1> DEFINE r == Record(q.op, q.node, IF q.op = "submit" THEN q.order ELSE Null)
<1>1. /\ r.op = q.op /\ r.node = q.node /\ (q.op = "submit" => r.order = q.order)
      /\ r.reply = reply' /\ r.trades = trades' /\ r.life = life /\ r.after = After(queue')
  BY RecordFacts
<1>2. log' = Append(log, r) /\ life' = life
  BY EngineFacts
<1> HIDE DEF r
<1>3. /\ BookInv /\ LogSound(log) /\ life \in Nat \ {0}
      /\ \A i \in DOMAIN log : log[i].life <= life
      /\ After(queue) = LastAfter(log, life)
      /\ \A i \in DOMAIN log : log[i].op = "submit" /\ log[i].life = life => log[i].reply.orderId \in used
  BY DEF ExchangeInv
<1>4. /\ BookInv' /\ Follows(After(queue), r) /\ RecordKnown(r) /\ used \subseteq used'
      /\ r.op = "submit" => r.reply.orderId \notin used /\ r.reply.orderId \in used'
  <2>1. CASE q.op = "submit"
    <3> DEFINE id == Cardinality(used)
               o == q.order
    <3>1. Engine!Submit(id, o.side, o.type, o.price, o.quantity)
      BY <2>1, EngineFacts
    <3>2. id \in Nat
      BY <1>3, FS_CardinalityType DEF BookInv
    <3>3. o \in Orders /\ q.node = o.node
      BY <2>1 DEF Request
    <3>4. o.side \in {"BID", "ASK"} /\ o.price \in Nat /\ o.quantity \in Nat /\ o.node \in Nodes
      BY <3>3, GatewayAssumption DEF Nodes
    <3>5. r.op = "submit" /\ r.order.quantity = o.quantity
      BY <1>1, <2>1
    <3> DEFINE side == o.side
               type == o.type
               price == o.price
               quantity == o.quantity
    <3>7. /\ Engine!Submit(id, side, type, price, quantity)
          /\ side \in {"BID", "ASK"} /\ price \in Nat /\ quantity \in Nat /\ r.order.quantity = quantity
      BY <3>1, <3>4, <3>5
    <3> HIDE DEF id, o, side, type, price, quantity
    <3>8. BookInv /\ r.op = "submit" /\ r.reply = reply' /\ r.trades = trades' /\ r.after = After(queue')
      BY <1>1, <1>3, <3>5
    <3>6. /\ BookInv' /\ Follows(After(queue), r)
          /\ used' = used \cup {id} /\ id \notin used /\ r.reply.orderId = id
      BY ONLY <3>2, <3>7, <3>8, SubmitFollows
    <3> QED
      BY <1>1, <1>3, <3>2, <3>3, <3>4, <3>5, <3>6 DEF RecordKnown
  <2>2. CASE q.op # "submit"
    <3>1. q.op = "cancel" /\ r.op = "cancel"
      BY <1>1, <2>2 DEF Request
    <3>2. Engine!Cancel(q.id)
      BY <2>2, EngineFacts
    <3>3. /\ BookInv' /\ Follows(After(queue), r) /\ used' = used
      BY <1>1, <1>3, <3>1, <3>2, CancelFollows
    <3> QED
      BY <1>1, <1>3, <3>1, <3>3 DEF RecordKnown
  <2> QED
    BY <2>1, <2>2
<1>5. LogSound(Append(log, r))
  <2>1. \A i \in DOMAIN log : log[i].life <= r.life
    BY <1>1, <1>3
  <2>2. Follows(LastAfter(log, r.life), r)
    BY <1>1, <1>3, <1>4
  <2>3. r.op = "submit" => \A i \in DOMAIN log : log[i].op = "submit" /\ log[i].life = r.life =>
                                                 log[i].reply.orderId # r.reply.orderId
    BY <1>1, <1>3, <1>4
  <2> QED
    BY <1>3, <1>4, <2>1, <2>2, <2>3, LogGrows
<1>6. /\ Len(log) \in Nat /\ DOMAIN log = 1 .. Len(log) /\ Len(log') = Len(log) + 1
      /\ DOMAIN log' = 1 .. Len(log) + 1
      /\ \A i \in 1 .. Len(log) : log'[i] = log[i]
      /\ log'[Len(log) + 1] = r
  BY <1>2, <1>3, SeqAppend DEF LogSound
<1>7. \A i \in DOMAIN log' : i \in DOMAIN log \/ log'[i] = r
  BY <1>6
<1>8. LastAfter(log', life) = r.after
  BY <1>1, <1>6 DEF LastAfter
<1>9. life <= life
  BY <1>3
<1> QED
  BY <1>1, <1>2, <1>3, <1>4, <1>5, <1>6, <1>7, <1>8, <1>9

LEMMA RestartsLog ==
  ASSUME ExchangeInv, Restarts
  PROVE  ExchangeInv'
<1>1. /\ queue' = [s \in {"BID", "ASK"} |-> <<>>] /\ used' = {} /\ life' = life + 1 /\ log' = log
      /\ \A r \in inflight' : Request(r)
  BY DEF Restarts, ExchangeInv
<1>2. /\ LogSound(log) /\ life \in Nat \ {0}
      /\ \A i \in DOMAIN log : log[i].life <= life /\ log[i].life \in Nat
  BY DEF ExchangeInv, LogSound, RecordKnown
<1>3. <<>> \in Seq(BookOrder) /\ DOMAIN <<>> = {} /\ ToSet(<<>>) = {}
  BY DEF ToSet
<1>4. queue' \in [{"BID", "ASK"} -> Seq(BookOrder)] /\ \A s \in {"BID", "ASK"} : queue'[s] = <<>>
  BY <1>1, <1>3
<1>5. BookInv'
  BY <1>1, <1>3, <1>4, FS_EmptySet DEF BookInv, Once, Apart
<1>6. After(queue') = {}
  BY <1>3, <1>4 DEF After
<1>7. \A i \in DOMAIN log : log[i].life <= life' /\ log[i].life # life'
  BY <1>1, <1>2
<1>8. LastAfter(log, life') = {}
  <2>1. Len(log) \in Nat /\ DOMAIN log = 1 .. Len(log)
    BY <1>2, SeqBasics DEF LogSound
  <2> QED
    BY <1>7, <2>1 DEF LastAfter
<1>9. After(queue)' = {} /\ LastAfter(log, life)' = {}
  BY <1>1, <1>6, <1>8 DEF After, LastAfter
<1>10. LogSound(log)'
  BY <1>1, <1>2 DEF LogSound, IdsOnce, Origins, Shrinks, BeforeIn
<1>11. life' \in Nat \ {0} /\ \A i \in DOMAIN log' : log'[i].life <= life' /\ log'[i].life # life'
  BY <1>1, <1>2, <1>7
<1> QED
  BY <1>1, <1>5, <1>9, <1>10, <1>11 DEF ExchangeInv

LEMMA InitExchange ==
  ASSUME Init
  PROVE  ExchangeInv
<1>1. /\ queue = [s \in {"BID", "ASK"} |-> <<>>] /\ used = {} /\ life = 1 /\ log = <<>> /\ inflight = {}
  BY DEF Init, Engine!Init, Engine!Sides
<1>2. <<>> \in Seq(BookOrder) /\ DOMAIN <<>> = {} /\ ToSet(<<>>) = {} /\ IsSeq(<<>>) /\ Len(<<>>) = 0
  BY SeqEmpty DEF ToSet
<1>3. queue \in [{"BID", "ASK"} -> Seq(BookOrder)] /\ \A s \in {"BID", "ASK"} : queue[s] = <<>>
  BY <1>1, <1>2
<1>4. BookInv
  BY <1>1, <1>2, <1>3, FS_EmptySet DEF BookInv, Once, Apart
<1>5. After(queue) = {} /\ LastAfter(log, life) = {}
  BY <1>1, <1>2, <1>3 DEF After, LastAfter
<1>6. LogSound(log)
  BY <1>1, <1>2 DEF LogSound, IdsOnce, Origins, Shrinks
<1>7. DOMAIN log = {} /\ life \in Nat \ {0} /\ inflight = {}
  BY <1>1, <1>2
<1>8. After(queue) = LastAfter(log, life)
  BY <1>5
<1> QED
  BY <1>4, <1>6, <1>7, <1>8 DEF ExchangeInv

LEMMA NextExchange ==
  ASSUME Connected, ExchangeInv, [Next]_vars
  PROVE  ExchangeInv'
<1>0. \A r \in inflight : Request(r)
  BY DEF ExchangeInv
<1>1. CASE (\E r : Request(r) /\ Execute(r)) /\ \A r \in inflight' : Request(r)
  <2>1. PICK r : Request(r) /\ Execute(r)
    BY <1>1
  <2>2. /\ BookInv' /\ LogSound(log') /\ life' = life
        /\ \A i \in DOMAIN log' : log'[i].life <= life
        /\ After(queue') = LastAfter(log', life)
        /\ \A i \in DOMAIN log' : log'[i].op = "submit" /\ log'[i].life = life => log'[i].reply.orderId \in used'
    BY <2>1, ExecutesLog
  <2>3. life \in Nat \ {0}
    BY DEF ExchangeInv
  <2>4. After(queue)' = After(queue') /\ LastAfter(log, life)' = LastAfter(log', life')
    BY DEF After, LastAfter
  <2> QED
    BY <1>1, <2>2, <2>3, <2>4 DEF ExchangeInv, LogSound, IdsOnce, Origins, Shrinks, BeforeIn
<1>2. CASE Restarts
  BY <1>2, RestartsLog
<1>3. CASE UNCHANGED <<queue, used, life, log>> /\ \A r \in inflight' : Request(r)
  BY <1>3 DEF ExchangeInv, BookInv, LogSound, IdsOnce, Origins, Shrinks, BeforeIn, After, LastAfter
<1> QED
  BY <1>0, <1>1, <1>2, <1>3, ExchangeSteps

-----------------------------------------------------------------------------
(* The map of resting orders                                               *)

RestingEntry == [id : Nat, node : Nodes, remaining : Nat \ {0}]

Distinct(map) == \A i, j \in DOMAIN map : map[i].id = map[j].id => i = j

Has(map, e) == \E i \in DOMAIN map : map[i] = e

IsMap(map) == map \in Seq(RestingEntry) /\ Distinct(map)

Places(map, id) == {i \in 1 .. Len(map) : map[i].id = id}

LEMMA FindIs ==
  ASSUME NEW map, NEW id
  PROVE  Find(map, id) = IF Places(map, id) # {} THEN CHOOSE x \in Places(map, id) : \A y \in Places(map, id) : x <= y
                         ELSE 0
BY Zenon DEF Find, SelectInSeq, Min, Places

\* The place of an order in the map, or 0.
LEMMA FindFacts ==
  ASSUME NEW map, IsSeq(map), NEW id
  PROVE  LET i == Find(map, id)
         IN /\ i \in 0 .. Len(map)
            /\ i # 0 => i \in DOMAIN map /\ map[i].id = id
            /\ i = 0 => \A j \in DOMAIN map : map[j].id # id
<1> DEFINE P == Places(map, id)
           i == Find(map, id)
<1>1. Len(map) \in Nat /\ DOMAIN map = 1 .. Len(map)
  BY SeqBasics
<1>2. i = IF P # {} THEN CHOOSE x \in P : \A y \in P : x <= y ELSE 0
  BY FindIs
<1>3. P \subseteq Nat /\ \A x \in P : x \in 1 .. Len(map) /\ map[x].id = id
  BY DEF Places
<1>4. CASE P # {}
  <2>1. \E x \in P : \A y \in P : x <= y
    <3> HIDE DEF P
    <3> QED
      BY <1>3, <1>4, NatMin
  <2>2. i \in P
    BY <1>2, <1>4, <2>1, Zenon
  <2>3. i \in 1 .. Len(map) /\ map[i].id = id
    BY <1>3, <2>2
  <2> HIDE DEF i, P
  <2> QED
    BY <1>1, <2>3 DEF i
<1>5. CASE P = {}
  <2>1. i = 0
    BY <1>2, <1>5
  <2>2. \A j \in DOMAIN map : map[j].id # id
    BY <1>1, <1>5 DEF Places
  <2> HIDE DEF i, P
  <2> QED
    BY <1>1, <2>1, <2>2 DEF i
<1> QED
  BY <1>4, <1>5

LEMMA MapType ==
  ASSUME NEW map, IsMap(map)
  PROVE  /\ IsSeq(map) /\ Len(map) \in Nat /\ DOMAIN map = 1 .. Len(map)
         /\ \A i \in DOMAIN map : /\ map[i] \in RestingEntry
                                  /\ map[i].id \in Nat /\ map[i].node \in Nodes
                                  /\ map[i].remaining \in Nat /\ map[i].remaining > 0
                                  /\ map[i] = [id |-> map[i].id, node |-> map[i].node, remaining |-> map[i].remaining]
<1>1. map \in Seq(RestingEntry)
  BY DEF IsMap
<1>2. IsSeq(map) /\ \A i \in DOMAIN map : map[i] \in RestingEntry
  BY <1>1 DEF IsSeq
<1>3. \A e \in RestingEntry : /\ e.id \in Nat /\ e.node \in Nodes /\ e.remaining \in Nat /\ e.remaining > 0
                              /\ e = [id |-> e.id, node |-> e.node, remaining |-> e.remaining]
  BY DEF RestingEntry
<1> QED
  BY <1>1, <1>2, <1>3

\* An entry is taken out, ...
LEMMA RemoveEntry ==
  ASSUME NEW map, IsMap(map), NEW i \in DOMAIN map
  PROVE  LET r == RemoveAt(map, i)
         IN /\ IsMap(r) /\ Len(r) = Len(map) - 1
            /\ \A e : Has(r, e) <=> Has(map, e) /\ e.id # map[i].id
<1> DEFINE r == RemoveAt(map, i)
<1>1. Len(map) \in Nat /\ DOMAIN map = 1 .. Len(map) /\ i \in 1 .. Len(map) /\ map \in Seq(RestingEntry)
      /\ Distinct(map)
  BY MapType DEF IsMap
<1>2. /\ r \in Seq(RestingEntry) /\ Len(r) = Len(map) - 1
      /\ \A j \in 1 .. i - 1 : r[j] = map[j]
      /\ \A j \in i + 1 .. Len(map) : r[j - 1] = map[j]
  BY ONLY <1>1, RemoveFacts, Zenon
<1> HIDE DEF r
<1>3. DOMAIN r = 1 .. Len(map) - 1
  BY <1>2
<1> DEFINE g == [j \in 1 .. Len(map) - 1 |-> IF j < i THEN j ELSE j + 1]
<1>4. ASSUME NEW j \in DOMAIN r
      PROVE  /\ g[j] \in DOMAIN map /\ g[j] # i /\ r[j] = map[g[j]]
             /\ g[j] = IF j < i THEN j ELSE j + 1
  <2>1. g[j] = IF j < i THEN j ELSE j + 1
    BY <1>3
  <2>2. CASE j < i
    <3>1. j \in 1 .. i - 1 /\ j \in 1 .. Len(map)
      BY <1>1, <1>3, <2>2
    <3> QED
      BY <1>1, <1>2, <2>1, <2>2, <3>1
  <2>3. CASE ~(j < i)
    <3>1. j + 1 \in i + 1 .. Len(map) /\ (j + 1) - 1 = j /\ j + 1 \in 1 .. Len(map) /\ j + 1 # i
      BY <1>1, <1>3, <2>3
    <3>2. r[(j + 1) - 1] = map[j + 1]
      BY <1>2, <3>1
    <3> QED
      BY <1>1, <2>1, <2>3, <3>1, <3>2
  <2> QED
    BY <2>2, <2>3
<1> HIDE DEF g
<1>5. ASSUME NEW m \in DOMAIN map, m # i PROVE \E j \in DOMAIN r : r[j] = map[m]
  <2>1. CASE m < i
    <3>1. m \in 1 .. i - 1 /\ m \in 1 .. Len(map) - 1
      BY <1>1, <2>1
    <3> QED
      BY <1>2, <1>3, <3>1
  <2>2. CASE ~(m < i)
    <3>1. m \in i + 1 .. Len(map) /\ m - 1 \in 1 .. Len(map) - 1
      BY <1>1, <1>5, <2>2
    <3> QED
      BY <1>2, <1>3, <3>1
  <2> QED
    BY <2>1, <2>2
<1>6. Distinct(r)
  <2> SUFFICES ASSUME NEW j \in DOMAIN r, NEW k \in DOMAIN r, r[j].id = r[k].id PROVE j = k
    BY DEF Distinct
  <2>1. g[j] = g[k]
    BY <1>1, <1>4 DEF Distinct
  <2> DEFINE a == g[j]
             b == g[k]
  <2>2. a = (IF j < i THEN j ELSE j + 1) /\ b = (IF k < i THEN k ELSE k + 1) /\ a = b
    BY <1>4, <2>1
  <2>3. j \in Nat /\ k \in Nat /\ i \in Nat
    BY <1>1, <1>3
  <2> HIDE DEF a, b
  <2> QED
    BY ONLY <2>2, <2>3
<1>7. ASSUME NEW e, Has(r, e) PROVE Has(map, e) /\ e.id # map[i].id
  <2>1. PICK j \in DOMAIN r : r[j] = e
    BY <1>7 DEF Has
  <2>2. g[j] \in DOMAIN map /\ g[j] # i /\ map[g[j]] = e
    BY <1>4, <2>1
  <2> QED
    BY <1>1, <2>2 DEF Has, Distinct
<1>8. ASSUME NEW e, Has(map, e), e.id # map[i].id PROVE Has(r, e)
  BY <1>5, <1>8 DEF Has
<1> QED
  BY <1>2, <1>6, <1>7, <1>8 DEF IsMap, r

\* ... gets a new value, ...
LEMMA ReplaceEntry ==
  ASSUME NEW map, IsMap(map), NEW i \in DOMAIN map, NEW x \in RestingEntry, x.id = map[i].id,
         NEW r, r = [map EXCEPT ![i] = x]
  PROVE  /\ IsMap(r) /\ Len(r) = Len(map)
         /\ \A e : Has(r, e) <=> (e = x \/ (Has(map, e) /\ e.id # x.id))
<1>1. Len(map) \in Nat /\ DOMAIN map = 1 .. Len(map) /\ i \in 1 .. Len(map) /\ map \in Seq(RestingEntry)
      /\ Distinct(map)
  BY MapType DEF IsMap
<1>2. r \in Seq(RestingEntry) /\ Len(r) = Len(map) /\ DOMAIN r = DOMAIN map
      /\ r[i] = x /\ \A j \in DOMAIN map : j # i => r[j] = map[j]
  BY <1>1
<1>3. \A j \in DOMAIN map : r[j].id = map[j].id
  BY <1>2
<1>4. Distinct(r)
  BY <1>1, <1>2, <1>3 DEF Distinct
<1>5. ASSUME NEW e PROVE Has(r, e) <=> (e = x \/ (Has(map, e) /\ e.id # x.id))
  <2>1. ASSUME Has(r, e), e # x PROVE Has(map, e) /\ e.id # x.id
    <3>1. PICK j \in DOMAIN map : r[j] = e
      BY <1>2, <2>1 DEF Has
    <3>2. j # i
      BY <1>2, <2>1, <3>1
    <3> QED
      BY <1>1, <1>2, <3>1, <3>2 DEF Has, Distinct
  <2>2. ASSUME Has(map, e), e.id # x.id PROVE Has(r, e)
    <3>1. PICK j \in DOMAIN map : map[j] = e
      BY <2>2 DEF Has
    <3> QED
      BY <1>2, <2>2, <3>1 DEF Has
  <2>3. Has(r, x)
    BY <1>1, <1>2 DEF Has
  <2> QED
    BY <2>1, <2>2, <2>3
<1> QED
  BY <1>2, <1>4, <1>5 DEF IsMap

\* ... or is added.
LEMMA AddEntry ==
  ASSUME NEW map, IsMap(map), NEW x \in RestingEntry, \A j \in DOMAIN map : map[j].id # x.id
  PROVE  LET r == Append(map, x)
         IN /\ IsMap(r) /\ Len(r) = Len(map) + 1
            /\ \A e : Has(r, e) <=> (e = x \/ (Has(map, e) /\ e.id # x.id))
<1> DEFINE r == Append(map, x)
           n == Len(map) + 1
<1>1. Len(map) \in Nat /\ DOMAIN map = 1 .. Len(map) /\ map \in Seq(RestingEntry)
      /\ Distinct(map) /\ IsSeq(map)
  BY MapType DEF IsMap
<1>2. r \in Seq(RestingEntry)
  BY <1>1
<1>3. /\ Len(r) = n /\ DOMAIN r = 1 .. n
      /\ \A i \in 1 .. Len(map) : r[i] = map[i]
      /\ r[n] = x
  BY <1>1, SeqAppend
<1> HIDE DEF r
<1>4. n \in 1 .. n /\ \A i \in 1 .. n : i \in 1 .. Len(map) \/ i = n
  BY <1>1
<1>a. \A i \in 1 .. Len(map) : i \in 1 .. n
  BY <1>1
<1> HIDE DEF n
<1>5. Distinct(r)
  BY <1>1, <1>3, <1>4 DEF Distinct
<1>6. ASSUME NEW e PROVE Has(r, e) <=> (e = x \/ (Has(map, e) /\ e.id # x.id))
  BY <1>1, <1>3, <1>4, <1>a DEF Has
<1> QED
  BY <1>2, <1>3, <1>5, <1>6 DEF IsMap, r, n

\* The oldest is evicted.
LEMMA EvictEntry ==
  ASSUME NEW map, IsMap(map), map # <<>>
  PROVE  /\ IsMap(Tail(map)) /\ Len(Tail(map)) = Len(map) - 1
         /\ \A e : Has(Tail(map), e) => Has(map, e)
<1> DEFINE r == Tail(map)
<1>1. Len(map) \in Nat /\ DOMAIN map = 1 .. Len(map) /\ map \in Seq(RestingEntry)
      /\ Distinct(map) /\ IsSeq(map)
  BY MapType DEF IsMap
<1>2. r \in Seq(RestingEntry)
  BY <1>1
<1>3. /\ Len(r) = Len(map) - 1 /\ DOMAIN r = 1 .. Len(map) - 1 /\ Len(map) > 0
      /\ \A i \in 1 .. Len(map) - 1 : r[i] = map[i + 1]
  BY <1>1, SeqTail
<1> HIDE DEF r
<1>4. \A i \in 1 .. Len(map) - 1 : i + 1 \in 1 .. Len(map)
  BY <1>1
<1>5. Distinct(r)
  <2> SUFFICES ASSUME NEW j \in DOMAIN r, NEW k \in DOMAIN r, r[j].id = r[k].id PROVE j = k
    BY DEF Distinct
  <2>1. j + 1 = k + 1
    BY <1>1, <1>3, <1>4 DEF Distinct
  <2> QED
    BY <1>3, <2>1
<1>6. \A e : Has(r, e) => Has(map, e)
  BY <1>1, <1>3, <1>4 DEF Has
<1> QED
  BY <1>2, <1>3, <1>5, <1>6 DEF IsMap, r

-----------------------------------------------------------------------------
(* The trades of an operation                                              *)

\* ToTrade, trade after trade, as a fold.
TradeOver(base, trs, it) ==
  it = [s \in SUBSET DOMAIN trs |->
          IF s = {} THEN base ELSE ToTrade(it[s \ {Max(s)}], trs[Max(s)])]

LEMMA ToTradeIs ==
  ASSUME NEW base, NEW trs
  PROVE  FoldLeft(ToTrade, base, trs) = (CHOOSE it : TradeOver(base, trs, it))[DOMAIN trs]
BY Zenon DEF FoldLeft, MapThenFoldSet, TradeOver

LEMMA TradeExists ==
  ASSUME NEW base, NEW trs, NEW n \in Nat, DOMAIN trs = 1 .. n
  PROVE  \E it : TradeOver(base, trs, it)
<1> DEFINE D == SUBSET (1 .. n)
           Round(it, s) == IF s = {} THEN base ELSE ToTrade(it[s \ {Max(s)}], trs[Max(s)])
           Upto(it, m) == /\ it = [s \in D |-> it[s]]
                          /\ \A s \in D : s \subseteq 1 .. m => it[s] = Round(it, s)
           N == {m \in Nat : \E it : Upto(it, m)}
<1>0. ASSUME NEW m \in Nat, NEW s \in D, s \subseteq 1 .. m + 1, s # {}
      PROVE  s \ {Max(s)} \in D /\ s \ {Max(s)} \subseteq 1 .. m
  <2>1. Max(s) \in s /\ \A x \in s : x <= Max(s)
    BY <1>0, MaxOfPlaces
  <2>2. ASSUME NEW x \in s, x # Max(s) PROVE x \in 1 .. m
    <3>1. x <= Max(s) /\ x \in 1 .. m + 1 /\ Max(s) \in 1 .. m + 1
      BY <1>0, <2>1
    <3> QED
      BY <2>2, <3>1
  <2> QED
    BY <2>2
<1>1. 0 \in N
  <2> DEFINE it == [s \in D |-> base]
  <2>1. it = [s \in D |-> it[s]]
    OBVIOUS
  <2>2. ASSUME NEW s \in D, s \subseteq 1 .. 0 PROVE s = {} /\ it[s] = base
    BY <2>2
  <2>3. Upto(it, 0)
    BY <2>1, <2>2
  <2> HIDE DEF Upto
  <2> QED
    BY <2>3
<1>2. ASSUME NEW m \in Nat, m \in N PROVE m + 1 \in N
  <2>1. PICK it : Upto(it, m)
    BY <1>2
  <2> DEFINE new == [s \in D |-> IF s \subseteq 1 .. m THEN it[s] ELSE Round(it, s)]
  <2>2. new = [s \in D |-> new[s]]
    OBVIOUS
  <2>3. \A s \in D : new[s] = IF s \subseteq 1 .. m THEN it[s] ELSE Round(it, s)
    OBVIOUS
  <2> HIDE DEF new
  <2>4. ASSUME NEW s \in D, s \subseteq 1 .. m + 1 PROVE new[s] = Round(new, s)
    <3>1. new[s] = Round(it, s)
      BY <2>1, <2>3
    <3>2. CASE s = {}
      BY <3>1, <3>2
    <3>3. CASE s # {}
      <4>1. new[s \ {Max(s)}] = it[s \ {Max(s)}]
        BY <1>0, <2>3, <2>4, <3>3
      <4> QED
        BY <3>1, <4>1
    <3> QED
      BY <3>2, <3>3
  <2>5. Upto(new, m + 1)
    BY <2>2, <2>4
  <2> HIDE DEF Upto
  <2> QED
    BY <2>5
<1>3. n \in N
  <2> HIDE DEF N
  <2> QED
    BY <1>1, <1>2, NatSetInduction
<1>4. PICK it : Upto(it, n)
  BY <1>3
<1>5. \A s \in D : it[s] = Round(it, s)
  BY <1>4
<1>6. [s \in D |-> it[s]] = [s \in D |-> Round(it, s)]
  BY <1>5
<1>7. it = [s \in D |-> Round(it, s)]
  BY <1>4, <1>6
<1> QED
  BY <1>7 DEF TradeOver

\* The values of the accumulator, after every trade.
Iterates(base, trs, n, P) ==
  /\ P[0] = base
  /\ \A k \in Nat : k + 1 <= n => P[k + 1] = ToTrade(P[k], trs[k + 1])
  /\ FoldLeft(ToTrade, base, trs) = P[n]

LEMMA TradesIterate ==
  ASSUME NEW base, NEW trs, NEW n \in Nat, DOMAIN trs = 1 .. n
  PROVE  \E P : Iterates(base, trs, n, P)
<1> DEFINE it == CHOOSE i : TradeOver(base, trs, i)
<1>1. TradeOver(base, trs, it)
  BY TradeExists, Zenon
<1>2. FoldLeft(ToTrade, base, trs) = it[DOMAIN trs]
  BY ToTradeIs
<1> HIDE DEF it
<1> DEFINE P == [k \in 0 .. n |-> it[1 .. k]]
<1>3. \A s \in SUBSET (1 .. n) : it[s] = IF s = {} THEN base ELSE ToTrade(it[s \ {Max(s)}], trs[Max(s)])
  BY <1>1 DEF TradeOver
<1>4. P[0] = base
  <2>1. 1 .. 0 = {} /\ {} \in SUBSET (1 .. n) /\ 0 \in 0 .. n
    OBVIOUS
  <2>2. P[0] = it[1 .. 0]
    BY <2>1
  <2> QED
    BY <1>3, <2>1, <2>2
<1>5. ASSUME NEW k \in Nat, k + 1 <= n PROVE P[k + 1] = ToTrade(P[k], trs[k + 1])
  <2>1. 1 .. k + 1 # {} /\ Max(1 .. k + 1) = k + 1 /\ (1 .. k + 1) \ {k + 1} = 1 .. k
    BY MaxOfPrefix
  <2>2. 1 .. k + 1 \in SUBSET (1 .. n) /\ k \in 0 .. n /\ k + 1 \in 0 .. n
    BY <1>5
  <2>3. it[1 .. k + 1] = ToTrade(it[1 .. k], trs[k + 1])
    BY <1>3, <2>1, <2>2
  <2> QED
    BY <2>2, <2>3
<1>6. FoldLeft(ToTrade, base, trs) = P[n]
  <2>1. n \in 0 .. n
    OBVIOUS
  <2> QED
    BY <1>2, <2>1
<1> HIDE DEF P
<1> QED
  BY <1>4, <1>5, <1>6 DEF Iterates

\* What is left of an entry that a trade hit, and whom the trade is said to be with.
Lessened(e0, t, e) ==
  /\ e0.id = t.restingOrderId /\ t.quantity < e0.remaining
  /\ e = [id |-> e0.id, node |-> e0.node, remaining |-> e0.remaining - t.quantity]

Attributed(map, t, x) ==
  /\ x.resting = t.restingOrderId
  /\ \A e : Has(map, e) /\ e.id = t.restingOrderId => x.restingNode = e.node
  /\ (\A e : Has(map, e) => e.id # t.restingOrderId) => x.restingNode = "?"

\* One trade.
LEMMA ToTradeStep ==
  ASSUME NEW acc, IsMap(acc.map), IsSeq(acc.trades), NEW t, t.quantity \in Nat \ {0},
         NEW r, r = ToTrade(acc, t)
  PROVE  /\ IsMap(r.map) /\ Len(r.map) <= Len(acc.map)
         /\ \A e : Has(r.map, e) <=> \/ Has(acc.map, e) /\ e.id # t.restingOrderId
                                     \/ \E d : Has(acc.map, d) /\ Lessened(d, t, e)
         /\ \E x : r.trades = Append(acc.trades, x) /\ Attributed(acc.map, t, x)
<1> DEFINE m == acc.map
           id == t.restingOrderId
           q == t.quantity
           i == Find(m, id)
<1>1. /\ i \in 0 .. Len(m)
      /\ i # 0 => i \in DOMAIN m /\ m[i].id = id
      /\ i = 0 => \A j \in DOMAIN m : m[j].id # id
  BY MapType, FindFacts
<1>2. /\ r.map = (IF i = 0 THEN m
                  ELSE IF m[i].remaining <= q THEN RemoveAt(m, i)
                  ELSE [m EXCEPT ![i].remaining = @ - q])
      /\ \E x : r.trades = Append(acc.trades, x) /\ x.resting = id /\ x.restingNode = IF i = 0 THEN "?" ELSE m[i].node
  <2> DEFINE x == [price |-> t.price, qty |-> t.quantity,
         aggressorSide |-> Lookup(SIDE, t.aggressorSide, "bid"),
         aggressorNode |-> acc.node, resting |-> t.restingOrderId,
         restingNode |-> IF i = 0 THEN "?" ELSE m[i].node]
  <2>1. r.trades = Append(acc.trades, x)
    BY DEF ToTrade
  <2>2. x.resting = id /\ x.restingNode = IF i = 0 THEN "?" ELSE m[i].node
    OBVIOUS
  <2>3. r.map = (IF i = 0 THEN m
                  ELSE IF m[i].remaining <= q THEN RemoveAt(m, i)
                  ELSE [m EXCEPT ![i].remaining = @ - q])
    BY DEF ToTrade
  <2> HIDE DEF x
  <2> QED
    BY <2>1, <2>2, <2>3
<1>3. /\ IsMap(m) /\ IsSeq(m) /\ Len(m) \in Nat
      /\ \A j \in DOMAIN m : /\ m[j] \in RestingEntry /\ m[j].id \in Nat /\ m[j].node \in Nodes
                             /\ m[j].remaining \in Nat /\ m[j].remaining > 0
                             /\ m[j] = [id |-> m[j].id, node |-> m[j].node, remaining |-> m[j].remaining]
      /\ Distinct(m) /\ q \in Nat /\ q > 0
  BY MapType DEF IsMap
<1> HIDE DEF i, m, id, q
<1>4. ASSUME NEW x, x.resting = id, x.restingNode = IF i = 0 THEN "?" ELSE m[i].node
      PROVE  Attributed(m, t, x)
  <2>1. ASSUME NEW e, Has(m, e), e.id = id PROVE x.restingNode = e.node
    <3>1. PICK j \in DOMAIN m : m[j] = e
      BY <2>1 DEF Has
    <3>2. i # 0 /\ j = i
      BY <1>1, <1>3, <2>1, <3>1 DEF Distinct
    <3> QED
      BY <1>4, <3>1, <3>2
  <2>2. ASSUME \A e : Has(m, e) => e.id # id PROVE x.restingNode = "?"
    <3>1. i = 0
      BY <1>1, <2>2 DEF Has
    <3> QED
      BY <1>4, <3>1
  <2> QED
    BY <1>4, <2>1, <2>2 DEF Attributed, id
<1>5. \E x : r.trades = Append(acc.trades, x) /\ Attributed(m, t, x)
  BY <1>2, <1>4
<1>6. \A d, e : Lessened(d, t, e) <=> /\ d.id = id /\ q < d.remaining
                                      /\ e = [id |-> d.id, node |-> d.node, remaining |-> d.remaining - q]
  BY DEF Lessened, id, q
<1>7. CASE i = 0
  <2>1. r.map = m
    BY <1>2, <1>7
  <2>2. \A e : Has(m, e) => e.id # id
    BY <1>1, <1>7 DEF Has
  <2>3. \A e : Has(m, e) <=> \/ Has(m, e) /\ e.id # id
                             \/ \E d : Has(m, d) /\ Lessened(d, t, e)
    BY <1>6, <2>2
  <2> QED
    BY <1>3, <1>5, <2>1, <2>3 DEF m, id
<1>8. CASE i # 0 /\ m[i].remaining <= q
  <2>1. r.map = RemoveAt(m, i) /\ i \in DOMAIN m /\ m[i].id = id
    BY <1>1, <1>2, <1>8
  <2>2. /\ IsMap(r.map) /\ Len(r.map) = Len(m) - 1
        /\ \A e : Has(r.map, e) <=> Has(m, e) /\ e.id # id
    BY <1>3, <2>1, RemoveEntry
  <2>3. ASSUME NEW d, NEW e, Has(m, d), Lessened(d, t, e) PROVE FALSE
    <3>1. PICK j \in DOMAIN m : m[j] = d
      BY <2>3 DEF Has
    <3>2. d = m[i] /\ q < d.remaining
      BY <1>3, <1>6, <2>1, <2>3, <3>1 DEF Distinct
    <3>3. m[i].remaining \in Nat
      BY <1>3, <2>1
    <3> QED
      BY <1>3, <1>8, <3>2, <3>3
  <2>4. Len(r.map) <= Len(m)
    BY <1>3, <2>2
  <2> QED
    BY <1>5, <2>2, <2>3, <2>4 DEF m, id
<1>9. CASE i # 0 /\ ~(m[i].remaining <= q)
  <2> DEFINE x == [id |-> m[i].id, node |-> m[i].node, remaining |-> m[i].remaining - q]
  <2>1. i \in DOMAIN m /\ m[i].id = id
    BY <1>1, <1>9
  <2>2. m[i].remaining \in Nat /\ m[i].id \in Nat /\ m[i].node \in Nodes
    BY <1>3, <2>1
  <2>3. m[i].remaining - q \in Nat \ {0}
    BY <1>3, <1>9, <2>2
  <2>4. x \in RestingEntry
    BY <2>2, <2>3 DEF RestingEntry
  <2>5. r.map = [m EXCEPT ![i] = x]
    <3>1. r.map = [m EXCEPT ![i].remaining = @ - q]
      BY <1>2, <1>9
    <3>2. m[i] = [id |-> m[i].id, node |-> m[i].node, remaining |-> m[i].remaining]
      BY <1>3, <2>1
    <3>3. [m[i] EXCEPT !.remaining = @ - q] = x
      BY <3>2
    <3> HIDE DEF x
    <3> QED
      BY <3>1, <3>3
  <2>6. x.id = id
    BY <2>1
  <2> HIDE DEF x
  <2>7. /\ IsMap(r.map) /\ Len(r.map) = Len(m)
        /\ \A e : Has(r.map, e) <=> (e = x \/ (Has(m, e) /\ e.id # id))
    <3>1. IsMap(m) /\ i \in DOMAIN m /\ x \in RestingEntry /\ x.id = m[i].id /\ r.map = [m EXCEPT ![i] = x]
      BY <1>3, <2>1, <2>4, <2>5, <2>6
    <3> DEFINE v == r.map
    <3>2. v = [m EXCEPT ![i] = x]
      BY <3>1
    <3> HIDE DEF v
    <3>3. /\ IsMap(v) /\ Len(v) = Len(m)
          /\ \A e : Has(v, e) <=> (e = x \/ (Has(m, e) /\ e.id # x.id))
      BY ONLY <3>1, <3>2, ReplaceEntry
    <3> QED
      BY <2>6, <3>3 DEF v
  <2>8. ASSUME NEW e PROVE e = x <=> \E d : Has(m, d) /\ Lessened(d, t, e)
    <3>1. ASSUME e = x PROVE Has(m, m[i]) /\ Lessened(m[i], t, e)
      <4>1. Has(m, m[i])
        BY <2>1 DEF Has
      <4>2. q < m[i].remaining
        BY <1>3, <1>9, <2>2
      <4> QED
        BY <1>6, <2>1, <3>1, <4>1, <4>2 DEF x
    <3>2. ASSUME NEW d, Has(m, d), Lessened(d, t, e) PROVE e = x
      <4>1. PICK j \in DOMAIN m : m[j] = d
        BY <3>2 DEF Has
      <4>2. d.id = id /\ e = [id |-> d.id, node |-> d.node, remaining |-> d.remaining - q]
        BY <1>6, <3>2
      <4>3. j = i
        BY <1>3, <2>1, <4>1, <4>2 DEF Distinct
      <4> QED
        BY <4>1, <4>2, <4>3 DEF x
    <3> QED
      BY <3>1, <3>2
  <2>9. Len(r.map) <= Len(m)
    BY <1>3, <2>7
  <2> QED
    BY <1>5, <2>7, <2>8, <2>9 DEF m, id
<1> QED
  BY <1>7, <1>8, <1>9

\* What becomes of an entry by the first k trades.
Leaves(trs, k, e0, e) ==
  \/ (\A j \in 1 .. k : trs[j].restingOrderId # e0.id) /\ e = e0
  \/ \E j \in 1 .. k : Lessened(e0, trs[j], e)

\* What a map and a list of trades have become after k trades.
TradedUpTo(k, map, trs, acc) ==
  /\ IsMap(acc.map) /\ Len(acc.map) <= Len(map)
  /\ \A e : Has(acc.map, e) <=> \E e0 : Has(map, e0) /\ Leaves(trs, k, e0, e)
  /\ IsSeq(acc.trades) /\ Len(acc.trades) = k
  /\ \A j \in 1 .. k : Attributed(map, trs[j], acc.trades[j])

\* Trades that hit different orders.
Hits(trs) ==
  /\ IsSeq(trs)
  /\ \A j \in DOMAIN trs : trs[j].quantity \in Nat \ {0}
  /\ \A i, j \in DOMAIN trs : trs[i].restingOrderId = trs[j].restingOrderId => i = j

LEMMA TradedMore ==
  ASSUME NEW map, IsMap(map), NEW trs, Hits(trs), NEW k \in Nat, k + 1 <= Len(trs),
         NEW acc, TradedUpTo(k, map, trs, acc), NEW r, r = ToTrade(acc, trs[k + 1])
  PROVE  TradedUpTo(k + 1, map, trs, r)
<1> DEFINE t == trs[k + 1]
           n == k + 1
<1>0. Len(trs) \in Nat /\ DOMAIN trs = 1 .. Len(trs)
  BY SeqBasics DEF Hits
<1>1. n \in DOMAIN trs /\ n \in 1 .. n /\ \A j \in 1 .. k : j \in DOMAIN trs /\ j # n /\ j \in 1 .. n
  BY <1>0
<1>2. \A j \in 1 .. n : j \in 1 .. k \/ j = n
  OBVIOUS
<1>3. t.quantity \in Nat \ {0} /\ \A j \in 1 .. k : trs[j].restingOrderId # t.restingOrderId
  BY <1>1 DEF Hits
<1>4. /\ IsMap(acc.map) /\ Len(acc.map) <= Len(map) /\ IsSeq(acc.trades) /\ Len(acc.trades) = k
      /\ \A e : Has(acc.map, e) <=> \E e0 : Has(map, e0) /\ Leaves(trs, k, e0, e)
      /\ \A j \in 1 .. k : Attributed(map, trs[j], acc.trades[j])
  BY DEF TradedUpTo
<1>a. r = ToTrade(acc, t)
  OBVIOUS
<1> HIDE DEF t
<1>5. /\ IsMap(r.map) /\ Len(r.map) <= Len(acc.map)
      /\ \A e : Has(r.map, e) <=> \/ Has(acc.map, e) /\ e.id # t.restingOrderId
                                  \/ \E d : Has(acc.map, d) /\ Lessened(d, t, e)
      /\ \E x : r.trades = Append(acc.trades, x) /\ Attributed(acc.map, t, x)
  BY <1>3, <1>4, <1>a, ToTradeStep
<1>6. Len(r.map) <= Len(map)
  <2>1. Len(map) \in Nat /\ Len(acc.map) \in Nat /\ Len(r.map) \in Nat
    BY <1>4, <1>5, MapType
  <2> QED
    BY <1>4, <1>5, <2>1
\* An entry keeps its id, and one that is hit by this trade was not hit before.
<1>7. \A d, e : Leaves(trs, k, d, e) => e.id = d.id
  BY DEF Leaves, Lessened
<1>8. \A d, e : Leaves(trs, k, d, e) /\ d.id = t.restingOrderId => e = d
  BY <1>3 DEF Leaves, Lessened
<1>9. \A d : d.id = t.restingOrderId => Leaves(trs, k, d, d)
  BY <1>3 DEF Leaves
<1>10. \A d, e : Leaves(trs, n, d, e) <=> \/ Leaves(trs, k, d, e) /\ e.id # t.restingOrderId
                                          \/ Lessened(d, t, e)
  <2> TAKE d, e
  <2>1. ASSUME Leaves(trs, n, d, e), ~Lessened(d, t, e)
        PROVE  Leaves(trs, k, d, e) /\ e.id # t.restingOrderId
    <3>1. CASE (\A j \in 1 .. n : trs[j].restingOrderId # d.id) /\ e = d
      BY <1>1, <3>1 DEF Leaves, t
    <3>2. CASE \E j \in 1 .. n : Lessened(d, trs[j], e)
      <4>1. PICK j \in 1 .. n : Lessened(d, trs[j], e)
        BY <3>2
      <4>2. j \in 1 .. k
        BY <1>2, <2>1, <4>1 DEF t
      <4>3. e.id = trs[j].restingOrderId
        BY <4>1 DEF Lessened
      <4> QED
        BY <1>3, <4>1, <4>2, <4>3 DEF Leaves
    <3> QED
      BY <2>1, <3>1, <3>2 DEF Leaves
  <2>2. ASSUME Leaves(trs, k, d, e), e.id # t.restingOrderId PROVE Leaves(trs, n, d, e)
    <3>1. CASE (\A j \in 1 .. k : trs[j].restingOrderId # d.id) /\ e = d
      BY <1>2, <2>2, <3>1 DEF Leaves, t
    <3>2. CASE \E j \in 1 .. k : Lessened(d, trs[j], e)
      BY <1>1, <3>2 DEF Leaves
    <3> QED
      BY <2>2, <3>1, <3>2 DEF Leaves
  <2>3. ASSUME Lessened(d, t, e) PROVE Leaves(trs, n, d, e)
    BY <1>1, <2>3 DEF Leaves, t
  <2> QED
    BY <2>1, <2>2, <2>3
<1> HIDE DEF n
<1>11. ASSUME NEW e PROVE Has(r.map, e) <=> \E e0 : Has(map, e0) /\ Leaves(trs, n, e0, e)
  <2>1. ASSUME NEW d, Has(acc.map, d), Lessened(d, t, e)
        PROVE  \E e0 : Has(map, e0) /\ Leaves(trs, n, e0, e)
    <3>1. PICK e0 : Has(map, e0) /\ Leaves(trs, k, e0, d)
      BY <1>4, <2>1
    <3>2. d.id = t.restingOrderId
      BY <2>1 DEF Lessened
    <3>3. d = e0
      BY <1>7, <1>8, <3>1, <3>2
    <3> QED
      BY <1>10, <2>1, <3>1, <3>3
  <2>2. ASSUME Has(acc.map, e), e.id # t.restingOrderId
        PROVE  \E e0 : Has(map, e0) /\ Leaves(trs, n, e0, e)
    BY <1>4, <1>10, <2>2
  <2>3. ASSUME NEW e0, Has(map, e0), Leaves(trs, n, e0, e) PROVE Has(r.map, e)
    <3>1. CASE Leaves(trs, k, e0, e) /\ e.id # t.restingOrderId
      BY <1>4, <1>5, <2>3, <3>1
    <3>2. CASE Lessened(e0, t, e)
      <4>1. Leaves(trs, k, e0, e0)
        BY <1>9, <3>2 DEF Lessened
      <4>2. Has(acc.map, e0)
        BY <1>4, <2>3, <4>1
      <4> QED
        BY <1>5, <3>2, <4>2
    <3> QED
      BY <1>10, <2>3, <3>1, <3>2
  <2> QED
    BY <1>5, <2>1, <2>2, <2>3
<1>12. PICK x : r.trades = Append(acc.trades, x) /\ Attributed(acc.map, t, x)
  BY <1>5
<1>13. /\ IsSeq(r.trades) /\ Len(r.trades) = k + 1
       /\ \A j \in 1 .. k : r.trades[j] = acc.trades[j]
       /\ r.trades[k + 1] = x
  BY <1>4, <1>12, SeqAppend
<1>14. Attributed(map, t, x)
  <2>1. ASSUME NEW e, Has(map, e), e.id = t.restingOrderId PROVE x.restingNode = e.node
    <3>1. Has(acc.map, e)
      BY <1>4, <1>9, <2>1
    <3> QED
      BY <1>12, <2>1, <3>1 DEF Attributed
  <2>2. ASSUME \A e : Has(map, e) => e.id # t.restingOrderId PROVE x.restingNode = "?"
    <3>1. \A e : Has(acc.map, e) => e.id # t.restingOrderId
      BY <1>4, <1>7, <2>2
    <3> QED
      BY <1>12, <3>1 DEF Attributed
  <2> QED
    BY <1>12, <2>1, <2>2 DEF Attributed
<1>15. \A j \in 1 .. n : Attributed(map, trs[j], r.trades[j])
  <2> TAKE j \in 1 .. n
  <2>1. CASE j \in 1 .. k
    BY <1>4, <1>13, <2>1
  <2>2. CASE j = n
    BY <1>13, <1>14, <2>2 DEF n, t
  <2> QED
    BY <1>2, <2>1, <2>2
<1> QED
  BY <1>5, <1>6, <1>11, <1>13, <1>15 DEF TradedUpTo, n

\* All trades.
LEMMA TradesTraded ==
  ASSUME NEW map, IsMap(map), NEW trs, Hits(trs), NEW node,
         NEW r, r = FoldLeft(ToTrade, [map |-> map, trades |-> <<>>, node |-> node], trs)
  PROVE  TradedUpTo(Len(trs), map, trs, r)
<1> DEFINE base == [map |-> map, trades |-> <<>>, node |-> node]
           n == Len(trs)
<1>0. n \in Nat /\ DOMAIN trs = 1 .. n
  BY SeqBasics DEF Hits
<1>a. base.map = map /\ base.trades = <<>>
  OBVIOUS
<1>b. r = FoldLeft(ToTrade, base, trs)
  OBVIOUS
<1> HIDE DEF base
<1>1. PICK P : Iterates(base, trs, n, P)
  BY <1>0, TradesIterate
<1> DEFINE N == {k \in Nat : k <= n => TradedUpTo(k, map, trs, P[k])}
<1>2. 0 \in N
  <2>1. P[0] = base
    BY <1>1 DEF Iterates
  <2>2. IsSeq(<<>>) /\ Len(<<>>) = 0 /\ 1 .. 0 = {}
    BY SeqEmpty
  <2>3. \A e0, e : Leaves(trs, 0, e0, e) <=> e = e0
    BY <2>2 DEF Leaves
  <2>4. Len(map) <= Len(map)
    BY MapType
  <2>5. TradedUpTo(0, map, trs, base)
    BY <1>a, <2>2, <2>3, <2>4 DEF TradedUpTo
  <2> QED
    BY <2>1, <2>5
<1>3. ASSUME NEW k \in Nat, k \in N PROVE k + 1 \in N
  <2> SUFFICES ASSUME k + 1 <= n PROVE TradedUpTo(k + 1, map, trs, P[k + 1])
    OBVIOUS
  <2>1. TradedUpTo(k, map, trs, P[k])
    BY <1>0, <1>3
  <2>2. P[k + 1] = ToTrade(P[k], trs[k + 1])
    BY <1>1 DEF Iterates
  <2> QED
    BY <2>1, <2>2, TradedMore
<1>4. n \in N
  <2> HIDE DEF N
  <2> QED
    BY <1>0, <1>2, <1>3, NatSetInduction
<1>5. n <= n
  BY <1>0
<1>6. r = P[n]
  BY <1>1, <1>b DEF Iterates
<1> QED
  BY <1>4, <1>5, <1>6

-----------------------------------------------------------------------------
(* What the normalizer makes of an operation                               *)

LEMMA SetFacts ==
  ASSUME NEW map, IsMap(map), NEW x \in RestingEntry, Len(map) <= MaxResting,
         NEW r, r = SetResting(map, x)
  PROVE  /\ IsMap(r) /\ Len(r) <= MaxResting /\ Len(r) <= Len(map) + 1
         /\ \A e : Has(r, e) => (e = x \/ (Has(map, e) /\ e.id # x.id))
         /\ Len(map) + 1 <= MaxResting => \A e : (e = x \/ (Has(map, e) /\ e.id # x.id)) => Has(r, e)
<1> DEFINE i == Find(map, x.id)
           new == IF i = 0 THEN Append(map, x) ELSE ReplaceAt(map, i, x)
<1>1. /\ i \in 0 .. Len(map)
      /\ i # 0 => i \in DOMAIN map /\ map[i].id = x.id
      /\ i = 0 => \A j \in DOMAIN map : map[j].id # x.id
  BY MapType, FindFacts
<1>2. r = IF Len(new) > MaxResting THEN Tail(new) ELSE new
  BY DEF SetResting
<1>3. Len(map) \in Nat /\ MaxResting \in Nat /\ MaxResting > 0
  BY MapType, GatewayAssumption
<1>4. IsMap(new) /\ Len(new) <= Len(map) + 1 /\ Len(new) \in Nat
      /\ \A e : Has(new, e) <=> (e = x \/ (Has(map, e) /\ e.id # x.id))
  <2>1. CASE i = 0
    <3>1. new = Append(map, x) /\ \A j \in DOMAIN map : map[j].id # x.id
      BY <1>1, <2>1
    <3> HIDE DEF new, i
    <3>2. /\ IsMap(new) /\ Len(new) = Len(map) + 1
          /\ \A e : Has(new, e) <=> (e = x \/ (Has(map, e) /\ e.id # x.id))
      BY <3>1, AddEntry
    <3> QED
      BY <1>3, <3>2
  <2>2. CASE i # 0
    <3>1. new = [map EXCEPT ![i] = x] /\ i \in DOMAIN map /\ x.id = map[i].id
      BY <1>1, <2>2 DEF ReplaceAt
    <3> HIDE DEF new, i
    <3>2. /\ IsMap(new) /\ Len(new) = Len(map)
          /\ \A e : Has(new, e) <=> (e = x \/ (Has(map, e) /\ e.id # x.id))
      BY ONLY <3>1, IsMap(map), x \in RestingEntry, ReplaceEntry
    <3> QED
      BY <1>3, <3>2
  <2> QED
    BY <2>1, <2>2
<1> HIDE DEF new, i
<1>5. CASE Len(new) > MaxResting
  <2>1. r = Tail(new) /\ new # <<>> /\ Len(new) = Len(map) + 1 /\ Len(map) = MaxResting
    BY <1>2, <1>3, <1>4, <1>5, SeqEmpty
  <2>2. /\ IsMap(r) /\ Len(r) = Len(new) - 1 /\ \A e : Has(r, e) => Has(new, e)
    BY <1>4, <2>1, EvictEntry
  <2>3. ~(Len(map) + 1 <= MaxResting) /\ Len(r) <= MaxResting /\ Len(r) <= Len(map) + 1
    BY <1>3, <2>1, <2>2
  <2> QED
    BY <1>4, <2>2, <2>3
<1>6. CASE ~(Len(new) > MaxResting)
  <2>1. r = new /\ Len(new) <= MaxResting
    BY <1>2, <1>3, <1>4, <1>6
  <2> QED
    BY <1>4, <2>1
<1> QED
  BY <1>5, <1>6

LEMMA RemoveRestingFacts ==
  ASSUME NEW map, IsMap(map), NEW id, NEW r, r = RemoveResting(map, id)
  PROVE  /\ IsMap(r) /\ Len(r) <= Len(map)
         /\ \A e : Has(r, e) <=> Has(map, e) /\ e.id # id
<1> DEFINE i == Find(map, id)
<1>1. /\ i \in 0 .. Len(map)
      /\ i # 0 => i \in DOMAIN map /\ map[i].id = id
      /\ i = 0 => \A j \in DOMAIN map : map[j].id # id
  BY MapType, FindFacts
<1>2. r = IF i = 0 THEN map ELSE RemoveAt(map, i)
  BY DEF RemoveResting
<1>3. Len(map) \in Nat
  BY MapType
<1> HIDE DEF i
<1>4. CASE i = 0
  <2>1. r = map /\ \A e : Has(map, e) => e.id # id
    BY <1>1, <1>2, <1>4 DEF Has
  <2> QED
    BY <1>3, <2>1
<1>5. CASE i # 0
  <2>1. r = RemoveAt(map, i) /\ i \in DOMAIN map /\ map[i].id = id
    BY <1>1, <1>2, <1>5
  <2>2. /\ IsMap(r) /\ Len(r) = Len(map) - 1
        /\ \A e : Has(r, e) <=> Has(map, e) /\ e.id # id
    BY <2>1, RemoveEntry
  <2> QED
    BY <1>3, <2>2
<1> QED
  BY <1>4, <1>5

\* An entry that an operation neither makes nor cancels, and those that there are
\* after it.
Made(raw) == [id |-> raw.reply.orderId, node |-> raw.node, remaining |-> Rest(raw)]
Stays(raw, id) ==
  /\ ~(Rests(raw) /\ id = raw.reply.orderId)
  /\ ~(raw.op = "cancel" /\ raw.reply.cancelSuccessful /\ id = raw.reply.orderId)
Becomes(map, raw, e) ==
  \/ Rests(raw) /\ e = Made(raw)
  \/ Stays(raw, e.id) /\ \E e0 : Has(map, e0) /\ Leaves(raw.trades, Len(raw.trades), e0, e)

\* Records that can be normalized.
Sound(raw) ==
  /\ RecordKnown(raw) /\ Hits(raw.trades)
  /\ Rests(raw) => Rest(raw) \in Nat \ {0}

\* The statuses that the normalizer takes for one that rests.
LEMMA RestsNormalized ==
  ASSUME NEW raw
  PROVE  (raw.op = "submit" /\ Lookup(STATUS, raw.reply.status, "") \in {"queued", "partial"}) <=> Rests(raw)
<1>1. /\ Lookup(STATUS, raw.reply.status, "") \in {"queued", "partial"}
           => raw.reply.status \in {"QUEUED", "PARTIAL"}
      /\ raw.reply.status = "QUEUED" => Lookup(STATUS, raw.reply.status, "") = "queued"
      /\ raw.reply.status = "PARTIAL" => Lookup(STATUS, raw.reply.status, "") = "partial"
  <2>1. DOMAIN STATUS = {"FILLED", "PARTIAL", "QUEUED", "REJECTED"}
    BY DEF STATUS
  <2>2. STATUS["FILLED"] = "filled" /\ STATUS["PARTIAL"] = "partial" /\ STATUS["QUEUED"] = "queued" /\ STATUS["REJECTED"] = "rejected"
    BY DEF STATUS
  <2> QED
    BY <2>1, <2>2 DEF Lookup
<1> DEFINE s == Lookup(STATUS, raw.reply.status, "")
<1> HIDE DEF s
<1>2. s \in {"queued", "partial"} <=> raw.reply.status \in {"QUEUED", "PARTIAL"}
  BY <1>1, Zenon DEF s
<1> QED
  BY <1>2, Zenon DEF Rests, s

LEMMA NormalizeFacts ==
  ASSUME IsMap(resting), Len(resting) <= MaxResting, NEW raw, Sound(raw), NEW n
  PROVE  LET m == Normalize(raw, n).map
             ts == Normalize(raw, n).batch.trades
         IN /\ IsMap(m) /\ Len(m) <= MaxResting
            /\ Len(m) <= Len(resting) + 1 /\ (~Rests(raw) => Len(m) <= Len(resting))
            /\ \A e : Has(m, e) => Becomes(resting, raw, e)
            /\ (Rests(raw) => Len(resting) + 1 <= MaxResting) => \A e : Becomes(resting, raw, e) => Has(m, e)
            /\ IsSeq(ts) /\ Len(ts) = Len(raw.trades)
            /\ \A j \in 1 .. Len(raw.trades) : Attributed(resting, raw.trades[j], ts[j])
<1> DEFINE m == Normalize(raw, n).map
           ts == Normalize(raw, n).batch.trades
           acc == FoldLeft(ToTrade, [map |-> resting, trades |-> <<>>, node |-> raw.node], raw.trades)
           k == Len(raw.trades)
           o == ToOrder(raw)
<1>1. TradedUpTo(k, resting, raw.trades, acc)
  BY TradesTraded DEF Sound
<1>2. /\ ts = acc.trades
      /\ m = (IF raw.op = "submit" /\ o.status \in {"queued", "partial"}
              THEN SetResting(acc.map, [id |-> o.id, node |-> o.node, remaining |-> o.qty - o.filled])
              ELSE IF raw.op = "cancel" /\ o.cancelOk THEN RemoveResting(acc.map, o.id)
              ELSE acc.map)
  BY Zenon DEF Normalize
<1>3. /\ o.id = raw.reply.orderId /\ o.node = raw.node
      /\ o.filled = raw.reply.filledQuantity /\ o.cancelOk = raw.reply.cancelSuccessful
      /\ raw.op = "submit" => o.qty = raw.order.quantity
  BY DEF ToOrder
<1>0. (raw.op = "submit" /\ o.status \in {"queued", "partial"}) <=> Rests(raw)
  <2>1. o.status = Lookup(STATUS, raw.reply.status, "")
    BY Zenon DEF ToOrder
  <2> HIDE DEF o
  <2> QED
    BY ONLY <2>1, RestsNormalized, Zenon
<1> HIDE DEF m, ts, acc, o
<1>4. /\ Rests(raw) => m = SetResting(acc.map, Made(raw))
      /\ ~Rests(raw) /\ raw.op = "cancel" /\ raw.reply.cancelSuccessful
           => m = RemoveResting(acc.map, raw.reply.orderId)
      /\ ~Rests(raw) /\ ~(raw.op = "cancel" /\ raw.reply.cancelSuccessful) => m = acc.map
  <2>2. Rests(raw) => [id |-> o.id, node |-> o.node, remaining |-> o.qty - o.filled] = Made(raw)
    BY <1>3, Zenon DEF Rests, Rest, Made
  <2> QED
    BY <1>0, <1>2, <1>3, <2>2, Zenon
<1>5. /\ IsMap(acc.map) /\ Len(acc.map) <= Len(resting) /\ Len(acc.map) \in Nat
      /\ \A e : Has(acc.map, e) <=> \E e0 : Has(resting, e0) /\ Leaves(raw.trades, k, e0, e)
      /\ IsSeq(ts) /\ Len(ts) = k
      /\ \A j \in 1 .. k : Attributed(resting, raw.trades[j], ts[j])
  BY <1>1, <1>2, MapType DEF TradedUpTo
<1>6. MaxResting \in Nat /\ Len(resting) \in Nat /\ Len(acc.map) <= MaxResting
  BY <1>5, MapType, GatewayAssumption
<1> HIDE DEF k
<1>7. CASE Rests(raw)
  <2>1. Made(raw) \in RestingEntry
    BY <1>7 DEF Sound, RecordKnown, Made, RestingEntry, Rests
  <2>2. Made(raw).id = raw.reply.orderId
    BY DEF Made
  <2>3. m = SetResting(acc.map, Made(raw))
    BY <1>4, <1>7
  <2> DEFINE x == Made(raw)
  <2>9. IsMap(acc.map) /\ Len(acc.map) <= MaxResting /\ x \in RestingEntry /\ m = SetResting(acc.map, x)
    BY <1>5, <1>6, <2>1, <2>3
  <2> HIDE DEF x
  <2>4. /\ IsMap(m) /\ Len(m) <= MaxResting /\ Len(m) <= Len(acc.map) + 1
        /\ \A e : Has(m, e) => (e = x \/ (Has(acc.map, e) /\ e.id # x.id))
        /\ Len(acc.map) + 1 <= MaxResting => \A e : (e = x \/ (Has(acc.map, e) /\ e.id # x.id)) => Has(m, e)
    BY ONLY <2>9, SetFacts
  <2>5. \A id : Stays(raw, id) <=> id # x.id
    BY <1>7, <2>2 DEF Stays, x, Rests
  <2>6. \A e : Becomes(resting, raw, e) <=> (e = x \/ (Has(acc.map, e) /\ e.id # x.id))
    BY <1>5, <1>7, <2>5 DEF Becomes, x, k
  <2>7. Len(m) \in Nat
    BY <2>4, MapType
  <2>8. Len(m) <= Len(resting) + 1 /\ (Len(resting) + 1 <= MaxResting => Len(acc.map) + 1 <= MaxResting)
    BY <1>5, <1>6, <2>4, <2>7
  <2> QED
    BY <1>5, <1>7, <2>4, <2>6, <2>8 DEF m, ts, k
<1>8. CASE ~Rests(raw) /\ raw.op = "cancel" /\ raw.reply.cancelSuccessful
  <2>1. /\ IsMap(m) /\ Len(m) <= Len(acc.map)
        /\ \A e : Has(m, e) <=> Has(acc.map, e) /\ e.id # raw.reply.orderId
    BY <1>4, <1>5, <1>8, RemoveRestingFacts
  <2>2. \A e : Becomes(resting, raw, e) <=> Has(acc.map, e) /\ e.id # raw.reply.orderId
    BY <1>5, <1>8 DEF Becomes, Stays, k
  <2>3. Len(m) \in Nat
    BY <2>1, MapType
  <2>4. Len(m) <= MaxResting /\ Len(m) <= Len(resting) /\ Len(m) <= Len(resting) + 1
    BY <1>5, <1>6, <2>1, <2>3
  <2> QED
    BY <1>5, <2>1, <2>2, <2>4 DEF m, ts, k
<1>9. CASE ~Rests(raw) /\ ~(raw.op = "cancel" /\ raw.reply.cancelSuccessful)
  <2>1. m = acc.map
    BY <1>4, <1>9
  <2>2. \A e : Becomes(resting, raw, e) <=> Has(acc.map, e)
    BY <1>5, <1>9 DEF Becomes, Stays, k
  <2>3. Len(m) <= MaxResting /\ Len(m) <= Len(resting) /\ Len(m) <= Len(resting) + 1
    BY <1>5, <1>6, <2>1
  <2> QED
    BY <1>5, <2>1, <2>2, <2>3 DEF m, ts, k
<1> QED
  BY <1>7, <1>8, <1>9

-----------------------------------------------------------------------------
(* The map and the book                                                    *)

LEMMA HasType ==
  ASSUME NEW map, IsMap(map), NEW e, Has(map, e)
  PROVE  /\ e.id \in Nat /\ e.node \in Nodes /\ e.remaining \in Nat \ {0}
         /\ e = [id |-> e.id, node |-> e.node, remaining |-> e.remaining]
<1>1. PICK i \in DOMAIN map : map[i] = e
  BY DEF Has
<1>2. /\ map[i].id \in Nat /\ map[i].node \in Nodes
      /\ map[i].remaining \in Nat /\ map[i].remaining > 0
      /\ map[i] = [id |-> map[i].id, node |-> map[i].node, remaining |-> map[i].remaining]
  BY MapType
<1> QED
  BY <1>1, <1>2

LEMMA HasOnce ==
  ASSUME NEW map, IsMap(map), NEW d, Has(map, d), NEW e, Has(map, e), d.id = e.id
  PROVE  d = e
BY DEF Has, IsMap, Distinct

\* Where an order that rests after an operation comes from, and how its entry
\* goes with it.
Carried(c, m, r, a) ==
  \A e : Has(m, e) /\ e.id = a.id /\ e.remaining >= c.remaining =>
    \E f : /\ Becomes(m, r, f) /\ f.id = a.id /\ f.remaining >= a.remaining
           /\ e.remaining = c.remaining => f.remaining = a.remaining

LEMMA EntryCarried ==
  ASSUME NEW prev, NEW r, Follows(prev, r), NEW a \in r.after, ~(Rests(r) /\ a.id = r.reply.orderId),
         NEW m, IsMap(m)
  PROVE  \E c \in prev : c.id = a.id /\ Carried(c, m, r, a)
<1>0. /\ AfterFollows(prev, r) /\ TradesFollow(prev, r) /\ BeforeFollows(prev, r)
      /\ Orders2(prev) /\ Orders2(r.after)
  BY DEF Follows
<1>1. PICK c \in prev :
        /\ c.id = a.id
        /\ \/ a.remaining = c.remaining /\ Untouched(r, a.id)
           \/ \E j \in DOMAIN r.trades : Hit(r, j, a.id) /\ a.remaining = c.remaining - r.trades[j].quantity
  BY <1>0 DEF AfterFollows
<1>2. c.remaining \in Nat /\ a.remaining \in Nat /\ a.remaining > 0
  BY <1>0 DEF Orders2
<1>3. DOMAIN r.trades = 1 .. Len(r.trades)
  BY <1>0, SeqBasics DEF TradesFollow
<1>4. SUFFICES ASSUME NEW e, Has(m, e), e.id = a.id, e.remaining >= c.remaining
               PROVE  \E f : /\ Becomes(m, r, f) /\ f.id = a.id /\ f.remaining >= a.remaining
                             /\ e.remaining = c.remaining => f.remaining = a.remaining
  BY <1>1 DEF Carried
<1>5. e.remaining \in Nat /\ e.id \in Nat
  BY <1>4, HasType
<1>6. CASE a.remaining = c.remaining /\ Untouched(r, a.id)
  <2>1. Leaves(r.trades, Len(r.trades), e, e)
    BY <1>3, <1>4, <1>6 DEF Untouched, Hit, Leaves
  <2>2. Stays(r, e.id)
    BY <1>4, <1>6 DEF Stays, Untouched
  <2>3. Becomes(m, r, e)
    BY <1>4, <2>1, <2>2 DEF Becomes
  <2>4. e.remaining >= a.remaining
    BY <1>4, <1>6
  <2> QED
    BY <1>4, <1>6, <2>3, <2>4
<1>7. CASE \E j \in DOMAIN r.trades : Hit(r, j, a.id) /\ a.remaining = c.remaining - r.trades[j].quantity
  <2>1. PICK j \in DOMAIN r.trades : Hit(r, j, a.id) /\ a.remaining = c.remaining - r.trades[j].quantity
    BY <1>7
  <2> DEFINE q == r.trades[j].quantity
             f == [id |-> e.id, node |-> e.node, remaining |-> e.remaining - q]
  <2>2. q \in Nat
    <3>1. PICK b \in prev : Hit(r, j, b.id) /\ q \in 1 .. b.remaining
      BY <1>0 DEF TradesFollow
    <3>2. b.remaining \in Nat
      BY <1>0 DEF Orders2
    <3> QED
      BY <3>1, <3>2
  <2>a. a.remaining = c.remaining - q
    BY <2>1
  <2>b. f.id = a.id /\ f.remaining = e.remaining - q
    BY <1>4
  <2>c. q = r.trades[j].quantity /\ f = [id |-> e.id, node |-> e.node, remaining |-> e.remaining - q]
    OBVIOUS
  <2> HIDE DEF q, f
  <2>3. q < e.remaining /\ f.remaining >= a.remaining
        /\ (e.remaining = c.remaining => f.remaining = a.remaining)
    BY <1>2, <1>4, <1>5, <2>2, <2>a, <2>b
  <2>4. Lessened(e, r.trades[j], f)
    BY <1>4, <2>1, <2>3, <2>c DEF Lessened, Hit
  <2>5. Leaves(r.trades, Len(r.trades), e, f)
    BY <1>3, <2>4 DEF Leaves
  <2>6. r.op # "cancel"
    <3>1. r.op = "cancel" => r.trades = <<>>
      BY <1>0 DEF TradesFollow
    <3>2. DOMAIN <<>> = {}
      OBVIOUS
    <3> QED
      BY <2>1, <3>1, <3>2
  <2>7. Stays(r, f.id)
    BY <1>4, <2>6, <2>b DEF Stays
  <2>8. Becomes(m, r, f)
    BY <1>4, <2>5, <2>7 DEF Becomes
  <2> QED
    BY <2>3, <2>8, <2>b
<1> QED
  BY <1>1, <1>6, <1>7

\* While the map holds nothing that does not rest, it stays so.
LEMMA EntryKept ==
  ASSUME NEW prev, NEW r, Follows(prev, r), NEW m, IsMap(m),
         \A e0 : Has(m, e0) => [id |-> e0.id, remaining |-> e0.remaining] \in prev,
         NEW e, Becomes(m, r, e)
  PROVE  [id |-> e.id, remaining |-> e.remaining] \in r.after
<1>0. /\ TradesFollow(prev, r) /\ BeforeFollows(prev, r)
  BY DEF Follows
<1>3. DOMAIN r.trades = 1 .. Len(r.trades)
  BY <1>0, SeqBasics DEF TradesFollow
<1>1. CASE Rests(r) /\ e = Made(r)
  <2>1. e.id = r.reply.orderId /\ e.remaining = Rest(r)
    BY <1>1 DEF Made
  <2> QED
    BY <1>0, <1>1, <2>1 DEF BeforeFollows
<1>2. CASE Stays(r, e.id) /\ \E e0 : Has(m, e0) /\ Leaves(r.trades, Len(r.trades), e0, e)
  <2>1. PICK e0 : Has(m, e0) /\ Leaves(r.trades, Len(r.trades), e0, e)
    BY <1>2
  <2> DEFINE b == [id |-> e0.id, remaining |-> e0.remaining]
  <2>2. b \in prev /\ b.id = e0.id /\ b.remaining = e0.remaining
    BY <2>1
  <2>d. b = [id |-> e0.id, remaining |-> e0.remaining]
    OBVIOUS
  <2> HIDE DEF b
  <2>3. CASE (\A j \in 1 .. Len(r.trades) : r.trades[j].restingOrderId # e0.id) /\ e = e0
    <3>1. r.op = "cancel" => b.id # r.reply.orderId
      <4>1. r.op = "cancel" /\ ~r.reply.cancelSuccessful => b.id # r.reply.orderId
        BY <1>0, <2>2 DEF BeforeFollows
      <4>2. r.op = "cancel" /\ r.reply.cancelSuccessful => e.id # r.reply.orderId
        BY <1>2 DEF Stays
      <4> QED
        BY <2>2, <2>3, <4>1, <4>2
    <3>2. Untouched(r, b.id)
      BY <1>3, <2>2, <2>3, <3>1 DEF Untouched, Hit
    <3>3. b \in r.after
      BY <1>0, <2>2, <3>2 DEF BeforeFollows
    <3> QED
      BY <2>3, <2>d, <3>3
  <2>4. CASE \E j \in 1 .. Len(r.trades) : Lessened(e0, r.trades[j], e)
    <3>1. PICK j \in 1 .. Len(r.trades) : Lessened(e0, r.trades[j], e)
      BY <2>4
    <3>2. /\ e0.id = r.trades[j].restingOrderId /\ r.trades[j].quantity < e0.remaining
          /\ e.id = e0.id /\ e.remaining = e0.remaining - r.trades[j].quantity
      BY <3>1 DEF Lessened
    <3>3. [id |-> b.id, remaining |-> b.remaining - r.trades[j].quantity] \in r.after
      BY <1>0, <1>3, <2>2, <3>2 DEF BeforeFollows, Hit
    <3> QED
      BY <2>2, <3>2, <3>3
  <2> QED
    BY <2>1, <2>3, <2>4 DEF Leaves
<1> QED
  BY <1>1, <1>2 DEF Becomes

-----------------------------------------------------------------------------
(* The invariant of the map                                                *)

\* In these, d are the operations that the normalizer was given, m is its map.
ToldResting(L, d) == {i \in ToSet(d) : Rests(L[i])}

FewRested(L) ==
  Cardinality({i \in DOMAIN L : L[i].reply.status \in {"QUEUED", "PARTIAL"}}) <= MaxResting

AllSeen(L, d) ==
  \A i \in DOMAIN L : L[i].life = L[Last(d)].life /\ i < Last(d) => i \in ToSet(d)

OwnersKnown(L, d, m) ==
  \A e : Has(m, e) => \A i \in ToSet(d) : MadeToRest(L[i], L[Last(d)].life, e.id) => e.node = L[i].node

NoneForgotten(L, d, m) ==
  FewRested(L) /\ d # <<>> =>
    \A a \in L[Last(d)].after : \A i \in ToSet(d) : MadeToRest(L[i], L[Last(d)].life, a.id) =>
      \E e : Has(m, e) /\ e.id = a.id /\ e.remaining >= a.remaining

AllExact(L, d, m) ==
  FewRested(L) /\ d # <<>> /\ AllSeen(L, d) =>
    /\ \A a \in L[Last(d)].after : \E e : Has(m, e) /\ e.id = a.id /\ e.remaining = a.remaining
    /\ L[Last(d)].life = 1 =>
         \A e : Has(m, e) => [id |-> e.id, remaining |-> e.remaining] \in L[Last(d)].after

MapSound(L, d, m) ==
  /\ IsMap(m) /\ Len(m) <= MaxResting /\ Len(m) <= Cardinality(ToldResting(L, d))
  /\ OwnersKnown(L, d, m) /\ NoneForgotten(L, d, m) /\ AllExact(L, d, m)

\* What was given, as far as it matters here.
Given(L, d) ==
  /\ d \in Seq(Nat) /\ Increasing(d)
  /\ \A i \in DOMAIN d : d[i] \in DOMAIN L

LEMMA GivenFacts ==
  ASSUME NEW L, IsSeq(L), NEW d, Given(L, d)
  PROVE  /\ ToSet(d) \subseteq DOMAIN L /\ IsFiniteSet(ToSet(d)) /\ IsFiniteSet(DOMAIN L)
         /\ d # <<>> => /\ Last(d) \in ToSet(d)
                        /\ \A i \in ToSet(d) : i <= Last(d) /\ i \in Nat
         /\ d = <<>> => ToSet(d) = {}
<1>1. d \in Seq(Nat) /\ DOMAIN d = 1 .. Len(d) /\ Len(d) \in Nat /\ DOMAIN L = 1 .. Len(L) /\ Len(L) \in Nat
  BY SeqBasics DEF Given
<1>2. \A x : x \in ToSet(d) <=> \E i \in DOMAIN d : d[i] = x
  BY DEF ToSet
<1>3. ToSet(d) \subseteq DOMAIN L
  BY <1>2 DEF Given
<1>4. IsFiniteSet(DOMAIN L)
  BY <1>1, FS_Interval
<1>5. IsFiniteSet(ToSet(d))
  BY <1>3, <1>4, FS_Subset
<1>6. ASSUME d # <<>>
      PROVE  Last(d) \in ToSet(d) /\ \A i \in ToSet(d) : i <= Last(d) /\ i \in Nat
  <2>1. Len(d) \in DOMAIN d
    BY <1>1, <1>6
  <2>2. Last(d) = d[Len(d)]
    BY DEF Last
  <2>3. ASSUME NEW i \in DOMAIN d PROVE d[i] <= d[Len(d)]
    <3>1. d[i] \in Nat /\ d[Len(d)] \in Nat /\ (i < Len(d) \/ i = Len(d))
      BY <1>1, <2>1
    <3> QED
      BY <2>1, <3>1 DEF Given, Increasing
  <2> QED
    BY <1>1, <1>2, <2>1, <2>2, <2>3
<1>7. d = <<>> => ToSet(d) = {}
  BY <1>2
<1> QED
  BY <1>3, <1>4, <1>5, <1>6, <1>7

\* A longer log has at least as many orders that came to rest.
LEMMA FewerRested ==
  ASSUME NEW L, IsSeq(L), NEW r, FewRested(Append(L, r))
  PROVE  FewRested(L)
<1> DEFINE M == Append(L, r)
           A == {i \in DOMAIN L : L[i].reply.status \in {"QUEUED", "PARTIAL"}}
           B == {i \in DOMAIN M : M[i].reply.status \in {"QUEUED", "PARTIAL"}}
<1>1. /\ IsSeq(M) /\ Len(L) \in Nat /\ DOMAIN L = 1 .. Len(L) /\ DOMAIN M = 1 .. Len(L) + 1
      /\ \A i \in 1 .. Len(L) : M[i] = L[i]
  BY SeqAppend
<1>0. FewRested(M)
  OBVIOUS
<1> HIDE DEF M
<1>2. A \subseteq B
  BY <1>1
<1>3. IsFiniteSet(DOMAIN M)
  BY <1>1, FS_Interval
<1>4. IsFiniteSet(B)
  BY <1>3, FS_Subset
<1>5. Cardinality(A) <= Cardinality(B) /\ Cardinality(A) \in Nat /\ Cardinality(B) \in Nat
  BY <1>2, <1>4, FS_Subset, FS_CardinalityType
<1>6. MaxResting \in Nat
  BY GatewayAssumption
<1>7. Cardinality(B) <= MaxResting
  BY <1>0, Zenon DEF FewRested
<1>8. Cardinality(A) <= MaxResting
  BY <1>5, <1>6, <1>7
<1> QED
  BY <1>8, Zenon DEF FewRested

\* More orders that rest, and more operations to miss, when the log grows.
LEMMA MapKept ==
  ASSUME NEW L, IsSeq(L), NEW d, Given(L, d), NEW m, MapSound(L, d, m), NEW r
  PROVE  Given(Append(L, r), d) /\ MapSound(Append(L, r), d, m)
<1> DEFINE M == Append(L, r)
<1>1. /\ IsSeq(M) /\ Len(L) \in Nat /\ DOMAIN L = 1 .. Len(L) /\ DOMAIN M = 1 .. Len(L) + 1
      /\ \A i \in 1 .. Len(L) : M[i] = L[i]
  BY SeqAppend
<1>8. FewRested(M) => FewRested(L)
  BY FewerRested
<1> HIDE DEF M
<1>2. DOMAIN L \subseteq DOMAIN M /\ \A i \in DOMAIN L : M[i] = L[i]
  BY <1>1
<1>3. Given(M, d)
  BY <1>2 DEF Given
<1>4. /\ ToSet(d) \subseteq DOMAIN L /\ (d # <<>> => Last(d) \in ToSet(d))
      /\ d = <<>> => ToSet(d) = {}
  BY GivenFacts
<1>5. \A i \in ToSet(d) : M[i] = L[i]
  BY <1>2, <1>4
<1>6. d # <<>> => M[Last(d)] = L[Last(d)]
  BY <1>4, <1>5
<1>7. ToldResting(M, d) = ToldResting(L, d)
  BY <1>5 DEF ToldResting
<1>9. d # <<>> /\ AllSeen(M, d) => AllSeen(L, d)
  BY <1>2, <1>6 DEF AllSeen
<1>10. OwnersKnown(M, d, m)
  <2>1. OwnersKnown(L, d, m)
    BY DEF MapSound
  <2>2. CASE d = <<>>
    BY <1>4, <2>2 DEF OwnersKnown
  <2>3. CASE d # <<>>
    BY <1>5, <1>6, <2>1, <2>3 DEF OwnersKnown
  <2> QED
    BY <2>2, <2>3
<1>11. NoneForgotten(M, d, m)
  <2>1. NoneForgotten(L, d, m)
    BY DEF MapSound
  <2> QED
    BY <1>5, <1>6, <1>8, <2>1 DEF NoneForgotten
<1>12. AllExact(M, d, m)
  <2>1. AllExact(L, d, m)
    BY DEF MapSound
  <2> QED
    BY <1>6, <1>8, <1>9, <2>1 DEF AllExact
<1> QED
  BY <1>3, <1>7, <1>10, <1>11, <1>12 DEF MapSound, M

\* What Normalize makes of the map m and a record.
Normalized(m, raw, m2) ==
  /\ IsMap(m2) /\ Len(m2) <= MaxResting
  /\ Len(m2) <= Len(m) + 1 /\ (~Rests(raw) => Len(m2) <= Len(m))
  /\ \A e : Has(m2, e) => Becomes(m, raw, e)
  /\ (Rests(raw) => Len(m) + 1 <= MaxResting) => \A e : Becomes(m, raw, e) => Has(m2, e)

\* What was told of an order is what was told before, unless it is told now.
LEMMA ToldBefore ==
  ASSUME NEW L, LogSound(L), NEW d, Given(L, d), NEW n \in DOMAIN L, \A i \in ToSet(d) : i < n,
         NEW i \in ToSet(d), L[i].life = L[n].life
  PROVE  /\ d # <<>> /\ Last(d) \in DOMAIN L /\ i <= Last(d) /\ Last(d) < n /\ i < n
         /\ L[Last(d)].life = L[n].life
<1>1. IsSeq(L) /\ \A j, k \in DOMAIN L : j <= k => L[j].life <= L[k].life
  BY DEF LogSound
<1>2. ToSet(d) \subseteq DOMAIN L /\ d # <<>> /\ Last(d) \in ToSet(d) /\ i <= Last(d)
  BY <1>1, GivenFacts
<1>3. Last(d) < n /\ i < n /\ Last(d) \in DOMAIN L /\ i \in DOMAIN L
  BY <1>2
<1>4. n \in Nat /\ Last(d) \in Nat
  BY <1>1, <1>3, SeqBasics
<1>5. L[i].life <= L[Last(d)].life /\ L[Last(d)].life <= L[n].life
  BY <1>1, <1>2, <1>3, <1>4
<1>6. L[i].life \in Nat /\ L[Last(d)].life \in Nat /\ L[n].life \in Nat
  BY <1>3 DEF LogSound, RecordKnown
<1> QED
  BY <1>2, <1>3, <1>5, <1>6

\* What rested before an operation and was told of rested, at least as much of it,
\* after the last operation that was given.
LEMMA RestedBefore ==
  ASSUME NEW L, LogSound(L), NEW d, Given(L, d), NEW n \in DOMAIN L, \A i \in ToSet(d) : i < n,
         NEW c \in BeforeIn(L, n), NEW i \in ToSet(d), MadeToRest(L[i], L[n].life, c.id)
  PROVE  \E b \in L[Last(d)].after : b.id = c.id /\ b.remaining >= c.remaining
<1>1. /\ d # <<>> /\ Last(d) \in DOMAIN L /\ i <= Last(d) /\ Last(d) < n
      /\ L[Last(d)].life = L[n].life
  BY ToldBefore DEF MadeToRest
<1>2. n > 1 /\ L[n - 1].life = L[n].life /\ c \in L[n - 1].after
  BY DEF BeforeIn
<1>3. DOMAIN L = 1 .. Len(L) /\ Len(L) \in Nat
  BY SeqBasics DEF LogSound
<1>4. n - 1 \in DOMAIN L /\ Last(d) <= n - 1 /\ i \in DOMAIN L /\ i \in Nat /\ Last(d) \in Nat /\ n \in Nat
  BY <1>1, <1>2, <1>3, GivenFacts DEF LogSound
<1>5. \/ \E b \in L[Last(d)].after : b.id = c.id /\ b.remaining >= c.remaining
      \/ \E k \in Last(d) + 1 .. n - 1 : MadeToRest(L[k], L[n - 1].life, c.id)
  BY <1>1, <1>2, <1>4 DEF LogSound, Shrinks
<1>6. ASSUME NEW k \in Last(d) + 1 .. n - 1, MadeToRest(L[k], L[n - 1].life, c.id) PROVE FALSE
  <2>1. k \in DOMAIN L /\ k # i
    BY <1>1, <1>3, <1>4
  <2>2. L[k].op = "submit" /\ L[i].op = "submit" /\ L[k].life = L[i].life /\ L[k].reply.orderId = L[i].reply.orderId
    BY <1>2, <1>6 DEF MadeToRest, Rests
  <2> QED
    BY <1>4, <2>1, <2>2 DEF LogSound, IdsOnce
<1> QED
  BY <1>5, <1>6

LEMMA MapDelivers ==
  ASSUME NEW L, LogSound(L), NEW d, Given(L, d), NEW m, MapSound(L, d, m),
         NEW n \in DOMAIN L, \A i \in ToSet(d) : i < n,
         NEW m2, Normalized(m, L[n], m2)
  PROVE  Given(L, Append(d, n)) /\ MapSound(L, Append(d, n), m2)
<1> DEFINE d2 == Append(d, n)
           raw == L[n]
           prev == BeforeIn(L, n)
           l == L[n].life
<1>1. /\ IsSeq(L) /\ DOMAIN L = 1 .. Len(L) /\ Len(L) \in Nat /\ n \in Nat /\ IsFiniteSet(DOMAIN L)
      /\ d \in Seq(Nat) /\ Increasing(d) /\ DOMAIN d = 1 .. Len(d) /\ Len(d) \in Nat
      /\ ToSet(d) \subseteq DOMAIN L /\ IsFiniteSet(ToSet(d))
      /\ \A i \in DOMAIN d : d[i] \in DOMAIN L /\ d[i] \in Nat /\ d[i] < n
  <2>1. IsSeq(L)
    BY DEF LogSound
  <2>2. \A i \in DOMAIN d : d[i] \in ToSet(d)
    BY DEF ToSet
  <2> QED
    BY <2>1, <2>2, SeqBasics, GivenFacts DEF Given
<1>2. /\ d2 \in Seq(Nat) /\ Len(d2) = Len(d) + 1 /\ DOMAIN d2 = 1 .. Len(d) + 1
      /\ \A i \in DOMAIN d : d2[i] = d[i]
      /\ d2[Len(d) + 1] = n
  BY <1>1
<1> HIDE DEF d2
<1>3. d2 # <<>> /\ Last(d2) = n
  <2>1. Len(d2) # 0
    BY <1>1, <1>2
  <2> QED
    BY <1>1, <1>2, <2>1 DEF Last
<1>4. ToSet(d2) = ToSet(d) \cup {n} /\ n \notin ToSet(d)
  <2>1. \A i \in DOMAIN d2 : i \in DOMAIN d \/ i = Len(d) + 1
    BY <1>1, <1>2
  <2>2. \A i \in DOMAIN d : i \in DOMAIN d2
    BY <1>1, <1>2
  <2>3. Len(d) + 1 \in DOMAIN d2
    BY <1>1, <1>2
  <2>4. n \notin ToSet(d)
    BY <1>1
  <2> QED
    BY <1>2, <2>1, <2>2, <2>3, <2>4 DEF ToSet
<1>5. Given(L, d2)
  <2>1. ASSUME NEW i \in DOMAIN d2, NEW j \in DOMAIN d2, i < j PROVE d2[i] < d2[j]
    <3>1. i \in DOMAIN d
      BY <1>1, <1>2, <2>1
    <3>2. CASE j \in DOMAIN d
      BY <1>1, <1>2, <2>1, <3>1, <3>2 DEF Increasing
    <3>3. CASE j = Len(d) + 1
      BY <1>1, <1>2, <3>1, <3>3
    <3> QED
      BY <1>1, <1>2, <3>2, <3>3
  <2>2. ASSUME NEW i \in DOMAIN d2 PROVE d2[i] \in DOMAIN L
    <3>1. i \in DOMAIN d \/ i = Len(d) + 1
      BY <1>1, <1>2
    <3>2. i \in DOMAIN d => d2[i] \in DOMAIN L
      BY <1>1, <1>2
    <3>3. i = Len(d) + 1 => d2[i] \in DOMAIN L
      BY <1>2
    <3> QED
      BY <3>1, <3>2, <3>3
  <2> QED
    BY <1>2, <2>1, <2>2 DEF Given, Increasing
<1>6. /\ Follows(prev, raw) /\ RecordKnown(raw) /\ BeforeFollows(prev, raw) /\ Orders2(raw.after)
      /\ \A i, j \in DOMAIN L : i <= j => L[i].life <= L[j].life
      /\ \A i \in DOMAIN L : L[i].life \in Nat \ {0}
      /\ IdsOnce(L)
  BY DEF LogSound, Follows, RecordKnown
<1>7. /\ IsMap(m) /\ Len(m) \in Nat /\ Len(m) <= MaxResting /\ Len(m) <= Cardinality(ToldResting(L, d))
      /\ OwnersKnown(L, d, m) /\ NoneForgotten(L, d, m) /\ AllExact(L, d, m)
      /\ IsMap(m2) /\ Len(m2) \in Nat /\ Len(m2) <= MaxResting
      /\ Len(m2) <= Len(m) + 1 /\ (~Rests(raw) => Len(m2) <= Len(m))
      /\ \A e : Has(m2, e) => Becomes(m, raw, e)
      /\ (Rests(raw) => Len(m) + 1 <= MaxResting) => \A e : Becomes(m, raw, e) => Has(m2, e)
      /\ MaxResting \in Nat
  BY MapType, GatewayAssumption DEF MapSound, Normalized
\* The number of orders it was told of that came to rest.
<1>8. Len(m2) <= Cardinality(ToldResting(L, d2))
  <2>1. IsFiniteSet(ToldResting(L, d)) /\ n \notin ToldResting(L, d)
    BY <1>1, <1>4, FS_Subset DEF ToldResting
  <2>2. Cardinality(ToldResting(L, d)) \in Nat
    BY <2>1, FS_CardinalityType
  <2>3. CASE Rests(raw)
    <3>1. ToldResting(L, d2) = ToldResting(L, d) \cup {n}
      BY <1>4, <2>3 DEF ToldResting
    <3>2. Cardinality(ToldResting(L, d2)) = Cardinality(ToldResting(L, d)) + 1
      BY <2>1, <3>1, FS_AddElement
    <3> QED
      BY <1>7, <2>2, <3>2
  <2>4. CASE ~Rests(raw)
    <3>1. ToldResting(L, d2) = ToldResting(L, d)
      BY <1>4, <2>4 DEF ToldResting
    <3> QED
      BY <1>7, <2>2, <2>4, <3>1
  <2> QED
    BY <2>3, <2>4
<1>9. FewRested(L) => \A e : Becomes(m, raw, e) => Has(m2, e)
  <2> SUFFICES ASSUME FewRested(L), Rests(raw) PROVE Len(m) + 1 <= MaxResting
    BY <1>7
  <2> DEFINE A == ToldResting(L, d) \cup {n}
             B == {i \in DOMAIN L : L[i].reply.status \in {"QUEUED", "PARTIAL"}}
  <2>1. IsFiniteSet(ToldResting(L, d)) /\ n \notin ToldResting(L, d)
    BY <1>1, <1>4, FS_Subset DEF ToldResting
  <2>2. Cardinality(ToldResting(L, d)) \in Nat /\ Cardinality(A) = Cardinality(ToldResting(L, d)) + 1
    BY <2>1, FS_AddElement, FS_CardinalityType
  <2>3. A \subseteq B
    BY <1>1 DEF ToldResting, Rests
  <2>4. IsFiniteSet(B)
    BY <1>1, FS_Subset
  <2>5. Cardinality(B) \in Nat /\ Cardinality(A) <= Cardinality(B)
    BY <2>3, <2>4, FS_Subset, FS_CardinalityType
  <2>6. Cardinality(B) <= MaxResting
    BY Zenon DEF FewRested
  <2> HIDE DEF A, B
  <2> QED
    BY <1>7, <2>2, <2>5, <2>6
\* What was told before.
<1>10. ASSUME NEW i \in ToSet(d), NEW id, MadeToRest(L[i], l, id)
       PROVE  /\ d # <<>> /\ L[Last(d)].life = l /\ MadeToRest(L[i], L[Last(d)].life, id)
              /\ ~(Rests(raw) /\ id = raw.reply.orderId)
  <2>1. d # <<>> /\ L[Last(d)].life = l /\ i < n
    BY <1>10, ToldBefore DEF MadeToRest
  <2>2. i \in DOMAIN L /\ i # n
    BY <1>1, <1>4
  <2>3. ~(Rests(raw) /\ id = raw.reply.orderId)
    BY <1>6, <1>10, <2>2 DEF IdsOnce, MadeToRest, Rests
  <2> QED
    BY <1>10, <2>1, <2>3
<1>11. ASSUME Rests(raw) PROVE Becomes(m, raw, Made(raw)) /\ Made(raw).id = raw.reply.orderId /\ Made(raw).remaining = Rest(raw)
  BY <1>11 DEF Becomes, Made
<1>12. ASSUME NEW a \in raw.after, Rests(raw), a.id = raw.reply.orderId PROVE a.remaining = Rest(raw)
  <2> DEFINE b == [id |-> raw.reply.orderId, remaining |-> Rest(raw)]
  <2>1. b \in raw.after /\ b.id = a.id /\ b.remaining = Rest(raw)
    BY <1>6, <1>12 DEF BeforeFollows
  <2> HIDE DEF b
  <2>2. b = a
    BY <1>6, <2>1 DEF Orders2
  <2> QED
    BY <2>1, <2>2
<1> HIDE DEF raw, prev, l
\* Owners.
<1>13. OwnersKnown(L, d2, m2)
  <2> SUFFICES ASSUME NEW e, Has(m2, e), NEW i \in ToSet(d2), MadeToRest(L[i], l, e.id)
               PROVE  e.node = L[i].node
    BY <1>3 DEF OwnersKnown, l
  <2>1. Becomes(m, raw, e)
    BY <1>7
  <2>2. CASE Rests(raw) /\ e = Made(raw)
    <3>1. e.id = raw.reply.orderId /\ e.node = raw.node
      BY <2>2 DEF Made
    <3>2. i = n
      BY <1>4, <1>10, <2>2, <3>1
    <3> QED
      BY <3>1, <3>2 DEF raw
  <2>3. CASE Stays(raw, e.id) /\ \E e0 : Has(m, e0) /\ Leaves(raw.trades, Len(raw.trades), e0, e)
    <3>1. PICK e0 : Has(m, e0) /\ Leaves(raw.trades, Len(raw.trades), e0, e)
      BY <2>3
    <3>2. e.id = e0.id /\ e.node = e0.node
      BY <3>1 DEF Leaves, Lessened
    <3>3. i # n
      BY <2>3 DEF Stays, MadeToRest, raw
    <3>4. i \in ToSet(d)
      BY <1>4, <3>3
    <3>5. MadeToRest(L[i], L[Last(d)].life, e0.id)
      BY <1>10, <3>2, <3>4
    <3> QED
      BY <1>7, <3>1, <3>2, <3>4, <3>5 DEF OwnersKnown
  <2> QED
    BY <2>1, <2>2, <2>3 DEF Becomes
\* An order that was told of and rests is still in the map.
<1>14. NoneForgotten(L, d2, m2)
  <2> SUFFICES ASSUME FewRested(L), NEW a \in raw.after, NEW i \in ToSet(d2), MadeToRest(L[i], l, a.id)
               PROVE  \E e : Has(m2, e) /\ e.id = a.id /\ e.remaining >= a.remaining
    BY <1>3 DEF NoneForgotten, l, raw
  <2>0. a.remaining \in Nat
    BY <1>6 DEF Orders2
  <2>1. CASE Rests(raw) /\ a.id = raw.reply.orderId
    <3>1. Has(m2, Made(raw)) /\ Made(raw).id = a.id /\ Made(raw).remaining = a.remaining
      BY <1>9, <1>11, <1>12, <2>1
    <3> QED
      BY <2>0, <3>1
  <2>2. CASE ~(Rests(raw) /\ a.id = raw.reply.orderId)
    <3>1. i \in ToSet(d)
      BY <1>4, <2>2 DEF MadeToRest, raw
    <3>2. PICK c \in prev : c.id = a.id /\ Carried(c, m, raw, a)
      BY <1>6, <1>7, <2>2, EntryCarried
    <3>3. PICK b \in L[Last(d)].after : b.id = c.id /\ b.remaining >= c.remaining
      BY <3>1, <3>2, RestedBefore DEF prev, l
    <3>4. d # <<>> /\ MadeToRest(L[i], L[Last(d)].life, b.id)
      BY <1>10, <3>1, <3>2, <3>3
    <3>5. PICK e : Has(m, e) /\ e.id = b.id /\ e.remaining >= b.remaining
      BY <1>7, <3>1, <3>4 DEF NoneForgotten
    <3>6. e.remaining >= c.remaining
      <4>1. Last(d) \in DOMAIN L
        BY <1>1, <3>4, GivenFacts
      <4>2. Orders2(L[Last(d)].after) /\ Orders2(prev)
        BY <1>6, <4>1 DEF LogSound, Follows
      <4>3. b.remaining \in Nat /\ c.remaining \in Nat /\ e.remaining \in Nat
        BY <1>7, <3>5, <4>2, HasType DEF Orders2
      <4> QED
        BY <3>3, <3>5, <4>3
    <3>7. PICK f : Becomes(m, raw, f) /\ f.id = a.id /\ f.remaining >= a.remaining
      BY <3>2, <3>3, <3>5, <3>6 DEF Carried
    <3> QED
      BY <1>9, <3>7
  <2> QED
    BY <2>1, <2>2
\* While nothing is missed, the map is exact.
<1>15. ASSUME AllSeen(L, d2), FewRested(L)
       PROVE  /\ \A c \in prev : \E e : Has(m, e) /\ e.id = c.id /\ e.remaining = c.remaining
              /\ l = 1 => \A e : Has(m, e) => [id |-> e.id, remaining |-> e.remaining] \in prev
  <2>1. ASSUME n > 1, L[n - 1].life = l
        PROVE  /\ d # <<>> /\ AllSeen(L, d) /\ L[Last(d)].after = prev /\ L[Last(d)].life = l
    <3>1. n - 1 \in DOMAIN L /\ n - 1 < n /\ n - 1 # n
      BY <1>1, <2>1
    <3>2. n - 1 \in ToSet(d)
      BY <1>3, <1>4, <1>15, <2>1, <3>1 DEF AllSeen, l
    <3>3. d # <<>> /\ n - 1 <= Last(d) /\ Last(d) < n /\ Last(d) \in Nat
      BY <1>1, <3>2, GivenFacts
    <3>4. Last(d) = n - 1
      BY <1>1, <3>3
    <3>5. AllSeen(L, d)
      <4> SUFFICES ASSUME NEW i \in DOMAIN L, L[i].life = L[n - 1].life, i < n - 1 PROVE i \in ToSet(d)
        BY <3>4 DEF AllSeen
      <4>1. i < n /\ i # n
        BY <1>1
      <4> QED
        BY <1>3, <1>4, <1>15, <2>1, <4>1 DEF AllSeen, l
    <3> QED
      BY <2>1, <3>3, <3>4, <3>5 DEF prev, BeforeIn, l
  <2>2. CASE n > 1 /\ L[n - 1].life = l
    <3>1. d # <<>> /\ AllSeen(L, d) /\ L[Last(d)].after = prev /\ L[Last(d)].life = l
      BY <2>1, <2>2
    <3> QED
      BY <1>7, <1>15, <3>1 DEF AllExact
  <2>3. CASE ~(n > 1 /\ L[n - 1].life = l)
    <3>1. prev = {}
      BY <2>3 DEF prev, BeforeIn, l
    <3>2. ASSUME l = 1, NEW e, Has(m, e) PROVE FALSE
      <4>1. d # <<>>
        <5>1. ASSUME d = <<>> PROVE FALSE
          <6>1. ToldResting(L, d) = {}
            BY <1>1, <5>1, GivenFacts DEF ToldResting
          <6>2. Len(m) = 0
            BY <1>7, <6>1, FS_EmptySet
          <6>3. DOMAIN m = {}
            BY <1>7, <6>2, MapType
          <6> QED
            BY <3>2, <6>3 DEF Has
        <5> QED
          BY <5>1
      <4>2. Last(d) \in DOMAIN L /\ Last(d) < n
        BY <1>1, <4>1, GivenFacts
      <4>3. n > 1 /\ n - 1 \in DOMAIN L /\ n - 1 <= n
        BY <1>1, <4>2
      <4>4. L[n - 1].life <= L[n].life /\ L[n - 1].life \in Nat \ {0}
        BY <1>6, <4>3
      <4>5. L[n - 1].life = l
        BY <3>2, <4>4 DEF l
      <4> QED
        BY <2>3, <4>3, <4>5
    <3> QED
      BY <3>1, <3>2
  <2> QED
    BY <2>2, <2>3
<1>16. AllExact(L, d2, m2)
  <2> SUFFICES ASSUME FewRested(L), AllSeen(L, d2)
               PROVE  /\ \A a \in raw.after : \E e : Has(m2, e) /\ e.id = a.id /\ e.remaining = a.remaining
                      /\ l = 1 => \A e : Has(m2, e) => [id |-> e.id, remaining |-> e.remaining] \in raw.after
    BY <1>3 DEF AllExact, l, raw
  <2>1. ASSUME NEW a \in raw.after PROVE \E e : Has(m2, e) /\ e.id = a.id /\ e.remaining = a.remaining
    <3>1. CASE Rests(raw) /\ a.id = raw.reply.orderId
      <4>1. Has(m2, Made(raw)) /\ Made(raw).id = a.id /\ Made(raw).remaining = a.remaining
        BY <1>9, <1>11, <1>12, <3>1
      <4> QED
        BY <4>1
    <3>2. CASE ~(Rests(raw) /\ a.id = raw.reply.orderId)
      <4>1. PICK c \in prev : c.id = a.id /\ Carried(c, m, raw, a)
        BY <1>6, <1>7, <3>2, EntryCarried
      <4>2. PICK e : Has(m, e) /\ e.id = c.id /\ e.remaining = c.remaining
        BY <1>15
      <4>3. e.remaining \in Nat
        BY <1>7, <4>2, HasType
      <4>4. e.remaining >= c.remaining
        BY <4>2, <4>3
      <4>5. PICK f : Becomes(m, raw, f) /\ f.id = a.id /\ f.remaining = a.remaining
        BY <4>1, <4>2, <4>4 DEF Carried
      <4> QED
        BY <1>9, <4>5
    <3> QED
      BY <3>1, <3>2
  <2>2. ASSUME l = 1, NEW e, Has(m2, e) PROVE [id |-> e.id, remaining |-> e.remaining] \in raw.after
    <3>1. \A e0 : Has(m, e0) => [id |-> e0.id, remaining |-> e0.remaining] \in prev
      BY <1>15, <2>2
    <3>2. Becomes(m, raw, e)
      BY <1>7, <2>2
    <3> QED
      BY <1>6, <1>7, <3>1, <3>2, EntryKept
  <2> QED
    BY <2>1, <2>2
<1> QED
  BY <1>5, <1>7, <1>8, <1>13, <1>14, <1>16 DEF MapSound, d2

-----------------------------------------------------------------------------
(* What is attributed                                                      *)

LEMMA RecordsSound ==
  ASSUME NEW L, LogSound(L), NEW n \in DOMAIN L
  PROVE  Sound(L[n])
<1> DEFINE raw == L[n]
           prev == BeforeIn(L, n)
<1>1. RecordKnown(raw) /\ TradesFollow(prev, raw) /\ BeforeFollows(prev, raw) /\ Orders2(prev)
  BY DEF LogSound, Follows
<1> HIDE DEF raw, prev
<1>2. ASSUME NEW j \in DOMAIN raw.trades PROVE raw.trades[j].quantity \in Nat \ {0}
  <2>1. PICK b \in prev : raw.trades[j].quantity \in 1 .. b.remaining
    BY <1>1 DEF TradesFollow
  <2>2. b.remaining \in Nat
    BY <1>1 DEF Orders2
  <2> QED
    BY <2>1, <2>2
<1>3. Hits(raw.trades)
  BY <1>1, <1>2 DEF Hits, TradesFollow
<1>4. Rests(raw) => Rest(raw) \in Nat \ {0}
  BY <1>1 DEF BeforeFollows
<1> QED
  BY <1>1, <1>3, <1>4 DEF Sound, raw

\* Whose an order is that x says was traded with.
Owned(L, k, x) ==
  \/ x.restingNode = L[k].node
  \/ ~FewRested(L) /\ x.restingNode = "?"

\* The trades of the operation at n, as far as the orders they hit were told of.
TradesOwned(L, d, n, ts) ==
  \A j \in DOMAIN ts : \A k \in ToSet(d) :
    k < n /\ L[k].life = L[n].life /\ L[k].op = "submit" /\ L[k].reply.orderId = ts[j].resting
      => Owned(L, k, ts[j])

LEMMA TradesAreOwned ==
  ASSUME NEW L, LogSound(L), NEW d, Given(L, d), NEW m, MapSound(L, d, m),
         NEW n \in DOMAIN L, \A i \in ToSet(d) : i < n,
         NEW ts, IsSeq(ts), Len(ts) = Len(L[n].trades),
         \A j \in 1 .. Len(L[n].trades) : Attributed(m, L[n].trades[j], ts[j])
  PROVE  TradesOwned(L, d, n, ts)
<1> SUFFICES ASSUME NEW j \in DOMAIN ts, NEW k \in ToSet(d),
                    k < n, L[k].life = L[n].life, L[k].op = "submit", L[k].reply.orderId = ts[j].resting
             PROVE  Owned(L, k, ts[j])
  BY DEF TradesOwned
<1> DEFINE t == L[n].trades[j]
           x == ts[j]
           prev == BeforeIn(L, n)
<1>1. IsSeq(L) /\ IdsOnce(L) /\ Origins(L) /\ TradesFollow(prev, L[n])
  BY DEF LogSound, Follows
<1>2. j \in 1 .. Len(L[n].trades) /\ j \in DOMAIN L[n].trades
  BY <1>1, SeqBasics DEF TradesFollow
<1>3. Attributed(m, t, x)
  BY <1>2
<1>4. DOMAIN L = 1 .. Len(L) /\ Len(L) \in Nat /\ n \in Nat /\ k \in DOMAIN L
  BY <1>1, SeqBasics, GivenFacts
<1>5. PICK b \in prev : t.restingOrderId = b.id
  BY <1>1, <1>2 DEF TradesFollow, Hit
<1>6. n > 1 /\ L[n - 1].life = L[n].life /\ b \in L[n - 1].after
  BY <1>5 DEF BeforeIn
<1>7. n - 1 \in DOMAIN L
  BY <1>4, <1>6
<1>8. PICK i \in 1 .. n - 1 : MadeToRest(L[i], L[n - 1].life, b.id)
  BY <1>1, <1>6, <1>7 DEF Origins
<1>9. i \in DOMAIN L
  BY <1>4, <1>8
<1>10. L[k].reply.orderId = b.id
  BY <1>3, <1>5 DEF Attributed
<1>11. i = k
  BY <1>1, <1>4, <1>6, <1>8, <1>9, <1>10 DEF IdsOnce, MadeToRest, Rests
<1>12. MadeToRest(L[k], L[n].life, b.id)
  BY <1>6, <1>8, <1>11
<1>13. d # <<>> /\ L[Last(d)].life = L[n].life
  BY ToldBefore
<1>14. CASE \E e : Has(m, e) /\ e.id = b.id
  <2>1. PICK e : Has(m, e) /\ e.id = b.id
    BY <1>14
  <2>2. e.node = L[k].node
    BY <1>12, <1>13, <2>1 DEF MapSound, OwnersKnown
  <2>3. x.restingNode = e.node
    BY <1>3, <1>5, <2>1 DEF Attributed
  <2> QED
    BY <2>2, <2>3 DEF Owned
<1>15. CASE ~\E e : Has(m, e) /\ e.id = b.id
  <2>1. x.restingNode = "?"
    BY <1>3, <1>5, <1>15 DEF Attributed
  <2>2. ASSUME FewRested(L) PROVE FALSE
    <3>1. PICK c \in L[Last(d)].after : c.id = b.id
      BY <1>5, <1>12, RestedBefore
    <3>2. MadeToRest(L[k], L[Last(d)].life, c.id)
      BY <1>12, <1>13, <3>1
    <3>3. \E e : Has(m, e) /\ e.id = c.id
      BY <1>13, <2>2, <3>1, <3>2 DEF MapSound, NoneForgotten
    <3> QED
      BY <1>15, <3>1, <3>3
  <2> QED
    BY <2>1, <2>2 DEF Owned
<1> QED
  BY <1>14, <1>15

\* The batches of the history.
HistoryOwned(L, d, h) == \A i \in DOMAIN h : TradesOwned(L, d, h[i].n, h[i].trades)

\* The log grows.
LEMMA HistoryKept ==
  ASSUME NEW L, IsSeq(L), NEW d, Given(L, d), NEW h,
         \A i \in DOMAIN h : h[i].n \in ToSet(d), HistoryOwned(L, d, h), NEW r
  PROVE  HistoryOwned(Append(L, r), d, h)
<1> DEFINE M == Append(L, r)
<1>1. DOMAIN L = 1 .. Len(L) /\ \A i \in 1 .. Len(L) : M[i] = L[i]
  BY SeqAppend
<1>2. FewRested(M) => FewRested(L)
  BY FewerRested
<1> HIDE DEF M
<1>3. \A i \in ToSet(d) : M[i] = L[i]
  BY <1>1, GivenFacts
<1>4. ASSUME NEW i \in DOMAIN h PROVE TradesOwned(M, d, h[i].n, h[i].trades)
  <2>1. M[h[i].n] = L[h[i].n] /\ TradesOwned(L, d, h[i].n, h[i].trades)
    BY <1>3 DEF HistoryOwned
  <2> QED
    BY <1>2, <1>3, <2>1 DEF TradesOwned, Owned
<1> QED
  BY <1>4 DEF HistoryOwned, M

\* An operation is delivered: the history gets its batch, and may lose its first.
LEMMA HistoryDelivers ==
  ASSUME NEW L, NEW d \in Seq(Nat), NEW h, IsSeq(h), \A i \in DOMAIN h : h[i].n \in ToSet(d),
         HistoryOwned(L, d, h), NEW n \in Nat, \A i \in ToSet(d) : i < n,
         NEW b, b.n = n, TradesOwned(L, d, n, b.trades),
         NEW h2, h2 = Append(h, b) \/ h2 = Tail(Append(h, b))
  PROVE  HistoryOwned(L, Append(d, n), h2)
<1> DEFINE g == Append(h, b)
           e == Append(d, n)
<1>1. /\ IsSeq(g) /\ Len(h) \in Nat /\ DOMAIN h = 1 .. Len(h) /\ Len(g) = Len(h) + 1
      /\ DOMAIN g = 1 .. Len(h) + 1 /\ g[Len(h) + 1] = b
      /\ \A j \in 1 .. Len(h) : g[j] = h[j]
  BY SeqAppend
<1>2. \A k \in ToSet(e) : k \in ToSet(d) \/ k = n
  BY DEF ToSet
<1>0. h2 = g \/ h2 = Tail(g)
  OBVIOUS
<1> HIDE DEF g, e
<1>3. ASSUME NEW i \in DOMAIN g PROVE TradesOwned(L, e, g[i].n, g[i].trades)
  <2>1. CASE i \in DOMAIN h
    <3>1. g[i] = h[i] /\ TradesOwned(L, d, h[i].n, h[i].trades) /\ h[i].n < n
      BY <1>1, <2>1 DEF HistoryOwned
    <3>2. ~(n < h[i].n)
      <4>1. PICK j \in DOMAIN d : h[i].n = d[j]
        BY <2>1 DEF ToSet
      <4>2. h[i].n \in Nat
        BY <4>1
      <4> QED
        BY <3>1, <4>2
    <3> QED
      BY <1>2, <3>1, <3>2 DEF TradesOwned
  <2>2. CASE i = Len(h) + 1
    <3>1. g[i] = b /\ ~(n < n)
      BY <1>1, <2>2
    <3> QED
      BY <1>2, <3>1 DEF TradesOwned
  <2> QED
    BY <1>1, <2>1, <2>2
<1>4. \A i \in DOMAIN h2 : \E j \in DOMAIN g : h2[i] = g[j]
  <2>1. CASE h2 = g
    BY <2>1
  <2>2. CASE h2 = Tail(g)
    <3>1. g # <<>>
      BY <1>1
    <3> DEFINE t == Tail(g)
    <3>2. DOMAIN t = 1 .. Len(h) /\ \A i \in 1 .. Len(h) : t[i] = g[i + 1]
      BY <1>1, <3>1, SeqTail
    <3> HIDE DEF t
    <3>3. \A i \in 1 .. Len(h) : i + 1 \in DOMAIN g
      BY <1>1
    <3>4. h2 = t
      BY <2>2 DEF t
    <3> QED
      BY <3>2, <3>3, <3>4
  <2> QED
    BY <1>0, <2>1, <2>2
<1> QED
  BY <1>3, <1>4 DEF HistoryOwned, e

-----------------------------------------------------------------------------
(* The map of resting orders, always                                       *)

\* The numbers of operations start at one.
Placed ==
  /\ \A i \in DOMAIN done : done[i] >= 1
  /\ \A k \in 1 .. 2 : \A i \in DOMAIN calls[k].wire : calls[k].wire[i] >= 1

LEMMA InitPlaced ==
  ASSUME Init
  PROVE  Placed
<1>1. done = <<>> /\ \A k \in 1 .. 2 : calls[k].wire = <<>>
  BY DEF Init
<1> QED
  BY <1>1 DEF Placed

\* What a batch that comes does to all but the pages.
LEMMA OnDataEffect ==
  ASSUME NEW k, NEW due, OnData(k, due)
  PROVE  /\ log' = log
         /\ done' = Append(done, Head(calls[k].wire))
         /\ resting' = Normalize(log[Head(calls[k].wire)], Head(calls[k].wire)).map
         /\ \E book :
              LET all == Append(history, [Normalize(log[Head(calls[k].wire)], Head(calls[k].wire)).batch
                                            EXCEPT !.book = book])
              IN history' = IF Len(all) > HistoryMax THEN Tail(all) ELSE all
<1>1. UNCHANGED exchangeVars
  BY Zenon DEF OnData
<1>2. done' = Append(done, Head(calls[k].wire))
  BY Zenon DEF OnData
<1>3. resting' = Normalize(log[Head(calls[k].wire)], Head(calls[k].wire)).map
  BY Zenon DEF OnData
<1>4. \E book :
        LET all == Append(history, [Normalize(log[Head(calls[k].wire)], Head(calls[k].wire)).batch
                                      EXCEPT !.book = book])
        IN history' = IF Len(all) > HistoryMax THEN Tail(all) ELSE all
  BY Zenon DEF OnData
<1> QED
  BY <1>1, <1>2, <1>3, <1>4, Zenon DEF exchangeVars

LEMMA AppendAtLeast ==
  ASSUME NEW s \in Seq(Nat), \A i \in DOMAIN s : s[i] >= 1, NEW x \in Nat, x >= 1, NEW r, r = Append(s, x)
  PROVE  \A i \in DOMAIN r : r[i] >= 1
<1>1. /\ DOMAIN s = 1 .. Len(s) /\ Len(s) \in Nat /\ DOMAIN r = 1 .. Len(s) + 1
      /\ r[Len(s) + 1] = x /\ \A i \in 1 .. Len(s) : r[i] = s[i]
  OBVIOUS
<1>2. ASSUME NEW i \in 1 .. Len(s) + 1 PROVE r[i] >= 1
  <2>1. CASE i = Len(s) + 1
    BY <1>1, <2>1
  <2>2. CASE i # Len(s) + 1
    <3>1. i \in 1 .. Len(s)
      BY <1>1, <2>2
    <3> QED
      BY <1>1, <3>1
  <2> QED
    BY <2>1, <2>2
<1> QED
  BY <1>1, <1>2

LEMMA WireShrinks ==
  ASSUME NEW w \in Seq(Nat), \A i \in DOMAIN w : w[i] >= 1, NEW v,
         v = w \/ v = <<>> \/ \E n \in 0 .. Len(w) : v = SubSeq(w, 1, n)
  PROVE  \A i \in DOMAIN v : v[i] >= 1
<1>1. CASE v = w \/ v = <<>>
  BY <1>1
<1>2. ASSUME NEW n \in 0 .. Len(w), v = SubSeq(w, 1, n)
      PROVE  \A i \in DOMAIN v : v[i] >= 1
  <2>1. DOMAIN v = 1 .. n /\ \A i \in 1 .. n : v[i] = w[i] /\ i \in DOMAIN w
    BY <1>2
  <2> QED
    BY <2>1
<1> QED
  BY <1>1, <1>2

LEMMA NextPlaced ==
  ASSUME Streams, InOrder, Placed, [Next]_vars
  PROVE  Placed'
<1>0. /\ Connected /\ IsSeq(log) /\ Len(log) \in Nat /\ calls \in [1 .. 2 -> CallRecords]
      /\ \A k \in 1 .. 2 : calls[k].wire \in Seq(Nat)
      /\ done \in Seq(Nat)
  <2>1. Connected /\ IsSeq(log) /\ calls \in [1 .. 2 -> CallRecords]
    BY DEF Streams, Connected
  <2> QED
    BY <2>1, SeqBasics DEF CallRecords, InOrder
<1>1. CASE Executes
  <2>1. PICK r : Execute(r) /\ done' = done
    BY <1>1 DEF Executes, normalizerVars
  <2>2. Len(log') = Len(log) + 1
    BY <1>0, <2>1, ExecuteConnected
  <2>3. calls' = [k \in DOMAIN calls |->
                    IF calls[k].st = "open" THEN [calls[k] EXCEPT !.wire = Append(@, Len(log'))]
                    ELSE calls[k]]
    BY <2>1, ExecuteEffect
  <2>4. ASSUME NEW k \in 1 .. 2
        PROVE  \A i \in DOMAIN calls'[k].wire : calls'[k].wire[i] >= 1
    <3>1. CASE calls[k].st = "open"
      <4>1. calls'[k].wire = Append(calls[k].wire, Len(log) + 1)
        BY <1>0, <2>2, <2>3, <3>1 DEF CallRecords
      <4> DEFINE w == calls[k].wire
                 v == calls'[k].wire
                 x == Len(log) + 1
      <4>2. /\ w \in Seq(Nat) /\ v = Append(w, x) /\ \A i \in DOMAIN w : w[i] >= 1
            /\ x \in Nat /\ x >= 1
        BY <1>0, <4>1 DEF Placed
      <4> HIDE DEF w, v, x
      <4>4. \A i \in DOMAIN v : v[i] >= 1
        BY <4>2, AppendAtLeast
      <4> QED
        BY <4>4 DEF v
    <3>2. CASE calls[k].st # "open"
      <4>1. calls'[k].wire = calls[k].wire
        BY <1>0, <2>3, <3>2
      <4> QED
        BY <4>1 DEF Placed
    <3> QED
      BY <3>1, <3>2
  <2> QED
    BY <2>1, <2>4 DEF Placed
<1>2. CASE QuietStep
  <2>1. done' = done /\ ShrinkOnly
    BY <1>0, <1>2, QuietConnected DEF QuietStep
  <2>2. ASSUME NEW k \in 1 .. 2 PROVE \A i \in DOMAIN calls'[k].wire : calls'[k].wire[i] >= 1
    <3> DEFINE w == calls[k].wire
               v == calls'[k].wire
    <3>1. /\ w \in Seq(Nat) /\ \A i \in DOMAIN w : w[i] >= 1
          /\ v = w \/ v = <<>> \/ \E n \in 0 .. Len(w) : v = SubSeq(w, 1, n)
      BY <1>0, <2>1 DEF Placed, ShrinkOnly
    <3> HIDE DEF w, v
    <3>2. \A i \in DOMAIN v : v[i] >= 1
      BY <3>1, WireShrinks
    <3> QED
      BY <3>2 DEF v
  <2> QED
    BY <2>1, <2>2 DEF Placed
<1>3. ASSUME NEW k \in 1 .. 2, NEW due, OnData(k, due)
      PROVE  Placed'
  <2>1. done' = Append(done, Head(calls[k].wire))
    BY <1>3, OnDataEffect
  <2>2. /\ calls[k].wire # <<>> /\ calls'[k].wire = Tail(calls[k].wire)
        /\ \A j \in 1 .. 2 : j # k => calls'[j] = calls[j]
    BY <1>0, <1>3, OnDataConnected
  <2> DEFINE w == calls[k].wire
             v == calls'[k].wire
             h == Head(w)
  <2>3. w \in Seq(Nat) /\ w # <<>> /\ v = Tail(w) /\ \A i \in DOMAIN w : w[i] >= 1
    BY <1>0, <2>2 DEF Placed
  <2>4. h \in Nat /\ h >= 1 /\ done' = Append(done, h)
    BY <2>1, <2>3
  <2> HIDE DEF w, v, h
  <2>5. \A i \in DOMAIN v : i + 1 \in DOMAIN w /\ v[i] = w[i + 1]
    BY <2>3
  <2>6. \A i \in DOMAIN v : v[i] >= 1
    BY <2>3, <2>5
  <2>7. \A i \in DOMAIN done : done[i] >= 1
    BY DEF Placed
  <2>8. \A i \in DOMAIN done' : done'[i] >= 1
    BY <1>0, <2>4, <2>7, AppendAtLeast
  <2>9. ASSUME NEW j \in 1 .. 2 PROVE \A i \in DOMAIN calls'[j].wire : calls'[j].wire[i] >= 1
    <3>1. CASE j = k
      BY <2>6, <3>1 DEF v
    <3>2. CASE j # k
      BY <2>2, <3>2 DEF Placed
    <3> QED
      BY <3>1, <3>2
  <2> QED
    BY <2>8, <2>9 DEF Placed
<1> QED
  BY <1>0, <1>1, <1>2, <1>3, StepKinds

\* What the streams carry are operations of the log.
LEMMA PlacedFacts ==
  ASSUME Streams, InOrder, Placed
  PROVE  /\ Given(log, done)
         /\ \A k \in 1 .. 2 : \A i \in DOMAIN calls[k].wire : calls[k].wire[i] \in DOMAIN log
<1>1. /\ DOMAIN log = 1 .. Len(log) /\ Len(log) \in Nat /\ done \in Seq(Nat) /\ Increasing(done)
      /\ \A k \in 1 .. 2 : calls[k].wire \in Seq(Nat)
  BY SeqBasics DEF Streams, InOrder, Connected, CallRecords
<1>2. ASSUME NEW i \in DOMAIN done PROVE done[i] \in DOMAIN log
  BY <1>1 DEF InOrder, Placed
<1>3. ASSUME NEW k \in 1 .. 2, NEW i \in DOMAIN calls[k].wire PROVE calls[k].wire[i] \in DOMAIN log
  <2>1. calls[k].wire[i] \in Nat
    <3> DEFINE w == calls[k].wire
    <3>1. w \in Seq(Nat) /\ i \in DOMAIN w
      BY <1>1
    <3> HIDE DEF w
    <3>2. w[i] \in Nat
      BY <3>1
    <3> QED
      BY <3>2 DEF w
  <2>2. calls[k].wire[i] <= Len(log)
    BY DEF InOrder, Fresh
  <2>3. calls[k].wire[i] >= 1
    BY DEF Placed
  <2> QED
    BY <1>1, <2>1, <2>2, <2>3
<1> QED
  BY <1>1, <1>2, <1>3 DEF Given

\* The map of the normalizer and the history of the gateway fit the log.
RestingInv ==
  /\ GatewayInv /\ ExchangeInv /\ Placed
  /\ MapSound(log, done, resting) /\ HistoryOwned(log, done, history)

LEMMA InitResting ==
  ASSUME Init
  PROVE  RestingInv
<1>1. resting = <<>> /\ done = <<>> /\ history = <<>>
  BY DEF Init
<1>2. <<>> \in Seq(RestingEntry) /\ DOMAIN <<>> = {} /\ Len(<<>>) = 0 /\ ToSet(<<>>) = {}
  BY DEF ToSet
<1>3. IsMap(resting) /\ \A e : ~Has(resting, e)
  BY <1>1, <1>2 DEF IsMap, Distinct, Has
<1>4. MaxResting \in Nat
  BY GatewayAssumption
<1>5. ToldResting(log, done) = {}
  BY <1>1, <1>2 DEF ToldResting
<1>6. Len(resting) <= MaxResting /\ Len(resting) <= Cardinality(ToldResting(log, done))
  BY <1>1, <1>2, <1>4, <1>5, FS_EmptySet
<1>7. MapSound(log, done, resting)
  BY <1>1, <1>3, <1>6 DEF MapSound, OwnersKnown, NoneForgotten, AllExact
<1>8. HistoryOwned(log, done, history)
  BY <1>1, <1>2 DEF HistoryOwned
<1> QED
  BY <1>7, <1>8, InitGateway, InitExchange, InitPlaced DEF RestingInv

LEMMA QuietResting ==
  ASSUME QuietStep
  PROVE  UNCHANGED <<resting, history, log, done>>
<1>0. UNCHANGED <<log, done>>
  BY DEF QuietStep
<1>1. CASE Stops
  BY <1>0, <1>1 DEF Stops, normalizerVars
<1>2. ASSUME NEW k \in 1 .. 2, Subscribe(k) \/ Opens(k) \/ Fails(k) \/ OnMetadata(k)
      PROVE  UNCHANGED <<resting, history>>
  <2>1. UNCHANGED normalizerVars /\ UNCHANGED history
    BY <1>2, Zenon DEF Subscribe, Opens, Fails, OnMetadata
  <2> QED
    BY <2>1 DEF normalizerVars
<1>3. ASSUME NEW k \in 1 .. 2, NEW e, OnEvent(k, e)
      PROVE  UNCHANGED <<resting, history>>
  <2>1. UNCHANGED normalizerVars /\ UNCHANGED history
    BY <1>3, Zenon DEF OnEvent
  <2> QED
    BY <2>1 DEF normalizerVars
<1>4. CASE Restarts \/ OnRequest \/ OnConnection \/ OnCloseOfPage \/ SetRecording
  <2>1. UNCHANGED normalizerVars /\ UNCHANGED history
    BY <1>4, Zenon DEF Restarts, OnRequest, OnConnection, OnCloseOfPage, SetRecording
  <2> QED
    BY <1>0, <2>1 DEF normalizerVars
<1>5. CASE FlushBook
  BY <1>0, <1>5 DEF FlushBook
<1>6. CASE UNCHANGED vars
  BY <1>0, <1>6 DEF vars, normalizerVars
<1> QED
  BY <1>0, <1>1, <1>2, <1>3, <1>4, <1>5, <1>6 DEF QuietStep

\* The trades of a batch.
LEMMA BatchTrades ==
  ASSUME NEW raw, NEW n, NEW book
  PROVE  [Normalize(raw, n).batch EXCEPT !.book = book].trades = Normalize(raw, n).batch.trades
<1>1. PICK q, op, o, ts, tob :
        Normalize(raw, n).batch = [t |-> "batch", seq |-> q, op |-> op, order |-> o,
                                   trades |-> ts, tob |-> tob, book |-> Null, n |-> n]
  BY DEF Normalize
<1> QED
  BY <1>1

LEMMA HistoryGiven ==
  ASSUME Views, done \in Seq(Nat)
  PROVE  \A i \in DOMAIN history : history[i].n \in ToSet(done)
<1>1. IsSeq(history) /\ Len(history) <= Len(done) /\ Len(done) \in Nat /\ DOMAIN done = 1 .. Len(done)
  BY DEF Views, LastOf
<1>2. DOMAIN history = 1 .. Len(history) /\ Len(history) \in Nat
  BY <1>1, SeqBasics
<1>3. ASSUME NEW i \in DOMAIN history PROVE history[i].n \in ToSet(done)
  <2>1. Len(done) - Len(history) + i \in DOMAIN done
    BY <1>1, <1>2
  <2>2. history[i].n = done[Len(done) - Len(history) + i]
    BY DEF Views, LastOf
  <2> QED
    BY <2>1, <2>2 DEF ToSet
<1> QED
  BY <1>3

LEMMA OnDataResting ==
  ASSUME RestingInv, NEW k \in 1 .. 2, NEW due, OnData(k, due)
  PROVE  MapSound(log, done', resting') /\ HistoryOwned(log, done', history')
<1> DEFINE n == Head(calls[k].wire)
<1>1. /\ Streams /\ InOrder /\ Placed /\ Views /\ LogSound(log) /\ IsSeq(log)
      /\ MapSound(log, done, resting) /\ HistoryOwned(log, done, history)
      /\ done \in Seq(Nat) /\ IsSeq(history)
  BY DEF RestingInv, GatewayInv, ExchangeInv, LogSound, InOrder, Views, LastOf
<1>2. Given(log, done)
  BY <1>1, PlacedFacts
<1>3. n \in DOMAIN log /\ n \in Nat /\ \A i \in ToSet(done) : i < n
  <2>1. calls[k].wire \in Seq(Nat) /\ calls[k].wire # <<>>
    BY <1>1, OnDataConnected DEF Streams, Connected, CallRecords
  <2>2. 1 \in DOMAIN calls[k].wire /\ n = calls[k].wire[1] /\ n \in Nat
    BY <2>1
  <2>3. n \in DOMAIN log
    BY <1>1, <2>2, PlacedFacts
  <2>4. \A j \in DOMAIN done : done[j] < n
    BY <1>1, <2>2 DEF InOrder, Fresh
  <2> QED
    BY <2>2, <2>3, <2>4 DEF ToSet
<1>4. PICK book :
        LET all == Append(history, [Normalize(log[n], n).batch EXCEPT !.book = book])
        IN history' = IF Len(all) > HistoryMax THEN Tail(all) ELSE all
  BY OnDataEffect
<1>5. done' = Append(done, n) /\ resting' = Normalize(log[n], n).map
  BY OnDataEffect
<1> HIDE DEF n
<1> DEFINE b == [Normalize(log[n], n).batch EXCEPT !.book = book]
           m2 == Normalize(log[n], n).map
           ts == Normalize(log[n], n).batch.trades
           raw == log[n]
<1>6. b.n = n /\ b.trades = ts
  <2>1. b.n = n
    BY BatchNumber, Zenon
  <2>2. b.trades = ts
    BY BatchTrades, Zenon
  <2> QED
    BY <2>1, <2>2
<1>7. history' = Append(history, b) \/ history' = Tail(Append(history, b))
  BY <1>4, Zenon
<1>8. resting' = m2
  BY <1>5
<1>9. IsMap(resting) /\ Len(resting) <= MaxResting /\ Sound(raw)
  BY <1>1, <1>3, RecordsSound DEF MapSound
<1>10. Normalized(resting, raw, m2) /\ IsSeq(ts) /\ Len(ts) = Len(raw.trades)
       /\ \A j \in 1 .. Len(raw.trades) : Attributed(resting, raw.trades[j], ts[j])
  BY <1>9, NormalizeFacts, Zenon DEF Normalized
<1> HIDE DEF b, m2, ts
<1>11. MapSound(log, Append(done, n), m2)
  BY <1>1, <1>2, <1>3, <1>10, MapDelivers
<1>12. TradesOwned(log, done, n, ts)
  BY <1>1, <1>2, <1>3, <1>10, TradesAreOwned
<1>13. \A i \in DOMAIN history : history[i].n \in ToSet(done)
  BY <1>1, HistoryGiven
<1>14. HistoryOwned(log, Append(done, n), history')
  BY <1>1, <1>3, <1>6, <1>7, <1>12, <1>13, HistoryDelivers
<1> QED
  BY <1>5, <1>8, <1>11, <1>14

LEMMA ExecutesResting ==
  ASSUME RestingInv, Executes
  PROVE  MapSound(log', done, resting) /\ HistoryOwned(log', done, history)
<1>1. /\ Streams /\ InOrder /\ Placed /\ Views /\ IsSeq(log)
      /\ MapSound(log, done, resting) /\ HistoryOwned(log, done, history) /\ done \in Seq(Nat)
  BY DEF RestingInv, GatewayInv, Streams, InOrder
<1>2. Given(log, done) /\ \A i \in DOMAIN history : history[i].n \in ToSet(done)
  BY <1>1, PlacedFacts, HistoryGiven
<1>3. PICK x : log' = Append(log, x)
  BY ExecuteEffect DEF Executes
<1> QED
  BY <1>1, <1>2, <1>3, MapKept, HistoryKept

LEMMA NextResting ==
  ASSUME RestingInv, [Next]_vars
  PROVE  RestingInv'
<1>1. GatewayInv' /\ ExchangeInv' /\ Placed'
  BY NextGateway, NextExchange, NextPlaced DEF RestingInv, GatewayInv, Streams
<1>2. Connected
  BY DEF RestingInv, GatewayInv, Streams
<1>3. CASE Executes
  <2>1. UNCHANGED <<done, resting, history>>
    BY <1>3 DEF Executes, normalizerVars
  <2>2. MapSound(log', done', resting') /\ HistoryOwned(log', done', history')
    BY <1>3, <2>1, ExecutesResting
  <2>3. MapSound(log, done, resting)' /\ HistoryOwned(log, done, history)'
    BY <2>2, Zenon DEF MapSound, HistoryOwned, ToldResting, OwnersKnown, NoneForgotten, AllExact, AllSeen,
       FewRested, TradesOwned, Owned
  <2> QED
    BY <1>1, <2>3 DEF RestingInv
<1>4. CASE QuietStep
  <2>1. UNCHANGED <<resting, history, log, done>>
    BY <1>4, QuietResting
  <2>2. MapSound(log', done', resting') /\ HistoryOwned(log', done', history')
    BY <2>1 DEF RestingInv
  <2> QED
    BY <1>1, <2>2 DEF RestingInv
<1>5. ASSUME NEW k \in 1 .. 2, NEW due, OnData(k, due)
      PROVE  RestingInv'
  <2>1. log' = log
    BY <1>5, OnDataEffect
  <2>2. MapSound(log', done', resting') /\ HistoryOwned(log', done', history')
    BY <1>5, <2>1, OnDataResting
  <2> QED
    BY <1>1, <2>2 DEF RestingInv
<1> QED
  BY <1>2, <1>3, <1>4, <1>5, StepKinds

\* The map of resting orders, and the history, fit what the exchange did and what
\* the normalizer was told of it (normalize.ts, BookSide, server.ts): the inductive
\* invariant.
THEOREM RestingInvariant == Spec => []RestingInv
<1>1. Init => RestingInv
  BY InitResting
<1>2. RestingInv /\ [Next]_vars => RestingInv'
  BY NextResting
<1> QED
  BY <1>1, <1>2, PTL DEF Spec

\* The types of the gateway's variables, and the bounds on its map and history.
THEOREM GatewayTypeOK == Spec => []TypeOK
<1>1. RestingInv => TypeOK
  <2> SUFFICES ASSUME RestingInv PROVE TypeOK
    OBVIOUS
  <2>1. /\ Connected /\ StatusKnown /\ Streams /\ InOrder /\ Placed /\ Views
        /\ IsMap(resting) /\ Len(resting) <= MaxResting
    BY DEF RestingInv, GatewayInv, Streams, MapSound
  <2>2. timers \in 0 .. 2
    BY <2>1 DEF Connected
  <2>3. exchangeUp \in BOOLEAN /\ Len(history) <= HistoryMax
    BY <2>1 DEF StatusKnown, Views
  <2>4. DOMAIN calls = 1 .. 2 /\ \A k \in 1 .. 2 : calls[k].st \in {"free", "opening", "open", "broken"}
    BY <2>1 DEF Connected, CallRecords
  <2>5. ASSUME NEW k \in 1 .. 2 PROVE ToSet(calls[k].wire) \subseteq DOMAIN log
    BY <2>1, PlacedFacts DEF ToSet
  <2>6. ASSUME NEW e \in ToSet(resting) PROVE e.node \in Nodes /\ e.remaining > 0
    <3>1. Has(resting, e)
      BY DEF ToSet, Has
    <3>2. e.node \in Nodes /\ e.remaining \in Nat \ {0}
      BY <2>1, <3>1, HasType
    <3> QED
      BY <3>2
  <2> QED
    BY <2>1, <2>2, <2>3, <2>4, <2>5, <2>6 DEF TypeOK
<1> QED
  BY <1>1, RestingInvariant, PTL

\* The owner of an order is the node of the only operation that submitted it.
LEMMA OwnerIs ==
  ASSUME LogSound(log), NEW k \in DOMAIN log, log[k].op = "submit"
  PROVE  OwnerIn(log[k].life, log[k].reply.orderId) = log[k].node
<1> DEFINE P(i) == log[i].life = log[k].life /\ log[i].op = "submit"
                     /\ log[i].reply.orderId = log[k].reply.orderId
           c == CHOOSE i \in DOMAIN log : P(i)
<1>1. P(k)
  OBVIOUS
<1>2. c \in DOMAIN log /\ P(c)
  <2>1. \E i \in DOMAIN log : P(i)
    BY <1>1
  <2> QED
    BY <2>1, Zenon
<1>3. OwnerIn(log[k].life, log[k].reply.orderId) = log[c].node
  BY Zenon DEF OwnerIn
<1> HIDE DEF c
<1>4. c = k
  BY <1>2 DEF LogSound, IdsOnce
<1> QED
  BY <1>3, <1>4

\* A trade is said to be with the owner of the order it hit, in every life of the
\* exchange, once the normalizer was told of that order (normalize).
THEOREM AlwaysAttributedWhenSeen == Spec => []AttributedWhenSeen
<1>1. RestingInv => AttributedWhenSeen
  <2> SUFFICES ASSUME RestingInv, NEW i \in DOMAIN history, NEW j \in DOMAIN history[i].trades,
                      NEW k \in ToSet(done), k < history[i].n, log[k].life = log[history[i].n].life,
                      log[k].op = "submit", log[k].reply.orderId = history[i].trades[j].resting
               PROVE  \/ history[i].trades[j].restingNode
                           = OwnerIn(log[history[i].n].life, history[i].trades[j].resting)
                      \/ ~NothingEvicted /\ history[i].trades[j].restingNode = "?"
    BY Zenon DEF AttributedWhenSeen
  <2> DEFINE x == history[i].trades[j]
  <2>1. LogSound(log) /\ Streams /\ InOrder /\ Placed /\ HistoryOwned(log, done, history)
    BY DEF RestingInv, GatewayInv, ExchangeInv
  <2>2. k \in DOMAIN log
    BY <2>1, PlacedFacts, GivenFacts DEF Streams
  <2>3. OwnerIn(log[k].life, log[k].reply.orderId) = log[k].node
    BY <2>1, <2>2, OwnerIs
  <2>4. Owned(log, k, x)
    BY <2>1 DEF HistoryOwned, TradesOwned
  <2>5. FewRested(log) <=> NothingEvicted
    BY Zenon DEF FewRested, NothingEvicted
  <2> QED
    BY <2>3, <2>4, <2>5 DEF Owned
<1> QED
  BY <1>1, RestingInvariant, PTL

\* A map has as many entries as different ones.
LEMMA MapCardinality ==
  ASSUME NEW map, IsMap(map)
  PROVE  Cardinality(ToSet(map)) = Len(map)
<1> DEFINE f == [i \in 1 .. Len(map) |-> map[i]]
<1>1. DOMAIN map = 1 .. Len(map) /\ Len(map) \in Nat
  BY MapType
<1>2. ToSet(map) = {map[i] : i \in 1 .. Len(map)}
  BY <1>1 DEF ToSet
<1>3. \A i, j \in 1 .. Len(map) : map[i] = map[j] => i = j
  BY <1>1 DEF IsMap, Distinct
<1>4. f \in [1 .. Len(map) -> ToSet(map)]
  BY <1>2
<1>5. f \in Bijection(1 .. Len(map), ToSet(map))
  BY <1>2, <1>3, <1>4 DEF Bijection, Injection, Surjection, IsInjective
<1>6. ExistsBijection(1 .. Len(map), ToSet(map))
  BY <1>5 DEF ExistsBijection
<1> QED
  BY <1>1, <1>6, FS_CountingElements

\* While nothing was missed and nothing evicted, the map holds the orders that
\* rest, with owner and rest (normalize).
THEOREM RestingAlwaysExact == Spec => []RestingExact
<1>1. RestingInv => RestingExact
  <2> DEFINE raw == log[Last(done)]
             true == {[id |-> a.id, node |-> OwnerIn(raw.life, a.id), remaining |-> a.remaining] :
                        a \in raw.after}
  <2> SUFFICES ASSUME RestingInv, done # <<>>, NothingMissed, NothingEvicted
               PROVE  /\ true \subseteq ToSet(resting)
                      /\ raw.life = 1 => Len(resting) = Cardinality(true)
    BY Zenon DEF RestingExact
  <2>1. /\ LogSound(log) /\ IsSeq(log) /\ Given(log, done) /\ IsMap(resting)
        /\ OwnersKnown(log, done, resting) /\ AllExact(log, done, resting)
    BY PlacedFacts DEF RestingInv, GatewayInv, ExchangeInv, Streams, MapSound
  <2>2. FewRested(log)
    BY Zenon DEF FewRested, NothingEvicted
  <2>3. AllSeen(log, done)
    BY DEF AllSeen, NothingMissed
  <2>4. /\ \A a \in raw.after : \E e : Has(resting, e) /\ e.id = a.id /\ e.remaining = a.remaining
        /\ raw.life = 1 => \A e : Has(resting, e) => [id |-> e.id, remaining |-> e.remaining] \in raw.after
    BY <2>1, <2>2, <2>3 DEF AllExact
  <2>5. /\ Last(done) \in ToSet(done) /\ Last(done) \in DOMAIN log /\ Last(done) \in Nat
        /\ DOMAIN log = 1 .. Len(log) /\ Len(log) \in Nat
    BY <2>1, GivenFacts, SeqBasics
  <2>6. \A e : Has(resting, e) <=> e \in ToSet(resting)
    BY DEF Has, ToSet
  <2>7. ASSUME NEW a \in raw.after, NEW e, Has(resting, e), e.id = a.id
        PROVE  e.node = OwnerIn(raw.life, a.id)
    <3>1. PICK k \in 1 .. Last(done) : MadeToRest(log[k], raw.life, a.id)
      BY <2>1, <2>5 DEF LogSound, Origins
    <3>2. k \in DOMAIN log
      BY <2>5
    <3>3. log[k].op = "submit" /\ log[k].life = raw.life /\ log[k].reply.orderId = a.id
      BY <3>1 DEF MadeToRest, Rests
    <3>4. k \in ToSet(done)
      <4>1. CASE k = Last(done)
        BY <2>5, <4>1
      <4>2. CASE k < Last(done)
        BY <2>3, <3>2, <3>3, <4>2 DEF AllSeen
      <4> QED
        BY <2>5, <4>1, <4>2
    <3>5. e.node = log[k].node
      BY <2>1, <2>7, <3>1, <3>4 DEF OwnersKnown
    <3>6. OwnerIn(log[k].life, log[k].reply.orderId) = log[k].node
      BY <2>1, <3>2, <3>3, OwnerIs
    <3> QED
      BY <3>3, <3>5, <3>6
  <2>8. ASSUME NEW a \in raw.after
        PROVE  [id |-> a.id, node |-> OwnerIn(raw.life, a.id), remaining |-> a.remaining] \in ToSet(resting)
    <3>1. PICK e : Has(resting, e) /\ e.id = a.id /\ e.remaining = a.remaining
      BY <2>4
    <3>2. e.node = OwnerIn(raw.life, a.id)
      BY <2>7, <3>1
    <3>3. e = [id |-> e.id, node |-> e.node, remaining |-> e.remaining]
      BY <2>1, <3>1, HasType
    <3> QED
      BY <2>6, <3>1, <3>2, <3>3
  <2>9. true \subseteq ToSet(resting)
    BY <2>8
  <2>10. ASSUME raw.life = 1, NEW e \in ToSet(resting) PROVE e \in true
    <3> DEFINE a == [id |-> e.id, remaining |-> e.remaining]
    <3>1. Has(resting, e)
      BY <2>6
    <3>2. a \in raw.after /\ a.id = e.id /\ a.remaining = e.remaining
      BY <2>4, <2>10, <3>1
    <3> HIDE DEF a
    <3>3. e.node = OwnerIn(raw.life, a.id)
      BY <2>7, <3>1, <3>2
    <3>4. e = [id |-> e.id, node |-> e.node, remaining |-> e.remaining]
      BY <2>1, <3>1, HasType
    <3>5. e = [id |-> a.id, node |-> OwnerIn(raw.life, a.id), remaining |-> a.remaining]
      BY <3>2, <3>3, <3>4
    <3> QED
      BY <3>2, <3>5
  <2>11. raw.life = 1 => ToSet(resting) = true
    BY <2>9, <2>10
  <2>12. Cardinality(ToSet(resting)) = Len(resting)
    BY <2>1, MapCardinality
  <2> HIDE DEF true
  <2> QED
    BY <2>9, <2>11, <2>12
<1> QED
  BY <1>1, RestingInvariant, PTL
=============================================================================
