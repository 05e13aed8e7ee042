---------------------------- MODULE TicketProofs ----------------------------
(***************************************************************************)
(* Safety of the trade ticket, as a part of the page, for any number of    *)
(* requests, edits and lost connections, and whatever is typed.            *)
(***************************************************************************)
EXTENDS Page, SequenceTheorems, FiniteSetTheorems, TLAPS

-----------------------------------------------------------------------------
(* The invariant of the ticket                                             *)

Numbers == Int \cup {Null, Huge}

OrderRecords ==
  [type : {"limit", "market"}, typed : [price : Numbers, qty : Numbers], price : Numbers,
   qty : Numbers]

\* What may become of a request.
Known == {"filled", "partial", "queued", "rejected", "cancelled", "notFound", "unknown"}

RequestRecords ==
  [kind : {"order", "cancel"}, order : OrderRecords \cup {Null}, pending : BOOLEAN,
   attached : BOOLEAN, outcome : Known \cup {Null}]

Results ==
  [reqId : Nat, ok : BOOLEAN, status : Known \cup {""}, reason : {"", "failed", "notFound"}]

FormTypes == type \in {"limit", "market"} /\ price \in Numbers /\ qty \in Numbers

TicketTypes ==
  /\ FormTypes
  /\ busy \in BOOLEAN
  /\ requests \in Seq(RequestRecords)
  /\ net \in Seq(Results)

IsOrder(r) == requests[r].pending /\ requests[r].kind = "order"

\* The ticket waits for at most one order, and is busy while it waits.
BusyWithOne ==
  /\ busy <=> \E r \in DOMAIN requests : IsOrder(r)
  /\ \A r, s \in DOMAIN requests : IsOrder(r) /\ IsOrder(s) => r = s

\* What is said of request r is what became of it, unless it says nothing of that.
True(reqs, r, says) ==
  says \notin {"notRunning", "noAnswer", "failed"} =>
    /\ r \in DOMAIN reqs
    /\ reqs[r].outcome = (IF says = "resting" THEN "queued" ELSE says)
    /\ reqs[r].outcome # Null

\* Results on the way belong to a request and will be reported truly.
NetTrue ==
  \A i \in DOMAIN net :
    /\ net[i].reqId \in DOMAIN requests
    /\ True(requests, net[i].reqId, MessageFor(requests[net[i].reqId].kind, net[i]).says)

MsgTrue == msg # Null => True(requests, msg.of, msg.says)

TicketInv == TicketTypes /\ OrderWellFormed /\ BusyWithOne /\ NetTrue /\ MsgTrue

-----------------------------------------------------------------------------
(* Steps                                                                   *)

\* The fields change, or something that no request depends on.
LEMMA FormStep ==
  ASSUME TicketInv, FormTypes', UNCHANGED <<busy, msg, requests, net>>
  PROVE  TicketInv'
<1>1. TicketTypes'
  BY DEF TicketInv, TicketTypes
<1>2. OrderWellFormed' /\ BusyWithOne' /\ NetTrue' /\ MsgTrue'
  BY DEF TicketInv, OrderWellFormed, BusyWithOne, IsOrder, NetTrue, MsgTrue, True
<1> QED
  BY <1>1, <1>2 DEF TicketInv

LEMMA EditStep == TicketInv /\ Edit => TicketInv'
<1> SUFFICES ASSUME TicketInv, Edit PROVE TicketInv'
  OBVIOUS
<1>1. FormTypes'
  BY TicketAssumption DEF Edit, TicketInv, TicketTypes, FormTypes, Numbers
<1> QED
  BY <1>1, FormStep DEF Edit

LEMMA PickStep ==
  ASSUME TicketInv, NEW level \in Levels, Pick(level)
  PROVE  TicketInv'
<1>1. Rounded(level) \in Int
  BY TicketAssumption DEF Rounded
<1>2. FormTypes'
  BY <1>1 DEF Pick, TicketInv, TicketTypes, FormTypes, Numbers
<1> QED
  BY <1>2, FormStep DEF Pick

\* A request is made: an order only if the ticket is free, and it makes it busy.
LEMMA RequestStep ==
  ASSUME TicketInv, NEW waits \in BOOLEAN, NEW kind \in {"order", "cancel"},
         NEW order \in OrderRecords \cup {Null},
         kind = "order" => ~busy /\ waits,
         kind = "cancel" => waits = busy,
         kind = "order" => WellFormed(order),
         Request(NewRequest(kind, order), waits), UNCHANGED <<form, net>>
  PROVE  TicketInv'
<1> DEFINE q == NewRequest(kind, order)
<1>1. FormTypes'
  BY DEF form, TicketInv, TicketTypes, FormTypes
<1>2. CASE CanTrade
  <2>1. requests' = Append(requests, q) /\ busy' = waits /\ UNCHANGED <<msg, net>>
    BY <1>2 DEF Request
  <2>2. /\ q \in RequestRecords
        /\ q.kind = kind /\ q.order = order /\ q.pending /\ q.outcome = Null
    BY DEF NewRequest, RequestRecords
  <2> HIDE DEF q
  <2>3. requests \in Seq(RequestRecords) /\ net \in Seq(Results)
    BY DEF TicketInv, TicketTypes
  <2>4. /\ requests' \in Seq(RequestRecords) /\ DOMAIN requests = 1 .. Len(requests)
        /\ Len(requests) \in Nat
        /\ DOMAIN requests' = DOMAIN requests \cup {Len(requests) + 1}
        /\ \A r \in DOMAIN requests : requests'[r] = requests[r]
        /\ requests'[Len(requests) + 1] = q
    BY <2>1, <2>2, <2>3
  <2>5. TicketTypes'
    BY <1>1, <2>1, <2>4 DEF TicketInv, TicketTypes
  <2>6. OrderWellFormed'
    BY <2>2, <2>4 DEF TicketInv, OrderWellFormed
  <2>7. BusyWithOne'
    <3>1. CASE kind = "order"
      BY <2>1, <2>2, <2>4, <3>1 DEF TicketInv, BusyWithOne, IsOrder
    <3>2. CASE kind = "cancel"
      BY <2>1, <2>2, <2>4, <3>2 DEF TicketInv, BusyWithOne, IsOrder
    <3> QED
      BY <3>1, <3>2
  <2>8. ASSUME NEW r, NEW says, True(requests, r, says)
        PROVE  True(requests', r, says)
    BY <2>4, <2>8 DEF True
  <2>9. NetTrue'
    <3> SUFFICES ASSUME NEW i \in DOMAIN net
                 PROVE  /\ net[i].reqId \in DOMAIN requests'
                        /\ True(requests', net[i].reqId,
                                MessageFor(requests'[net[i].reqId].kind, net[i]).says)
      BY <2>1 DEF NetTrue
    <3>1. /\ net[i].reqId \in DOMAIN requests
          /\ True(requests, net[i].reqId, MessageFor(requests[net[i].reqId].kind, net[i]).says)
      BY DEF TicketInv, NetTrue
    <3> QED
      BY <2>1, <2>4, <2>8, <3>1
  <2>10. MsgTrue'
    BY <2>1, <2>8 DEF TicketInv, MsgTrue
  <2> QED
    BY <2>5, <2>6, <2>7, <2>9, <2>10 DEF TicketInv
<1>3. CASE ~CanTrade
  <2>1. msg' = Says(0, FALSE, "notRunning") /\ UNCHANGED <<requests, busy, net>>
    BY <1>3 DEF Request
  <2>2. MsgTrue'
    BY <2>1 DEF MsgTrue, True, Says
  <2>3. TicketTypes' /\ OrderWellFormed' /\ BusyWithOne' /\ NetTrue'
    BY <1>1, <2>1 DEF TicketInv, TicketTypes, OrderWellFormed, BusyWithOne, IsOrder, NetTrue, True
  <2> QED
    BY <2>2, <2>3 DEF TicketInv
<1> QED
  BY <1>2, <1>3

LEMMA SubmitStep == TicketInv /\ Submit => TicketInv'
<1> SUFFICES ASSUME TicketInv, Submit PROVE TicketInv'
  OBVIOUS
<1> DEFINE order == [type |-> type, typed |-> [price |-> price, qty |-> qty],
                     price |-> IF type = "market" THEN 0 ELSE OverTheWire(price),
                     qty |-> OverTheWire(Floor(qty))]
<1>1. type \in {"limit", "market"} /\ price \in Numbers /\ qty \in Numbers
  BY DEF TicketInv, TicketTypes, FormTypes
<1>2. Floor(qty) \in Numbers
  BY <1>1, TicketAssumption DEF Floor, Numbers
<1>3. order \in OrderRecords
  BY <1>1, <1>2 DEF OrderRecords, OverTheWire, Numbers
<1>4. Valid /\ ~busy /\ Request(NewRequest("order", order), TRUE) /\ UNCHANGED <<form, net>>
  BY DEF Submit
<1>5. WellFormed(order)
  <2>1. IF qty = Huge THEN order.qty = 0 ELSE order.qty >= 1
    <3>1. CASE qty = Huge
      BY <3>1 DEF Floor, OverTheWire
    <3>2. CASE qty # Huge
      <4>1. Floor(qty) # Huge /\ Floor(qty) \in Int /\ Floor(qty) > 0
        BY <1>1, <1>4, <3>2, TicketAssumption, NullAssumption DEF Valid, Positive, Floor, Numbers
      <4> QED
        BY <3>2, <4>1 DEF OverTheWire
    <3> QED
      BY <3>1, <3>2
  <2>2. IF type = "market" \/ price = Huge THEN order.price = 0 ELSE order.price > 0
    <3>1. type # "market" /\ price # Huge => price \in Int /\ price > 0
      BY <1>1, <1>4 DEF Valid, Positive, Numbers
    <3> QED
      BY <3>1 DEF OverTheWire
  <2> QED
    BY <2>1, <2>2 DEF WellFormed
<1> HIDE DEF order
<1> QED
  BY <1>3, <1>4, <1>5, RequestStep

LEMMA CancelStep == TicketInv /\ Cancel => TicketInv'
<1> SUFFICES ASSUME TicketInv, Cancel PROVE TicketInv'
  OBVIOUS
<1>1. busy \in BOOLEAN
  BY DEF TicketInv, TicketTypes
<1>2. Request(NewRequest("cancel", Null), busy) /\ UNCHANGED <<form, net>>
  BY DEF Cancel
<1> QED
  BY <1>1, <1>2, RequestStep

\* An element of a sequence is replaced.
LEMMA UpdateSeq ==
  ASSUME NEW S, NEW s \in Seq(S), NEW i \in DOMAIN s, NEW e \in S
  PROVE  [s EXCEPT ![i] = e] \in Seq(S)
BY ExceptSeq

\* Request r is over, and m is reported of it.
LEMMA SettleStep ==
  ASSUME TicketInv, NEW r \in DOMAIN requests, requests[r].pending,
         NEW m, True(requests, m.of, m.says), Settled(r, m),
         requests' = [requests EXCEPT ![r].pending = FALSE],
         net' \in Seq(Results), \A i \in DOMAIN net' : \E k \in DOMAIN net : net'[i] = net[k],
         UNCHANGED form
  PROVE  TicketInv'
<1> DEFINE q == [requests[r] EXCEPT !.pending = FALSE]
<1>1. requests \in Seq(RequestRecords) /\ r \in 1 .. Len(requests)
  BY DEF TicketInv, TicketTypes
<1>2. requests[r] \in RequestRecords
  BY <1>1
<1>3. /\ q \in RequestRecords /\ ~q.pending
      /\ q.kind = requests[r].kind /\ q.order = requests[r].order /\ q.outcome = requests[r].outcome
  BY <1>2 DEF RequestRecords
<1>4. requests' = [requests EXCEPT ![r] = q]
  OBVIOUS
<1> HIDE DEF q
<1>5. /\ requests' \in Seq(RequestRecords)
      /\ DOMAIN requests' = DOMAIN requests
      /\ \A j \in DOMAIN requests : requests'[j] = IF j = r THEN q ELSE requests[j]
  <2>1. q \in RequestRecords /\ requests \in Seq(RequestRecords) /\ r \in DOMAIN requests
    BY <1>1, <1>3
  <2>2. [requests EXCEPT ![r] = q] \in Seq(RequestRecords)
    BY ONLY <2>1, UpdateSeq
  <2> QED
    BY <1>4, <2>2
<1>6. \A j \in DOMAIN requests : /\ requests'[j].kind = requests[j].kind
                                 /\ requests'[j].order = requests[j].order
                                 /\ requests'[j].outcome = requests[j].outcome
  BY <1>3, <1>5
<1>7. TicketTypes'
  BY <1>5 DEF TicketInv, TicketTypes, FormTypes, form, Settled
<1>8. OrderWellFormed'
  BY <1>5, <1>6 DEF TicketInv, OrderWellFormed
<1>9. BusyWithOne'
  BY <1>3, <1>5, <1>6 DEF TicketInv, TicketTypes, BusyWithOne, IsOrder, Settled
<1>10. ASSUME NEW j, NEW says, True(requests, j, says)
       PROVE  True(requests', j, says)
  BY <1>5, <1>6, <1>10 DEF True
<1>11. NetTrue'
  <2> SUFFICES ASSUME NEW i \in DOMAIN net'
               PROVE  /\ net'[i].reqId \in DOMAIN requests'
                      /\ True(requests', net'[i].reqId,
                              MessageFor(requests'[net'[i].reqId].kind, net'[i]).says)
    BY DEF NetTrue
  <2>1. PICK k \in DOMAIN net : net'[i] = net[k]
    OBVIOUS
  <2>2. /\ net[k].reqId \in DOMAIN requests
        /\ True(requests, net[k].reqId, MessageFor(requests[net[k].reqId].kind, net[k]).says)
    BY DEF TicketInv, NetTrue
  <2>3. requests'[net[k].reqId].kind = requests[net[k].reqId].kind
    BY <1>6, <2>2
  <2>4. True(requests', net[k].reqId, MessageFor(requests'[net[k].reqId].kind, net[k]).says)
    BY <1>10, <2>2, <2>3
  <2> QED
    BY <1>5, <2>1, <2>2, <2>4, Zenon
<1>12. MsgTrue'
  BY <1>10 DEF MsgTrue, Settled
<1> QED
  BY <1>7, <1>8, <1>9, <1>11, <1>12 DEF TicketInv

LEMMA TimeOutStep ==
  ASSUME TicketInv, NEW r \in DOMAIN requests, TimeOut(r)
  PROVE  TicketInv'
<1> DEFINE m == Says(r, FALSE, "noAnswer")
<1>1. True(requests, m.of, m.says)
  BY DEF Says, True
<1>2. /\ requests[r].pending /\ Settled(r, m) /\ UNCHANGED <<form, net>>
      /\ requests' = [requests EXCEPT ![r].pending = FALSE]
  BY DEF TimeOut
<1>3. net' \in Seq(Results) /\ \A i \in DOMAIN net' : \E k \in DOMAIN net : net'[i] = net[k]
  BY <1>2 DEF TicketInv, TicketTypes
<1> HIDE DEF m
<1> QED
  BY <1>1, <1>2, <1>3, SettleStep

LEMMA ReceiveResultStep == TicketInv /\ ReceiveResult => TicketInv'
<1> SUFFICES ASSUME TicketInv, ReceiveResult PROVE TicketInv'
  OBVIOUS
<1> DEFINE m == Head(net)
           r == Waiter(m)
           told == MessageFor(requests[r].kind, m)
<1>1. net \in Seq(Results) /\ net # <<>> /\ net' = Tail(net) /\ UNCHANGED form
  BY DEF TicketInv, TicketTypes, ReceiveResult
<1>2. /\ net' \in Seq(Results) /\ 1 \in DOMAIN net /\ m = net[1]
      /\ \A i \in DOMAIN net' : i + 1 \in DOMAIN net /\ net'[i] = net[i + 1]
  BY <1>1
<1>3. /\ m.reqId \in DOMAIN requests
      /\ True(requests, m.reqId, MessageFor(requests[m.reqId].kind, m).says)
  BY <1>2 DEF TicketInv, NetTrue
<1>4. CASE r = 0
  <2>1. UNCHANGED <<requests, busy, msg>>
    BY <1>4 DEF ReceiveResult
  <2>2. NetTrue'
    BY <1>2, <2>1 DEF TicketInv, NetTrue
  <2> QED
    BY <1>1, <1>2, <2>1, <2>2
    DEF TicketInv, TicketTypes, FormTypes, form, OrderWellFormed, BusyWithOne, IsOrder, MsgTrue
<1>5. CASE r # 0
  <2>1. r = m.reqId /\ r \in DOMAIN requests /\ requests[r].pending
    BY <1>5 DEF Waiter, Pending
  <2>2. told.of = m.reqId
    BY DEF MessageFor, Says
  <2>3. True(requests, told.of, told.says)
    BY <1>3, <2>1, <2>2
  <2>4. requests' = [requests EXCEPT ![r].pending = FALSE] /\ Settled(r, told)
    BY <1>5 DEF ReceiveResult
  <2>5. \A i \in DOMAIN net' : \E k \in DOMAIN net : net'[i] = net[k]
    BY <1>2
  <2> HIDE DEF told, r
  <2> QED
    BY <1>1, <1>2, <2>1, <2>3, <2>4, <2>5, SettleStep
<1> QED
  BY <1>4, <1>5

\* The gateway answers: what it tells is what it knows, and later answers change
\* nothing, as a request has one outcome.
LEMMA AnswerStep ==
  ASSUME TicketInv, NEW r \in DOMAIN requests, Answer(r)
  PROVE  TicketInv'
<1> DEFINE failed == [reqId |-> r, ok |-> FALSE, status |-> "", reason |-> "failed"]
           Reply(o) == IF requests[r].kind = "order"
                       THEN [reqId |-> r, ok |-> TRUE, status |-> o, reason |-> ""]
                       ELSE [reqId |-> r, ok |-> o = "cancelled", status |-> "",
                             reason |-> IF o = "cancelled" THEN "" ELSE "notFound"]
<1>1. PICK o \in Outcomes(requests[r].kind) \cup {"unknown"} :
        /\ requests' = [requests EXCEPT ![r].outcome = o]
        /\ net' = IF ~requests[r].attached THEN net
                  ELSE Append(net, IF o = "unknown" THEN failed ELSE Reply(o))
  BY DEF Answer
<1>2. requests[r].outcome = Null /\ UNCHANGED <<form, busy, msg>>
  BY DEF Answer
<1> DEFINE m == IF o = "unknown" THEN failed ELSE Reply(o)
           q == [requests[r] EXCEPT !.outcome = o]
<1>3. /\ requests \in Seq(RequestRecords) /\ requests[r] \in RequestRecords /\ r \in Nat
      /\ net \in Seq(Results)
  BY DEF TicketInv, TicketTypes
<1>4. o \in Known /\ (requests[r].kind = "cancel" => o \in {"cancelled", "notFound", "unknown"})
  BY DEF Outcomes, Known
<1>5. /\ q \in RequestRecords /\ q.outcome = o
      /\ q.kind = requests[r].kind /\ q.order = requests[r].order
      /\ q.pending = requests[r].pending
  BY <1>3, <1>4 DEF RequestRecords
<1>6. m \in Results /\ m.reqId = r
  <2>1. failed \in Results /\ failed.reqId = r
    BY <1>3 DEF Results
  <2>2. Reply(o) \in Results /\ Reply(o).reqId = r
    BY <1>3, <1>4 DEF Results
  <2> QED
    BY <2>1, <2>2
<1>7. requests[r].kind \in {"order", "cancel"}
  BY <1>3 DEF RequestRecords
<1>8. MessageFor(requests[r].kind, m).says
        = IF o = "unknown" THEN "failed" ELSE IF o = "queued" THEN "resting" ELSE o
  <2>1. CASE requests[r].kind = "order"
    BY <2>1 DEF MessageFor, Says, Outcomes
  <2>2. CASE requests[r].kind = "cancel"
    BY <2>2 DEF MessageFor, Says, Outcomes
  <2> QED
    BY <1>7, <2>1, <2>2
<1>9. o # "resting"
  BY DEF Outcomes
<1>10. requests' = [requests EXCEPT ![r] = q]
  BY <1>1
<1>11. net' = net \/ net' = Append(net, m)
  BY <1>1
<1> HIDE DEF q, m, failed
<1>12. /\ requests' \in Seq(RequestRecords)
       /\ DOMAIN requests' = DOMAIN requests
       /\ \A j \in DOMAIN requests : requests'[j] = IF j = r THEN q ELSE requests[j]
  <2>1. [requests EXCEPT ![r] = q] \in Seq(RequestRecords)
    BY ONLY <1>3, <1>5, r \in DOMAIN requests, UpdateSeq
  <2> QED
    BY <1>10, <2>1
<1>13. \A j \in DOMAIN requests : /\ requests'[j].kind = requests[j].kind
                                  /\ requests'[j].order = requests[j].order
                                  /\ requests'[j].pending = requests[j].pending
  BY <1>5, <1>12
<1>14. /\ net' \in Seq(Results)
       /\ \A i \in DOMAIN net' : net'[i] = m \/ \E k \in DOMAIN net : net'[i] = net[k]
  <2>1. CASE net' = net
    BY <1>3, <2>1
  <2>2. CASE net' = Append(net, m)
    <3>1. /\ Append(net, m) \in Seq(Results) /\ Len(net) \in Nat
          /\ DOMAIN net = 1 .. Len(net) /\ DOMAIN Append(net, m) = 1 .. Len(net) + 1
          /\ \A i \in 1 .. Len(net) + 1 :
               Append(net, m)[i] = (IF i = Len(net) + 1 THEN m ELSE net[i])
      BY <1>3, <1>6
    <3> QED
      BY <2>2, <3>1
  <2> QED
    BY <1>11, <2>1, <2>2
<1>15. TicketTypes'
  BY <1>2, <1>12, <1>14 DEF TicketInv, TicketTypes, FormTypes, form
<1>16. OrderWellFormed' /\ BusyWithOne'
  BY <1>2, <1>12, <1>13 DEF TicketInv, OrderWellFormed, BusyWithOne, IsOrder
<1>17. ASSUME NEW j, NEW says, True(requests, j, says)
       PROVE  True(requests', j, says)
  <2>1. CASE j = r
    <3>1. says \in {"notRunning", "noAnswer", "failed"}
      BY <1>2, <1>17, <2>1 DEF True
    <3> QED
      BY <3>1 DEF True
  <2>2. CASE j # r
    BY <1>12, <1>17, <2>2 DEF True
  <2> QED
    BY <2>1, <2>2
<1>18. NetTrue'
  <2> SUFFICES ASSUME NEW i \in DOMAIN net'
               PROVE  /\ net'[i].reqId \in DOMAIN requests'
                      /\ True(requests', net'[i].reqId,
                              MessageFor(requests'[net'[i].reqId].kind, net'[i]).says)
    BY DEF NetTrue
  <2>1. CASE net'[i] = m
    <3>1. requests'[r].kind = requests[r].kind /\ requests'[r].outcome = o /\ o # Null
      BY <1>4, <1>5, <1>12, TicketAssumption DEF Known
    <3>2. True(requests', r, MessageFor(requests'[r].kind, m).says)
      BY <1>8, <1>9, <1>12, <3>1 DEF True
    <3> QED
      BY <1>6, <1>12, <2>1, <3>2, Zenon
  <2>2. CASE \E k \in DOMAIN net : net'[i] = net[k]
    <3>1. PICK k \in DOMAIN net : net'[i] = net[k]
      BY <2>2
    <3>2. /\ net[k].reqId \in DOMAIN requests
          /\ True(requests, net[k].reqId, MessageFor(requests[net[k].reqId].kind, net[k]).says)
      BY DEF TicketInv, NetTrue
    <3>3. requests'[net[k].reqId].kind = requests[net[k].reqId].kind
      BY <1>13, <3>2
    <3>4. True(requests', net[k].reqId, MessageFor(requests'[net[k].reqId].kind, net[k]).says)
      BY <1>17, <3>2, <3>3
    <3> QED
      BY <1>12, <3>1, <3>2, <3>4, Zenon
  <2> QED
    BY <1>14, <2>1, <2>2
<1>19. MsgTrue'
  BY <1>2, <1>17 DEF TicketInv, MsgTrue
<1> QED
  BY <1>15, <1>16, <1>18, <1>19 DEF TicketInv

\* The connection is lost, and with it the results on the way.
LEMMA OnCloseStep == TicketInv /\ OnClose => TicketInv'
<1> SUFFICES ASSUME TicketInv, OnClose PROVE TicketInv'
  OBVIOUS
<1>1. /\ requests' = [r \in DOMAIN requests |-> [requests[r] EXCEPT !.attached = FALSE]]
      /\ net' = <<>> /\ UNCHANGED <<form, busy, msg>>
  BY DEF OnClose
<1>2. requests \in Seq(RequestRecords)
  BY DEF TicketInv, TicketTypes
<1>3. \A r \in DOMAIN requests :
        /\ requests'[r] \in RequestRecords
        /\ requests'[r].kind = requests[r].kind /\ requests'[r].order = requests[r].order
        /\ requests'[r].pending = requests[r].pending /\ requests'[r].outcome = requests[r].outcome
  <2> SUFFICES ASSUME NEW r \in DOMAIN requests
               PROVE  /\ requests'[r] \in RequestRecords
                      /\ requests'[r].kind = requests[r].kind
                      /\ requests'[r].order = requests[r].order
                      /\ requests'[r].pending = requests[r].pending
                      /\ requests'[r].outcome = requests[r].outcome
    OBVIOUS
  <2>1. requests[r] \in RequestRecords
    BY <1>2
  <2>2. requests'[r] = [requests[r] EXCEPT !.attached = FALSE]
    BY <1>1
  <2> QED
    BY <2>1, <2>2 DEF RequestRecords
<1>4. DOMAIN requests' = DOMAIN requests /\ requests' \in Seq(RequestRecords)
  BY <1>1, <1>2, <1>3
<1>5. TicketTypes'
  BY <1>1, <1>4 DEF TicketInv, TicketTypes, FormTypes, form
<1>6. OrderWellFormed' /\ BusyWithOne' /\ MsgTrue'
  <2>1. OrderWellFormed'
    BY <1>3, <1>4 DEF TicketInv, OrderWellFormed
  <2>2. BusyWithOne'
    <3>1. \A r \in DOMAIN requests : IsOrder(r)' <=> IsOrder(r)
      BY <1>3 DEF IsOrder
    <3> QED
      BY <1>1, <1>4, <3>1 DEF TicketInv, BusyWithOne
  <2>3. MsgTrue'
    BY <1>1, <1>3, <1>4 DEF TicketInv, MsgTrue, True
  <2> QED
    BY <2>1, <2>2, <2>3
<1>7. NetTrue'
  BY <1>1 DEF NetTrue
<1> QED
  BY <1>5, <1>6, <1>7 DEF TicketInv

LEMMA TicketStep == TicketInv /\ [Next]_vars => TicketInv'
<1> SUFFICES ASSUME TicketInv, [Next]_vars PROVE TicketInv'
  OBVIOUS
<1>1. CASE TicketNext
  <2>1. CASE Reconnect \/ ReceiveStatus \/ Render
    <3>1. UNCHANGED <<form, busy, msg, requests, net>>
      BY <2>1 DEF Reconnect, ReceiveStatus, Render
    <3>2. FormTypes'
      BY <3>1 DEF form, TicketInv, TicketTypes, FormTypes
    <3> QED
      BY <3>1, <3>2, FormStep
  <2> QED
    BY <1>1, <2>1, EditStep, PickStep, SubmitStep, CancelStep, TimeOutStep, AnswerStep,
       ReceiveResultStep, OnCloseStep DEF TicketNext
<1>2. CASE UNCHANGED ticketVars
  <2>1. FormTypes' /\ UNCHANGED <<busy, msg, requests, net>>
    BY <1>2 DEF ticketVars, form, TicketInv, TicketTypes, FormTypes
  <2> QED
    BY <2>1, FormStep
<1> QED
  BY <1>1, <1>2 DEF Next, vars

LEMMA TicketInvariant == Spec => []TicketInv
<1>1. Init => TicketInv
  <2> SUFFICES ASSUME Init PROVE TicketInv
    OBVIOUS
  <2>1. /\ type = "limit" /\ price = 0 /\ qty = 50 /\ busy = FALSE /\ msg = Null
        /\ requests = <<>> /\ net = <<>>
    BY DEF Init, TicketInit
  <2>2. TicketTypes
    <3>1. FormTypes
      BY <2>1 DEF FormTypes, Numbers
    <3>2. busy \in BOOLEAN
      BY <2>1
    <3>3. requests \in Seq(RequestRecords) /\ net \in Seq(Results)
      BY <2>1
    <3> QED
      BY <3>1, <3>2, <3>3 DEF TicketTypes
  <2> QED
    BY <2>1, <2>2 DEF TicketInv, OrderWellFormed, BusyWithOne, NetTrue, MsgTrue
<1> QED
  BY <1>1, TicketStep, PTL DEF Spec

-----------------------------------------------------------------------------
(* What the ticket promises                                                *)

\* Whatever is typed into the ticket or picked from the ladder, the exchange is
\* asked for at least one unit, at a price above zero unless the order is a market
\* order, with one exception: a quantity or a price beyond all bounds is sent as
\* zero (JSON has no Infinity, and server.ts takes what it gets instead for 0).
THEOREM OrdersAlwaysWellFormed == Spec => []OrderWellFormed
<1>1. TicketInv => OrderWellFormed
  BY DEF TicketInv
<1> QED
  BY <1>1, TicketInvariant, PTL

\* The ticket is busy exactly while an order of it has no answer, and there is
\* never a second one, whatever order results, timers, cancels and lost
\* connections come in.
THEOREM BusyAlwaysExact == Spec => []BusyExact
<1>1. TicketInv => BusyExact
  <2> SUFFICES ASSUME TicketInv PROVE BusyExact
    OBVIOUS
  <2> DEFINE orders == {r \in Pending : requests[r].kind = "order"}
  <2>1. orders = {r \in DOMAIN requests : IsOrder(r)}
    BY DEF Pending, IsOrder
  <2>2. busy = (orders # {})
    BY <2>1 DEF TicketInv, TicketTypes, BusyWithOne
  <2>3. Cardinality(orders) <= 1
    <3>1. CASE orders = {}
      BY <3>1, FS_EmptySet
    <3>2. CASE orders # {}
      <4>1. PICK r : r \in orders
        BY <3>2
      <4>2. orders = {r}
        BY <2>1, <4>1 DEF TicketInv, BusyWithOne
      <4> QED
        BY <4>2, FS_Singleton
    <3> QED
      BY <3>1, <3>2
  <2> QED
    BY <2>2, <2>3 DEF BusyExact
<1> QED
  BY <1>1, TicketInvariant, PTL

\* What the ticket reports of a request is what became of it, although results
\* overlap, come late or are lost.
THEOREM MessagesAlwaysTruthful == Spec => []MessageTruthful
<1>1. TicketInv => MessageTruthful
  BY DEF TicketInv, MsgTrue, True, MessageTruthful
<1> QED
  BY <1>1, TicketInvariant, PTL
=============================================================================
