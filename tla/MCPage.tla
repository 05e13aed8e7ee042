------------------------------- MODULE MCPage -------------------------------
(* A small instance of Page. *)
EXTENDS Page

\* The stamps of an order, in micros.
Stamps(enqueue, dequeue, matchDone, promiseSet, publish) ==
  Relative([rpcIn |-> 10, enqueue |-> enqueue, dequeue |-> dequeue, matchDone |-> matchDone,
            promiseSet |-> promiseSet, publish |-> publish])

Batch(at, seq, trace, prices, tob) ==
  [t |-> "batch", at |-> at, seq |-> seq, trace |-> trace, tob |-> tob, book |-> Null,
   trades |-> [j \in DOMAIN prices |-> [price |-> prices[j]]]]

Book(at) == [t |-> "book", at |-> at, book |-> [bids |-> <<>>, asks |-> <<>>]]

Quote(bid, ask) == [bid |-> bid, bidQty |-> 1, ask |-> ask, askQty |-> 1]

Usual == Stamps(13, 19, 22, 24, 25)
NoTime == Stamps(10, 10, 10, 10, 10)
Misordered == Stamps(15, 14, 16, 9, 19)

\* A session in which there is no bid for a while, the exchange is restarted
\* before its third order, and in the end a book comes from a gateway whose
\* clock is behind.
Session ==
  <<Batch(1, 1, Usual, <<>>, Quote(1, 2)), Batch(2, 2, NoTime, <<5, 6>>, Quote(Null, 2)),
    Batch(4, 1, Misordered, <<7>>, Quote(1, 3)), Batch(5, 2, Usual, <<>>, Null), Book(3)>>

\* A short session in which the bid rises twice: the line has a step after an
\* operation without a top of book, and another within the window.
Rising ==
  <<Batch(1, 1, Usual, <<5>>, Quote(1, 4)), Batch(2, 2, Usual, <<>>, Null),
    Batch(4, 3, Usual, <<>>, Quote(2, 4)), Batch(5, 4, Usual, <<>>, Quote(3, 4))>>

TwoSessions == {Session, Rising}
=============================================================================
