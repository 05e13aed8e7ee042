----------------------------- MODULE MCMPSCQueue -----------------------------
(* Small instances of MPSCQueue. *)
EXTENDS MPSCQueue, TLC

CONSTANTS p1, p2

OneProducer == p1 :> 5
TwoProducers == p1 :> 2 @@ p2 :> 2
OneSlowProducer == p1 :> 1 @@ p2 :> 4
=============================================================================
