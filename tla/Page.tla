-------------------------------- MODULE Page --------------------------------
(***************************************************************************)
(* The page: the diagram and the ticket side by side (web/src/App.tsx).    *)
(* They share no state, so a behaviour uses one of them.                   *)
(***************************************************************************)
EXTENDS Diagram, Ticket

VARIABLE part   \* the part that is used

vars == <<part, diagramVars, ticketVars>>

Init ==
  /\ part \in {"diagram", "ticket"}
  /\ DiagramInit
  /\ TicketInit
  /\ part = "ticket" => session = CHOOSE s \in Sessions : TRUE   \* it is not looked at

Next ==
  \/ part = "diagram" /\ DiagramNext /\ UNCHANGED <<part, ticketVars>>
  \/ part = "ticket" /\ TicketNext /\ UNCHANGED <<part, diagramVars>>

Spec == Init /\ [][Next]_vars /\ TicketFairness
=============================================================================
