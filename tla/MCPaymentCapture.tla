-------------------------- MODULE MCPaymentCapture --------------------------
(***************************************************************************)
(* PaymentCapture for TLC: two payments of a win, or one of a direct       *)
(* ticket or an order.                                                     *)
(***************************************************************************)
EXTENDS PaymentCapture, TLC

CONSTANTS win, ticket, order, p1, p2, p3

TwoOfTheWin == p1 :> win @@ p2 :> win @@ p3 :> order
OneOfTheWin == p1 :> win
OneOfTheTicket == p1 :> ticket

\* A behaviour pays for one thing and meets one failure; checkouts and draws
\* meet the payment of a win, shipments that of an order.
Scene ==
  /\ Cardinality({SubjectOf[pm] : pm \in {q \in Payments : payment[q] # "none"}}) <= 1
  /\ faults + unreachable <= 1
  /\ payment[p3] # "none" => \A c \in Buyers \cup Draws : call[c] = Idle
=============================================================================
