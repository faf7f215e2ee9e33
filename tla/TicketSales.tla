----------------------------- MODULE TicketSales ----------------------------
(***************************************************************************)
(* Buying a ticket: the direct sale, the payment of a lottery win and the  *)
(* completion of a PayPal payment.  Each handler locks the ticket-type row *)
(* before it reads sold_quantity and commits once, so it is one step.      *)
(***************************************************************************)
EXTENDS ConcertState

CONSTANT Webhook  \* the caller of finalize_paypal_payment that is not a fan

\* How a gateway answers a checkout: the mock gateway at once, PayPal with an
\* order the buyer still has to approve.
Gateways == {"mock_success", "mock_declined", "paypal"}

PaymentAfter(g) ==
  CASE g = "mock_success" -> "success"
    [] g = "mock_declined" -> "failed"
    [] g = "paypal" -> "pending"

\* mutant: the ticket takes the status of its payment
TicketFollowsPayment(g, tt) == PaymentAfter(g)

\* PaymentService.create_ticket_payment: a declined direct purchase is
\* cancelled, a declined lottery win stays payable.
TicketAfter(g, tt) ==
  CASE g = "mock_success" -> "paid"
    [] g = "mock_declined" -> IF tt \in DirectTiers THEN "cancelled" ELSE "pending_payment"
    [] g = "paypal" -> "pending_payment"

CreateTicketPayment(t, tt, k, g) ==
  /\ payment' = [payment EXCEPT ![k] = PaymentAfter(g)]
  /\ payFor' = [payFor EXCEPT ![k] = t]
  /\ paidBy' = [paidBy EXCEPT ![t] = k]
  /\ status' = [status EXCEPT ![t] = TicketAfter(g, tt)]

(***************************************************************************)
(* TicketService.checkout_ticket                                           *)
(***************************************************************************)
CheckoutTicket(u, tt, t, k, g) ==
  /\ payment[k] = "none"
  /\ tt \in DirectTiers
  /\ onSale[tt]
  /\ sold[tt] < total[tt]
  /\ ~HoldsLiveTicket(u)
  /\ ~HasUnresolvedEntry(u)
  /\ t \in FreshTickets(u)
  /\ CreateTicketPayment(t, tt, k, g)
  /\ tier' = [tier EXCEPT ![t] = tt]
  /\ sold' = IF g = "mock_success" THEN [sold EXCEPT ![tt] = @ + 1] ELSE sold
  /\ UNCHANGED <<total, resizing, onSale, entryOf, due, lotteryVars>>

(***************************************************************************)
(* TicketService.checkout_won_ticket                                       *)
(***************************************************************************)
\* mutant: the status of the ticket is not looked at
IsWin(t) == tier[t] \in LotteryTiers

IsPayableWin(t) == tier[t] \in LotteryTiers /\ status[t] = "pending_payment"

\* mutant: the seat is not released
ExpireKeepingSeat(t) ==
  /\ due[t] = "past"
  /\ status' = [status EXCEPT ![t] = "expired"]
  /\ UNCHANGED <<catalogVars, tier, entryOf, due, paymentVars, lotteryVars>>

\* expire the ticket and release its seat
ExpireTicket(t) ==
  /\ due[t] = "past"
  /\ status' = [status EXCEPT ![t] = "expired"]
  /\ sold' = [sold EXCEPT ![tier[t]] = @ - 1]
  /\ UNCHANGED <<total, resizing, onSale, tier, entryOf, due, paymentVars, lotteryVars>>

CheckoutWonTicket(t, k, g) ==
  /\ payment[k] = "none"
  /\ IsPayableWin(t)
  /\ due[t] # "past"
  /\ CreateTicketPayment(t, tier[t], k, g)
  /\ UNCHANGED <<tier, entryOf, due, catalogVars, lotteryVars>>

CheckoutWonTicketTooLate(t, k) ==
  /\ payment[k] = "none"
  /\ IsPayableWin(t)
  /\ ExpireTicket(t)

(***************************************************************************)
(* PaymentService.finalize_paypal_payment, the ticket branch.  A payment   *)
(* that is pending is a PayPal payment.                                    *)
(***************************************************************************)
\* mutant: the ticket may be paid by another payment already
CanFinalizeAnyTicket(k, caller) ==
  payment[k] = "pending" /\ caller \in {Webhook, HolderOf(payFor[k])}

CanFinalize(k, caller) ==
  /\ payment[k] = "pending"
  /\ caller \in {Webhook, HolderOf(payFor[k])}
  /\ status[payFor[k]] = "pending_payment"

FinalizeTooLate(k, caller) ==
  /\ CanFinalize(k, caller)
  /\ tier[payFor[k]] \in LotteryTiers
  /\ ExpireTicket(payFor[k])

\* mutant: the deadline of a win is not checked again
CanCaptureLate(k, caller) ==
  LET t == payFor[k]
  IN  CanFinalize(k, caller) /\ (tier[t] \in DirectTiers => SeatsLeft(tier[t]) > 0)

CanCapture(k, caller) ==
  LET t == payFor[k]
  IN  /\ CanFinalize(k, caller)
      /\ tier[t] \in DirectTiers => SeatsLeft(tier[t]) > 0
      /\ tier[t] \in LotteryTiers => due[t] # "past"

\* mutant: payment_id stays that of the latest attempt
FinalizeKeepsPaymentId(k, caller) ==
  LET t == payFor[k]
  IN  /\ CanCapture(k, caller)
      /\ payment' = [payment EXCEPT ![k] = "success"]
      /\ status' = [status EXCEPT ![t] = "paid"]
      /\ sold' = IF tier[t] \in DirectTiers THEN [sold EXCEPT ![tier[t]] = @ + 1] ELSE sold
      /\ UNCHANGED <<total, resizing, onSale, tier, entryOf, due, paidBy, payFor, lotteryVars>>

\* capture_order answers COMPLETED
FinalizeCompleted(k, caller) ==
  LET t == payFor[k]
  IN  /\ CanCapture(k, caller)
      /\ payment' = [payment EXCEPT ![k] = "success"]
      /\ status' = [status EXCEPT ![t] = "paid"]
      /\ paidBy' = [paidBy EXCEPT ![t] = k]
      /\ sold' = IF tier[t] \in DirectTiers THEN [sold EXCEPT ![tier[t]] = @ + 1] ELSE sold
      /\ UNCHANGED <<total, resizing, onSale, tier, entryOf, due, payFor, lotteryVars>>

\* capture_order answers anything else
FinalizeFailed(k, caller) ==
  LET t == payFor[k]
  IN  /\ CanCapture(k, caller)
      /\ payment' = [payment EXCEPT ![k] = "failed"]
      /\ status' = [status EXCEPT ![t] = IF tier[t] \in DirectTiers THEN "cancelled" ELSE @]
      /\ UNCHANGED <<tier, entryOf, due, paidBy, payFor, catalogVars, lotteryVars>>

(***************************************************************************)
(* Time: the deadline of a win passes; nothing sweeps expired tickets.     *)
(***************************************************************************)
DeadlinePasses(t) ==
  /\ status[t] = "pending_payment"
  /\ due[t] = "ahead"
  /\ due' = [due EXCEPT ![t] = "past"]
  /\ UNCHANGED <<status, tier, entryOf, catalogVars, lotteryVars, paymentVars>>

SalesNext ==
  \/ \E u \in Fans, tt \in DirectTiers, k \in Keys, g \in Gateways :
       \E t \in FreshTickets(u) : CheckoutTicket(u, tt, t, k, g)
  \/ \E t \in TicketIds, k \in Keys : CheckoutWonTicketTooLate(t, k)
  \/ \E t \in TicketIds, k \in Keys, g \in Gateways : CheckoutWonTicket(t, k, g)
  \/ \E k \in Keys, caller \in Fans \cup {Webhook} :
       \/ FinalizeTooLate(k, caller)
       \/ FinalizeCompleted(k, caller)
       \/ FinalizeFailed(k, caller)
  \/ \E t \in TicketIds : DeadlinePasses(t)
=============================================================================
