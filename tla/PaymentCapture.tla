--------------------------- MODULE PaymentCapture ---------------------------
(***************************************************************************)
(* The capture of PayPal payments of one fan: finalize_paypal_payment,     *)
(* called by the fan's browser and by PayPal's webhook, lock by lock, with *)
(* PayPal as another party, the requests of the fan and of staff that      *)
(* meet it, and faults between its steps.                                  *)
(*                                                                         *)
(* A payment pays for a subject: a lottery win, a direct ticket or an      *)
(* order.  What a checkout does besides opening a payment is in            *)
(* TicketSales and Orders; prices and quantities are left out.  The events *)
(* of PayPal about one payment that wait for the webhook count as one.     *)
(***************************************************************************)
EXTENDS Integers, FiniteSets

CONSTANTS
  Wins, DirectTickets, Orders,  \* the subjects
  Payments,
  SubjectOf,      \* what a payment pays for
  Browsers,       \* capture requests of the fan in flight at a time
  Webhooks,       \* webhook deliveries in flight at a time
  Buyers,         \* direct checkouts of the fan in flight at a time
  Shippers,       \* fulfilment requests in flight at a time
  Draws,          \* draws of the concert in flight at a time
  NoPayment,
  MaxFaults,      \* bound: crashes, failed commits, lost answers
  MaxUnreachable  \* bound: calls that do not reach PayPal

Subjects == Wins \cup DirectTickets \cup Orders
FinalizeCalls == Browsers \cup Webhooks
Procs == FinalizeCalls \cup Buyers \cup Shippers \cup Draws

ASSUME CaptureAssumption ==
  /\ Wins \cap DirectTickets = {} /\ Wins \cap Orders = {} /\ DirectTickets \cap Orders = {}
  /\ SubjectOf \in [Payments -> Subjects]
  /\ NoPayment \notin Payments
  /\ MaxFaults \in Nat /\ MaxUnreachable \in Nat

VARIABLES
  paypal,   \* the order at PayPal
  events,   \* payments with a webhook event that is not acknowledged
  payment,  \* payment.status
  subject,  \* the ticket or order: open (pending), paid or closed
  soldOut,  \* no direct ticket or product is left
  late,     \* the payment deadline of the win has passed
  call,     \* the next step of a request, its payment, PayPal's answer
  held,     \* the row locks it holds
  faults,
  unreachable

rows == <<payment, subject, soldOut, late>>
vars == <<paypal, events, payment, subject, soldOut, late, call, held, faults, unreachable>>

Steps == {"idle", "payment", "subject", "goods", "paypal", "commit", "respond",
          "user", "tier", "ship", "types", "notify"}
Idle == [at |-> "idle", pays |-> NoPayment, completed |-> FALSE, order |-> NoPayment]
Calls == [at : Steps, pays : Payments \cup {NoPayment}, completed : BOOLEAN, order : Orders \cup {NoPayment}]
LockedRows == Payments \cup Subjects \cup {"lottery", "direct", "products", "fan", NoPayment}
Locks == [table : {"payment", "subject", "goods", "users", "shipping"}, row : LockedRows, exclusive : BOOLEAN]

TypeOK ==
  /\ paypal \in [Payments -> {"none", "created", "approved", "captured", "declined"}]
  /\ events \subseteq Payments
  /\ payment \in [Payments -> {"none", "pending", "success", "failed"}]
  /\ subject \in [Subjects -> {"none", "open", "paid", "closed"}]
  /\ soldOut \in BOOLEAN /\ late \in BOOLEAN
  /\ call \in [Procs -> Calls]
  /\ held \in [Procs -> SUBSET Locks]
  /\ faults \in 0..MaxFaults /\ unreachable \in 0..MaxUnreachable

\* wins are drawn, nothing is bought yet
Init ==
  /\ paypal = [pm \in Payments |-> "none"]
  /\ events = {}
  /\ payment = [pm \in Payments |-> "none"]
  /\ subject = [s \in Subjects |-> IF s \in Wins THEN "open" ELSE "none"]
  /\ soldOut = FALSE
  /\ late = FALSE
  /\ call = [c \in Procs |-> Idle]
  /\ held = [c \in Procs |-> {}]
  /\ faults = 0
  /\ unreachable = 0

(***************************************************************************)
(* Locks                                                                   *)
(***************************************************************************)
Lock(table, row, exclusive) == [table |-> table, row |-> row, exclusive |-> exclusive]
TheUser(exclusive) == Lock("users", "fan", exclusive)
TicketTypes == {Lock("goods", "lottery", TRUE), Lock("goods", "direct", TRUE)}

\* the ticket type, or the products of the order
GoodsOf(s) ==
  Lock("goods", IF s \in Wins THEN "lottery" ELSE IF s \in DirectTickets THEN "direct" ELSE "products", TRUE)

\* mutant: the ticket or order is read without a lock
SubjectUnlocked(s) == {}

SubjectLock(s) == {Lock("subject", s, TRUE)}

\* A completed capture inserts a notification, which locks the user by its
\* foreign key; an order's shipping status is written with it.
CommitLocks(c) ==
  LET s == SubjectOf[call[c].pays]
  IN  (IF call[c].completed THEN {TheUser(FALSE)} ELSE {})
        \cup (IF s \in Orders THEN {Lock("shipping", s, TRUE)} ELSE {})

Wanted(c) ==
  LET x == call[c]
  IN CASE x.at = "payment" -> {Lock("payment", x.pays, TRUE)}
       [] x.at = "subject" -> SubjectLock(SubjectOf[x.pays])
       [] x.at = "goods" -> {GoodsOf(SubjectOf[x.pays])}
       [] x.at = "commit" -> CommitLocks(c)
       [] x.at = "user" -> {TheUser(TRUE)}
       [] x.at = "tier" -> {Lock("goods", "direct", TRUE)}
       [] x.at = "types" -> TicketTypes
       [] x.at = "notify" -> {TheUser(FALSE)}
       [] x.at = "ship" -> {Lock("shipping", x.order, TRUE), Lock("subject", x.order, FALSE), TheUser(FALSE)}
       [] OTHER -> {}

Rows == INSTANCE RowLocks WITH wanted <- [c \in Procs |-> Wanted(c)]

TakeLock(c) ==
  /\ \E l \in Rows!Missing(c) : Rows!Holders(c, l) = {} /\ held' = [held EXCEPT ![c] = @ \cup {l}]
  /\ UNCHANGED <<paypal, events, rows, call, faults, unreachable>>

\* a request that runs to its end in one step meets no lock
Unlocked(l) == \A c \in Procs : \A m \in held[c] : ~(m.table = l.table /\ m.row = l.row)

Ready(c, step) == call[c].at = step /\ Rows!Missing(c) = {}

Goto(c, step) ==
  /\ call' = [call EXCEPT ![c].at = step]
  /\ UNCHANGED <<paypal, events, rows, held, faults, unreachable>>

End(c) ==
  /\ call' = [call EXCEPT ![c] = Idle]
  /\ held' = [held EXCEPT ![c] = {}]

\* mutant: nothing to do is an error to the webhook
RefuseUnacknowledged(c) == End(c) /\ UNCHANGED events

\* finalize_paypal_payment returns None: 404 to a browser, 200 to a webhook
Refuse(c) ==
  /\ End(c)
  /\ events' = IF c \in Webhooks THEN events \ {call[c].pays} ELSE events

\* mutant: errors are caught and acknowledged
FailAcknowledged(c) == Refuse(c)

\* it raises: the session is closed, the answer is a 500 and PayPal retries
Fail(c) == End(c) /\ UNCHANGED events

(***************************************************************************)
(* The parties                                                             *)
(***************************************************************************)
\* A checkout by PayPal: with the direct ticket or the order, and for a win
\* as often as the fan likes while it is open.
OpenPayment(pm) ==
  LET s == SubjectOf[pm]
  IN  /\ payment[pm] = "none"
      /\ IF s \in Wins THEN subject[s] = "open" /\ ~late ELSE subject[s] = "none" /\ ~soldOut
      /\ Unlocked(Lock("subject", s, TRUE)) /\ Unlocked(GoodsOf(s)) /\ Unlocked(TheUser(TRUE))
      /\ payment' = [payment EXCEPT ![pm] = "pending"]
      /\ subject' = [subject EXCEPT ![s] = "open"]
      /\ paypal' = [paypal EXCEPT ![pm] = "created"]
      /\ UNCHANGED <<events, soldOut, late, call, held, faults, unreachable>>

\* the fan approves at PayPal, which tells the webhook
Approve(pm) ==
  /\ paypal[pm] = "created"
  /\ paypal' = [paypal EXCEPT ![pm] = "approved"]
  /\ events' = events \cup {pm}
  /\ UNCHANGED <<rows, call, held, faults, unreachable>>

Close(s) ==
  /\ Unlocked(Lock("subject", s, TRUE))
  /\ subject' = [subject EXCEPT ![s] = "closed"]
  /\ UNCHANGED <<paypal, events, payment, soldOut, late, call, held, faults, unreachable>>

CancelPlacedOrder(s) == subject[s] \in {"open", "paid"} /\ Unlocked(Lock("shipping", s, TRUE)) /\ Close(s)

\* checkout_won_ticket after the deadline
ExpireWin(s) == subject[s] = "open" /\ late /\ Unlocked(GoodsOf(s)) /\ Close(s)

\* other fans buy, staff restock
GoodsMove ==
  /\ \A s \in Subjects \ Wins : Unlocked(GoodsOf(s))
  /\ soldOut' = ~soldOut
  /\ UNCHANGED <<paypal, events, payment, subject, late, call, held, faults, unreachable>>

DeadlinePasses ==
  /\ ~late
  /\ late' = TRUE
  /\ UNCHANGED <<paypal, events, payment, subject, soldOut, call, held, faults, unreachable>>

(***************************************************************************)
(* PaymentService.finalize_paypal_payment                                  *)
(***************************************************************************)
Start(c, pm) ==
  /\ call[c].at = "idle"
  /\ call' = [call EXCEPT ![c] = [Idle EXCEPT !.at = "payment", !.pays = pm]]
  /\ UNCHANGED <<paypal, events, rows, held, faults, unreachable>>

CapturePaypalPayment(c, pm) == payment[pm] # "none" /\ Start(c, pm)

\* verify_webhook_signature: PayPal confirms only what it has sent
IsGenuine(pm) == pm \in events

PaypalWebhook(c, pm) == IsGenuine(pm) /\ Start(c, pm)

FindPayment(c) ==
  /\ Ready(c, "payment")
  /\ IF payment[call[c].pays] = "pending"
     THEN Goto(c, "subject")
     ELSE Refuse(c) /\ UNCHANGED <<paypal, rows, faults, unreachable>>

FindSubject(c) ==
  /\ Ready(c, "subject")
  /\ IF subject[SubjectOf[call[c].pays]] = "open"
     THEN Goto(c, "goods")
     ELSE Refuse(c) /\ UNCHANGED <<paypal, rows, faults, unreachable>>

FindGoods(c) ==
  LET s == SubjectOf[call[c].pays]
  IN  /\ Ready(c, "goods")
      /\ CASE s \notin Wins /\ soldOut -> Refuse(c) /\ UNCHANGED <<paypal, rows, faults, unreachable>>
           [] s \in Wins /\ late ->
                /\ subject' = [subject EXCEPT ![s] = "closed"]
                /\ Refuse(c)
                /\ UNCHANGED <<paypal, payment, soldOut, late, faults, unreachable>>
           [] OTHER -> Goto(c, "paypal")

\* PayPal captures what is approved and announces it; anything else is a 422.
Capture(c) ==
  LET pm == call[c].pays
  IN  /\ Ready(c, "paypal")
      /\ \/ /\ paypal[pm] = "approved"
            /\ \E answer \in {"captured", "declined"} :
                 /\ paypal' = [paypal EXCEPT ![pm] = answer]
                 /\ call' = [call EXCEPT ![c].at = "commit", ![c].completed = (answer = "captured")]
            /\ events' = events \cup {pm}
            /\ UNCHANGED <<rows, held, faults, unreachable>>
         \/ /\ paypal[pm] # "approved"
            /\ Fail(c)
            /\ UNCHANGED <<paypal, rows, faults, unreachable>>

\* mutant: the payment is left pending
FinalizeCompletedLeavingPayment(c) ==
  LET pm == call[c].pays
      s == SubjectOf[pm]
  IN  /\ Ready(c, "commit") /\ call[c].completed
      /\ subject' = [subject EXCEPT ![s] = "paid"]
      /\ call' = [call EXCEPT ![c].at = "respond"]
      /\ held' = [held EXCEPT ![c] = {}]
      /\ UNCHANGED <<paypal, events, payment, soldOut, late, faults, unreachable>>

FinalizeCompleted(c) ==
  LET pm == call[c].pays
      s == SubjectOf[pm]
  IN  /\ Ready(c, "commit") /\ call[c].completed
      /\ payment' = [payment EXCEPT ![pm] = "success"]
      /\ subject' = [subject EXCEPT ![s] = "paid"]
      /\ IF s \in Wins THEN UNCHANGED soldOut ELSE soldOut' \in BOOLEAN
      /\ call' = [call EXCEPT ![c].at = "respond"]
      /\ held' = [held EXCEPT ![c] = {}]
      /\ UNCHANGED <<paypal, events, late, faults, unreachable>>

\* mutant: a declined capture is taken for a payment
FinalizeFailedAsPaid(c) ==
  LET pm == call[c].pays
      s == SubjectOf[pm]
  IN  /\ Ready(c, "commit") /\ ~call[c].completed
      /\ payment' = [payment EXCEPT ![pm] = "success"]
      /\ subject' = [subject EXCEPT ![s] = "paid"]
      /\ call' = [call EXCEPT ![c].at = "respond"]
      /\ held' = [held EXCEPT ![c] = {}]
      /\ UNCHANGED <<paypal, events, soldOut, late, faults, unreachable>>

FinalizeFailed(c) ==
  LET pm == call[c].pays
      s == SubjectOf[pm]
  IN  /\ Ready(c, "commit") /\ ~call[c].completed
      /\ payment' = [payment EXCEPT ![pm] = "failed"]
      /\ subject' = IF s \in Wins THEN subject ELSE [subject EXCEPT ![s] = "closed"]
      /\ call' = [call EXCEPT ![c].at = "respond"]
      /\ held' = [held EXCEPT ![c] = {}]
      /\ UNCHANGED <<paypal, events, soldOut, late, faults, unreachable>>

Respond(c) ==
  /\ Ready(c, "respond")
  /\ Refuse(c)
  /\ UNCHANGED <<paypal, rows, faults, unreachable>>

(***************************************************************************)
(* Requests that lock what a capture needs                                 *)
(***************************************************************************)
\* checkout_ticket: the user, then the ticket type; the fan has a live
\* ticket, or buys another one
CheckoutTicket(c) == call[c].at = "idle" /\ Goto(c, "user")
BuyerLocked(c) == Ready(c, "user") /\ Goto(c, "tier")

\* ship_order: the shipping status, and the order and the user by the
\* notification's foreign keys, in an order nothing fixes
ShipOrder(c, s) ==
  /\ call[c].at = "idle" /\ subject[s] # "none"
  /\ call' = [call EXCEPT ![c] = [Idle EXCEPT !.at = "ship", !.order = s]]
  /\ UNCHANGED <<paypal, events, rows, held, faults, unreachable>>

\* draw_lottery: every ticket type of the concert, in an order nothing
\* fixes; then the fan, by the foreign keys of their ticket and their
\* notifications, if they have an entry in it
DrawLottery(c) == call[c].at = "idle" /\ Goto(c, "types")
DrawLocked(c) == Ready(c, "types") /\ Goto(c, "notify")

Finish(c) ==
  /\ \E step \in {"tier", "ship", "types", "notify"} : Ready(c, step)
  /\ Fail(c)
  /\ UNCHANGED <<paypal, rows, faults, unreachable>>

(***************************************************************************)
(* Failures                                                                *)
(***************************************************************************)
DeadlockAbort(c) ==
  /\ Rows!Deadlocked(c)
  /\ Fail(c)
  /\ UNCHANGED <<paypal, rows, faults, unreachable>>

\* PayPal is not reached
Unreachable(c) ==
  /\ Ready(c, "paypal") /\ unreachable < MaxUnreachable
  /\ unreachable' = unreachable + 1
  /\ Fail(c)
  /\ UNCHANGED <<paypal, rows, faults>>

\* PayPal captures and the answer does not come within the timeout
AnswerLost(c) ==
  /\ Ready(c, "paypal") /\ paypal[call[c].pays] = "approved" /\ faults < MaxFaults
  /\ faults' = faults + 1
  /\ paypal' = [paypal EXCEPT ![call[c].pays] = "captured"]
  /\ End(c)
  /\ events' = events \cup {call[c].pays}
  /\ UNCHANGED <<rows, unreachable>>

\* the process dies, or the commit fails
Crash(c) ==
  /\ c \in FinalizeCalls /\ call[c].at # "idle" /\ faults < MaxFaults
  /\ faults' = faults + 1
  /\ Fail(c)
  /\ UNCHANGED <<paypal, rows, unreachable>>

Finalize(c) ==
  \/ FindPayment(c) \/ FindSubject(c) \/ FindGoods(c) \/ Capture(c)
  \/ FinalizeCompleted(c) \/ FinalizeFailed(c) \/ Respond(c)

Next ==
  \/ \E pm \in Payments : OpenPayment(pm) \/ Approve(pm)
  \/ \E s \in Orders : CancelPlacedOrder(s)
  \/ \E s \in Wins : ExpireWin(s)
  \/ GoodsMove \/ DeadlinePasses
  \/ \E c \in Browsers, pm \in Payments : CapturePaypalPayment(c, pm)
  \/ \E c \in Webhooks, pm \in Payments : PaypalWebhook(c, pm)
  \/ \E c \in FinalizeCalls : Finalize(c) \/ Unreachable(c) \/ AnswerLost(c) \/ Crash(c)
  \/ \E c \in Buyers : CheckoutTicket(c) \/ BuyerLocked(c) \/ Finish(c)
  \/ \E c \in Draws : DrawLottery(c) \/ DrawLocked(c) \/ Finish(c)
  \/ \E c \in Shippers : (\E s \in Orders : ShipOrder(c, s)) \/ Finish(c)
  \/ \E c \in Procs : TakeLock(c) \/ DeadlockAbort(c)

Spec == Init /\ [][Next]_vars

\* Requests that run go on, a waiter for a row is served in its turn, and
\* PayPal delivers an event again until it is acknowledged.
Fairness ==
  /\ \A c \in Procs : /\ WF_vars(Finalize(c) \/ BuyerLocked(c) \/ DrawLocked(c) \/ Finish(c) \/ DeadlockAbort(c))
                     /\ SF_vars(TakeLock(c))
  /\ \A pm \in Payments : SF_vars(\E c \in Webhooks : PaypalWebhook(c, pm))

FairSpec == Spec /\ Fairness

-----------------------------------------------------------------------------
\* A payment is recorded as successful only if PayPal took the money.
SuccessIsCaptured == \A pm \in Payments : payment[pm] = "success" => paypal[pm] = "captured"

BeingRecorded(pm) == \E c \in FinalizeCalls : call[c].at = "commit" /\ call[c].pays = pm

\* Money that PayPal took is recorded by the call that took it
\* (payment_service.py 153-208).
CapturedIsRecorded ==
  \A pm \in Payments : paypal[pm] = "captured" => payment[pm] = "success" \/ BeingRecorded(pm)

\* PayPal takes the money for a win, ticket or order only while it is open
\* and no other payment of it has succeeded or is about to, although a fan
\* may approve several payments of a win, every capture may be tried by the
\* browser and the webhook, and an earlier one may have been undone.
ChargedWhileOpen ==
  [][\A pm \in Payments :
       (paypal[pm] # "captured" /\ paypal'[pm] = "captured") =>
         /\ subject[SubjectOf[pm]] = "open"
         /\ \A q \in Payments \ {pm} :
              SubjectOf[q] = SubjectOf[pm] => payment[q] # "success" /\ ~BeingRecorded(q)]_vars

\* An event is acknowledged only when there is nothing left to do for its
\* payment, or it cannot be done now: no error is taken for an answer.
AcknowledgedIsSettled ==
  [][\A pm \in events \ events' :
       \/ payment[pm] # "pending"
       \/ subject'[SubjectOf[pm]] # "open"
       \/ SubjectOf[pm] \notin Wins /\ soldOut]_vars

\* PayPal answered a capture, and the call was undone before it recorded the
\* answer: PayPal gives it once, and to every later call of the payment an
\* error that ends it.
Undone(pm) == paypal[pm] \in {"captured", "declined"} /\ payment[pm] = "pending" /\ ~BeingRecorded(pm)

\* Every event of PayPal is acknowledged at last, also when the browser never
\* calls, a call fails or is chosen to break a deadlock: PayPal does not retry
\* for ever, but for a capture that was undone.
EventuallyAcknowledged == \A pm \in Payments : (pm \in events) ~> (pm \notin events \/ Undone(pm))
=============================================================================
