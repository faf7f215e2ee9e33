---------------------------- MODULE CaptureProofs ----------------------------
(***************************************************************************)
(* What holds of the capture of PayPal payments, for any number of         *)
(* payments, subjects, browsers, webhooks, checkouts, draws and shipments. *)
(***************************************************************************)
EXTENDS PaymentCapture, TLAPS

-----------------------------------------------------------------------------
(***************************************************************************)
(* What a call knows at each of its steps                                  *)
(***************************************************************************)
FinalizeSteps == {"payment", "subject", "goods", "paypal", "commit", "respond"}

\* A call that finalizes a payment works on one, a shipment on an order, and
\* nothing is at PayPal that was not opened here.
CallsRefer ==
  /\ \A c \in Procs : call[c].at \in FinalizeSteps => call[c].pays \in Payments
  /\ \A c \in Procs : call[c].at = "ship" => call[c].order \in Orders
  /\ \A pm \in Payments : payment[pm] = "none" => paypal[pm] = "none"

\* A call about to commit has PayPal's final answer, and one about to respond
\* has committed it.
AnswersAreFinal ==
  /\ \A c \in Procs : call[c].at = "commit" =>
       paypal[call[c].pays] = IF call[c].completed THEN "captured" ELSE "declined"
  /\ \A c \in Procs : call[c].at = "respond" => payment[call[c].pays] \in {"success", "failed"}

RecordInv == TypeOK /\ CallsRefer /\ AnswersAreFinal /\ SuccessIsCaptured

\* What the next statement of a request locks, step by step.
LEMMA WantedLocks ==
  ASSUME NEW c \in Procs, call[c] \in Calls
  PROVE  /\ call[c].at = "payment" => Wanted(c) = {Lock("payment", call[c].pays, TRUE)}
         /\ call[c].at = "subject" => Wanted(c) = SubjectLock(SubjectOf[call[c].pays])
         /\ call[c].at = "goods" => Wanted(c) = {GoodsOf(SubjectOf[call[c].pays])}
         /\ call[c].at = "commit" => Wanted(c) = CommitLocks(c)
         /\ call[c].at = "user" => Wanted(c) = {TheUser(TRUE)}
         /\ call[c].at = "tier" => Wanted(c) = {Lock("goods", "direct", TRUE)}
         /\ call[c].at = "types" => Wanted(c) = TicketTypes
         /\ call[c].at = "notify" => Wanted(c) = {TheUser(FALSE)}
         /\ call[c].at = "ship" =>
              Wanted(c) = {Lock("shipping", call[c].order, TRUE), Lock("subject", call[c].order, FALSE), TheUser(FALSE)}
         /\ call[c].at \in {"idle", "paypal", "respond"} => Wanted(c) = {}
BY DEF Wanted

LEMMA LockType ==
  ASSUME NEW t \in {"payment", "subject", "goods", "users", "shipping"}, NEW r \in LockedRows, NEW b \in BOOLEAN
  PROVE  Lock(t, r, b) \in Locks
BY DEF Lock, Locks

LEMMA WantedAreLocks ==
  ASSUME TypeOK, CallsRefer, NEW c \in Procs PROVE Wanted(c) \subseteq Locks
<1>1. call[c] \in Calls BY DEF TypeOK
<1>2. call[c].at \in FinalizeSteps => SubjectOf[call[c].pays] \in Subjects BY CaptureAssumption DEF CallsRefer
<1>3. \A s \in Subjects : SubjectLock(s) \subseteq Locks
  BY LockType DEF SubjectLock, LockedRows
<1>4. \A s : GoodsOf(s) \in Locks
  BY LockType DEF GoodsOf, LockedRows
<1>5. \A b \in BOOLEAN : TheUser(b) \in Locks
  BY LockType DEF TheUser, LockedRows
<1>6. CASE call[c].at = "payment"
  <2>1. Lock("payment", call[c].pays, TRUE) \in Locks BY <1>1, LockType DEF Calls, LockedRows
  <2> QED BY <1>1, <1>6, <2>1, WantedLocks
<1>7. CASE call[c].at = "subject"
  <2>1. Wanted(c) = SubjectLock(SubjectOf[call[c].pays]) BY <1>1, <1>7, WantedLocks
  <2>2. SubjectOf[call[c].pays] \in Subjects BY <1>2, <1>7 DEF FinalizeSteps
  <2> QED BY <1>3, <2>1, <2>2
<1>8. CASE call[c].at = "goods"
  <2>1. Wanted(c) = {GoodsOf(SubjectOf[call[c].pays])} BY <1>1, <1>8, WantedLocks
  <2> QED BY <1>4, <2>1
<1>9. CASE call[c].at = "commit"
  <2>1. \A s \in Subjects : Lock("shipping", s, TRUE) \in Locks BY LockType DEF LockedRows
  <2> QED BY <1>1, <1>2, <1>5, <1>9, <2>1, WantedLocks DEF CommitLocks, FinalizeSteps
<1>10. CASE call[c].at \in {"user", "tier", "types", "notify"}
  <2>1. Lock("goods", "direct", TRUE) \in Locks /\ Lock("goods", "lottery", TRUE) \in Locks
    BY LockType DEF LockedRows
  <2> QED BY <1>1, <1>5, <1>10, <2>1, WantedLocks DEF TicketTypes
<1>11. CASE call[c].at = "ship"
  <2>1. call[c].order \in LockedRows BY <1>11 DEF CallsRefer, Subjects, LockedRows
  <2>2. Lock("shipping", call[c].order, TRUE) \in Locks /\ Lock("subject", call[c].order, FALSE) \in Locks
    BY <2>1, LockType
  <2> QED BY <1>1, <1>5, <1>11, <2>2, WantedLocks
<1> QED BY <1>1, <1>6, <1>7, <1>8, <1>9, <1>10, <1>11, WantedLocks DEF Calls, Steps

LEMMA InitRecord == Init => RecordInv
<1> SUFFICES ASSUME Init PROVE RecordInv OBVIOUS
<1> USE CaptureAssumption DEF Init
<1>1. Idle \in Calls /\ Idle.at = "idle" BY DEF Idle, Calls, Steps
<1>2. soldOut \in BOOLEAN /\ late \in BOOLEAN OBVIOUS
<1>3. subject \in [Subjects -> {"none", "open", "paid", "closed"}] OBVIOUS
<1>4. TypeOK BY <1>1, <1>2, <1>3 DEF TypeOK
<1> QED BY <1>1, <1>4 DEF RecordInv, CallsRefer, AnswersAreFinal, SuccessIsCaptured, FinalizeSteps

\* A request that ends, whatever it answers, keeps the rows and the other
\* requests as they are.
LEMMA EndKeepsRecord ==
  ASSUME RecordInv, NEW c \in Procs, End(c), events' \subseteq Payments,
         UNCHANGED <<paypal, payment>>, subject' \in [Subjects -> {"none", "open", "paid", "closed"}],
         soldOut' \in BOOLEAN, late' \in BOOLEAN, faults' \in 0..MaxFaults, unreachable' \in 0..MaxUnreachable
  PROVE  RecordInv'
<1>1. Idle \in Calls /\ Idle.at = "idle" BY DEF Idle, Calls, Steps
<1>2. TypeOK' BY <1>1 DEF RecordInv, TypeOK, End
<1>3. \A d \in Procs : call'[d] = call[d] \/ call'[d].at = "idle" BY <1>1 DEF RecordInv, TypeOK, End
<1> QED BY <1>2, <1>3 DEF RecordInv, CallsRefer, AnswersAreFinal, SuccessIsCaptured, FinalizeSteps

\* A request that takes its next step before PayPal is called.
LEMMA GotoKeepsRecord ==
  ASSUME RecordInv, NEW c \in Procs, NEW step \in Steps, Goto(c, step),
         step \in {"subject", "goods", "paypal"} => call[c].at \in FinalizeSteps,
         step \notin {"commit", "respond", "payment", "ship"}
  PROVE  RecordInv'
<1>1. call'[c] = [call[c] EXCEPT !.at = step] /\ call[c] \in Calls BY DEF RecordInv, TypeOK, Goto
<1>2. call'[c] \in Calls /\ call'[c].at = step /\ call'[c].pays = call[c].pays BY <1>1 DEF Calls
<1>3. \A d \in Procs \ {c} : call'[d] = call[d] BY DEF RecordInv, TypeOK, Goto
<1>4. TypeOK' BY <1>2, <1>3 DEF RecordInv, TypeOK, Goto, rows
<1> QED BY <1>2, <1>3, <1>4 DEF RecordInv, CallsRefer, AnswersAreFinal, SuccessIsCaptured, FinalizeSteps, Goto, rows

\* The parties and the requests that do not finalize leave what is recorded
\* alone.
LEMMA OthersKeepRecord ==
  ASSUME RecordInv,
         \/ \E pm \in Payments : OpenPayment(pm) \/ Approve(pm)
         \/ \E s \in Orders : CancelPlacedOrder(s)
         \/ \E s \in Wins : ExpireWin(s)
         \/ GoodsMove \/ DeadlinePasses
         \/ \E c \in Procs : TakeLock(c)
  PROVE  RecordInv'
<1> USE DEF RecordInv, TypeOK, CallsRefer, AnswersAreFinal, SuccessIsCaptured
<1>1. ASSUME NEW pm \in Payments, OpenPayment(pm) PROVE RecordInv'
  <2>1. SubjectOf[pm] \in Subjects BY CaptureAssumption
  <2>2. \A c \in Procs : call[c].at \in {"commit", "respond"} => call[c].pays # pm
    BY <1>1 DEF OpenPayment, FinalizeSteps
  <2> QED BY <1>1, <2>1, <2>2 DEF OpenPayment, FinalizeSteps
<1>2. ASSUME NEW pm \in Payments, Approve(pm) PROVE RecordInv'
  BY <1>2 DEF Approve, FinalizeSteps, rows
<1>3. ASSUME NEW s \in Orders \cup Wins, Close(s) PROVE RecordInv'
  BY <1>3 DEF Close, Subjects, FinalizeSteps
<1>4. CASE GoodsMove
  <2>1. soldOut' \in BOOLEAN BY <1>4 DEF GoodsMove
  <2> QED BY <1>4, <2>1 DEF GoodsMove, FinalizeSteps
<1>5. CASE DeadlinePasses
  <2>1. late' \in BOOLEAN BY <1>5 DEF DeadlinePasses
  <2> QED BY <1>5, <2>1 DEF DeadlinePasses, FinalizeSteps
<1>6. ASSUME NEW c \in Procs, TakeLock(c) PROVE RecordInv'
  <2>1. PICK l \in Rows!Missing(c) : held' = [held EXCEPT ![c] = @ \cup {l}] BY <1>6 DEF TakeLock
  <2>2. l \in Wanted(c) BY <2>1 DEF Rows!Missing
  <2>3. l \in Locks BY <2>2, WantedAreLocks
  <2>4. held' \in [Procs -> SUBSET Locks] BY <2>1, <2>3
  <2> QED BY <1>6, <2>4 DEF TakeLock, FinalizeSteps, rows
<1> QED BY <1>1, <1>2, <1>3, <1>4, <1>5, <1>6 DEF CancelPlacedOrder, ExpireWin

\* The steps of a call that finalizes a payment.
LEMMA FinalizeKeepsRecord ==
  ASSUME RecordInv, NEW c \in FinalizeCalls, Finalize(c) PROVE RecordInv'
<1>0. c \in Procs /\ call[c] \in Calls BY DEF Procs, RecordInv, TypeOK
<1>1. (Refuse(c) \/ Fail(c)) => End(c) /\ events' \subseteq Payments
  BY DEF Refuse, Fail, RecordInv, TypeOK
<1>2. CASE FindPayment(c)
  <2>1. CASE Goto(c, "subject") BY <1>0, <1>2, <2>1, GotoKeepsRecord DEF FindPayment, Ready, FinalizeSteps, Steps
  <2>2. CASE Refuse(c) /\ UNCHANGED <<paypal, rows, faults, unreachable>>
    BY <1>0, <1>1, <2>2, EndKeepsRecord DEF rows, RecordInv, TypeOK
  <2> QED BY <1>2, <2>1, <2>2 DEF FindPayment
<1>3. CASE FindSubject(c)
  <2>1. CASE Goto(c, "goods") BY <1>0, <1>3, <2>1, GotoKeepsRecord DEF FindSubject, Ready, FinalizeSteps, Steps
  <2>2. CASE Refuse(c) /\ UNCHANGED <<paypal, rows, faults, unreachable>>
    BY <1>0, <1>1, <2>2, EndKeepsRecord DEF rows, RecordInv, TypeOK
  <2> QED BY <1>3, <2>1, <2>2 DEF FindSubject
<1>4. CASE FindGoods(c)
  <2> DEFINE s == SubjectOf[call[c].pays]
  <2>1. CASE Goto(c, "paypal") BY <1>0, <1>4, <2>1, GotoKeepsRecord DEF FindGoods, Ready, FinalizeSteps, Steps
  <2>2. CASE Refuse(c) /\ UNCHANGED <<paypal, payment, soldOut, late, faults, unreachable>>
                      /\ (UNCHANGED subject \/ subject' = [subject EXCEPT ![s] = "closed"])
    <3>1. subject' \in [Subjects -> {"none", "open", "paid", "closed"}] BY <2>2 DEF RecordInv, TypeOK
    <3> QED BY <1>0, <1>1, <2>2, <3>1, EndKeepsRecord DEF RecordInv, TypeOK
  <2> QED BY <1>4, <2>1, <2>2 DEF FindGoods, rows
<1>5. CASE Capture(c)
  <2> DEFINE pm == call[c].pays
  <2>1. pm \in Payments /\ call[c].at = "paypal" BY <1>0, <1>5 DEF RecordInv, CallsRefer, Capture, Ready, FinalizeSteps
  <2>2. CASE Fail(c) /\ UNCHANGED <<paypal, rows, faults, unreachable>>
    BY <1>0, <1>1, <2>2, EndKeepsRecord DEF rows, RecordInv, TypeOK
  <2>3. ASSUME NEW answer \in {"captured", "declined"}, paypal[pm] = "approved",
               paypal' = [paypal EXCEPT ![pm] = answer],
               call' = [call EXCEPT ![c].at = "commit", ![c].completed = (answer = "captured")],
               events' = events \cup {pm}, UNCHANGED <<rows, held, faults, unreachable>>
        PROVE  RecordInv'
    <3>1. call'[c] = [call[c] EXCEPT !.at = "commit", !.completed = (answer = "captured")]
      BY <1>0, <2>3 DEF RecordInv, TypeOK
    <3>2. /\ call'[c] \in Calls /\ call'[c].at = "commit" /\ call'[c].pays = pm
          /\ call'[c].completed <=> answer = "captured"
      BY <1>0, <3>1 DEF Calls, Steps
    <3>3. \A d \in Procs \ {c} : call'[d] = call[d] BY <2>3 DEF RecordInv, TypeOK
    <3>4. call' \in [Procs -> Calls] BY <1>0, <2>3, <3>2, <3>3 DEF RecordInv, TypeOK
    <3>5. TypeOK' BY <2>1, <2>3, <3>4 DEF RecordInv, TypeOK, rows
    <3>6. CallsRefer' BY <2>1, <2>3, <3>2, <3>3 DEF RecordInv, TypeOK, CallsRefer, rows
    <3>7. AnswersAreFinal'
      <4> SUFFICES ASSUME NEW d \in Procs
                   PROVE  /\ call'[d].at = "commit" =>
                               paypal'[call'[d].pays] = IF call'[d].completed THEN "captured" ELSE "declined"
                          /\ call'[d].at = "respond" => payment'[call'[d].pays] \in {"success", "failed"}
        BY DEF AnswersAreFinal
      <4>1. CASE d = c BY <2>1, <2>3, <3>2, <4>1 DEF RecordInv, TypeOK
      <4>2. CASE d # c
        <5>1. call'[d] = call[d] BY <3>3, <4>2
        <5>2. call[d].at = "commit" => call[d].pays # pm BY <2>3 DEF RecordInv, AnswersAreFinal
        <5>3. call[d].at = "commit" => call[d].pays \in Payments BY DEF RecordInv, CallsRefer, FinalizeSteps
        <5> QED BY <2>1, <2>3, <5>1, <5>2, <5>3 DEF RecordInv, TypeOK, AnswersAreFinal, rows
      <4> QED BY <4>1, <4>2
    <3>8. SuccessIsCaptured' BY <2>1, <2>3 DEF RecordInv, TypeOK, SuccessIsCaptured, rows
    <3> QED BY <3>5, <3>6, <3>7, <3>8 DEF RecordInv
  <2> QED BY <1>5, <2>2, <2>3 DEF Capture
<1>6. CASE FinalizeCompleted(c) \/ FinalizeFailed(c)
  <2> DEFINE pm == call[c].pays
             s == SubjectOf[pm]
  <2>1. pm \in Payments /\ s \in Subjects /\ call[c].at = "commit"
    BY <1>0, <1>6, CaptureAssumption DEF RecordInv, CallsRefer, FinalizeCompleted, FinalizeFailed, Ready, FinalizeSteps
  <2>2. /\ payment' = [payment EXCEPT ![pm] = IF call[c].completed THEN "success" ELSE "failed"]
        /\ call' = [call EXCEPT ![c].at = "respond"] /\ held' = [held EXCEPT ![c] = {}]
        /\ UNCHANGED <<paypal, events, late, faults, unreachable>>
    BY <1>6 DEF FinalizeCompleted, FinalizeFailed
  <2>3. soldOut' \in BOOLEAN BY <1>6 DEF FinalizeCompleted, FinalizeFailed, RecordInv, TypeOK
  <2>4. subject' \in [Subjects -> {"none", "open", "paid", "closed"}]
    BY <1>6, <2>1 DEF FinalizeCompleted, FinalizeFailed, RecordInv, TypeOK
  <2>5. call'[c] = [call[c] EXCEPT !.at = "respond"] BY <1>0, <2>2 DEF RecordInv, TypeOK
  <2>6. call'[c] \in Calls /\ call'[c].at = "respond" /\ call'[c].pays = pm BY <1>0, <2>5 DEF Calls, Steps
  <2>7. \A d \in Procs \ {c} : call'[d] = call[d] BY <2>2 DEF RecordInv, TypeOK
  <2>8. call' \in [Procs -> Calls] BY <1>0, <2>2, <2>6, <2>7 DEF RecordInv, TypeOK
  <2>9. TypeOK' BY <2>1, <2>2, <2>3, <2>4, <2>8 DEF RecordInv, TypeOK
  <2>10. paypal[pm] = IF call[c].completed THEN "captured" ELSE "declined"
    BY <1>0, <2>1 DEF RecordInv, AnswersAreFinal
  <2>11. SuccessIsCaptured' BY <2>1, <2>2, <2>10 DEF RecordInv, TypeOK, SuccessIsCaptured
  <2>12. CallsRefer' BY <2>1, <2>2, <2>6, <2>7 DEF RecordInv, TypeOK, CallsRefer
  <2>13. AnswersAreFinal' BY <2>1, <2>2, <2>6, <2>7 DEF RecordInv, TypeOK, AnswersAreFinal
  <2> QED BY <2>9, <2>11, <2>12, <2>13 DEF RecordInv
<1>7. CASE Respond(c)
  BY <1>0, <1>1, <1>7, EndKeepsRecord DEF Respond, rows, RecordInv, TypeOK
<1> QED BY <1>2, <1>3, <1>4, <1>5, <1>6, <1>7 DEF Finalize

\* Requests begin, fail or do their other work.
LEMMA RequestsKeepRecord ==
  ASSUME RecordInv, NEW c \in Procs,
         \/ \E pm \in Payments : Start(c, pm)
         \/ \E s \in Orders : ShipOrder(c, s)
         \/ CheckoutTicket(c) \/ BuyerLocked(c) \/ DrawLottery(c) \/ DrawLocked(c) \/ Finish(c)
         \/ DeadlockAbort(c) \/ Unreachable(c) \/ AnswerLost(c) \/ Crash(c)
  PROVE  RecordInv'
<1>0. call[c] \in Calls /\ Idle \in Calls BY DEF RecordInv, TypeOK, Idle, Calls, Steps
<1>1. ASSUME NEW x \in Calls, call' = [call EXCEPT ![c] = x],
             UNCHANGED <<paypal, events, rows, held, faults, unreachable>>,
             \/ x.at = "payment" /\ x.pays \in Payments
             \/ x.at = "ship" /\ x.order \in Orders
      PROVE  RecordInv'
  <2>1. call'[c] = x /\ call' \in [Procs -> Calls] BY <1>1 DEF RecordInv, TypeOK
  <2>2. \A d \in Procs \ {c} : call'[d] = call[d] BY <1>1 DEF RecordInv, TypeOK
  <2> QED BY <1>1, <2>1, <2>2 DEF RecordInv, TypeOK, CallsRefer, AnswersAreFinal, SuccessIsCaptured, FinalizeSteps, rows
<1>2. ASSUME NEW pm \in Payments, Start(c, pm) PROVE RecordInv'
  <2> DEFINE x == [Idle EXCEPT !.at = "payment", !.pays = pm]
  <2>1. x \in Calls /\ x.at = "payment" /\ x.pays = pm BY DEF Idle, Calls, Steps
  <2> QED BY <1>1, <1>2, <2>1 DEF Start
<1>3. ASSUME NEW s \in Orders, ShipOrder(c, s) PROVE RecordInv'
  <2> DEFINE x == [Idle EXCEPT !.at = "ship", !.order = s]
  <2>1. x \in Calls /\ x.at = "ship" /\ x.order = s BY DEF Idle, Calls, Steps
  <2> QED BY <1>1, <1>3, <2>1 DEF ShipOrder
<1>4. CASE CheckoutTicket(c) \/ BuyerLocked(c) \/ DrawLottery(c) \/ DrawLocked(c)
  BY <1>4, GotoKeepsRecord DEF CheckoutTicket, BuyerLocked, DrawLottery, DrawLocked, Steps
<1>5. CASE Finish(c) \/ DeadlockAbort(c)
  BY <1>5, EndKeepsRecord DEF Finish, DeadlockAbort, Fail, rows, RecordInv, TypeOK
<1>6. CASE Unreachable(c)
  <2>1. unreachable' \in 0..MaxUnreachable BY <1>6, CaptureAssumption DEF Unreachable, RecordInv, TypeOK
  <2> QED BY <1>6, <2>1, EndKeepsRecord DEF Unreachable, Fail, rows, RecordInv, TypeOK
<1>7. CASE Crash(c)
  <2>1. faults' \in 0..MaxFaults BY <1>7, CaptureAssumption DEF Crash, RecordInv, TypeOK
  <2> QED BY <1>7, <2>1, EndKeepsRecord DEF Crash, Fail, rows, RecordInv, TypeOK
<1>8. CASE AnswerLost(c)
  <2> DEFINE pm == call[c].pays
  <2>1. pm \in Payments BY <1>8 DEF RecordInv, CallsRefer, AnswerLost, Ready, FinalizeSteps
  <2>2. faults' \in 0..MaxFaults BY <1>8, CaptureAssumption DEF AnswerLost, RecordInv, TypeOK
  <2>3. /\ paypal[pm] = "approved" /\ paypal' = [paypal EXCEPT ![pm] = "captured"] /\ events' = events \cup {pm}
        /\ call' = [call EXCEPT ![c] = Idle] /\ held' = [held EXCEPT ![c] = {}] /\ UNCHANGED <<rows, unreachable>>
    BY <1>8 DEF AnswerLost, End
  <2>4. TypeOK' BY <1>0, <2>1, <2>2, <2>3 DEF RecordInv, TypeOK, rows
  <2>5. \A d \in Procs : call'[d] = call[d] \/ call'[d].at = "idle" BY <2>3 DEF RecordInv, TypeOK, Idle
  <2>6. \A d \in Procs : call[d].at = "commit" => call[d].pays # pm BY <2>3 DEF RecordInv, AnswersAreFinal
  <2>7. CallsRefer' BY <2>1, <2>3, <2>5 DEF RecordInv, TypeOK, CallsRefer, FinalizeSteps, rows
  <2>8. AnswersAreFinal' BY <2>1, <2>3, <2>5, <2>6 DEF RecordInv, TypeOK, AnswersAreFinal, CallsRefer, FinalizeSteps, rows
  <2>9. SuccessIsCaptured' BY <2>1, <2>3 DEF RecordInv, TypeOK, SuccessIsCaptured, rows
  <2> QED BY <2>4, <2>7, <2>8, <2>9 DEF RecordInv
<1> QED BY <1>2, <1>3, <1>4, <1>5, <1>6, <1>7, <1>8

LEMMA NextRecord == RecordInv /\ [Next]_vars => RecordInv'
<1> SUFFICES ASSUME RecordInv, [Next]_vars PROVE RecordInv' OBVIOUS
<1>1. CASE UNCHANGED vars
  BY <1>1 DEF vars, RecordInv, TypeOK, CallsRefer, AnswersAreFinal, SuccessIsCaptured
<1>2. CASE Next
  BY <1>2, OthersKeepRecord, FinalizeKeepsRecord, RequestsKeepRecord
     DEF Next, CapturePaypalPayment, PaypalWebhook, Procs, FinalizeCalls
<1> QED BY <1>1, <1>2

LEMMA RecordInvariant == Spec => []RecordInv
BY InitRecord, NextRecord, PTL DEF Spec

\* Whatever fails, no payment is recorded as successful that PayPal did not
\* take the money for.
THEOREM SuccessesAreCaptured == Spec => []SuccessIsCaptured
<1>1. RecordInv => SuccessIsCaptured BY DEF RecordInv
<1> QED BY <1>1, RecordInvariant, PTL

-----------------------------------------------------------------------------
(***************************************************************************)
(* Locks                                                                   *)
(***************************************************************************)
\* the locks of the steps a call has behind it
Past(c) ==
  LET x == call[c]
  IN  (IF x.at \in {"subject", "goods", "paypal", "commit"} THEN {Lock("payment", x.pays, TRUE)} ELSE {})
        \cup (IF x.at \in {"goods", "paypal", "commit"} THEN SubjectLock(SubjectOf[x.pays]) ELSE {})
        \cup (IF x.at \in {"paypal", "commit"} THEN {GoodsOf(SubjectOf[x.pays])} ELSE {})
        \cup (IF x.at = "tier" THEN {TheUser(TRUE)} ELSE {})
        \cup (IF x.at = "notify" THEN TicketTypes ELSE {})

\* A call holds the locks of its past steps and some of its present one.
LocksFollowSteps == \A c \in Procs : Past(c) \subseteq held[c] /\ held[c] \subseteq Past(c) \cup Wanted(c)

\* FOR UPDATE excludes every other lock of the row.
Exclusion ==
  \A c \in Procs, d \in Procs : \A l \in held[c], m \in held[d] :
    (c # d /\ l.table = m.table /\ l.row = m.row) => ~l.exclusive /\ ~m.exclusive

\* What a call has checked under its locks stays true until it commits.
ChecksHold ==
  /\ \A c \in Procs : call[c].at \in {"subject", "goods", "paypal", "commit"} => payment[call[c].pays] = "pending"
  /\ \A c \in Procs : call[c].at \in {"goods", "paypal", "commit"} => subject[SubjectOf[call[c].pays]] = "open"

LockInv == RecordInv /\ LocksFollowSteps /\ Exclusion /\ ChecksHold

\* What a request has locked and wants to lock depends on its step alone.
LEMMA SameCallSameLocks ==
  ASSUME NEW d \in Procs, call'[d] = call[d] PROVE Past(d)' = Past(d) /\ Wanted(d)' = Wanted(d)
BY DEF Past, Wanted, CommitLocks

\* Locks are lost at the end only, and are then lost for all.
LEMMA FewerLocksExclude ==
  ASSUME Exclusion, \A d \in Procs : held'[d] \subseteq held[d] PROVE Exclusion'
BY DEF Exclusion

\* A step of one request that ends it, takes it on, or commits it.
LEMMA StepsFollowLocks ==
  ASSUME LocksFollowSteps, Exclusion, TypeOK, NEW c \in Procs, call[c] \in Calls, call'[c] \in Calls,
         \A d \in Procs \ {c} : call'[d] = call[d] /\ held'[d] = held[d],
         \/ call'[c].at \in {"idle", "respond"} /\ held'[c] = {}
         \/ /\ held'[c] = held[c] /\ Rows!Missing(c) = {}
            /\ Past(c)' \subseteq Past(c) \cup Wanted(c)
            /\ Past(c) \cup Wanted(c) \subseteq Past(c)' \cup Wanted(c)'
  PROVE  LocksFollowSteps' /\ Exclusion'
<1>1. \A d \in Procs \ {c} : Past(d)' \subseteq held'[d] /\ held'[d] \subseteq Past(d)' \cup Wanted(d)'
  BY SameCallSameLocks DEF LocksFollowSteps
<1>2. CASE call'[c].at \in {"idle", "respond"} /\ held'[c] = {}
  <2>1. Past(c)' = {} BY <1>2 DEF Past
  <2> QED BY <1>1, <1>2, <2>1, FewerLocksExclude DEF LocksFollowSteps
<1>3. CASE held'[c] = held[c] /\ Rows!Missing(c) = {}
           /\ Past(c)' \subseteq Past(c) \cup Wanted(c)
           /\ Past(c) \cup Wanted(c) \subseteq Past(c)' \cup Wanted(c)'
  <2>1. Wanted(c) \subseteq held[c] BY <1>3 DEF Rows!Missing
  <2> QED BY <1>1, <1>3, <2>1, FewerLocksExclude DEF LocksFollowSteps
<1> QED BY <1>2, <1>3

\* A lock is granted only if no other request holds a conflicting one.
LEMMA TakingLocksExcludes ==
  ASSUME LocksFollowSteps, Exclusion, TypeOK, NEW c \in Procs, TakeLock(c)
  PROVE  LocksFollowSteps' /\ Exclusion'
<1>1. PICK l \in Rows!Missing(c) : Rows!Holders(c, l) = {} /\ held' = [held EXCEPT ![c] = @ \cup {l}]
  BY DEF TakeLock
<1>2. l \in Wanted(c) /\ call' = call BY <1>1 DEF Rows!Missing, TakeLock
<1>3. held'[c] = held[c] \cup {l} /\ \A d \in Procs \ {c} : held'[d] = held[d] BY <1>1 DEF TypeOK
<1>4. LocksFollowSteps' BY <1>2, <1>3, SameCallSameLocks DEF LocksFollowSteps
<1>5. \A d \in Procs \ {c} : \A m \in held[d] :
        (m.table = l.table /\ m.row = l.row) => ~m.exclusive /\ ~l.exclusive
  BY <1>1 DEF Rows!Holders
<1>6. Exclusion'
  <2> SUFFICES ASSUME NEW d \in Procs, NEW e \in Procs, NEW k \in held'[d], NEW m \in held'[e],
                      d # e, k.table = m.table, k.row = m.row
               PROVE  ~k.exclusive /\ ~m.exclusive
    BY DEF Exclusion
  <2>1. CASE d = c /\ k = l BY <1>3, <1>5, <2>1
  <2>2. CASE e = c /\ m = l BY <1>3, <1>5, <2>2
  <2>3. CASE k \in held[d] /\ m \in held[e] BY <2>3 DEF Exclusion
  <2> QED BY <1>3, <2>1, <2>2, <2>3
<1> QED BY <1>4, <1>6

\* At most one call works on a payment, and one holds a subject.
LEMMA AloneAtPayment ==
  ASSUME LocksFollowSteps, Exclusion, NEW c \in Procs, NEW d \in Procs,
         call[c].at \in {"subject", "goods", "paypal", "commit"},
         call[d].at \in {"subject", "goods", "paypal", "commit"}, call[c].pays = call[d].pays
  PROVE  c = d
<1> DEFINE l == Lock("payment", call[c].pays, TRUE)
<1>1. l \in held[c] /\ l \in held[d] BY DEF LocksFollowSteps, Past
<1>2. l.exclusive BY DEF Lock
<1> QED BY <1>1, <1>2 DEF Exclusion

HoldsSubject(c) == SubjectLock(SubjectOf[call[c].pays]) \subseteq held[c]

LEMMA AloneAtSubject ==
  ASSUME Exclusion, NEW c \in Procs, NEW d \in Procs, HoldsSubject(c), HoldsSubject(d),
         SubjectOf[call[c].pays] = SubjectOf[call[d].pays]
  PROVE  c = d
<1> DEFINE l == Lock("subject", SubjectOf[call[c].pays], TRUE)
<1>1. l \in held[c] /\ l \in held[d] BY DEF HoldsSubject, SubjectLock
<1>2. l.exclusive BY DEF Lock
<1> QED BY <1>1, <1>2 DEF Exclusion

LEMMA SubjectHeld ==
  ASSUME LocksFollowSteps, NEW c \in Procs, call[c].at \in {"goods", "paypal", "commit"}
  PROVE  HoldsSubject(c)
BY DEF LocksFollowSteps, Past, HoldsSubject

LEMMA UnlockedSubject ==
  ASSUME LocksFollowSteps, NEW c \in Procs, call[c].at \in {"goods", "paypal", "commit"},
         NEW s, Unlocked(Lock("subject", s, TRUE))
  PROVE  SubjectOf[call[c].pays] # s
BY SubjectHeld DEF HoldsSubject, SubjectLock, Unlocked, Lock

LEMMA InitLocks == Init => LockInv
<1> SUFFICES ASSUME Init PROVE LockInv OBVIOUS
<1>1. \A c \in Procs : call[c].at = "idle" /\ held[c] = {} BY DEF Init, Idle
<1>2. \A c \in Procs : Past(c) = {} BY <1>1 DEF Past
<1> QED BY <1>1, <1>2, InitRecord DEF LockInv, LocksFollowSteps, Exclusion, ChecksHold

\* The checks of a call survive a step that leaves its payment and, from the
\* goods on, its subject alone.
LEMMA ChecksKept ==
  ASSUME ChecksHold,
         \A d \in Procs : \/ call'[d] = call[d]
                          \/ call'[d].at \in {"idle", "payment", "respond", "user", "tier", "ship", "types", "notify"}
                          \/ call[d].at = "paypal" /\ call'[d].at = "commit" /\ call'[d].pays = call[d].pays,
         \A d \in Procs : call'[d].at \in {"subject", "goods", "paypal", "commit"} =>
           payment'[call[d].pays] = payment[call[d].pays],
         \A d \in Procs : call'[d].at \in {"goods", "paypal", "commit"} =>
           subject'[SubjectOf[call[d].pays]] = subject[SubjectOf[call[d].pays]]
  PROVE  ChecksHold'
BY DEF ChecksHold

\* A request that ends leaves the locks and the checks of the others alone.
LEMMA EndKeepsLocks ==
  ASSUME LockInv, NEW c \in Procs, End(c), UNCHANGED payment,
         \A d \in Procs \ {c} : call[d].at \in {"goods", "paypal", "commit"} =>
           subject'[SubjectOf[call[d].pays]] = subject[SubjectOf[call[d].pays]]
  PROVE  LocksFollowSteps' /\ Exclusion' /\ ChecksHold'
<1>0. TypeOK /\ Idle \in Calls /\ Idle.at = "idle" /\ call[c] \in Calls
  BY DEF LockInv, RecordInv, TypeOK, Idle, Calls, Steps
<1>1. /\ call'[c] = Idle /\ held'[c] = {}
      /\ \A d \in Procs \ {c} : call'[d] = call[d] /\ held'[d] = held[d]
  BY <1>0 DEF TypeOK, End
<1>2. LocksFollowSteps' /\ Exclusion' BY <1>0, <1>1, StepsFollowLocks DEF LockInv
<1>3. ChecksHold' BY <1>0, <1>1, ChecksKept DEF LockInv
<1> QED BY <1>2, <1>3

\* A request whose present locks are granted goes on.
LEMMA GoingOnKeepsLocks ==
  ASSUME LockInv, NEW c \in Procs, NEW x \in Calls, call' = [call EXCEPT ![c] = x], UNCHANGED held,
         Rows!Missing(c) = {}, x.pays = call[c].pays,
         \/ call[c].at = "payment" /\ x.at = "subject"
         \/ call[c].at = "subject" /\ x.at = "goods"
         \/ call[c].at = "goods" /\ x.at = "paypal"
         \/ call[c].at = "paypal" /\ x.at = "commit"
         \/ call[c].at = "user" /\ x.at = "tier"
         \/ call[c].at = "types" /\ x.at = "notify"
  PROVE  LocksFollowSteps' /\ Exclusion'
<1>0. TypeOK /\ call[c] \in Calls BY DEF LockInv, RecordInv, TypeOK
<1>1. call'[c] = x /\ held'[c] = held[c] /\ \A d \in Procs \ {c} : call'[d] = call[d] /\ held'[d] = held[d]
  BY <1>0 DEF TypeOK
<1>2. Past(c) \cup Wanted(c) = Past(c)'
  BY <1>0, <1>1, WantedLocks DEF Past
<1> QED BY <1>0, <1>1, <1>2, StepsFollowLocks DEF LockInv

LEMMA BeginningKeepsLocks ==
  ASSUME LockInv, NEW c \in Procs, NEW x \in Calls, call' = [call EXCEPT ![c] = x],
         UNCHANGED <<held, payment, subject>>, call[c].at = "idle", x.at \in {"payment", "user", "ship", "types"}
  PROVE  LocksFollowSteps' /\ Exclusion' /\ ChecksHold'
<1>0. TypeOK /\ call[c] \in Calls BY DEF LockInv, RecordInv, TypeOK
<1>1. call'[c] = x /\ held'[c] = held[c] /\ \A d \in Procs \ {c} : call'[d] = call[d] /\ held'[d] = held[d]
  BY <1>0 DEF TypeOK
<1>2. Past(c) = {} /\ Wanted(c) = {} BY <1>0, WantedLocks DEF Past
<1>3. Past(c)' = {} BY <1>1 DEF Past
<1>4. Rows!Missing(c) = {} BY <1>2 DEF Rows!Missing
<1>5. LocksFollowSteps' /\ Exclusion' BY <1>0, <1>1, <1>2, <1>3, <1>4, StepsFollowLocks DEF LockInv
<1>6. ChecksHold' BY <1>1, ChecksKept DEF LockInv
<1> QED BY <1>5, <1>6

LEMMA OthersKeepLocks ==
  ASSUME LockInv,
         \/ \E pm \in Payments : OpenPayment(pm) \/ Approve(pm)
         \/ \E s \in Orders : CancelPlacedOrder(s)
         \/ \E s \in Wins : ExpireWin(s)
         \/ GoodsMove \/ DeadlinePasses
         \/ \E c \in Procs : TakeLock(c)
  PROVE  LocksFollowSteps' /\ Exclusion' /\ ChecksHold'
<1>0. TypeOK /\ LocksFollowSteps /\ Exclusion /\ ChecksHold BY DEF LockInv, RecordInv
<1>1. UNCHANGED <<call, held>> => LocksFollowSteps' /\ Exclusion'
  BY <1>0, SameCallSameLocks DEF LocksFollowSteps, Exclusion
<1>2. ASSUME NEW pm \in Payments, OpenPayment(pm) PROVE LocksFollowSteps' /\ Exclusion' /\ ChecksHold'
  <2>1. \A d \in Procs : call[d].at \in {"subject", "goods", "paypal", "commit"} => call[d].pays # pm
    BY <1>0, <1>2 DEF OpenPayment, ChecksHold
  <2>2. \A d \in Procs : call[d].at \in {"goods", "paypal", "commit"} => SubjectOf[call[d].pays] # SubjectOf[pm]
    BY <1>0, <1>2, UnlockedSubject DEF OpenPayment
  <2>3. ChecksHold' BY <1>0, <1>2, <2>1, <2>2, ChecksKept DEF OpenPayment, TypeOK
  <2> QED BY <1>1, <1>2, <2>3 DEF OpenPayment
<1>3. ASSUME NEW s \in Orders \cup Wins, Close(s) PROVE LocksFollowSteps' /\ Exclusion' /\ ChecksHold'
  <2>1. \A d \in Procs : call[d].at \in {"goods", "paypal", "commit"} => SubjectOf[call[d].pays] # s
    BY <1>0, <1>3, UnlockedSubject DEF Close
  <2>2. ChecksHold' BY <1>0, <1>3, <2>1, ChecksKept DEF Close, TypeOK
  <2> QED BY <1>1, <1>3, <2>2 DEF Close
<1>4. ASSUME (\E pm \in Payments : Approve(pm)) \/ GoodsMove \/ DeadlinePasses
      PROVE LocksFollowSteps' /\ Exclusion' /\ ChecksHold'
  <2>1. UNCHANGED <<call, held, payment, subject>> BY <1>4 DEF Approve, GoodsMove, DeadlinePasses, rows
  <2>2. ChecksHold' BY <1>0, <2>1, ChecksKept
  <2> QED BY <1>1, <2>1, <2>2
<1>5. ASSUME NEW c \in Procs, TakeLock(c) PROVE LocksFollowSteps' /\ Exclusion' /\ ChecksHold'
  <2>1. ChecksHold' BY <1>0, <1>5, ChecksKept DEF TakeLock, rows
  <2> QED BY <1>0, <1>5, <2>1, TakingLocksExcludes
<1> QED BY <1>2, <1>3, <1>4, <1>5 DEF CancelPlacedOrder, ExpireWin

LEMMA RequestsKeepLocks ==
  ASSUME LockInv, NEW c \in Procs,
         \/ \E pm \in Payments : Start(c, pm)
         \/ \E s \in Orders : ShipOrder(c, s)
         \/ CheckoutTicket(c) \/ BuyerLocked(c) \/ DrawLottery(c) \/ DrawLocked(c) \/ Finish(c)
         \/ DeadlockAbort(c) \/ Unreachable(c) \/ AnswerLost(c) \/ Crash(c)
  PROVE  LocksFollowSteps' /\ Exclusion' /\ ChecksHold'
<1>0. call[c] \in Calls /\ Idle \in Calls BY DEF LockInv, RecordInv, TypeOK, Idle, Calls, Steps
<1>1. ASSUME NEW pm \in Payments, Start(c, pm) PROVE LocksFollowSteps' /\ Exclusion' /\ ChecksHold'
  <2> DEFINE x == [Idle EXCEPT !.at = "payment", !.pays = pm]
  <2>1. x \in Calls /\ x.at = "payment" BY DEF Idle, Calls, Steps
  <2> HIDE DEF x
  <2> QED BY <1>1, <2>1, BeginningKeepsLocks DEF Start, rows, x
<1>2. ASSUME NEW s \in Orders, ShipOrder(c, s) PROVE LocksFollowSteps' /\ Exclusion' /\ ChecksHold'
  <2> DEFINE x == [Idle EXCEPT !.at = "ship", !.order = s]
  <2>1. x \in Calls /\ x.at = "ship" BY DEF Idle, Calls, Steps
  <2> QED BY <1>2, <2>1, BeginningKeepsLocks DEF ShipOrder, rows
<1>3. ASSUME NEW step \in {"user", "types"}, call[c].at = "idle", Goto(c, step)
      PROVE  LocksFollowSteps' /\ Exclusion' /\ ChecksHold'
  <2> DEFINE x == [call[c] EXCEPT !.at = step]
  <2>1. x \in Calls /\ x.at = step BY <1>0 DEF Calls, Steps
  <2>2. call' = [call EXCEPT ![c] = x] BY <1>3 DEF Goto, LockInv, RecordInv, TypeOK
  <2> QED BY <1>3, <2>1, <2>2, BeginningKeepsLocks DEF Goto, rows
<1>4. ASSUME NEW step \in {"tier", "notify"}, Rows!Missing(c) = {}, Goto(c, step),
             call[c].at = IF step = "tier" THEN "user" ELSE "types"
      PROVE  LocksFollowSteps' /\ Exclusion' /\ ChecksHold'
  <2> DEFINE x == [call[c] EXCEPT !.at = step]
  <2>1. x \in Calls /\ x.at = step /\ x.pays = call[c].pays BY <1>0 DEF Calls, Steps
  <2>2. call' = [call EXCEPT ![c] = x] BY <1>4 DEF Goto, LockInv, RecordInv, TypeOK
  <2>3. LocksFollowSteps' /\ Exclusion' BY <1>4, <2>1, <2>2, GoingOnKeepsLocks DEF Goto
  <2>4. \A d \in Procs : call'[d] = call[d] \/ call'[d].at = step BY <2>1, <2>2 DEF LockInv, RecordInv, TypeOK
  <2>5. ChecksHold' BY <1>4, <2>4, ChecksKept DEF LockInv, Goto, rows
  <2> QED BY <2>3, <2>5
<1>5. CASE Finish(c) \/ DeadlockAbort(c) \/ Unreachable(c) \/ AnswerLost(c) \/ Crash(c)
  BY <1>5, EndKeepsLocks DEF Finish, DeadlockAbort, Unreachable, AnswerLost, Crash, Fail, rows
<1> QED BY <1>1, <1>2, <1>3, <1>4, <1>5 DEF CheckoutTicket, BuyerLocked, DrawLottery, DrawLocked, Ready

LEMMA FinalizeKeepsLocks ==
  ASSUME LockInv, NEW c \in FinalizeCalls, Finalize(c)
  PROVE  LocksFollowSteps' /\ Exclusion' /\ ChecksHold'
<1> DEFINE pm == call[c].pays
           s == SubjectOf[pm]
<1>0. c \in Procs /\ call[c] \in Calls /\ LocksFollowSteps /\ Exclusion /\ ChecksHold
  BY DEF Procs, LockInv, RecordInv, TypeOK
<1>1. call[c].at \in FinalizeSteps => pm \in Payments /\ s \in Subjects
  BY <1>0, CaptureAssumption DEF LockInv, RecordInv, CallsRefer
<1>2. (Refuse(c) \/ Fail(c)) /\ UNCHANGED <<payment, subject>> => LocksFollowSteps' /\ Exclusion' /\ ChecksHold'
  BY <1>0, EndKeepsLocks DEF Refuse, Fail
\* the call goes on, having checked its payment or its subject
<1>3. ASSUME NEW step \in {"subject", "goods", "paypal"}, Goto(c, step), Rows!Missing(c) = {},
             \/ call[c].at = "payment" /\ step = "subject" /\ payment[pm] = "pending"
             \/ call[c].at = "subject" /\ step = "goods" /\ subject[s] = "open"
             \/ call[c].at = "goods" /\ step = "paypal"
      PROVE  LocksFollowSteps' /\ Exclusion' /\ ChecksHold'
  <2> DEFINE x == [call[c] EXCEPT !.at = step]
  <2>1. x \in Calls /\ x.at = step /\ x.pays = pm BY <1>0 DEF Calls, Steps
  <2>2. call' = [call EXCEPT ![c] = x] BY <1>3 DEF Goto, LockInv, RecordInv, TypeOK
  <2>3. LocksFollowSteps' /\ Exclusion' BY <1>0, <1>3, <2>1, <2>2, GoingOnKeepsLocks DEF Goto
  <2>4. call'[c] = x /\ \A d \in Procs \ {c} : call'[d] = call[d]
    BY <1>0, <2>2 DEF LockInv, RecordInv, TypeOK
  <2>5. ChecksHold' BY <1>0, <1>3, <2>1, <2>4 DEF ChecksHold, Goto, rows
  <2> QED BY <2>3, <2>5
<1>4. CASE FindPayment(c) BY <1>2, <1>3, <1>4 DEF FindPayment, Ready, rows
<1>5. CASE FindSubject(c) BY <1>2, <1>3, <1>5 DEF FindSubject, Ready, rows
<1>6. CASE FindGoods(c)
  <2>1. CASE Goto(c, "paypal") BY <1>3, <1>6, <2>1 DEF FindGoods, Ready
  <2>2. CASE Refuse(c) /\ UNCHANGED <<payment, subject>> BY <1>2, <2>2
  <2>3. CASE Refuse(c) /\ UNCHANGED payment /\ subject' = [subject EXCEPT ![s] = "closed"]
    <3>1. call[c].at = "goods" BY <1>6 DEF FindGoods, Ready
    <3>2. \A d \in Procs \ {c} : call[d].at \in {"goods", "paypal", "commit"} => SubjectOf[call[d].pays] # s
      BY <1>0, <3>1, SubjectHeld, AloneAtSubject
    <3>3. \A d \in Procs \ {c} : call[d].at \in {"goods", "paypal", "commit"} =>
            subject'[SubjectOf[call[d].pays]] = subject[SubjectOf[call[d].pays]]
      BY <2>3, <3>2 DEF LockInv, RecordInv, TypeOK
    <3> QED BY <1>0, <2>3, <3>3, EndKeepsLocks DEF Refuse
  <2> QED BY <1>6, <2>1, <2>2, <2>3 DEF FindGoods, rows
<1>7. CASE Capture(c)
  <2>1. CASE Fail(c) /\ UNCHANGED rows BY <1>2, <2>1 DEF rows
  <2>2. ASSUME NEW answer \in {"captured", "declined"}, UNCHANGED <<rows, held>>,
               call' = [call EXCEPT ![c].at = "commit", ![c].completed = (answer = "captured")]
        PROVE  LocksFollowSteps' /\ Exclusion' /\ ChecksHold'
    <3> DEFINE x == [call[c] EXCEPT !.at = "commit", !.completed = (answer = "captured")]
    <3>1. x \in Calls /\ x.at = "commit" /\ x.pays = pm BY <1>0 DEF Calls, Steps
    <3>2. call' = [call EXCEPT ![c] = x] BY <1>0, <2>2 DEF LockInv, RecordInv, TypeOK
    <3>3. call[c].at = "paypal" /\ Rows!Missing(c) = {} BY <1>7 DEF Capture, Ready
    <3>4. LocksFollowSteps' /\ Exclusion' BY <1>0, <2>2, <3>1, <3>2, <3>3, GoingOnKeepsLocks
    <3>5. call'[c] = x /\ \A d \in Procs \ {c} : call'[d] = call[d]
      BY <1>0, <3>2 DEF LockInv, RecordInv, TypeOK
    <3>6. ChecksHold' BY <1>0, <2>2, <3>1, <3>3, <3>5, ChecksKept DEF rows
    <3> QED BY <3>4, <3>6
  <2> QED BY <1>7, <2>1, <2>2 DEF Capture
<1>8. CASE FinalizeCompleted(c) \/ FinalizeFailed(c)
  <2>1. call[c].at = "commit" BY <1>8 DEF FinalizeCompleted, FinalizeFailed, Ready
  <2> DEFINE x == [call[c] EXCEPT !.at = "respond"]
  <2>2. /\ call' = [call EXCEPT ![c].at = "respond"] /\ held' = [held EXCEPT ![c] = {}]
        /\ \A q \in Payments \ {pm} : payment'[q] = payment[q]
        /\ \A t \in Subjects \ {s} : subject'[t] = subject[t]
    BY <1>8 DEF FinalizeCompleted, FinalizeFailed, LockInv, RecordInv, TypeOK
  <2>3. call'[c] = x /\ held'[c] = {} /\ \A d \in Procs \ {c} : call'[d] = call[d] /\ held'[d] = held[d]
    BY <1>0, <2>2 DEF LockInv, RecordInv, TypeOK
  <2>4. x \in Calls /\ x.at = "respond" BY <1>0 DEF Calls, Steps
  <2>5. LocksFollowSteps' /\ Exclusion' BY <1>0, <2>3, <2>4, StepsFollowLocks DEF LockInv, RecordInv
  <2>6. \A d \in Procs \ {c} : call[d].at \in {"subject", "goods", "paypal", "commit"} => call[d].pays \in Payments \ {pm}
    BY <1>0, <2>1, AloneAtPayment DEF LockInv, RecordInv, CallsRefer, FinalizeSteps
  <2>7. \A d \in Procs \ {c} : call[d].at \in {"goods", "paypal", "commit"} => SubjectOf[call[d].pays] \in Subjects \ {s}
    BY <1>0, <2>1, <2>6, SubjectHeld, AloneAtSubject, CaptureAssumption
  <2>8. ChecksHold' BY <1>0, <2>2, <2>3, <2>4, <2>6, <2>7, ChecksKept
  <2> QED BY <2>5, <2>8
<1>9. CASE Respond(c) BY <1>2, <1>9 DEF Respond, rows
<1> QED BY <1>4, <1>5, <1>6, <1>7, <1>8, <1>9 DEF Finalize

LEMMA NextLocks == LockInv /\ [Next]_vars => LockInv'
<1> SUFFICES ASSUME LockInv, [Next]_vars PROVE LockInv' OBVIOUS
<1>1. RecordInv' BY NextRecord DEF LockInv
<1>2. CASE UNCHANGED vars
  <2>1. ChecksHold' BY <1>2, ChecksKept DEF vars, LockInv
  <2>2. LocksFollowSteps' /\ Exclusion' BY <1>2, SameCallSameLocks DEF vars, LockInv, LocksFollowSteps, Exclusion
  <2> QED BY <1>1, <2>1, <2>2 DEF LockInv
<1>3. CASE Next
  BY <1>1, <1>3, OthersKeepLocks, FinalizeKeepsLocks, RequestsKeepLocks
     DEF Next, CapturePaypalPayment, PaypalWebhook, Procs, FinalizeCalls, LockInv
<1> QED BY <1>2, <1>3

LEMMA LockInvariant == Spec => []LockInv
BY InitLocks, NextLocks, PTL DEF Spec

-----------------------------------------------------------------------------
(***************************************************************************)
(* Acknowledged events                                                     *)
(***************************************************************************)
\* Only an answer to the webhook takes an event back.
LEMMA OnlyAnswersAcknowledge ==
  ASSUME RecordInv, Next, NEW pm \in events \ events'
  PROVE  \E c \in FinalizeCalls : pm = call[c].pays /\ (FindPayment(c) \/ FindSubject(c) \/ FindGoods(c) \/ Respond(c))
<1>1. ASSUME NEW c \in FinalizeCalls, Finalize(c)
      PROVE  pm = call[c].pays /\ (FindPayment(c) \/ FindSubject(c) \/ FindGoods(c) \/ Respond(c))
  <2>1. ~(Capture(c) \/ FinalizeCompleted(c) \/ FinalizeFailed(c))
    BY DEF Capture, FinalizeCompleted, FinalizeFailed, Fail
  <2>2. pm = call[c].pays
    BY <1>1, <2>1 DEF Finalize, FindPayment, FindSubject, FindGoods, Respond, Goto, Refuse
  <2> QED BY <1>1, <2>1, <2>2 DEF Finalize
<1>2. \/ \E q \in Payments : OpenPayment(q) \/ Approve(q)
      \/ \E s \in Orders : CancelPlacedOrder(s)
      \/ \E s \in Wins : ExpireWin(s)
      \/ GoodsMove \/ DeadlinePasses
      \/ \E c \in Procs : TakeLock(c) \/ DeadlockAbort(c)
      => events \subseteq events'
  BY DEF OpenPayment, Approve, CancelPlacedOrder, ExpireWin, Close, GoodsMove, DeadlinePasses, TakeLock, DeadlockAbort, Fail
<1>3. \A c \in Procs : \/ \E q \in Payments : Start(c, q)
                       \/ \E s \in Orders : ShipOrder(c, s)
                       \/ CheckoutTicket(c) \/ BuyerLocked(c) \/ DrawLottery(c) \/ DrawLocked(c) \/ Finish(c)
                       \/ Unreachable(c) \/ AnswerLost(c) \/ Crash(c)
                       => events \subseteq events'
  BY DEF Start, ShipOrder, CheckoutTicket, BuyerLocked, DrawLottery, DrawLocked, Finish, Unreachable, AnswerLost, Crash, Goto, Fail
<1>4. \E c \in FinalizeCalls : Finalize(c)
  BY <1>2, <1>3 DEF Next, CapturePaypalPayment, PaypalWebhook, Procs, FinalizeCalls
<1> QED BY <1>1, <1>4

\* An event is acknowledged only when its payment is settled, its ticket or
\* order is closed to payment, or nothing is left to sell: an error, a
\* deadlock or a crash never passes for an answer.
THEOREM AcknowledgementsAreSettled == Spec => AcknowledgedIsSettled
<1> DEFINE Settled(pm) == \/ payment[pm] # "pending"
                          \/ subject'[SubjectOf[pm]] # "open"
                          \/ SubjectOf[pm] \notin Wins /\ soldOut
<1>1. ASSUME RecordInv, [Next]_vars, NEW pm \in events \ events' PROVE Settled(pm)
  <2>1. CASE Next
    <3>1. PICK c \in FinalizeCalls : pm = call[c].pays /\ (FindPayment(c) \/ FindSubject(c) \/ FindGoods(c) \/ Respond(c))
      BY <1>1, <2>1, OnlyAnswersAcknowledge
    <3>2. SubjectOf[pm] \in Subjects BY <1>1, CaptureAssumption DEF RecordInv, TypeOK
    <3>3. CASE FindPayment(c) BY <3>1, <3>3 DEF FindPayment, Goto
    <3>4. CASE FindSubject(c) BY <3>1, <3>4 DEF FindSubject, Goto, rows
    <3>5. CASE FindGoods(c)
      BY <1>1, <3>1, <3>2, <3>5 DEF FindGoods, Goto, rows, RecordInv, TypeOK
    <3>6. CASE Respond(c)
      BY <1>1, <3>1, <3>6 DEF Respond, Ready, RecordInv, AnswersAreFinal, Procs
    <3> QED BY <3>1, <3>3, <3>4, <3>5, <3>6
  <2>2. CASE UNCHANGED vars BY <1>1, <2>2 DEF vars
  <2> QED BY <1>1, <2>1, <2>2
<1>2. RecordInv /\ [Next]_vars => [\A pm \in events \ events' : Settled(pm)]_vars BY <1>1
<1> QED BY <1>2, RecordInvariant, PTL DEF Spec, AcknowledgedIsSettled

-----------------------------------------------------------------------------
(***************************************************************************)
(* Charges                                                                 *)
(***************************************************************************)
\* What a successful payment paid for takes no further payment.
PaidIsClosed ==
  \A pm \in Payments : payment[pm] = "success" => subject[SubjectOf[pm]] \notin {"none", "open"}

ChargeInv == LockInv /\ PaidIsClosed

\* Payments that are recorded stay so, and what is closed to payment is not
\* opened again.
LEMMA PaidStays ==
  ASSUME PaidIsClosed, \A pm \in Payments : payment'[pm] = "success" => payment[pm] = "success",
         \A s \in Subjects : subject[s] \notin {"none", "open"} => subject'[s] \notin {"none", "open"}
  PROVE  PaidIsClosed'
BY CaptureAssumption DEF PaidIsClosed

LEMMA NextPaid ==
  ASSUME ChargeInv, [Next]_vars PROVE PaidIsClosed'
<1>0. /\ TypeOK /\ LockInv /\ PaidIsClosed
      /\ \A pm \in Payments : SubjectOf[pm] \in Subjects
  BY CaptureAssumption DEF ChargeInv, LockInv, RecordInv
<1>1. UNCHANGED <<payment, subject>> => PaidIsClosed' BY <1>0 DEF PaidIsClosed
<1>2. ASSUME NEW s \in Subjects, UNCHANGED payment, subject' = [subject EXCEPT ![s] = "closed"] PROVE PaidIsClosed'
  BY <1>0, <1>2, PaidStays DEF TypeOK
<1>3. ASSUME NEW pm \in Payments, OpenPayment(pm) PROVE PaidIsClosed'
  <2>1. subject[SubjectOf[pm]] \in {"none", "open"} BY <1>3 DEF OpenPayment
  <2> QED BY <1>0, <1>3, <2>1, PaidStays DEF OpenPayment, TypeOK
<1>4. ASSUME NEW c \in FinalizeCalls, FinalizeCompleted(c) \/ FinalizeFailed(c) PROVE PaidIsClosed'
  <2> DEFINE pm == call[c].pays
             s == SubjectOf[pm]
  <2>1. pm \in Payments /\ s \in Subjects
    BY <1>0, <1>4 DEF FinalizeCompleted, FinalizeFailed, Ready, LockInv, RecordInv, CallsRefer, FinalizeSteps, Procs
  <2>2. \A q \in Payments \ {pm} : payment'[q] = payment[q]
    BY <1>0, <1>4, <2>1 DEF FinalizeCompleted, FinalizeFailed, TypeOK
  <2>3. \A t \in Subjects : subject'[t] = subject[t] \/ subject'[t] \in {"paid", "closed"}
    BY <1>0, <1>4, <2>1 DEF FinalizeCompleted, FinalizeFailed, TypeOK
  <2>4. payment'[pm] = "success" => subject'[s] = "paid"
    BY <1>0, <1>4, <2>1 DEF FinalizeCompleted, FinalizeFailed, TypeOK
  <2> QED BY <1>0, <2>1, <2>2, <2>3, <2>4 DEF PaidIsClosed
<1>5. ASSUME NEW c \in FinalizeCalls, FindGoods(c) PROVE PaidIsClosed'
  <2>1. SubjectOf[call[c].pays] \in Subjects
    BY <1>0, <1>5 DEF FindGoods, Ready, LockInv, RecordInv, CallsRefer, FinalizeSteps, Procs
  <2> QED BY <1>1, <1>2, <1>5, <2>1 DEF FindGoods, Goto, rows
<1>6. ASSUME NEW c \in FinalizeCalls, Finalize(c) PROVE PaidIsClosed'
  BY <1>1, <1>4, <1>5, <1>6 DEF Finalize, FindPayment, FindSubject, Capture, Respond, Goto, rows
<1>7. ASSUME NEW s \in Orders \cup Wins, Close(s) PROVE PaidIsClosed'
  BY <1>2, <1>7 DEF Close, Subjects
<1>8. CASE UNCHANGED vars BY <1>1, <1>8 DEF vars
<1>9. \/ \E pm \in Payments : Approve(pm)
      \/ GoodsMove \/ DeadlinePasses
      \/ \E c \in Procs : TakeLock(c) \/ DeadlockAbort(c)
      => UNCHANGED <<payment, subject>>
  BY DEF Approve, GoodsMove, DeadlinePasses, TakeLock, DeadlockAbort, rows
<1>10. \A c \in Procs : \/ \E q \in Payments : Start(c, q)
                        \/ \E s \in Orders : ShipOrder(c, s)
                        \/ CheckoutTicket(c) \/ BuyerLocked(c) \/ DrawLottery(c) \/ DrawLocked(c) \/ Finish(c)
                        \/ Unreachable(c) \/ AnswerLost(c) \/ Crash(c)
                        => UNCHANGED <<payment, subject>>
  BY DEF Start, ShipOrder, CheckoutTicket, BuyerLocked, DrawLottery, DrawLocked, Finish,
         Unreachable, AnswerLost, Crash, Goto, rows
<1>11. CASE Next
  BY <1>1, <1>3, <1>6, <1>7, <1>9, <1>10, <1>11
     DEF Next, CapturePaypalPayment, PaypalWebhook, CancelPlacedOrder, ExpireWin, Procs, FinalizeCalls
<1> QED BY <1>8, <1>11

LEMMA ChargeInvariant == Spec => []ChargeInv
<1>1. Init => ChargeInv BY InitLocks DEF Init, ChargeInv, PaidIsClosed
<1>2. ChargeInv /\ [Next]_vars => ChargeInv' BY NextLocks, NextPaid DEF ChargeInv
<1> QED BY <1>1, <1>2, PTL DEF Spec

\* Only a call that has come to PayPal with its locks makes PayPal take money.
LEMMA OnlyCallsCharge ==
  ASSUME TypeOK, [Next]_vars, NEW pm \in Payments, paypal[pm] # "captured", paypal'[pm] = "captured"
  PROVE  \E c \in FinalizeCalls : call[c].at = "paypal" /\ call[c].pays = pm
<1>1. Next BY DEF vars
<1>2. ~\E q \in Payments : OpenPayment(q) \/ Approve(q) BY DEF OpenPayment, Approve, TypeOK
<1>3. \/ \E s \in Orders : CancelPlacedOrder(s)
      \/ \E s \in Wins : ExpireWin(s)
      \/ GoodsMove \/ DeadlinePasses
      \/ \E c \in Procs : TakeLock(c) \/ DeadlockAbort(c)
      => UNCHANGED paypal
  BY DEF CancelPlacedOrder, ExpireWin, Close, GoodsMove, DeadlinePasses, TakeLock, DeadlockAbort
<1>4. \A c \in Procs : \/ \E q \in Payments : Start(c, q)
                       \/ \E s \in Orders : ShipOrder(c, s)
                       \/ CheckoutTicket(c) \/ BuyerLocked(c) \/ DrawLottery(c) \/ DrawLocked(c) \/ Finish(c)
                       \/ Unreachable(c) \/ Crash(c)
                       => UNCHANGED paypal
  BY DEF Start, ShipOrder, CheckoutTicket, BuyerLocked, DrawLottery, DrawLocked, Finish, Unreachable, Crash, Goto
<1>5. PICK c \in FinalizeCalls : Finalize(c) \/ AnswerLost(c)
  BY <1>1, <1>2, <1>3, <1>4 DEF Next, CapturePaypalPayment, PaypalWebhook, Procs, FinalizeCalls
<1>6. Capture(c) \/ AnswerLost(c)
  BY <1>5 DEF Finalize, FindPayment, FindSubject, FindGoods, FinalizeCompleted, FinalizeFailed, Respond, Goto
<1>7. call[c].at = "paypal" BY <1>6 DEF Capture, AnswerLost, Ready
<1>8. call[c].pays = pm BY <1>6 DEF Capture, AnswerLost, TypeOK
<1> QED BY <1>7, <1>8

\* Whatever fails, deadlocks or is undone, PayPal takes the money for a win,
\* ticket or order only while it is open, and not beside another payment of
\* it that succeeded or is being recorded.
THEOREM ChargesAreWhileOpen == Spec => ChargedWhileOpen
<1> DEFINE Open(pm) == /\ subject[SubjectOf[pm]] = "open"
                       /\ \A q \in Payments \ {pm} :
                            SubjectOf[q] = SubjectOf[pm] => payment[q] # "success" /\ ~BeingRecorded(q)
<1>1. ASSUME ChargeInv, [Next]_vars, NEW pm \in Payments, paypal[pm] # "captured", paypal'[pm] = "captured"
      PROVE  Open(pm)
  <2>1. PICK c \in FinalizeCalls : call[c].at = "paypal" /\ call[c].pays = pm
    BY <1>1, OnlyCallsCharge DEF ChargeInv, LockInv, RecordInv
  <2>2. c \in Procs /\ HoldsSubject(c) /\ subject[SubjectOf[pm]] = "open"
    BY <1>1, <2>1, SubjectHeld DEF ChargeInv, LockInv, ChecksHold, Procs
  <2>3. ASSUME NEW q \in Payments \ {pm}, SubjectOf[q] = SubjectOf[pm]
        PROVE  payment[q] # "success" /\ ~BeingRecorded(q)
    <3>1. payment[q] # "success" BY <1>1, <2>2, <2>3 DEF ChargeInv, PaidIsClosed
    <3>2. ASSUME NEW d \in FinalizeCalls, call[d].at = "commit", call[d].pays = q PROVE FALSE
      <4>1. d \in Procs /\ HoldsSubject(d) BY <1>1, <3>2, SubjectHeld DEF ChargeInv, LockInv, Procs
      <4>2. c = d BY <1>1, <2>1, <2>2, <2>3, <3>2, <4>1, AloneAtSubject DEF ChargeInv, LockInv
      <4> QED BY <2>1, <3>2, <4>2
    <3> QED BY <3>1, <3>2 DEF BeingRecorded
  <2> QED BY <2>2, <2>3
<1>2. ChargeInv /\ [Next]_vars =>
        [\A pm \in Payments : (paypal[pm] # "captured" /\ paypal'[pm] = "captured") => Open(pm)]_vars
  BY <1>1
<1> QED BY <1>2, ChargeInvariant, PTL DEF Spec, ChargedWhileOpen
=============================================================================
