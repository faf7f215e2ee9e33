----------------------------- MODULE DrawNotices -----------------------------
(***************************************************************************)
(* The lottery draw of one concert as managers see it: the request that    *)
(* schedules it, the Celery task that runs it, and the notices in their    *)
(* inboxes (router/events/concert.py, tasks/lottery.py, the notification   *)
(* service).  What a draw does to entries and tickets is in Lottery.       *)
(***************************************************************************)
EXTENDS Concerts

CONSTANTS
  Draws,        \* requests for a draw of the concert
  DrawnConcert, \* the concert
  MaxFaults     \* bound on the failures of Redis, the database and workers

ASSUME NoticeAssumption == MaxFaults \in Nat

VARIABLES
  draw,         \* where each request for a draw stands
  scheduler,    \* the user a task draws for, NoUser before there is one
  drawn,        \* the draws that committed
  notice,       \* the notices: [to, type, of]; is_read is left out
  faults        \* failures so far

noticeVars == <<draw, scheduler, drawn, notice, faults>>

NoticeTypes == {"lottery_draw_triggered", "lottery_draw_completed", "lottery_draw_failed"}
NoticeRow == [to : Users, type : NoticeTypes, of : Draws]
Results == {"lottery_draw_completed", "lottery_draw_failed"}

\* _manager_ids_for_company, when the notices are made
CompanyManagers == {u \in Managers : employer[u] = concert[DrawnConcert].company}

NoticesOf(d, type) == [to : CompanyManagers, type : {type}, of : {d}]

Has(u, d, type) == \E n \in notice : n.to = u /\ n.of = d /\ n.type = type

DrawGoes(d, from, to) ==
  /\ draw[d] = from
  /\ draw' = [draw EXCEPT ![d] = to]

Fault == faults < MaxFaults /\ faults' = faults + 1

-----------------------------------------------------------------------------
\* draw_lottery_for_concert commits its notices before it sends the task
ScheduleDraw(u, d) ==
  /\ ManagesConcert(u, DrawnConcert)
  /\ DrawGoes(d, "none", "told")
  /\ scheduler' = [scheduler EXCEPT ![d] = u]
  /\ notice' = notice \cup NoticesOf(d, "lottery_draw_triggered")
  /\ UNCHANGED <<drawn, faults, identityVars>>

SendTask(d) ==
  /\ DrawGoes(d, "told", "queued")
  /\ UNCHANGED <<scheduler, drawn, notice, faults, identityVars>>

\* the broker fails, or the process dies in between: no task, a trigger notice
TaskNotSent(d) ==
  /\ DrawGoes(d, "told", "lost")
  /\ Fault
  /\ UNCHANGED <<scheduler, drawn, notice, identityVars>>

\* a worker acknowledges the task when it takes it
TakeTask(d) ==
  /\ DrawGoes(d, "queued", "drawing")
  /\ UNCHANGED <<scheduler, drawn, notice, faults, identityVars>>

\* the user is read again, and may have been deleted since
MayDraw(u) == u \in Staff /\ ManagesConcert(u, DrawnConcert)

\* campaigns may have been added or reopened since an earlier draw
DrawCommits(d) ==
  /\ MayDraw(scheduler[d])
  /\ DrawGoes(d, "drawing", "committed")
  /\ drawn' = drawn \cup {d}
  /\ UNCHANGED <<scheduler, notice, faults, identityVars>>

\* mutant: the task ends as if a draw without campaigns to draw had succeeded
RefuseQuietly(d) ==
  /\ DrawGoes(d, "drawing", "cleared")
  /\ UNCHANGED <<scheduler, drawn, notice, faults, identityVars>>

\* no campaign is open, or one has not ended, or the user may not draw: an
\* exception
DrawRefused(d) ==
  /\ DrawGoes(d, "drawing", "failing")
  /\ UNCHANGED <<scheduler, drawn, notice, faults, identityVars>>

\* delete_cached_concert_detail
ClearPage(d) ==
  /\ DrawGoes(d, "committed", "cleared")
  /\ UNCHANGED <<scheduler, drawn, notice, faults, identityVars>>

TellCompletion(d) ==
  /\ DrawGoes(d, "cleared", "done")
  /\ notice' = notice \cup NoticesOf(d, "lottery_draw_completed")
  /\ UNCHANGED <<scheduler, drawn, faults, identityVars>>

\* the draw, the cache or the commit of the notices raises; what the draw
\* committed stays
DrawRaises(d) ==
  /\ draw[d] \in {"drawing", "committed", "cleared"}
  /\ draw' = [draw EXCEPT ![d] = "failing"]
  /\ Fault
  /\ UNCHANGED <<scheduler, drawn, notice, identityVars>>

\* mutant: the handler of the exception only rolls back
RollBackOnly(d) == FALSE /\ UNCHANGED <<noticeVars, identityVars>>

\* draw_lottery_task rolls back, tells the managers and raises again
TellFailure(d) ==
  /\ DrawGoes(d, "failing", "done")
  /\ notice' = notice \cup NoticesOf(d, "lottery_draw_failed")
  /\ UNCHANGED <<scheduler, drawn, faults, identityVars>>

\* the worker dies, or the notices of a failure cannot be committed: the
\* task is not delivered again
TaskIsLost(d) ==
  /\ draw[d] \in {"queued", "drawing", "committed", "cleared", "failing"}
  /\ draw' = [draw EXCEPT ![d] = "lost"]
  /\ Fault
  /\ UNCHANGED <<scheduler, drawn, notice, identityVars>>

TaskSteps(d) ==
  \/ SendTask(d) \/ TakeTask(d) \/ DrawCommits(d) \/ DrawRefused(d)
  \/ ClearPage(d) \/ TellCompletion(d) \/ TellFailure(d)

\* by the owner of the notice: it stays, read
MarkAsRead(n) == n \in notice /\ UNCHANGED <<noticeVars, identityVars>>
MarkAllAsRead(u) == HasAccount(u) /\ UNCHANGED <<noticeVars, identityVars>>

\* notices go with their user
DeleteUserAndNotices(u) ==
  /\ DeleteUser(u)
  /\ notice' = {n \in notice : n.to # u}
  /\ UNCHANGED <<draw, scheduler, drawn, faults>>

NoticeNext ==
  \/ \E u \in Staff, d \in Draws : ScheduleDraw(u, d)
  \/ \E d \in Draws : TaskSteps(d) \/ TaskNotSent(d) \/ DrawRaises(d) \/ TaskIsLost(d)
  \/ \E n \in notice : MarkAsRead(n)
  \/ \E u \in Users : MarkAllAsRead(u)

NoticeInit ==
  /\ draw = [d \in Draws |-> "none"]
  /\ scheduler = [d \in Draws |-> NoUser]
  /\ drawn = {}
  /\ notice = {}
  /\ faults = 0

-----------------------------------------------------------------------------
NoticeTypeOK ==
  /\ draw \in [Draws -> {"none", "told", "queued", "drawing", "committed", "cleared", "failing", "done", "lost"}]
  /\ scheduler \in [Draws -> Users \cup {NoUser}]
  /\ drawn \subseteq Draws
  /\ notice \subseteq NoticeRow
  /\ faults \in 0..MaxFaults

\* "Completed" is only ever said of a draw that committed, no manager is
\* told both results of one draw, whatever raised after its commit, and a
\* task that ended has told its result to every manager who was told of its
\* start and still is a manager of the company.
ResultsAreTrue ==
  /\ \A n \in notice : n.type = "lottery_draw_completed" => n.of \in drawn
  /\ \A u \in Users, d \in Draws :
       ~(Has(u, d, "lottery_draw_completed") /\ Has(u, d, "lottery_draw_failed"))
  /\ \A u \in CompanyManagers, d \in Draws :
       (draw[d] = "done" /\ Has(u, d, "lottery_draw_triggered")) => \E type \in Results : Has(u, d, type)

\* A draw that managers were told of comes to an end they are told of, or
\* its task is lost: concerts do not stay "being drawn".
DrawsEnd == \A d \in Draws : draw[d] = "told" ~> draw[d] \in {"done", "lost"}
=============================================================================
