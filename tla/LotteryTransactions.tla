------------------------- MODULE LotteryTransactions -------------------------
(***************************************************************************)
(* The lottery, the ranking and the direct checkout of one concert, SQL    *)
(* statement by SQL statement.  Transactions run READ COMMITTED: a         *)
(* statement sees what is committed when it starts, writes become visible  *)
(* at the commit, row locks are held to the end of the transaction.  The   *)
(* atomic handlers are in Lottery and TicketSales; here the question is    *)
(* whether the locks the handlers take make them behave as if atomic.      *)
(*                                                                         *)
(* Seats, ranks and money are left out: a ranking is the set of tiers it   *)
(* ranks, a draw picks any winners, a checkout may fail for other reasons. *)
(*                                                                         *)
(* No handler locks a fan's requests against each other.  The last three   *)
(* variables are history: they record which requests of a fan have met in  *)
(* flight, so that properties can say which meetings do harm.              *)
(***************************************************************************)
EXTENDS Integers, FiniteSets

CONSTANTS
  Fans,
  Tiers,       \* the lottery tiers of the concert, one open campaign each
  DirectTier,  \* a ticket type sold directly
  Requests,    \* requests of fans in flight at a time
  FanOf,       \* the fan who sends each of them
  Draws,       \* draws in flight at a time
  Nobody       \* no campaign is being applied to

ASSUME TransactionsAssumption == FanOf \in [Requests -> Fans] /\ Requests \cap Draws = {}

Procs == Requests \cup Draws
AllTiers == Tiers \cup {DirectTier}

\* the campaign of a tier is named by the tier
Campaigns == Tiers

VARIABLES
  open,     \* campaigns with status open, the others are drawn
  ended,    \* campaigns with entry_end_at in the past
  due,      \* campaigns with entry_end_at at hand: entries and draws pass
  ranked,   \* committed lottery_preferences: the tiers a fan has ranked
  pending,  \* number of committed pending entries of a fan in a campaign
  resolved, \* number of entries of a fan in a campaign that a draw resolved
  winners,  \* fans with an entry that won
  holders,  \* fans with a live ticket
  txn,      \* the transaction of a request or draw
  held,     \* the row locks it holds
  appliedTwice,     \* fans who have had two applications in flight at a time
  rankedMeanwhile,  \* fans who have had an application and a ranking
  boughtMeanwhile   \* fans who have had an application and a direct purchase

rows == <<open, ended, due, ranked, pending, resolved, winners, holders>>
meetings == <<appliedTwice, rankedMeanwhile, boughtMeanwhile>>
vars == <<open, ended, due, ranked, pending, resolved, winners, holders, txn, held, meetings>>

\* A transaction: its next statement, its arguments, what it read and what it
\* wrote and has not committed.
Idle == [at |-> "idle", todo |-> {}, now |-> Nobody, staged |-> {}, new |-> {}, old |-> {},
         rows |-> {}, seen |-> [u \in Fans |-> {}], entrants |-> {}]

\* some campaigns may have been drawn before; some fans have ranked and entered
Init ==
  /\ open \in SUBSET Campaigns \ {{}}
  /\ ended = {}
  /\ due = {}
  /\ ranked \in [Fans -> SUBSET Tiers]
  /\ pending \in [Fans \X Campaigns -> {0, 1}]
  /\ \A e \in Fans \X Campaigns : pending[e] = 1 => e[2] \in open /\ e[2] \in ranked[e[1]]
  /\ resolved = [e \in Fans \X Campaigns |-> 0]
  /\ winners = {}
  /\ holders = {}
  /\ txn = [p \in Procs |-> Idle]
  /\ held = [p \in Procs |-> {}]
  /\ appliedTwice = {}
  /\ rankedMeanwhile = {}
  /\ boughtMeanwhile = {}

(***************************************************************************)
(* Locks                                                                   *)
(***************************************************************************)
Lock(table, row, exclusive) == [table |-> table, row |-> row, exclusive |-> exclusive]

\* mutant: the draw selects without FOR UPDATE
DrawSelectsUnlocked(d) == {}

\* a draw selects the ticket types and then the open campaigns FOR UPDATE
DrawSelects(d) ==
  IF txn[d].at = "draw"
  THEN {Lock("tier", t, TRUE) : t \in AllTiers}
  ELSE {Lock("campaign", c, TRUE) : c \in open}

\* the locks the next statement of a transaction takes
Wanted(p) ==
  LET x == txn[p]
  IN CASE x.at = "apply" -> {Lock("campaign", x.now, FALSE)}
       [] x.at = "entry_fk" -> {Lock("user", FanOf[p], FALSE)}
       [] x.at = "check" -> {Lock("campaign", c, FALSE) : c \in x.old \cup x.new}
       [] x.at = "delete" -> IF x.rows = {} THEN {} ELSE {Lock("ranking", FanOf[p], TRUE)}
       [] x.at = "insert" -> IF x.new = {} THEN {} ELSE {Lock("ranking", FanOf[p], TRUE)}
       [] x.at = "rank_fk" -> UNION {{Lock("tier", t, FALSE), Lock("user", FanOf[p], FALSE)} : t \in x.new}
       [] x.at = "buy" -> {Lock("user", FanOf[p], TRUE)}
       [] x.at = "buy_tier" -> {Lock("tier", DirectTier, TRUE)}
       [] x.at = "ticket" -> {Lock("seat", FanOf[p], TRUE)}
       [] x.at \in {"draw", "draw_campaigns"} -> DrawSelects(p)
       [] x.at = "award" -> UNION {{Lock("seat", u, TRUE), Lock("user", u, FALSE)} : u \in x.entrants}
       [] OTHER -> {}

Rows == INSTANCE RowLocks WITH wanted <- [p \in Procs |-> Wanted(p)]
Missing(p) == Rows!Missing(p)

\* rows are locked one by one, in an order no statement fixes
TakeLock(p) ==
  /\ \E l \in Missing(p) : Rows!Holders(p, l) = {} /\ held' = [held EXCEPT ![p] = @ \cup {l}]
  /\ UNCHANGED <<rows, txn>>

Ready(p, statement) == txn[p].at = statement /\ Missing(p) = {}

Continue(p, x) == txn' = [txn EXCEPT ![p] = x] /\ UNCHANGED <<rows, held>>
Goto(p, statement) == Continue(p, [txn[p] EXCEPT !.at = statement])

\* commit or roll back
Release(p) == held' = [held EXCEPT ![p] = {}]
Rollback(p) == txn' = [txn EXCEPT ![p] = Idle] /\ Release(p) /\ UNCHANGED rows

\* Postgres aborts a transaction of a cycle of waiting ones.
DeadlockAbort(p) == Rows!Deadlocked(p) /\ Rollback(p)

(***************************************************************************)
(* LotteryEntryService: apply_to_lottery and apply_to_lotteries            *)
(***************************************************************************)
\* a list of campaigns in an order of the client's choice
Apply(p, C) ==
  /\ txn[p].at = "idle"
  /\ \E c \in C : Continue(p, [Idle EXCEPT !.at = "apply", !.now = c, !.todo = C \ {c}])

\* mutant: the campaign is read without a lock
ReadCampaignUnlocked(p) ==
  /\ txn[p].at = "apply"
  /\ IF txn[p].now \in open /\ txn[p].now \notin ended THEN Goto(p, "no_ticket") ELSE Rollback(p)

\* the campaign FOR SHARE, then its status and window
ReadCampaign(p) ==
  /\ Ready(p, "apply")
  /\ IF txn[p].now \in open /\ txn[p].now \notin ended THEN Goto(p, "no_ticket") ELSE Rollback(p)

\* mutant: a fan with a ticket may apply
SkipReadTicket(p) == Ready(p, "no_ticket") /\ Goto(p, "has_rank")

\* no live ticket
ReadTicket(p) ==
  /\ Ready(p, "no_ticket")
  /\ IF FanOf[p] \notin holders THEN Goto(p, "has_rank") ELSE Rollback(p)

\* the tier is ranked: read by the service, and by trg_lottery_entries_require_preference
ReadRank(p) ==
  /\ Ready(p, "has_rank")
  /\ IF txn[p].now \in ranked[FanOf[p]] THEN Goto(p, "entry") ELSE Rollback(p)

EntriesOf(u, c) == pending[<<u, c>>] + resolved[<<u, c>>]

\* mutant: no cap
InsertUncapped(p) ==
  /\ Ready(p, "entry")
  /\ IF txn[p].now \in ranked[FanOf[p]] THEN Goto(p, "entry_fk") ELSE Rollback(p)

\* the insert: trg_lottery_entries_cap and _require_preference read again
InsertEntry(p) ==
  /\ Ready(p, "entry")
  /\ IF /\ EntriesOf(FanOf[p], txn[p].now) = 0
        /\ txn[p].now \notin txn[p].staged
        /\ txn[p].now \in ranked[FanOf[p]]
     THEN Goto(p, "entry_fk")
     ELSE Rollback(p)

\* the foreign key to users, then the next campaign of the list
EntryStaged(p) ==
  /\ Ready(p, "entry_fk")
  /\ LET x == [txn[p] EXCEPT !.staged = @ \cup {txn[p].now}]
     IN  IF x.todo = {}
         THEN Continue(p, [x EXCEPT !.at = "entry_commit"])
         ELSE \E c \in x.todo : Continue(p, [x EXCEPT !.at = "apply", !.now = c, !.todo = @ \ {c}])

CommitEntries(p) ==
  /\ Ready(p, "entry_commit")
  /\ pending' = [e \in Fans \X Campaigns |->
                   IF e[1] = FanOf[p] /\ e[2] \in txn[p].staged THEN pending[e] + 1 ELSE pending[e]]
  /\ txn' = [txn EXCEPT ![p] = Idle]
  /\ Release(p)
  /\ UNCHANGED <<open, ended, due, ranked, resolved, winners, holders>>

(***************************************************************************)
(* LotteryPreferenceService: set_preferences, and clear_my_preferences     *)
(* with no tiers                                                           *)
(***************************************************************************)
\* _current_tier_ids, before anything is locked
Rank(p, T) ==
  /\ txn[p].at = "idle"
  /\ Continue(p, [Idle EXCEPT !.at = "check", !.new = T, !.old = ranked[FanOf[p]]])

\* the campaigns FOR SHARE, then their status and window
CheckCampaigns(p) ==
  /\ Ready(p, "check")
  /\ IF \A c \in txn[p].old \cup txn[p].new : c \in open /\ c \notin ended
     THEN Goto(p, "entered")
     ELSE Rollback(p)

\* mutant: entered tiers may be removed
SkipCheckEntered(p) == Ready(p, "entered") /\ Goto(p, "snapshot")

\* _entered_tier_ids: none of the removed tiers has a pending entry
CheckEntered(p) ==
  /\ Ready(p, "entered")
  /\ IF \A c \in txn[p].old \ txn[p].new : pending[<<FanOf[p], c>>] = 0
     THEN Goto(p, "snapshot")
     ELSE Rollback(p)

\* the DELETE sees the rows committed when it starts
StartDelete(p) ==
  /\ Ready(p, "snapshot")
  /\ Continue(p, [txn[p] EXCEPT !.at = "delete", !.rows = ranked[FanOf[p]]])

\* it locks and deletes those that are still there
DeleteRanking(p) == Ready(p, "delete") /\ Goto(p, "insert")

\* uq_lottery_preferences_rank refuses a second row of rank 1
InsertRanking(p) ==
  /\ Ready(p, "insert")
  /\ IF txn[p].new # {} /\ ranked[FanOf[p]] \ txn[p].rows # {}
     THEN Rollback(p)
     ELSE Goto(p, "rank_fk")

\* Rows another transaction meant to delete may be gone now; the rows that
\* replace them are not in its snapshot.
CommitRanking(p) ==
  LET u == FanOf[p]
      deleted == txn[p].rows
  IN  /\ Ready(p, "rank_fk")
      /\ ranked' = [ranked EXCEPT ![u] = (@ \ deleted) \cup txn[p].new]
      /\ txn' = [q \in Procs |->
                   IF q = p THEN Idle
                   ELSE IF q \in Requests /\ txn[q].at = "delete" /\ FanOf[q] = u
                        THEN [txn[q] EXCEPT !.rows = @ \ deleted]
                        ELSE txn[q]]
      /\ Release(p)
      /\ UNCHANGED <<open, ended, due, pending, resolved, winners, holders>>

(***************************************************************************)
(* TicketService.checkout_ticket                                           *)
(***************************************************************************)
Buy(p) == txn[p].at = "idle" /\ Continue(p, [Idle EXCEPT !.at = "buy"])

\* the fan FOR UPDATE, then the ticket type FOR UPDATE
BuyerLocked(p) == Ready(p, "buy") /\ Goto(p, "buy_tier")

\* on sale, seats left, _existing_live_ticket
BuyerHasNoTicket(p) ==
  /\ Ready(p, "buy_tier")
  /\ \/ FanOf[p] \notin holders /\ Goto(p, "unresolved")
     \/ Rollback(p)

\* mutant: only entries that won block a purchase
BuyerHasNotWon(p) ==
  /\ Ready(p, "unresolved")
  /\ IF FanOf[p] \notin winners THEN Goto(p, "ticket") ELSE Rollback(p)

\* _unresolved_lottery_entry
BuyerHasNoEntry(p) ==
  /\ Ready(p, "unresolved")
  /\ IF FanOf[p] \notin winners /\ \A c \in Campaigns : pending[<<FanOf[p], c>>] = 0
     THEN Goto(p, "ticket")
     ELSE Rollback(p)

\* the insert with trg_tickets_one_per_concert, the payment, the commit
CommitTicket(p) ==
  /\ Ready(p, "ticket")
  /\ IF FanOf[p] \in holders
     THEN Rollback(p)
     ELSE /\ holders' = holders \cup {FanOf[p]}
          /\ txn' = [txn EXCEPT ![p] = Idle]
          /\ Release(p)
          /\ UNCHANGED <<open, ended, due, ranked, pending, resolved, winners>>

(***************************************************************************)
(* LotteryDrawService.draw_lottery                                         *)
(***************************************************************************)
Draw(d) == txn[d].at = "idle" /\ Continue(d, [Idle EXCEPT !.at = "draw"])

\* every ticket type of the concert FOR UPDATE
TiersLocked(d) == Ready(d, "draw") /\ Goto(d, "draw_campaigns")

\* its open campaigns FOR UPDATE; refused when there are none or entries go on
CampaignsLocked(d) ==
  /\ Ready(d, "draw_campaigns")
  /\ IF open # {} /\ open \subseteq ended \cup due
     THEN Goto(d, "read_rankings")
     ELSE Rollback(d)

ReadRankings(d) ==
  /\ Ready(d, "read_rankings")
  /\ Continue(d, [txn[d] EXCEPT !.at = "read_entries", !.seen = ranked])

\* the pending entries; next() raises StopIteration for one without a rank
ReadEntries(d) ==
  LET entrants == {u \in Fans : \E c \in open : pending[<<u, c>>] > 0}
      unranked == {u \in Fans : \E c \in open : pending[<<u, c>>] > 0 /\ c \notin txn[d].seen[u]}
  IN  /\ Ready(d, "read_entries")
      /\ IF unranked = {}
         THEN Continue(d, [txn[d] EXCEPT !.at = "award", !.entrants = entrants])
         ELSE Rollback(d)

EnteredTwice(u) == \E c \in open : pending[<<u, c>>] > 1

\* Entries are won or lost, winners get a ticket; the trigger on tickets fails
\* the draw when a winner has one or the sample picked two entries of a fan.
CommitDraw(d) ==
  /\ Ready(d, "award")
  /\ \E W \in SUBSET txn[d].entrants :
       \/ /\ \E u \in W : u \in holders \/ EnteredTwice(u)
          /\ Rollback(d)
       \/ /\ W \cap holders = {}
          /\ resolved' = [e \in Fans \X Campaigns |-> IF e[2] \in open THEN EntriesOf(e[1], e[2]) ELSE resolved[e]]
          /\ pending' = [e \in Fans \X Campaigns |-> IF e[2] \in open THEN 0 ELSE pending[e]]
          /\ winners' = winners \cup W
          /\ holders' = holders \cup W
          /\ open' = {}
          /\ txn' = [txn EXCEPT ![d] = Idle]
          /\ Release(d)
          /\ UNCHANGED <<ended, due, ranked>>

(***************************************************************************)
(* Time                                                                    *)
(***************************************************************************)
\* of a drawn campaign nobody reads the window
WindowMoves(c) ==
  /\ c \in open \ ended
  /\ \/ c \notin due /\ due' = due \cup {c} /\ UNCHANGED ended
     \/ due' = due \ {c} /\ ended' = ended \cup {c}
  /\ UNCHANGED <<open, ranked, pending, resolved, winners, holders, txn, held>>

RequestNext(p) ==
  \/ \E C \in SUBSET Campaigns : Apply(p, C)
  \/ \E T \in SUBSET Tiers : Rank(p, T)
  \/ Buy(p)
  \/ ReadCampaign(p) \/ ReadTicket(p) \/ ReadRank(p) \/ InsertEntry(p) \/ EntryStaged(p) \/ CommitEntries(p)
  \/ CheckCampaigns(p) \/ CheckEntered(p) \/ StartDelete(p) \/ DeleteRanking(p) \/ InsertRanking(p)
  \/ CommitRanking(p)
  \/ BuyerLocked(p) \/ BuyerHasNoTicket(p) \/ BuyerHasNoEntry(p) \/ CommitTicket(p)

DrawNext(d) ==
  \/ Draw(d) \/ TiersLocked(d) \/ CampaignsLocked(d) \/ ReadRankings(d) \/ ReadEntries(d) \/ CommitDraw(d)

Step ==
  \/ \E p \in Requests : RequestNext(p)
  \/ \E d \in Draws : DrawNext(d)
  \/ \E p \in Procs : TakeLock(p) \/ DeadlockAbort(p)
  \/ \E c \in Campaigns : WindowMoves(c)

(***************************************************************************)
(* History                                                                 *)
(***************************************************************************)
Application == {"apply", "no_ticket", "has_rank", "entry", "entry_fk", "entry_commit"}
Ranking == {"check", "entered", "snapshot", "delete", "insert", "rank_fk"}
Purchase == {"buy", "buy_tier", "unresolved", "ticket"}

\* the fans with an application in flight and another request of a kind
MeetsApplication(kind) ==
  {FanOf[p] : p \in {x \in Requests :
     /\ txn[x].at \in Application
     /\ \E q \in Requests \ {x} : FanOf[q] = FanOf[x] /\ txn[q].at \in kind}}

Remember ==
  /\ appliedTwice' = appliedTwice \cup MeetsApplication(Application)'
  /\ rankedMeanwhile' = rankedMeanwhile \cup MeetsApplication(Ranking)'
  /\ boughtMeanwhile' = boughtMeanwhile \cup MeetsApplication(Purchase)'

Next == Step /\ Remember

Spec == Init /\ [][Next]_vars

-----------------------------------------------------------------------------
(***************************************************************************)
(* What the repository says of every fan.  None of the three holds: the    *)
(* counterexamples need two requests of one fan in flight.                 *)
(***************************************************************************)
\* A fan who has applied to a campaign still ranks its tier
\* (lottery_preference_service.py 21-22).
PendingEntriesRanked ==
  \A u \in Fans, c \in Campaigns : pending[<<u, c>>] > 0 => c \in ranked[u]

\* A fan enters a campaign once: max_entries_per_user is 1, enforced by
\* trg_lottery_entries_cap (schema/events/lottery_campaign.py 21-22).
OneEntryPerFan ==
  \A u \in Fans, c \in Campaigns : EntriesOf(u, c) <= 1

\* A fan who holds a ticket has no entry in play: the lottery and the direct
\* sale are either/or (ticket_service.py 122-131).
PathsExclusive ==
  \A u \in Fans, c \in Campaigns : pending[<<u, c>>] > 0 => u \notin holders

(***************************************************************************)
(* What does hold, and which meetings each of them excepts.                *)
(***************************************************************************)
\* Only a ranking in flight beside an application of its fan can leave an
\* entry without its rank: not two rankings that overtake each other, nor
\* two applications, nor anything another fan or a draw does.
EntriesKeepRanks ==
  \A u \in Fans \ rankedMeanwhile, c \in Campaigns : pending[<<u, c>>] > 0 => c \in ranked[u]

\* Only two applications in flight together can enter a fan twice, over any
\* number of draws: batches, refusals and retries one after the other cannot.
EntriesStaySingle ==
  \A u \in Fans \ appliedTwice, c \in Campaigns : EntriesOf(u, c) <= 1

\* Only a purchase in flight beside an application can leave a fan with an
\* entry in play and a ticket: two purchases cannot, nor can a draw that
\* gives a ticket while the fan's application waits for it.
PathsStayApart ==
  \A u \in Fans \ boughtMeanwhile, c \in Campaigns : pending[<<u, c>>] > 0 => u \notin holders

\* An application either is part of the draw or is refused: none commits a
\* pending entry after the draw (the comment in _stage_entry), whatever else
\* its fan has in flight.
NoEntryLeftBehind ==
  \A u \in Fans, c \in Campaigns : c \notin open => pending[<<u, c>>] = 0

Commits(d) == txn[d].at = "award" /\ open' # open /\ txn'[d].at = "idle"

\* The rankings a draw read before the entries are still the rankings of its
\* entrants when it commits (the comment in _campaigns_for_tiers): only an
\* entrant who has ranked beside an application may have slipped past the
\* campaign locks.
DrawSeesFinalRankings ==
  [][\A d \in Draws :
       Commits(d) => \A u \in txn[d].entrants \ rankedMeanwhile : txn[d].seen[u] = ranked[u]]_vars

\* A draw that got past its refusals commits, unless it is the victim of a
\* deadlock or one of its entrants had an application meet another request:
\* nothing else makes a rank missing or a ticket a duplicate.
DrawSucceeds ==
  [][\A d \in Draws :
       (txn[d].at \in {"read_entries", "award"} /\ txn'[d].at = "idle") =>
         \/ Commits(d)
         \/ Rows!Deadlocked(d)
         \/ \E u \in appliedTwice \cup rankedMeanwhile \cup boughtMeanwhile, c \in open :
              pending[<<u, c>>] > 0]_vars
=============================================================================
