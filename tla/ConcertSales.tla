---------------------------- MODULE ConcertSales ----------------------------
(***************************************************************************)
(* The ticketing of one concert: the lottery and the sales handlers over   *)
(* the shared rows, with and without the edits of staff.                   *)
(***************************************************************************)
EXTENDS Lottery, TicketSales, ConcertAdmin

\* fans, gateways, draws and time, on campaigns as announced
FanNext ==
  \/ LotteryNext
  \/ SalesNext
  \/ \E tt \in DirectTiers : DirectSaleTurns(tt)

\* and managers editing ticket types and campaigns meanwhile
Next == FanNext \/ ManagerNext

\* The CHECK constraints on ticket_types, which refuse a commit.  Fans, draws
\* and captures never meet them (SeatsWithinCapacity); a resize (CommitResize)
\* and edits of tickets can.
SoldChecks == \A tt \in Tiers : sold[tt] >= 0 /\ sold[tt] <= total[tt]

\* and admins editing tickets by hand
AdminNext == (Next \/ TicketAdminNext) /\ SoldChecks'

FanSpec == Init /\ [][FanNext]_vars
Spec == Init /\ [][Next]_vars
AdminSpec == Init /\ [][AdminNext]_vars

-----------------------------------------------------------------------------
(***************************************************************************)
(* Seats                                                                   *)
(***************************************************************************)
\* A lottery win counts from the draw on, a direct ticket once it is paid.
OccupyingStatuses(tt) ==
  IF tt \in LotteryTiers THEN {"pending_payment", "paid", "used"} ELSE {"paid", "used"}

SeatTickets(tt) == {t \in TicketIds : tier[t] = tt /\ status[t] \in OccupyingStatuses(tt)}

\* sold_quantity of every ticket type is the number of tickets that occupy a
\* seat of it: no checkout, capture, expiry or draw counts a seat twice,
\* forgets to count one or releases one it did not hold (ticket_service.py
\* 144 and 179, payment_service.py 148 and 161, lottery_draw_service.py 84).
SeatAccounting == \A tt \in Tiers : sold[tt] = Cardinality(SeatTickets(tt))

\* chk_ticket_types_sold_quantity and chk_ticket_types_capacity never refuse a
\* sale, a capture, an expiry or a draw: the checks in those handlers suffice,
\* although staff may lower total_quantity while PayPal payments are under
\* way.  Only a resize needs the constraint, when seats were sold between its
\* check and its commit.
SeatsWithinCapacity == SoldChecks

\* At most one live ticket per fan and concert, across tiers and sale
\* methods (trg_tickets_one_per_concert).
OneLiveTicket ==
  \A t1 \in TicketIds, t2 \in TicketIds :
    (/\ HolderOf(t1) = HolderOf(t2)
     /\ status[t1] \in LiveStatuses
     /\ status[t2] \in LiveStatuses) => t1 = t2

HasSeat(u) == \E tt \in Tiers, t \in TicketIds : HolderOf(t) = u /\ t \in SeatTickets(tt)

\* where SeatAllocation sees a fan
SeatOf(u) ==
  IF HasSeat(u)
  THEN CHOOSE tt \in Tiers : \E t \in SeatTickets(tt) : HolderOf(t) = u
  ELSE NoTier
PaidFans == {u \in Fans : \E t \in TicketIds : HolderOf(t) = u /\ status[t] = "paid"}

Seats == INSTANCE SeatAllocation
           WITH seat <- [u \in Fans |-> SeatOf(u)], paid <- PaidFans, quota <- total, Quotas <- Quantities

\* The handlers implement SeatAllocation: every checkout, capture, expiry,
\* draw and resize moves seats only as it allows, so a fan never has two
\* seats, a tier is never overfull and a paid seat is never lost or moved.
ImplementsSeatAllocation == Seats!SSpec

(***************************************************************************)
(* Money                                                                   *)
(***************************************************************************)
\* A fan is charged at most once for the concert, whatever checkouts were
\* retried with new idempotency keys and whichever of the browser capture
\* and the webhook came first.
ChargedAtMostOnce ==
  \A k1 \in Keys, k2 \in Keys :
    (/\ payment[k1] = "success"
     /\ payment[k2] = "success"
     /\ HolderOf(payFor[k1]) = HolderOf(payFor[k2])) => k1 = k2

\* A ticket is paid exactly when a payment of it succeeded, and its
\* payment_id names that payment even when a later attempt was declined or
\* left open.
PaidMeansCharged ==
  /\ \A t \in TicketIds :
       status[t] = "paid" => /\ paidBy[t] \in Keys
                             /\ payment[paidBy[t]] = "success"
                             /\ payFor[paidBy[t]] = t
  /\ \A k \in Keys : payment[k] = "success" => status[payFor[k]] = "paid"

\* A seat of the lottery is never sold to its winner after the payment
\* deadline, and money is only taken for a ticket that becomes the fan's
\* in the same step.
ChargesAreTimely ==
  [][\A k \in Keys :
       (payment[k] # "success" /\ payment'[k] = "success") =>
         LET t == payFor'[k]
         IN  /\ status[t] # "paid" /\ status'[t] = "paid"
             /\ tier'[t] \in LotteryTiers => due[t] # "past"]_vars

(***************************************************************************)
(* What the pages show                                                     *)
(***************************************************************************)
\* ConcertService.get_personalization
HasTicket(u) == \E t \in TicketIds : HolderOf(t) = u /\ status[t] \in {"paid", "used"}
HasWonLottery(u) == \E c \in Campaigns : entry[<<u, c>>] = "won"

\* LotteryEntryService.get_draw_results_for_concert: a fan's drawn entries
\* and the tickets issued for each.  The code keeps one ticket per entry.
DrawnEntries(u) == {e \in {u} \X Campaigns : entry[e] \in {"won", "lost"}}
DrawResults(u) == [e \in DrawnEntries(u) |-> {t \in TicketIds : entryOf[t] = e}]

IsTicketFor(t, e) == HolderOf(t) = e[1] /\ tier[t] = TierOf[e[2]]

\* The results page gives every winning entry exactly one ticket, of its fan
\* and of the tier won, and no losing entry one ("lost entries have none"),
\* whatever was won, lost, expired or bought besides; and a fan whom the
\* concert page shows as a winner with a ticket did not buy that ticket
\* directly: a purchase never follows a win, expired wins included
\* (concert_service.py 284-285).
PagesAgree ==
  \A u \in Fans :
    /\ \A e \in DrawnEntries(u) :
         IF entry[e] = "won"
         THEN \E t \in TicketIds : DrawResults(u)[e] = {t} /\ IsTicketFor(t, e)
         ELSE DrawResults(u)[e] = {}
    /\ HasWonLottery(u) /\ HasTicket(u) =>
         \E t \in TicketIds : HolderOf(t) = u /\ status[t] = "paid" /\ tier[t] \in LotteryTiers

(***************************************************************************)
(* The lottery                                                             *)
(***************************************************************************)
\* The draw looks up a preference for every pending entry, so no fan may
\* lose the rank of a tier with a pending entry (lottery_preference_service
\* 21-22).
PendingEntriesRanked ==
  \A u \in Fans, c \in Campaigns : entry[<<u, c>>] = "pending" => rank[u][TierOf[c]] # 0

\* No fan has an entry in play and a live ticket: neither can a draw give a
\* second ticket to a fan, which would fail it as a whole.
PathsExclusive ==
  \A u \in Fans, c \in Campaigns : entry[<<u, c>>] = "pending" => ~HoldsLiveTicket(u)

\* An entry made before or at the draw is part of it: none stays pending in
\* a campaign that is drawn, where it would block direct purchases for ever.
NoEntryLeftBehind ==
  \A u \in Fans, c \in Campaigns : campaign[c] = "drawn" => entry[<<u, c>>] # "pending"

Loses(e) == entry[e] = "pending" /\ entry'[e] = "lost"
Wins(e) == entry[e] = "pending" /\ entry'[e] = "won"

\* An entry loses only for want of a seat or because its fan won a tier
\* ranked at least as high.
LosersHadNoSeat ==
  [][\A e \in Fans \X Campaigns :
       Loses(e) => \/ sold'[TierOf[e[2]]] = total[TierOf[e[2]]]
                   \/ \E c \in Campaigns : Wins(<<e[1], c>>) /\ EntryRank(<<e[1], c>>) <= EntryRank(e)]_vars

\* A seat goes to a fan who ranked the tier lower only if every entrant who
\* ranked it higher won it or something they ranked at least as high.
HigherRankFirst ==
  [][\A e \in Fans \X Campaigns, f \in Fans \X Campaigns :
       (Wins(e) /\ Loses(f) /\ TierOf[e[2]] = TierOf[f[2]] /\ EntryRank(f) < EntryRank(e)) =>
         \E c \in Campaigns : Wins(<<f[1], c>>) /\ EntryRank(<<f[1], c>>) <= EntryRank(f)]_vars

\* A fan wins at most one tier in a draw and gets exactly one new ticket, of
\* that tier, with its deadline ahead; fans who win nothing get none.
DrawIssuesOneTicketPerWinner ==
  [][\A u \in Fans :
       LET wins == {c \in Campaigns : Wins(<<u, c>>)}
           new == {t \in TicketIds : HolderOf(t) = u /\ due[t] = "none" /\ due'[t] = "ahead"}
       IN  /\ Cardinality(wins) <= 1
           /\ Cardinality(new) = Cardinality(wins)
           /\ \A t \in new : \E c \in wins : tier'[t] = TierOf[c] /\ status'[t] = "pending_payment"]_vars
=============================================================================
