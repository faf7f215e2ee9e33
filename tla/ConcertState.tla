---------------------------- MODULE ConcertState ----------------------------
(***************************************************************************)
(* The rows the ticketing services of one concert share: ticket types,     *)
(* direct-sale and lottery campaigns, preferences, entries, tickets and    *)
(* the payments of tickets.  The handlers that read and write them are in  *)
(* Lottery, TicketSales and ConcertAdmin; ConcertSales composes them.      *)
(*                                                                         *)
(* A row that does not exist has the status "none" (tickets, payments,     *)
(* entries) or "absent" (campaigns).  Instants are abstracted to what the  *)
(* code compares: the phase of an entry window and whether a payment       *)
(* deadline has passed.                                                    *)
(***************************************************************************)
EXTENDS Integers, FiniteSets

CONSTANTS
  Fans,          \* accounts with the role fan
  LotteryTiers,  \* ticket types with sale_method = lottery
  DirectTiers,   \* ticket types with sale_method = direct
  Campaigns,     \* lottery campaigns
  TierOf,        \* the ticket type of each campaign
  Attempts,      \* <<fan, attempt>> names a ticket row of the fan
  Keys,          \* idempotency keys: one payment row each
  Quantities,    \* total_quantity values staff may choose
  Capacity,      \* the initial total_quantity of each ticket type
  NoKey,         \* a null payment_id
  NoTier,        \* the ticket_type_id of a row that does not exist
  NoTicket,      \* the ticket_id of a row that does not exist
  NoEntry        \* a null lottery_entry_id

Tiers == LotteryTiers \cup DirectTiers
TicketIds == Fans \X Attempts

\* tickets.user_id, of a fan by trg_tickets_fan_only
HolderOf(t) == t[1]

ASSUME ConcertAssumption ==
  /\ IsFiniteSet(Fans) /\ IsFiniteSet(Attempts) /\ IsFiniteSet(Campaigns)
  /\ IsFiniteSet(LotteryTiers)
  /\ LotteryTiers \cap DirectTiers = {}
  /\ TierOf \in [Campaigns -> LotteryTiers]
  /\ Quantities \subseteq Nat
  /\ Capacity \in [Tiers -> Quantities]
  /\ NoKey \notin Keys /\ NoTier \notin Tiers /\ NoTicket \notin TicketIds
  /\ NoEntry \notin Fans \X Campaigns

CampaignStatus == {"open", "drawn", "completed", "cancelled"}
EntryStatus == {"pending", "won", "lost"}
TicketStatus == {"reserved", "pending_payment", "paid", "cancelled", "expired", "used"}
PaymentStatus == {"pending", "success", "failed"}

\* now < start; start <= now < end; now = end; end < now
Phases == {"upcoming", "running", "boundary", "closed"}

VARIABLES
  total,     \* ticket_types.total_quantity
  sold,      \* ticket_types.sold_quantity
  resizing,  \* resizes staff have checked and not committed: <<tier, total_quantity>>
  onSale,    \* an open direct-sale campaign of the tier is in its window
  campaign,  \* lottery_campaigns.status
  phase,     \* where now stands in the entry window of a campaign
  drawn,     \* lottery_campaigns.draw_at is set
  rank,      \* lottery_preferences.rank of a fan for a tier, 0 if unranked
  entry,     \* lottery_entries.status of a fan in a campaign
  status,    \* tickets.status
  tier,      \* tickets.ticket_type_id
  entryOf,   \* tickets.lottery_entry_id, NoEntry if null
  due,       \* tickets.payment_deadline_at: none, ahead or past
  paidBy,    \* tickets.payment_id, NoKey if null
  payment,   \* payment.status
  payFor     \* payment.ticket_id

catalogVars == <<total, sold, resizing, onSale>>
lotteryVars == <<campaign, phase, drawn, rank, entry>>
ticketVars  == <<status, tier, entryOf, due>>
paymentVars == <<paidBy, payment, payFor>>
vars == <<total, sold, resizing, onSale, campaign, phase, drawn, rank, entry,
          status, tier, entryOf, due, paidBy, payment, payFor>>

MaxRank == Cardinality(LotteryTiers)

TypeOK ==
  /\ total \in [Tiers -> Nat]
  /\ sold \in [Tiers -> Int]
  /\ resizing \subseteq Tiers \X Quantities
  /\ onSale \in [DirectTiers -> BOOLEAN]
  /\ campaign \in [Campaigns -> CampaignStatus \cup {"absent"}]
  /\ phase \in [Campaigns -> Phases]
  /\ drawn \in [Campaigns -> BOOLEAN]
  /\ rank \in [Fans -> [LotteryTiers -> 0..MaxRank]]
  /\ entry \in [Fans \X Campaigns -> EntryStatus \cup {"none"}]
  /\ status \in [TicketIds -> TicketStatus \cup {"none"}]
  /\ tier \in [TicketIds -> Tiers \cup {NoTier}]
  /\ entryOf \in [TicketIds -> (Fans \X Campaigns) \cup {NoEntry}]
  /\ due \in [TicketIds -> {"none", "ahead", "past"}]
  /\ paidBy \in [TicketIds -> Keys \cup {NoKey}]
  /\ payment \in [Keys -> PaymentStatus \cup {"none"}]
  /\ payFor \in [Keys -> TicketIds \cup {NoTicket}]

(***************************************************************************)
(* Lookups the services share.                                             *)
(***************************************************************************)
LiveStatuses == {"reserved", "pending_payment", "paid", "used"}

\* mutant: a ticket that is not paid yet is not live
HoldsOtherThanUnpaid(u) ==
  \E t \in TicketIds : HolderOf(t) = u /\ status[t] \in LiveStatuses \ {"pending_payment"}

\* TicketService._existing_live_ticket, the same query in _stage_entry, and
\* the count of trg_tickets_one_per_concert.
HoldsLiveTicket(u) == \E t \in TicketIds : HolderOf(t) = u /\ status[t] \in LiveStatuses

\* mutant: a win is resolved once it is drawn
HasPendingEntry(u) == \E c \in Campaigns : entry[<<u, c>>] = "pending"

\* TicketService._unresolved_lottery_entry
HasUnresolvedEntry(u) == \E c \in Campaigns : entry[<<u, c>>] \in {"pending", "won"}

\* ticket ids no row of the fan uses yet
FreshTickets(u) == {t \in TicketIds : HolderOf(t) = u /\ status[t] = "none"}

SeatsLeft(tt) == total[tt] - sold[tt]

\* the concert is announced: its tiers and campaigns exist, nothing is sold
Init ==
  /\ total = Capacity
  /\ sold = [tt \in Tiers |-> 0]
  /\ resizing = {}
  /\ onSale = [tt \in DirectTiers |-> FALSE]
  /\ campaign = [c \in Campaigns |-> "open"]
  /\ phase = [c \in Campaigns |-> "upcoming"]
  /\ drawn = [c \in Campaigns |-> FALSE]
  /\ rank = [u \in Fans |-> [tt \in LotteryTiers |-> 0]]
  /\ entry = [e \in Fans \X Campaigns |-> "none"]
  /\ status = [t \in TicketIds |-> "none"]
  /\ tier = [t \in TicketIds |-> NoTier]
  /\ entryOf = [t \in TicketIds |-> NoEntry]
  /\ due = [t \in TicketIds |-> "none"]
  /\ paidBy = [t \in TicketIds |-> NoKey]
  /\ payment = [k \in Keys |-> "none"]
  /\ payFor = [k \in Keys |-> NoTicket]
=============================================================================
