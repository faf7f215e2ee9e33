---------------------------- MODULE ConcertAdmin ----------------------------
(***************************************************************************)
(* What staff do to the rows of a concert: managers and admins edit ticket *)
(* types and campaigns, admins also issue, edit and delete tickets.  None  *)
(* of these handlers takes a lock; each is one transaction, and one step   *)
(* unless what it read may be stale at its commit.                         *)
(***************************************************************************)
EXTENDS ConcertState

\* DirectSaleCampaignService add, update and delete, and the passing of the
\* sale window: whether a tier is on sale changes.
DirectSaleTurns(tt) ==
  /\ onSale' = [onSale EXCEPT ![tt] = ~@]
  /\ UNCHANGED <<total, sold, resizing, lotteryVars, ticketVars, paymentVars>>

(***************************************************************************)
(* TicketTypeService.update_ticket_type: reads the row under no lock,      *)
(* checks total_quantity against it and writes at the commit.              *)
(***************************************************************************)
CheckResize(tt, n) ==
  /\ n >= sold[tt]
  /\ n # total[tt]
  /\ resizing' = resizing \cup {<<tt, n>>}
  /\ UNCHANGED <<total, sold, onSale, lotteryVars, ticketVars, paymentVars>>

WriteTotal(tt, n) ==
  /\ <<tt, n>> \in resizing
  /\ resizing' = resizing \ {<<tt, n>>}
  /\ total' = [total EXCEPT ![tt] = n]
  /\ UNCHANGED <<sold, onSale, lotteryVars, ticketVars, paymentVars>>

\* mutant: the commit trusts the check of the handler
CommitUnchecked(tt, n) == WriteTotal(tt, n)

\* chk_ticket_types_capacity compares with what was sold since.
CommitResize(tt, n) ==
  /\ n >= sold[tt]
  /\ WriteTotal(tt, n)

RefuseResize(tt, n) ==
  /\ <<tt, n>> \in resizing
  /\ n < sold[tt]
  /\ resizing' = resizing \ {<<tt, n>>}
  /\ UNCHANGED <<total, sold, onSale, lotteryVars, ticketVars, paymentVars>>

(***************************************************************************)
(* LotteryCampaignService                                                  *)
(***************************************************************************)
AddCampaign(c, p) ==
  /\ campaign[c] = "absent"
  /\ campaign' = [campaign EXCEPT ![c] = "open"]
  /\ phase' = [phase EXCEPT ![c] = p]
  /\ drawn' = [drawn EXCEPT ![c] = FALSE]
  /\ UNCHANGED <<rank, entry, catalogVars, ticketVars, paymentVars>>

\* Any status, any window; chk_lottery_campaigns_window keeps the end of the
\* window at or before draw_at once that is set.
UpdateCampaign(c, s, p) ==
  /\ campaign[c] # "absent"
  /\ drawn[c] => p \in {"boundary", "closed"}
  /\ campaign' = [campaign EXCEPT ![c] = s]
  /\ phase' = [phase EXCEPT ![c] = p]
  /\ UNCHANGED <<drawn, rank, entry, catalogVars, ticketVars, paymentVars>>

\* entries go with the campaign, and tickets lose their lottery_entry_id
DeleteCampaign(c) ==
  /\ campaign[c] # "absent"
  /\ campaign' = [campaign EXCEPT ![c] = "absent"]
  /\ entry' = [e \in Fans \X Campaigns |-> IF e[2] = c THEN "none" ELSE entry[e]]
  /\ entryOf' = [t \in TicketIds |-> IF entryOf[t] # NoEntry /\ entryOf[t][2] = c THEN NoEntry ELSE entryOf[t]]
  /\ UNCHANGED <<phase, drawn, rank, catalogVars, status, tier, due, paymentVars>>

(***************************************************************************)
(* TicketService, the admin operations                                     *)
(***************************************************************************)
Entries == {e \in Fans \X Campaigns : entry[e] # "none"}

\* sold_quantity is left alone; any entry may be named
AddTicket(u, tt, t, e) ==
  /\ ~HoldsLiveTicket(u)
  /\ t \in FreshTickets(u)
  /\ status' = [status EXCEPT ![t] = "reserved"]
  /\ tier' = [tier EXCEPT ![t] = tt]
  /\ entryOf' = [entryOf EXCEPT ![t] = e]
  /\ UNCHANGED <<due, catalogVars, lotteryVars, paymentVars>>

\* the trigger on tickets fires on INSERT only
UpdateTicket(t, s, d, k) ==
  /\ status[t] # "none"
  /\ status' = [status EXCEPT ![t] = s]
  /\ due' = [due EXCEPT ![t] = d]
  /\ paidBy' = [paidBy EXCEPT ![t] = k]
  /\ UNCHANGED <<tier, entryOf, catalogVars, lotteryVars, payment, payFor>>

\* payments of the ticket are deleted with it
DeleteTicket(t) ==
  LET gone == {k \in Keys : payFor[k] = t}
  IN  /\ status[t] # "none"
      /\ status' = [status EXCEPT ![t] = "none"]
      /\ tier' = [tier EXCEPT ![t] = NoTier]
      /\ entryOf' = [entryOf EXCEPT ![t] = NoEntry]
      /\ due' = [due EXCEPT ![t] = "none"]
      /\ paidBy' = [x \in TicketIds |-> IF x = t \/ paidBy[x] \in gone THEN NoKey ELSE paidBy[x]]
      /\ payment' = [k \in Keys |-> IF k \in gone THEN "none" ELSE payment[k]]
      /\ payFor' = [k \in Keys |-> IF k \in gone THEN NoTicket ELSE payFor[k]]
      /\ UNCHANGED <<catalogVars, lotteryVars>>

ManagerNext ==
  \/ \E tt \in Tiers, n \in Quantities : CheckResize(tt, n) \/ CommitResize(tt, n) \/ RefuseResize(tt, n)
  \/ \E c \in Campaigns, p \in Phases : AddCampaign(c, p)
  \/ \E c \in Campaigns, s \in CampaignStatus, p \in Phases : UpdateCampaign(c, s, p)
  \/ \E c \in Campaigns : DeleteCampaign(c)

TicketAdminNext ==
  \/ \E u \in Fans, tt \in Tiers, e \in Entries \cup {NoEntry} :
       \E t \in FreshTickets(u) : AddTicket(u, tt, t, e)
  \/ \E t \in TicketIds, s \in TicketStatus :
       \E d \in {due[t], "ahead", "past"}, k \in {paidBy[t]} \cup {k \in Keys : payment[k] # "none"} :
         UpdateTicket(t, s, d, k)
  \/ \E t \in TicketIds : DeleteTicket(t)
=============================================================================
