------------------------------ MODULE Lottery -------------------------------
(***************************************************************************)
(* The lottery of one concert: fans rank tiers, apply to campaigns, and a  *)
(* draw hands out the seats rank by rank.  Every handler is one            *)
(* transaction; the interleavings inside the handlers are modelled in      *)
(* LotteryTransactions.                                                    *)
(***************************************************************************)
EXTENDS ConcertState

\* entry_start_at <= now <= entry_end_at
InEntryWindow(c) == phase[c] \in {"running", "boundary"}

\* A draw refuses a campaign with entry_end_at > now.
EntriesEnded(c) == phase[c] \in {"boundary", "closed"}

CampaignsOf(S) == {c \in Campaigns : TierOf[c] \in S /\ campaign[c] \notin {"absent", "cancelled"}}

Ranked(r) == {tt \in LotteryTiers : r[tt] # 0}

\* the rankings a list of distinct tiers gives: positions 1, 2, ... with no gap
Rankings ==
  {r \in [LotteryTiers -> 0..MaxRank] :
     /\ \A tt \in Ranked(r), uu \in Ranked(r) : tt # uu => r[tt] # r[uu]
     /\ \A tt \in Ranked(r) : r[tt] <= Cardinality(Ranked(r))}

(***************************************************************************)
(* LotteryPreferenceService                                                *)
(***************************************************************************)
\* mutant: entered tiers may be removed
RankingChangeIgnoresEntries(u, r) ==
  LET current == Ranked(rank[u])
      new == Ranked(r)
      campaigns == CampaignsOf(current \cup new)
  IN  /\ \A c \in campaigns : campaign[c] = "open" /\ phase[c] # "closed"
      /\ \A tt \in new : \E c \in campaigns : TierOf[c] = tt /\ phase[c] # "upcoming"

RankingChangeAllowed(u, r) ==
  LET current == Ranked(rank[u])
      new == Ranked(r)
      campaigns == CampaignsOf(current \cup new)
  IN  /\ \A c \in campaigns : campaign[c] = "open" /\ phase[c] # "closed"
      \* campaigns_by_tier keeps one campaign per tier, whichever came last
      /\ \A tt \in new : \E c \in campaigns : TierOf[c] = tt /\ phase[c] # "upcoming"
      /\ \A c \in Campaigns : TierOf[c] \in current \ new => entry[<<u, c>>] # "pending"

SetPreferences(u, r) ==
  /\ Ranked(r) # {}
  /\ RankingChangeAllowed(u, r)
  /\ rank' = [rank EXCEPT ![u] = r]
  /\ UNCHANGED <<campaign, phase, drawn, entry>>
  /\ UNCHANGED <<catalogVars, ticketVars, paymentVars>>

NoRanking == [tt \in LotteryTiers |-> 0]

ClearMyPreferences(u) ==
  /\ RankingChangeAllowed(u, NoRanking)
  /\ rank' = [rank EXCEPT ![u] = NoRanking]
  /\ UNCHANGED <<campaign, phase, drawn, entry>>
  /\ UNCHANGED <<catalogVars, ticketVars, paymentVars>>

(***************************************************************************)
(* LotteryEntryService                                                     *)
(***************************************************************************)
CanStageEntry(u, c) ==
  /\ campaign[c] = "open"
  /\ InEntryWindow(c)
  /\ ~HoldsLiveTicket(u)
  /\ rank[u][TierOf[c]] # 0
  /\ entry[<<u, c>>] = "none"  \* existing_count < max_entries_per_user = 1

ApplyToLottery(u, c) ==
  /\ CanStageEntry(u, c)
  /\ entry' = [entry EXCEPT ![<<u, c>>] = "pending"]
  /\ UNCHANGED <<campaign, phase, drawn, rank>>
  /\ UNCHANGED <<catalogVars, ticketVars, paymentVars>>

\* all entries of the batch or none
ApplyToLotteries(u, C) ==
  /\ \A c \in C : CanStageEntry(u, c)
  /\ entry' = [e \in Fans \X Campaigns |->
                 IF e[1] = u /\ e[2] \in C THEN "pending" ELSE entry[e]]
  /\ UNCHANGED <<campaign, phase, drawn, rank>>
  /\ UNCHANGED <<catalogVars, ticketVars, paymentVars>>

(***************************************************************************)
(* LotteryDrawService.draw_lottery                                         *)
(***************************************************************************)
OpenCampaigns == {c \in Campaigns : campaign[c] = "open"}
PendingEntries == {e \in Fans \X OpenCampaigns : entry[e] = "pending"}
EntryRank(e) == rank[e[1]][TierOf[e[2]]]

\* the order in which the campaigns query returned its rows
ScanOrders ==
  {pos \in [OpenCampaigns -> 1..Cardinality(OpenCampaigns)] :
     \A c \in OpenCampaigns, d \in OpenCampaigns : c # d => pos[c] # pos[d]}

\* mutant: the campaigns are drawn one after the other, whatever the ranks
CampaignBefore(w, r, c, pos) == pos[w[2]] < pos[c]

\* the loops over ranks and campaigns reach w before they reach <<r, c>>
DrawnBefore(w, r, c, pos) ==
  EntryRank(w) < r \/ (EntryRank(w) = r /\ pos[w[2]] < pos[c])

\* The candidates of a campaign at a rank: pending, of that rank, and of no
\* fan who has won in an earlier step.
Candidates(W, r, c, pos) ==
  {e \in PendingEntries :
     /\ e[2] = c
     /\ EntryRank(e) = r
     /\ \A w \in W : w[1] = e[1] => ~DrawnBefore(w, r, c, pos)}

\* mutant: winners of every tier are counted
SeatsLeftInConcert(W, r, c, pos) ==
  SeatsLeft(TierOf[c]) - Cardinality({w \in W : DrawnBefore(w, r, c, pos)})

SeatsLeftAt(W, r, c, pos) ==
  SeatsLeft(TierOf[c])
    - Cardinality({w \in W : TierOf[w[2]] = TierOf[c] /\ DrawnBefore(w, r, c, pos)})

Smaller(m, n) == IF m <= n THEN m ELSE n

\* W is what the random samples of one run of the cascade may have picked.
IsDraw(W, pos) ==
  \A r \in 1..MaxRank, c \in OpenCampaigns :
    LET cand == Candidates(W, r, c, pos)
        won == {w \in W : w[2] = c /\ EntryRank(w) = r}
    IN  /\ won \subseteq cand
        /\ Cardinality(won) = Smaller(Cardinality(cand), SeatsLeftAt(W, r, c, pos))

\* a ticket row for each winning entry; the trigger on tickets refuses a
\* second live one for a fan, which rolls the whole draw back
WinningTickets(W) ==
  {slot \in [W -> TicketIds] :
     \A w \in W : /\ slot[w] \in FreshTickets(w[1])
                  /\ ~HoldsLiveTicket(w[1])
                  /\ \A v \in W : v # w => v[1] # w[1]}

\* mutant: the entry of some winner
EntryOfAnyWinner(W, slot, t) == CHOOSE w \in W : TRUE

\* the entry a ticket is issued for
EntryWon(W, slot, t) == CHOOSE w \in W : slot[w] = t

\* mutant: the ticket of some winner's tier
TierOfAnyWinner(W, slot, t) == TierOf[(CHOOSE w \in W : TRUE)[2]]

\* the tier of the entry a ticket is issued for
TierWon(W, slot, t) == TierOf[EntryWon(W, slot, t)[2]]

AwardSeats(W, slot) ==
  /\ entry' = [e \in Fans \X Campaigns |->
                 IF e \in W THEN "won" ELSE IF e \in PendingEntries THEN "lost" ELSE entry[e]]
  /\ status' = [t \in TicketIds |-> IF \E w \in W : slot[w] = t THEN "pending_payment" ELSE status[t]]
  /\ due' = [t \in TicketIds |-> IF \E w \in W : slot[w] = t THEN "ahead" ELSE due[t]]
  /\ tier' = [t \in TicketIds |-> IF \E w \in W : slot[w] = t THEN TierWon(W, slot, t) ELSE tier[t]]
  /\ entryOf' = [t \in TicketIds |-> IF \E w \in W : slot[w] = t THEN EntryWon(W, slot, t) ELSE entryOf[t]]
  /\ sold' = [tt \in Tiers |-> sold[tt] + Cardinality({w \in W : TierOf[w[2]] = tt})]
  /\ campaign' = [c \in Campaigns |-> IF c \in OpenCampaigns THEN "drawn" ELSE campaign[c]]
  /\ drawn' = [c \in Campaigns |-> drawn[c] \/ c \in OpenCampaigns]
  /\ UNCHANGED <<total, resizing, onSale, phase, rank, paymentVars>>

DrawLottery ==
  /\ OpenCampaigns # {}
  /\ \A c \in OpenCampaigns : EntriesEnded(c)
  /\ \A e \in PendingEntries : EntryRank(e) # 0  \* next() finds a preference
  /\ \E pos \in ScanOrders, W \in SUBSET PendingEntries :
       /\ IsDraw(W, pos)
       /\ \E slot \in WinningTickets(W) : AwardSeats(W, slot)

(***************************************************************************)
(* The entry window of a campaign: time passes.                            *)
(***************************************************************************)
Later(p, q) ==
  \/ p = "upcoming" /\ q \in {"running", "boundary", "closed"}
  \/ p = "running" /\ q \in {"boundary", "closed"}
  \/ p = "boundary" /\ q = "closed"

WindowMoves(c) ==
  /\ \E p \in Phases : Later(phase[c], p) /\ phase' = [phase EXCEPT ![c] = p]
  /\ UNCHANGED <<campaign, drawn, rank, entry>>
  /\ UNCHANGED <<catalogVars, ticketVars, paymentVars>>

LotteryNext ==
  \/ \E u \in Fans, r \in Rankings : SetPreferences(u, r)
  \/ \E u \in Fans : ClearMyPreferences(u)
  \/ \E u \in Fans, c \in Campaigns : ApplyToLottery(u, c)
  \/ \E u \in Fans, C \in SUBSET Campaigns : Cardinality(C) > 1 /\ ApplyToLotteries(u, C)
  \/ DrawLottery
  \/ \E c \in Campaigns : WindowMoves(c)
=============================================================================
