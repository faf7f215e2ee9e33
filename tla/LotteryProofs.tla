--------------------------- MODULE LotteryProofs ---------------------------
(***************************************************************************)
(* The draw keeps what it owes to the rankings, for any number of fans,    *)
(* tiers, campaigns and seats: entries in play stay ranked, a seat goes to *)
(* whoever ranked it higher, and an entry loses only for want of a seat.   *)
(***************************************************************************)
EXTENDS ConcertProofs

-----------------------------------------------------------------------------
(***************************************************************************)
(* Entries in play                                                         *)
(***************************************************************************)
\* Only a draw decides an entry.
LEMMA OnlyDrawsDecide ==
  ASSUME TypeOK, [Next]_vars, ~DrawLottery, NEW e \in Fans \X Campaigns, entry[e] = "pending"
  PROVE  entry'[e] \in {"pending", "none"}
<1>1. CASE UNCHANGED entry BY <1>1
<1>2. CASE \E u \in Fans, c \in Campaigns : ApplyToLottery(u, c)
  BY <1>2 DEF ApplyToLottery, TypeOK
<1>3. CASE \E u \in Fans, C \in SUBSET Campaigns : Cardinality(C) > 1 /\ ApplyToLotteries(u, C)
  BY <1>3 DEF ApplyToLotteries
<1>4. CASE \E c \in Campaigns : DeleteCampaign(c)
  BY <1>4 DEF DeleteCampaign
<1>5. CASE SalesNext
  <2>1. UNCHANGED entry
    BY <1>5 DEF SalesNext, CheckoutTicket, CheckoutWonTicketTooLate, CheckoutWonTicket, ExpireTicket,
                FinalizeTooLate, FinalizeCompleted, FinalizeFailed, DeadlinePasses, lotteryVars
  <2> QED BY <1>1, <2>1
<1>6. CASE LotteryNext
  BY <1>1, <1>2, <1>3, <1>6 DEF LotteryNext, SetPreferences, ClearMyPreferences, WindowMoves
<1>7. CASE ManagerNext
  BY <1>1, <1>4, <1>7 DEF ManagerNext, CheckResize, CommitResize, WriteTotal, RefuseResize, AddCampaign, UpdateCampaign, lotteryVars
<1> QED BY <1>1, <1>5, <1>6, <1>7 DEF Next, FanNext, DirectSaleTurns, lotteryVars, vars

\* The rank of an entry in play is never taken away, and an entry is only
\* made of a ranked tier.
LEMMA StepKeepsRanks == TypeOK /\ PendingEntriesRanked /\ [Next]_vars => PendingEntriesRanked'
<1> SUFFICES ASSUME TypeOK, PendingEntriesRanked, [Next]_vars,
                    NEW u \in Fans, NEW c \in Campaigns, entry'[<<u, c>>] = "pending"
             PROVE  rank'[u][TierOf[c]] # 0
  BY DEF PendingEntriesRanked
<1>1. TierOf[c] \in LotteryTiers BY ConcertAssumption
<1>2. CASE rank' = rank /\ (entry[<<u, c>>] = "pending" \/ CanStageEntry(u, c))
  BY <1>2 DEF PendingEntriesRanked, CanStageEntry
<1>3. CASE \E v \in Fans, r \in Rankings : SetPreferences(v, r)
  BY <1>1, <1>3 DEF SetPreferences, RankingChangeAllowed, Ranked, PendingEntriesRanked, TypeOK, Rankings
<1>4. CASE \E v \in Fans : ClearMyPreferences(v)
  BY <1>1, <1>4 DEF ClearMyPreferences, RankingChangeAllowed, Ranked, NoRanking, PendingEntriesRanked, TypeOK
<1>5. CASE \E v \in Fans, d \in Campaigns : ApplyToLottery(v, d)
  BY <1>2, <1>5 DEF ApplyToLottery, TypeOK
<1>6. CASE \E v \in Fans, C \in SUBSET Campaigns : Cardinality(C) > 1 /\ ApplyToLotteries(v, C)
  BY <1>2, <1>6 DEF ApplyToLotteries, TypeOK
<1>7. CASE DrawLottery
  BY <1>2, <1>7 DEF DrawLottery, AwardSeats
<1>8. CASE SalesNext
  <2>1. UNCHANGED <<rank, entry>>
    BY <1>8 DEF SalesNext, CheckoutTicket, CheckoutWonTicketTooLate, CheckoutWonTicket, ExpireTicket,
                FinalizeTooLate, FinalizeCompleted, FinalizeFailed, DeadlinePasses, lotteryVars
  <2> QED BY <1>2, <2>1
<1>9. CASE ManagerNext
  <2>1. rank' = rank /\ entry[<<u, c>>] = "pending"
    BY <1>9 DEF ManagerNext, CheckResize, CommitResize, WriteTotal, RefuseResize, AddCampaign, UpdateCampaign, DeleteCampaign, lotteryVars
  <2> QED BY <1>2, <2>1
<1>10. CASE LotteryNext
  BY <1>2, <1>3, <1>4, <1>5, <1>6, <1>7, <1>10 DEF LotteryNext, WindowMoves
<1> QED BY <1>2, <1>8, <1>9, <1>10 DEF Next, FanNext, DirectSaleTurns, lotteryVars, vars

\* The draw finds a preference for every entry (lottery_preference_service
\* 21-22), with managers changing campaigns meanwhile.
THEOREM EntriesStayRanked == Spec => []PendingEntriesRanked
<1>1. Init => PendingEntriesRanked
  BY DEF Init, PendingEntriesRanked
<1> QED BY <1>1, InitTypeOK, StepTypeOK, StepKeepsRanks, PTL DEF Spec
-----------------------------------------------------------------------------
(***************************************************************************)
(* The cascade                                                             *)
(***************************************************************************)
\* What a draw may decide is finite and ranked.
LEMMA EntriesFinite ==
  ASSUME TypeOK, NEW W \in SUBSET PendingEntries
  PROVE  /\ IsFiniteSet(W) /\ Cardinality(W) \in Nat
         /\ \A e \in PendingEntries : /\ e[1] \in Fans /\ e[2] \in OpenCampaigns /\ e[2] \in Campaigns
                                      /\ e \in Fans \X Campaigns /\ TierOf[e[2]] \in LotteryTiers
                                      /\ EntryRank(e) \in 0..MaxRank
<1>1. PendingEntries \in SUBSET (Fans \X Campaigns) BY DEF PendingEntries, OpenCampaigns
<1>2. IsFiniteSet(Fans \X Campaigns) BY ConcertAssumption, FS_Product
<1>3. W \in SUBSET (Fans \X Campaigns) BY <1>1
<1>4. IsFiniteSet(W) /\ Cardinality(W) \in Nat BY <1>2, <1>3, FS_Subset, FS_CardinalityType
<1>5. ASSUME NEW e \in PendingEntries
      PROVE  /\ e[1] \in Fans /\ e[2] \in OpenCampaigns /\ e[2] \in Campaigns
             /\ e \in Fans \X Campaigns
    BY <1>1 DEF PendingEntries
<1>6. ASSUME NEW e \in PendingEntries PROVE TierOf[e[2]] \in LotteryTiers /\ EntryRank(e) \in 0..MaxRank
  BY <1>5, ConcertAssumption DEF EntryRank, TypeOK
<1> QED BY <1>4, <1>5, <1>6

\* The winners a stage counts, those of the stage and those of earlier ones.
Earlier(W, r, c, pos) == {w \in W : TierOf[w[2]] = TierOf[c] /\ DrawnBefore(w, r, c, pos)}
Stage(W, r, c) == {w \in W : w[2] = c /\ EntryRank(w) = r}

\* A stage takes all its candidates, or exactly as many as there are seats
\* left, and never more.
LEMMA StageFills ==
  ASSUME TypeOK, NEW pos \in ScanOrders, NEW W \in SUBSET PendingEntries, IsDraw(W, pos),
         NEW r \in 1..MaxRank, NEW c \in OpenCampaigns
  PROVE  LET left == SeatsLeft(TierOf[c]) - Cardinality(Earlier(W, r, c, pos))
         IN  /\ Cardinality(Stage(W, r, c)) \in Nat /\ left \in Int
             /\ Cardinality(Stage(W, r, c)) <= left
             /\ Stage(W, r, c) = Candidates(W, r, c, pos) \/ Cardinality(Stage(W, r, c)) = left
<1> DEFINE cand == Candidates(W, r, c, pos)
           won == Stage(W, r, c)
           left == SeatsLeftAt(W, r, c, pos)
<1>1. /\ won \subseteq cand
      /\ Cardinality(won) = Smaller(Cardinality(cand), left)
  BY DEF IsDraw, Stage
<1>2. cand \in SUBSET PendingEntries /\ won \in SUBSET PendingEntries
      /\ Earlier(W, r, c, pos) \in SUBSET PendingEntries
  BY DEF Candidates, Stage, Earlier
<1>3. /\ IsFiniteSet(cand) /\ Cardinality(cand) \in Nat
      /\ IsFiniteSet(won) /\ Cardinality(won) \in Nat
      /\ Cardinality(Earlier(W, r, c, pos)) \in Nat
  BY <1>2, EntriesFinite
<1>4. SeatsLeft(TierOf[c]) \in Int
  <2>1. TierOf[c] \in Tiers BY ConcertAssumption DEF OpenCampaigns, Tiers
  <2> QED BY <2>1 DEF SeatsLeft, TypeOK
<1>5. left = SeatsLeft(TierOf[c]) - Cardinality(Earlier(W, r, c, pos)) /\ left \in Int
  BY <1>3, <1>4 DEF SeatsLeftAt, Earlier
<1>6. CASE Cardinality(won) = Cardinality(cand)
  <2>1. won = cand BY <1>1, <1>3, <1>6, FS_Subset
  <2>2. Cardinality(won) <= left BY <1>1, <1>3, <1>5 DEF Smaller
  <2> QED BY <1>3, <1>5, <2>1, <2>2
<1>7. CASE Cardinality(won) # Cardinality(cand)
  <2>1. Cardinality(won) = left BY <1>1, <1>3, <1>5, <1>7 DEF Smaller
  <2> QED BY <1>3, <1>5, <2>1
<1> QED BY <1>6, <1>7

\* The winners of f's tier up to f's stage.
UpTo(W, f, pos) == Earlier(W, EntryRank(f), f[2], pos) \cup Stage(W, EntryRank(f), f[2])

\* An entry whose fan won nothing ranked as high is left out only when the
\* winners up to its stage have taken every seat.
LEMMA SeatsRunOut ==
  ASSUME TypeOK, NEW pos \in ScanOrders, NEW W \in SUBSET PendingEntries, IsDraw(W, pos),
         NEW f \in PendingEntries, f \notin W, EntryRank(f) # 0,
         ~\E w \in W : w[1] = f[1] /\ EntryRank(w) <= EntryRank(f)
  PROVE  /\ UpTo(W, f, pos) \subseteq W
         /\ Cardinality(UpTo(W, f, pos)) = SeatsLeft(TierOf[f[2]])
<1> DEFINE r == EntryRank(f)
           c == f[2]
           before == Earlier(W, r, c, pos)
           now == Stage(W, r, c)
<1>1. r \in 1..MaxRank /\ c \in OpenCampaigns
  BY EntriesFinite, MaxRankNat
<1>2. \A w \in W : EntryRank(w) \in Nat
  BY EntriesFinite, MaxRankNat
<1>3. f \in Candidates(W, r, c, pos)
  BY <1>1, <1>2 DEF Candidates, DrawnBefore
<1>4. f \notin now
  BY DEF Stage
<1>5. Cardinality(now) = SeatsLeft(TierOf[c]) - Cardinality(before)
  BY <1>1, <1>3, <1>4, StageFills
<1>6. before \in SUBSET PendingEntries /\ now \in SUBSET PendingEntries
  BY DEF Earlier, Stage
<1>7. before \cap now = {}
  BY <1>1 DEF Earlier, Stage, DrawnBefore, ScanOrders
<1>8. Cardinality(before \cup now) = Cardinality(before) + Cardinality(now)
  <2>1. /\ IsFiniteSet(before) /\ Cardinality(before) \in Nat
        /\ IsFiniteSet(now) /\ Cardinality(now) \in Nat
    BY <1>6, EntriesFinite
  <2>2. Cardinality(before \cap now) = 0 BY <1>7, FS_EmptySet
  <2>3. Cardinality(before \cup now) = Cardinality(before) + Cardinality(now) - Cardinality(before \cap now)
    BY <2>1, FS_Union
  <2> QED BY <2>1, <2>2, <2>3
<1>9. Cardinality(before) \in Nat /\ SeatsLeft(TierOf[c]) \in Int
  <2>1. TierOf[c] \in Tiers BY <1>1, ConcertAssumption DEF OpenCampaigns, Tiers
  <2> QED BY <1>6, <2>1, EntriesFinite DEF SeatsLeft, TypeOK
<1>10. Cardinality(before \cup now) = SeatsLeft(TierOf[c])
  BY <1>5, <1>8, <1>9
<1> QED BY <1>10 DEF UpTo, Earlier, Stage
\* A draw picks its winners in one order of the campaigns and writes them.
LEMMA DrawSteps ==
  ASSUME DrawLottery
  PROVE  \E pos \in ScanOrders, W \in SUBSET PendingEntries :
           /\ IsDraw(W, pos)
           /\ \E slot \in WinningTickets(W) : AwardSeats(W, slot)
           /\ \A e \in PendingEntries : EntryRank(e) # 0
           /\ \A e \in Fans \X Campaigns : Wins(e) <=> e \in W
           /\ \A e \in Fans \X Campaigns : Loses(e) => e \in PendingEntries /\ e \notin W
<1>1. PICK pos \in ScanOrders, W \in SUBSET PendingEntries :
        /\ IsDraw(W, pos)
        /\ \E slot \in WinningTickets(W) : AwardSeats(W, slot)
  BY DEF DrawLottery
<1>2. \A e \in Fans \X Campaigns :
        entry'[e] = IF e \in W THEN "won" ELSE IF e \in PendingEntries THEN "lost" ELSE entry[e]
  BY <1>1 DEF AwardSeats
<1>3. \A e \in W : entry[e] = "pending" BY DEF PendingEntries
<1>4. \A e \in PendingEntries : EntryRank(e) # 0 BY DEF DrawLottery
<1> QED BY <1>1, <1>2, <1>3, <1>4 DEF Wins, Loses

LEMMA OnlyDrawsWinOrLose ==
  ASSUME TypeOK, [Next]_vars, NEW e \in Fans \X Campaigns, Wins(e) \/ Loses(e)
  PROVE  DrawLottery
BY OnlyDrawsDecide DEF Wins, Loses

LEMMA DrawRespectsRanks ==
  ASSUME TypeOK, [Next]_vars,
         NEW e \in Fans \X Campaigns, NEW f \in Fans \X Campaigns,
         Wins(e), Loses(f), TierOf[e[2]] = TierOf[f[2]], EntryRank(f) < EntryRank(e)
  PROVE  \E c \in Campaigns : Wins(<<f[1], c>>) /\ EntryRank(<<f[1], c>>) <= EntryRank(f)
<1> SUFFICES ASSUME ~\E c \in Campaigns : Wins(<<f[1], c>>) /\ EntryRank(<<f[1], c>>) <= EntryRank(f)
             PROVE  FALSE
  OBVIOUS
<1>1. PICK pos \in ScanOrders, W \in SUBSET PendingEntries :
        /\ IsDraw(W, pos)
        /\ \A x \in PendingEntries : EntryRank(x) # 0
        /\ \A x \in Fans \X Campaigns : Wins(x) <=> x \in W
        /\ f \in PendingEntries /\ f \notin W
  BY OnlyDrawsWinOrLose, DrawSteps
<1>2. e \in W /\ e \in PendingEntries BY <1>1
<1>3. ~\E w \in W : w[1] = f[1] /\ EntryRank(w) <= EntryRank(f)
  <2> SUFFICES ASSUME NEW w \in W, w[1] = f[1], EntryRank(w) <= EntryRank(f) PROVE FALSE OBVIOUS
  <2>1. w \in Fans \X Campaigns /\ w[2] \in Campaigns BY EntriesFinite
  <2>2. w = <<f[1], w[2]>> BY <2>1
  <2> QED BY <1>1, <2>1, <2>2
<1> DEFINE r == EntryRank(e)
           c == e[2]
           taken == UpTo(W, f, pos)
<1>4. Cardinality(taken) = SeatsLeft(TierOf[c]) /\ taken \subseteq W
  BY <1>1, <1>3, SeatsRunOut
<1>5. /\ r \in 1..MaxRank /\ c \in OpenCampaigns /\ EntryRank(f) \in Nat
      /\ \A w \in W : EntryRank(w) \in Nat
  BY <1>1, <1>2, EntriesFinite, MaxRankNat
<1>6. taken \subseteq Earlier(W, r, c, pos)
  <2> SUFFICES ASSUME NEW w \in taken PROVE w \in Earlier(W, r, c, pos) OBVIOUS
  <2>1. w \in W /\ TierOf[w[2]] = TierOf[c] /\ EntryRank(w) <= EntryRank(f)
    BY <1>4, <1>5 DEF UpTo, Earlier, Stage, DrawnBefore
  <2> QED BY <1>5, <2>1 DEF Earlier, DrawnBefore
<1>7. Earlier(W, r, c, pos) \in SUBSET PendingEntries /\ taken \in SUBSET Earlier(W, r, c, pos)
  BY <1>6 DEF Earlier
<1>8. /\ Cardinality(taken) <= Cardinality(Earlier(W, r, c, pos))
      /\ Cardinality(taken) \in Nat /\ Cardinality(Earlier(W, r, c, pos)) \in Nat
  BY <1>4, <1>7, EntriesFinite, FS_Subset, FS_CardinalityType
<1>9. /\ Cardinality(Stage(W, r, c)) <= SeatsLeft(TierOf[c]) - Cardinality(Earlier(W, r, c, pos))
      /\ Cardinality(Stage(W, r, c)) \in Nat
  BY <1>1, <1>5, StageFills
<1>10. Cardinality(Stage(W, r, c)) = 0 BY <1>4, <1>8, <1>9
<1>11. Stage(W, r, c) \in SUBSET PendingEntries /\ e \in Stage(W, r, c)
  BY <1>2 DEF Stage
<1>12. IsFiniteSet(Stage(W, r, c)) BY <1>11, EntriesFinite
<1> QED BY <1>10, <1>11, <1>12, FS_EmptySet

\* No draw gives a seat to a fan over one who ranked the tier higher and won
\* nothing they wanted more (lottery_draw_service 62-84).
THEOREM RanksAreRespected == Spec => HigherRankFirst
<1>1. TypeOK /\ [Next]_vars =>
        [\A e \in Fans \X Campaigns, f \in Fans \X Campaigns :
           (Wins(e) /\ Loses(f) /\ TierOf[e[2]] = TierOf[f[2]] /\ EntryRank(f) < EntryRank(e)) =>
             \E c \in Campaigns : Wins(<<f[1], c>>) /\ EntryRank(<<f[1], c>>) <= EntryRank(f)]_vars
  BY DrawRespectsRanks
<1> QED BY <1>1, TypeCorrect, PTL DEF Spec, HigherRankFirst

LEMMA DrawLeavesNoSeat ==
  ASSUME CInv, [Next]_vars, NEW f \in Fans \X Campaigns, Loses(f),
         ~\E c \in Campaigns : Wins(<<f[1], c>>) /\ EntryRank(<<f[1], c>>) <= EntryRank(f)
  PROVE  sold'[TierOf[f[2]]] = total[TierOf[f[2]]]
<1>1. TypeOK /\ NotOversold' BY StepNotOversold DEF CInv, IInv
<1>2. PICK pos \in ScanOrders, W \in SUBSET PendingEntries :
        /\ IsDraw(W, pos)
        /\ \E slot \in WinningTickets(W) : AwardSeats(W, slot)
        /\ \A x \in PendingEntries : EntryRank(x) # 0
        /\ \A x \in Fans \X Campaigns : Wins(x) <=> x \in W
        /\ f \in PendingEntries /\ f \notin W
  BY <1>1, OnlyDrawsWinOrLose, DrawSteps
<1>3. ~\E w \in W : w[1] = f[1] /\ EntryRank(w) <= EntryRank(f)
  <2> SUFFICES ASSUME NEW w \in W, w[1] = f[1], EntryRank(w) <= EntryRank(f) PROVE FALSE OBVIOUS
  <2>1. w \in Fans \X Campaigns /\ w[2] \in Campaigns BY <1>1, EntriesFinite
  <2>2. w = <<f[1], w[2]>> BY <2>1
  <2> QED BY <1>2, <2>1, <2>2
<1> DEFINE tt == TierOf[f[2]]
           taken == UpTo(W, f, pos)
           won == {w \in W : TierOf[w[2]] = tt}
<1>4. Cardinality(taken) = SeatsLeft(tt) /\ taken \subseteq W
  BY <1>1, <1>2, <1>3, SeatsRunOut
<1>5. taken \in SUBSET won /\ won \in SUBSET PendingEntries
  BY <1>4 DEF UpTo, Earlier, Stage
<1>6. Cardinality(taken) <= Cardinality(won) /\ Cardinality(won) \in Nat
  BY <1>1, <1>5, EntriesFinite, FS_Subset
<1>7. tt \in Tiers BY ConcertAssumption DEF Tiers
<1>8. sold'[tt] = sold[tt] + Cardinality(won) /\ total' = total
  BY <1>2, <1>7 DEF AwardSeats
<1>9. sold'[tt] <= total[tt] BY <1>1, <1>7, <1>8 DEF NotOversold
<1>10. sold[tt] \in Int /\ total[tt] \in Nat BY <1>1, <1>7 DEF TypeOK
<1>11. Cardinality(taken) = total[tt] - sold[tt] BY <1>4 DEF SeatsLeft
<1> QED BY <1>6, <1>8, <1>9, <1>10, <1>11

\* An entry that loses had no seat of its tier left, or a better win of its
\* fan: the draw leaves no seat empty that somebody waits for.
THEOREM NoSeatIsWithheld == Spec => LosersHadNoSeat
<1>1. CInv /\ [Next]_vars =>
        [\A e \in Fans \X Campaigns :
           Loses(e) => \/ sold'[TierOf[e[2]]] = total[TierOf[e[2]]]
                       \/ \E c \in Campaigns : Wins(<<e[1], c>>) /\ EntryRank(<<e[1], c>>) <= EntryRank(e)]_vars
  BY DrawLeavesNoSeat
<1> QED BY <1>1, CapacityInvariant, PTL DEF Spec, LosersHadNoSeat
-----------------------------------------------------------------------------
(***************************************************************************)
(* The tickets of a draw                                                   *)
(***************************************************************************)
\* A ticket that does not exist has no deadline.
FreshRowsHaveNoDeadline == \A t \in TicketIds : status[t] = "none" => due[t] = "none"

TInv == TypeOK /\ FreshRowsHaveNoDeadline

\* Only a draw sets a deadline.
LEMMA OnlyDrawsSetDeadlines ==
  ASSUME TypeOK, [Next]_vars, ~DrawLottery
  PROVE  /\ \A t \in TicketIds : due'[t] # due[t] => due'[t] = "past" /\ status'[t] # "none"
         /\ \A t \in TicketIds : status'[t] = "none" => status[t] = "none"
<1>1. CASE UNCHANGED <<status, due>> BY <1>1
<1>2. CASE SalesNext
  <2>1. CASE \E t \in TicketIds : DeadlinePasses(t)
    BY <2>1 DEF DeadlinePasses, TypeOK
  <2>2. CASE ~\E t \in TicketIds : DeadlinePasses(t)
    <3>1. due' = due
      BY <1>2, <2>2 DEF SalesNext, CheckoutTicket, CheckoutWonTicketTooLate, CheckoutWonTicket, ExpireTicket,
                        FinalizeTooLate, FinalizeCompleted, FinalizeFailed
    <3>2. \A t \in TicketIds : status'[t] = "none" => status[t] = "none"
      <4>1. ASSUME NEW t, NEW x, x # "none", status' = [status EXCEPT ![t] = x]
            PROVE  \A y \in TicketIds : status'[y] = "none" => status[y] = "none"
        BY <4>1 DEF TypeOK
      <4>2. ASSUME NEW t, NEW tt, NEW k, NEW g \in Gateways, CreateTicketPayment(t, tt, k, g)
            PROVE  \A y \in TicketIds : status'[y] = "none" => status[y] = "none"
        <5>1. TicketAfter(g, tt) # "none" BY DEF TicketAfter, Gateways
        <5> QED BY <4>1, <4>2, <5>1 DEF CreateTicketPayment
      <4>3. ASSUME NEW k, NEW caller, FinalizeFailed(k, caller)
            PROVE  \A y \in TicketIds : status'[y] = "none" => status[y] = "none"
        <5> DEFINE x == IF tier[payFor[k]] \in DirectTiers THEN "cancelled" ELSE status[payFor[k]]
        <5>1. status[payFor[k]] = "pending_payment" BY <4>3 DEF FinalizeFailed, CanCapture, CanFinalize
        <5>2. status' = [status EXCEPT ![payFor[k]] = x] BY <4>3 DEF FinalizeFailed
        <5> QED BY <4>1, <5>1, <5>2
      <4>4. ASSUME NEW k, NEW caller, FinalizeCompleted(k, caller)
            PROVE  \A y \in TicketIds : status'[y] = "none" => status[y] = "none"
        BY <4>1, <4>4 DEF FinalizeCompleted
      <4>5. ASSUME NEW t, ExpireTicket(t)
            PROVE  \A y \in TicketIds : status'[y] = "none" => status[y] = "none"
        BY <4>1, <4>5 DEF ExpireTicket
      <4> QED BY <1>2, <2>2, <4>2, <4>3, <4>4, <4>5
              DEF SalesNext, CheckoutTicket, CheckoutWonTicketTooLate, CheckoutWonTicket, FinalizeTooLate
    <3> QED BY <3>1, <3>2 DEF TypeOK
  <2> QED BY <2>1, <2>2
<1>3. CASE LotteryNext
  BY <1>1, <1>3 DEF LotteryNext, SetPreferences, ClearMyPreferences, ApplyToLottery, ApplyToLotteries,
                    WindowMoves, ticketVars
<1>4. CASE ManagerNext
  BY <1>1, <1>4 DEF ManagerNext, CheckResize, CommitResize, WriteTotal, RefuseResize, AddCampaign, UpdateCampaign,
                    DeleteCampaign, ticketVars
<1> QED BY <1>1, <1>2, <1>3, <1>4 DEF Next, FanNext, DirectSaleTurns, ticketVars, vars

LEMMA StepKeepsFreshRows == TInv /\ [Next]_vars => FreshRowsHaveNoDeadline'
<1> SUFFICES ASSUME TInv, [Next]_vars PROVE FreshRowsHaveNoDeadline' OBVIOUS
<1>1. CASE DrawLottery BY <1>1 DEF DrawLottery, AwardSeats, TInv, FreshRowsHaveNoDeadline
<1>2. CASE ~DrawLottery BY <1>2, OnlyDrawsSetDeadlines DEF TInv, FreshRowsHaveNoDeadline
<1> QED BY <1>1, <1>2

\* What DrawIssuesOneTicketPerWinner says of one fan.
WinsOf(u) == {c \in Campaigns : Wins(<<u, c>>)}
NewTickets(u) == {t \in TicketIds : HolderOf(t) = u /\ due[t] = "none" /\ due'[t] = "ahead"}
OneTicketPerWin(u) ==
  /\ Cardinality(WinsOf(u)) <= 1
  /\ Cardinality(NewTickets(u)) = Cardinality(WinsOf(u))
  /\ \A t \in NewTickets(u) : \E c \in WinsOf(u) : tier'[t] = TierOf[c] /\ status'[t] = "pending_payment"

LEMMA WinnersGetOneTicket ==
  ASSUME TInv, [Next]_vars, NEW u \in Fans PROVE OneTicketPerWin(u)
<1>1. CASE ~DrawLottery
  <2>1. WinsOf(u) = {} BY <1>1, OnlyDrawsDecide DEF TInv, WinsOf, Wins
  <2>2. NewTickets(u) = {} BY <1>1, OnlyDrawsSetDeadlines DEF TInv, NewTickets
  <2> QED BY <2>1, <2>2, FS_EmptySet DEF OneTicketPerWin
<1>2. CASE DrawLottery
  <2>1. PICK W \in SUBSET PendingEntries :
          /\ \E slot \in WinningTickets(W) : AwardSeats(W, slot)
          /\ \A e \in Fans \X Campaigns : Wins(e) <=> e \in W
    BY <1>2, DrawSteps
  <2>2. PICK slot \in WinningTickets(W) : AwardSeats(W, slot) BY <2>1
  <2>3. \A w \in W : /\ slot[w] \in TicketIds /\ HolderOf(slot[w]) = w[1] /\ due[slot[w]] = "none"
                     /\ w[1] \in Fans /\ w[2] \in Campaigns /\ w = <<w[1], w[2]>>
                     /\ \A v \in W : v[1] = w[1] => v = w
    BY EntriesFinite DEF WinningTickets, FreshTickets, TInv, FreshRowsHaveNoDeadline
  <2>4. NewTickets(u) = {slot[w] : w \in {v \in W : v[1] = u}}
    <3>1. \A t \in TicketIds : due'[t] = IF \E w \in W : slot[w] = t THEN "ahead" ELSE due[t]
      BY <2>2 DEF AwardSeats
    <3> QED BY <2>3, <3>1 DEF NewTickets
  <2>5. WinsOf(u) = {w[2] : w \in {v \in W : v[1] = u}}
    BY <2>1, <2>3 DEF WinsOf
  <2>6. CASE {v \in W : v[1] = u} = {}
    <3>1. WinsOf(u) = {} /\ NewTickets(u) = {} BY <2>4, <2>5, <2>6
    <3> QED BY <3>1, FS_EmptySet DEF OneTicketPerWin
  <2>7. ASSUME NEW w \in W, w[1] = u PROVE OneTicketPerWin(u)
    <3>1. {v \in W : v[1] = u} = {w} BY <2>3, <2>7
    <3>2. WinsOf(u) = {w[2]} /\ NewTickets(u) = {slot[w]} BY <2>4, <2>5, <3>1
    <3>3. Cardinality({w[2]}) = 1 /\ Cardinality({slot[w]}) = 1 BY FS_Singleton
    <3>4. TierWon(W, slot, slot[w]) = TierOf[w[2]]
      <4>1. (CHOOSE v \in W : slot[v] = slot[w]) = w BY <2>3
      <4> QED BY <4>1 DEF TierWon, EntryWon
    <3>5. status'[slot[w]] = "pending_payment" /\ tier'[slot[w]] = TierOf[w[2]]
      BY <2>2, <2>3, <3>4 DEF AwardSeats
    <3> QED BY <3>2, <3>3, <3>5 DEF OneTicketPerWin
  <2> QED BY <2>6, <2>7
<1> QED BY <1>1, <1>2

\* Every winner of a draw gets one ticket, of the tier that was won, and
\* nobody else gets one (lottery_draw_service 72-90).
THEOREM WinnersAreIssuedOneTicket == Spec => DrawIssuesOneTicketPerWinner
<1>1. Init => TInv BY InitTypeOK DEF Init, TInv, FreshRowsHaveNoDeadline
<1>2. TInv /\ [Next]_vars => TInv' BY StepTypeOK, StepKeepsFreshRows DEF TInv
<1>3. TInv /\ [Next]_vars => [\A u \in Fans : OneTicketPerWin(u)]_vars BY WinnersGetOneTicket
<1>4. (\A u \in Fans : OneTicketPerWin(u)) =>
        \A u \in Fans :
          LET wins == {c \in Campaigns : Wins(<<u, c>>)}
              new == {t \in TicketIds : HolderOf(t) = u /\ due[t] = "none" /\ due'[t] = "ahead"}
          IN  /\ Cardinality(wins) <= 1
              /\ Cardinality(new) = Cardinality(wins)
              /\ \A t \in new : \E c \in wins : tier'[t] = TierOf[c] /\ status'[t] = "pending_payment"
  BY DEF OneTicketPerWin, WinsOf, NewTickets
<1> QED BY <1>1, <1>2, <1>3, <1>4, PTL DEF Spec, DrawIssuesOneTicketPerWinner
-----------------------------------------------------------------------------
(***************************************************************************)
(* Lottery and direct sale                                                 *)
(***************************************************************************)
\* On campaigns as announced, no entry outlives its draw and nobody has both
\* an entry in play and a ticket; the first is needed to keep the second.
PathInv ==
  /\ TypeOK
  /\ \A c \in Campaigns : campaign[c] \in {"open", "drawn"}
  /\ NoEntryLeftBehind
  /\ PathsExclusive

\* A sale makes a ticket live only for a fan without an entry in play.
LEMMA SalesLeaveEntrantsAlone ==
  ASSUME TypeOK, SalesNext, NEW t \in TicketIds, status'[t] \in LiveStatuses, status[t] \notin LiveStatuses
  PROVE  \A c \in Campaigns : entry[<<HolderOf(t), c>>] # "pending"
<1> USE DEF TypeOK
<1>1. CASE \E u \in Fans, tt \in DirectTiers, k \in Keys, g \in Gateways :
             \E x \in FreshTickets(u) : CheckoutTicket(u, tt, x, k, g)
  <2>0. PICK u \in Fans, tt \in DirectTiers, k \in Keys, g \in Gateways :
          \E x \in FreshTickets(u) : CheckoutTicket(u, tt, x, k, g)
    BY <1>1
  <2>1. PICK x \in FreshTickets(u) : CheckoutTicket(u, tt, x, k, g) BY <2>0
  <2>2. t = x /\ HolderOf(x) = u BY <2>1 DEF CheckoutTicket, CreateTicketPayment, FreshTickets
  <2>3. ~HasUnresolvedEntry(u) BY <2>1 DEF CheckoutTicket
  <2> QED BY <2>2, <2>3 DEF HasUnresolvedEntry
<1>2. CASE \E x \in TicketIds, k \in Keys : CheckoutWonTicketTooLate(x, k)
  BY <1>2 DEF CheckoutWonTicketTooLate, ExpireTicket, LiveStatuses
<1>3. CASE \E x \in TicketIds, k \in Keys, g \in Gateways : CheckoutWonTicket(x, k, g)
  BY <1>3 DEF CheckoutWonTicket, CreateTicketPayment, IsPayableWin, LiveStatuses
<1>4. ASSUME NEW k \in Keys, NEW caller, FinalizeTooLate(k, caller) PROVE FALSE
  BY <1>4 DEF FinalizeTooLate, ExpireTicket, LiveStatuses
<1>5. ASSUME NEW k \in Keys, NEW caller, FinalizeCompleted(k, caller) PROVE FALSE
  BY <1>5 DEF FinalizeCompleted, CanCapture, CanFinalize, LiveStatuses
<1>6. ASSUME NEW k \in Keys, NEW caller, FinalizeFailed(k, caller) PROVE FALSE
  <2> DEFINE x == IF tier[payFor[k]] \in DirectTiers THEN "cancelled" ELSE status[payFor[k]]
  <2>1. status' = [status EXCEPT ![payFor[k]] = x] BY <1>6 DEF FinalizeFailed
  <2> QED BY <2>1 DEF LiveStatuses
<1>7. CASE \E x \in TicketIds : DeadlinePasses(x) BY <1>7 DEF DeadlinePasses
<1> QED BY <1>1, <1>2, <1>3, <1>4, <1>5, <1>6, <1>7 DEF SalesNext

LEMMA DrawKeepsPaths == ASSUME PathInv, DrawLottery PROVE NoEntryLeftBehind' /\ PathsExclusive'
<1>1. PICK W \in SUBSET PendingEntries : \E slot \in WinningTickets(W) : AwardSeats(W, slot)
  BY DEF DrawLottery
<1>2. \A e \in Fans \X Campaigns : entry'[e] # "pending"
  <2> SUFFICES ASSUME NEW e \in Fans \X Campaigns, entry'[e] = "pending" PROVE FALSE OBVIOUS
  <2>1. e \notin PendingEntries /\ entry[e] = "pending" BY <1>1 DEF AwardSeats
  <2>2. e = <<e[1], e[2]>> /\ e[1] \in Fans /\ e[2] \in Campaigns OBVIOUS
  <2>3. campaign[e[2]] = "drawn" BY <2>1, <2>2 DEF PathInv, PendingEntries, OpenCampaigns
  <2> QED BY <2>1, <2>2, <2>3 DEF PathInv, NoEntryLeftBehind
<1> QED BY <1>2 DEF NoEntryLeftBehind, PathsExclusive

LEMMA StepKeepsPaths == PathInv /\ [FanNext]_vars => PathInv'
<1> SUFFICES ASSUME PathInv, [FanNext]_vars PROVE PathInv' OBVIOUS
<1>1. TypeOK' BY StepTypeOK DEF PathInv, Next
<1>2. CASE DrawLottery
  <2>1. \A c \in Campaigns : campaign'[c] \in {"open", "drawn"}
    BY <1>2 DEF DrawLottery, AwardSeats, PathInv
  <2> QED BY <1>1, <1>2, <2>1, DrawKeepsPaths DEF PathInv
<1>3. CASE UNCHANGED <<entry, campaign, status>>
  BY <1>1, <1>3 DEF PathInv, NoEntryLeftBehind, PathsExclusive, HoldsLiveTicket
<1>4. CASE SalesNext
  <2>1. UNCHANGED <<entry, campaign>>
    BY <1>4 DEF SalesNext, CheckoutTicket, CheckoutWonTicketTooLate, CheckoutWonTicket, ExpireTicket,
                FinalizeTooLate, FinalizeCompleted, FinalizeFailed, DeadlinePasses, lotteryVars
  <2>2. PathsExclusive'
    BY <1>4, <2>1, SalesLeaveEntrantsAlone DEF PathInv, PathsExclusive, HoldsLiveTicket
  <2> QED BY <1>1, <2>1, <2>2 DEF PathInv, NoEntryLeftBehind
<1>5. ASSUME NEW u \in Fans, NEW C \in SUBSET Campaigns, \A c \in C : CanStageEntry(u, c),
             entry' = [e \in Fans \X Campaigns |-> IF e[1] = u /\ e[2] \in C THEN "pending" ELSE entry[e]],
             UNCHANGED <<campaign, status>>
      PROVE  PathInv'
  <2>1. \A v \in Fans, d \in Campaigns :
          entry'[<<v, d>>] = "pending" => entry[<<v, d>>] = "pending" \/ (v = u /\ CanStageEntry(u, d))
    BY <1>5
  <2>2. \A v \in Fans : HoldsLiveTicket(v)' <=> HoldsLiveTicket(v) BY <1>5 DEF HoldsLiveTicket
  <2>3. NoEntryLeftBehind' BY <1>5, <2>1 DEF PathInv, NoEntryLeftBehind, CanStageEntry
  <2>4. PathsExclusive' BY <2>1, <2>2 DEF PathInv, PathsExclusive, CanStageEntry
  <2>5. \A c \in Campaigns : campaign'[c] \in {"open", "drawn"} BY <1>5 DEF PathInv
  <2> QED BY <1>1, <2>3, <2>4, <2>5 DEF PathInv
<1>6. CASE \E u \in Fans, c \in Campaigns : ApplyToLottery(u, c)
  <2>1. PICK u \in Fans, c \in Campaigns : ApplyToLottery(u, c) BY <1>6
  <2>2. entry' = [e \in Fans \X Campaigns |-> IF e[1] = u /\ e[2] \in {c} THEN "pending" ELSE entry[e]]
    <3>1. \A e \in Fans \X Campaigns : e = <<u, c>> <=> e[1] = u /\ e[2] \in {c} OBVIOUS
    <3>2. entry' = [entry EXCEPT ![<<u, c>>] = "pending"] /\ DOMAIN entry = Fans \X Campaigns
      BY <2>1 DEF ApplyToLottery, PathInv, TypeOK
    <3> QED BY <3>1, <3>2
  <2>3. UNCHANGED <<campaign, status>> /\ CanStageEntry(u, c) BY <2>1 DEF ApplyToLottery, ticketVars
  <2>4. {c} \in SUBSET Campaigns /\ \A d \in {c} : CanStageEntry(u, d) BY <2>3
  <2> QED BY <1>5, <2>2, <2>3, <2>4
<1>7. CASE \E u \in Fans, C \in SUBSET Campaigns : Cardinality(C) > 1 /\ ApplyToLotteries(u, C)
  BY <1>5, <1>7 DEF ApplyToLotteries, ticketVars
<1>8. CASE LotteryNext
  BY <1>2, <1>3, <1>6, <1>7, <1>8
     DEF LotteryNext, SetPreferences, ClearMyPreferences, WindowMoves, ticketVars
<1> QED BY <1>3, <1>4, <1>8 DEF FanNext, DirectSaleTurns, lotteryVars, ticketVars, vars

\* The two ways to a ticket exclude each other, so the trigger on tickets
\* never refuses a winner and with them the whole draw, and no entry stays
\* pending in a drawn campaign, where it would bar its fan from direct sales
\* (ticket_service 122-131).
THEOREM PathsStayExclusive == FanSpec => [](PathsExclusive /\ NoEntryLeftBehind)
<1>1. Init => PathInv
  BY InitTypeOK DEF Init, PathInv, NoEntryLeftBehind, PathsExclusive
<1>2. PathInv => PathsExclusive /\ NoEntryLeftBehind BY DEF PathInv
<1> QED BY <1>1, <1>2, StepKeepsPaths, PTL DEF FanSpec
-----------------------------------------------------------------------------
(***************************************************************************)
(* The result pages                                                        *)
(***************************************************************************)
\* A ticket row is made with its tier; the entry it names, if any, has won
\* that tier for its holder, and no other ticket names it.
TicketsAreOfWins ==
  /\ \A t \in TicketIds :
       /\ status[t] = "none" <=> tier[t] = NoTier
       /\ status[t] # "used"
       /\ entryOf[t] # NoEntry => entry[entryOf[t]] = "won" /\ IsTicketFor(t, entryOf[t])
  /\ \A t1 \in TicketIds, t2 \in TicketIds : entryOf[t1] = entryOf[t2] /\ entryOf[t1] # NoEntry => t1 = t2

\* Every win has its ticket, and its fan no live ticket that was bought.
WinsHaveTickets ==
  \A e \in Fans \X Campaigns : entry[e] = "won" =>
    /\ \E t \in TicketIds : entryOf[t] = e
    /\ \A t \in TicketIds : HolderOf(t) = e[1] /\ tier[t] \in DirectTiers => status[t] \notin LiveStatuses

PageInv == TypeOK /\ TicketsAreOfWins /\ WinsHaveTickets

\* A sale leaves the tier of every ticket, or makes one of a direct tier for
\* a fan who has not won.
SaleOf(t) ==
  \/ /\ tier'[t] = tier[t]
     /\ status'[t] = "none" <=> status[t] = "none"
     /\ status'[t] \in LiveStatuses => status[t] \in LiveStatuses
     /\ status'[t] = "used" => status[t] = "used"
  \/ /\ tier'[t] \in DirectTiers /\ status[t] = "none" /\ status'[t] \notin {"none", "used"}
     /\ ~HasUnresolvedEntry(HolderOf(t))

LEMMA SaleSteps == ASSUME TypeOK, SalesNext PROVE UNCHANGED <<lotteryVars, entryOf>> /\ \A t \in TicketIds : SaleOf(t)
<1> USE DEF TypeOK
<1>1. UNCHANGED <<lotteryVars, entryOf>>
  BY DEF SalesNext, CheckoutTicket, CheckoutWonTicketTooLate, CheckoutWonTicket, ExpireTicket, FinalizeTooLate,
         FinalizeCompleted, FinalizeFailed, DeadlinePasses
<1>2. ASSUME NEW x \in TicketIds, NEW s, status' = [status EXCEPT ![x] = s], tier' = tier,
             status[x] = "pending_payment",
             s \in {"paid", "pending_payment", "expired", "cancelled"}
      PROVE  \A t \in TicketIds : SaleOf(t)
  BY <1>2 DEF SaleOf, LiveStatuses
<1>3. ASSUME NEW u \in Fans, NEW tt \in DirectTiers, NEW k \in Keys, NEW g \in Gateways, NEW x \in FreshTickets(u),
             CheckoutTicket(u, tt, x, k, g)
      PROVE  \A t \in TicketIds : SaleOf(t)
  <2>1. TicketAfter(g, tt) \in {"paid", "cancelled", "pending_payment"} BY DEF TicketAfter, Gateways
  <2>2. /\ status' = [status EXCEPT ![x] = TicketAfter(g, tt)] /\ tier' = [tier EXCEPT ![x] = tt]
        /\ ~HasUnresolvedEntry(u)
    BY <1>3 DEF CheckoutTicket, CreateTicketPayment
  <2>3. x \in TicketIds /\ HolderOf(x) = u /\ status[x] = "none" BY DEF FreshTickets
  <2> QED BY <2>1, <2>2, <2>3 DEF SaleOf
<1>4. ASSUME NEW x \in TicketIds, NEW k \in Keys, CheckoutWonTicketTooLate(x, k) PROVE \A t \in TicketIds : SaleOf(t)
  BY <1>2, <1>4 DEF CheckoutWonTicketTooLate, ExpireTicket, IsPayableWin
<1>5. ASSUME NEW x \in TicketIds, NEW k \in Keys, NEW g \in Gateways, CheckoutWonTicket(x, k, g)
      PROVE  \A t \in TicketIds : SaleOf(t)
  <2>1. TicketAfter(g, tier[x]) \in {"paid", "cancelled", "pending_payment"} BY DEF TicketAfter, Gateways
  <2>2. status' = [status EXCEPT ![x] = TicketAfter(g, tier[x])] /\ tier' = tier /\ status[x] = "pending_payment"
    BY <1>5 DEF CheckoutWonTicket, CreateTicketPayment, IsPayableWin
  <2> QED BY <1>2, <2>1, <2>2
<1>6. ASSUME NEW k \in Keys, NEW caller \in Fans \cup {Webhook},
             FinalizeTooLate(k, caller) \/ FinalizeCompleted(k, caller) \/ FinalizeFailed(k, caller)
      PROVE  \A t \in TicketIds : SaleOf(t)
  <2> DEFINE x == payFor[k]
  <2>1. status[x] = "pending_payment" /\ tier' = tier
    BY <1>6 DEF FinalizeTooLate, FinalizeCompleted, FinalizeFailed, CanCapture, CanFinalize, ExpireTicket
  <2>2. \E s \in {"paid", "pending_payment", "expired", "cancelled"} : status' = [status EXCEPT ![x] = s]
    BY <1>6, <2>1 DEF FinalizeTooLate, FinalizeCompleted, FinalizeFailed, ExpireTicket
  <2>3. PICK s \in {"paid", "pending_payment", "expired", "cancelled"} : status' = [status EXCEPT ![x] = s] BY <2>2
  <2>4. CASE x \in TicketIds BY <1>2, <2>1, <2>3, <2>4
  <2>5. CASE x \notin TicketIds
    <3>1. status' = status BY <2>3, <2>5
    <3> QED BY <2>1, <3>1 DEF SaleOf
  <2> QED BY <2>4, <2>5
<1>7. CASE \E x \in TicketIds : DeadlinePasses(x) BY <1>7 DEF DeadlinePasses, SaleOf
<1> QED BY <1>1, <1>3, <1>4, <1>5, <1>6, <1>7 DEF SalesNext

LEMMA DrawKeepsPages == ASSUME PageInv, DrawLottery PROVE TicketsAreOfWins' /\ WinsHaveTickets'
<1>0. PICK W \in SUBSET PendingEntries : \E slot \in WinningTickets(W) : AwardSeats(W, slot) BY DEF DrawLottery
<1>1. PICK slot \in WinningTickets(W) : AwardSeats(W, slot) BY <1>0
<1>2. \A w \in W : /\ w \in Fans \X Campaigns /\ TierOf[w[2]] \in LotteryTiers
                   /\ entry[w] = "pending"
                   /\ slot[w] \in TicketIds /\ HolderOf(slot[w]) = w[1] /\ status[slot[w]] = "none"
                   /\ ~HoldsLiveTicket(w[1])
                   /\ \A v \in W : v[1] = w[1] => v = w
  BY ConcertAssumption DEF WinningTickets, FreshTickets, PendingEntries, OpenCampaigns
<1>3. \A e \in Fans \X Campaigns : /\ entry[e] = "won" => entry'[e] = "won"
                                   /\ entry'[e] = "won" <=> e \in W \/ entry[e] = "won"
  BY <1>1, <1>2 DEF AwardSeats, PendingEntries
<1>4. \A w \in W : /\ tier'[slot[w]] = TierOf[w[2]] /\ status'[slot[w]] = "pending_payment"
                   /\ entryOf'[slot[w]] = w
  <2> SUFFICES ASSUME NEW w \in W
               PROVE  /\ tier'[slot[w]] = TierOf[w[2]] /\ status'[slot[w]] = "pending_payment"
                      /\ entryOf'[slot[w]] = w
    OBVIOUS
  <2>1. EntryWon(W, slot, slot[w]) = w /\ slot[w] \in TicketIds BY <1>2 DEF EntryWon
  <2> QED BY <1>1, <2>1 DEF AwardSeats, TierWon
<1> DEFINE Issued == {slot[w] : w \in W}
<1>5. \A t \in TicketIds \ Issued : status'[t] = status[t] /\ tier'[t] = tier[t] /\ entryOf'[t] = entryOf[t]
  BY <1>1 DEF AwardSeats
<1>6. \A t \in TicketIds : entryOf[t] \in (Fans \X Campaigns) \cup {NoEntry} BY DEF PageInv, TypeOK
<1>7. \A t \in TicketIds \ Issued : entryOf[t] \notin W BY <1>2, ConcertAssumption DEF PageInv, TicketsAreOfWins
<1>8. TicketsAreOfWins'
  <2>1. ASSUME NEW t \in TicketIds
        PROVE  /\ status'[t] = "none" <=> tier'[t] = NoTier
               /\ status'[t] # "used"
               /\ entryOf'[t] # NoEntry => entry'[entryOf'[t]] = "won" /\ IsTicketFor(t, entryOf[t])'
    <3>1. CASE t \in Issued
      <4>1. PICK w \in W : t = slot[w] BY <3>1
      <4>2. entry'[w] = "won" /\ NoTier \notin LotteryTiers BY <1>2, <1>3, ConcertAssumption DEF Tiers
      <4> QED BY <1>2, <1>4, <4>1, <4>2 DEF IsTicketFor
    <3>2. CASE t \notin Issued
      BY <1>3, <1>5, <1>6, <3>2 DEF PageInv, TicketsAreOfWins, IsTicketFor
    <3> QED BY <3>1, <3>2
  <2>2. ASSUME NEW t1 \in TicketIds, NEW t2 \in TicketIds, entryOf'[t1] = entryOf'[t2], entryOf'[t1] # NoEntry
        PROVE  t1 = t2
    <3>1. CASE t1 \in Issued /\ t2 \in Issued BY <1>4, <2>2, <3>1
    <3>2. CASE t1 \notin Issued /\ t2 \notin Issued BY <1>5, <2>2, <3>2 DEF PageInv, TicketsAreOfWins
    <3>3. CASE (t1 \in Issued) # (t2 \in Issued) BY <1>4, <1>5, <1>7, <2>2, <3>3
    <3> QED BY <3>1, <3>2, <3>3
  <2> QED BY <2>1, <2>2 DEF TicketsAreOfWins
<1>9. WinsHaveTickets'
  <2> SUFFICES ASSUME NEW e \in Fans \X Campaigns, entry'[e] = "won"
               PROVE  /\ \E t \in TicketIds : entryOf'[t] = e
                      /\ \A t \in TicketIds :
                           HolderOf(t) = e[1] /\ tier'[t] \in DirectTiers => status'[t] \notin LiveStatuses
    BY DEF WinsHaveTickets
  <2>1. \A t \in Issued : tier'[t] \notin DirectTiers BY <1>2, <1>4, ConcertAssumption
  <2>2. CASE e \in W
    <3>1. slot[e] \in TicketIds /\ entryOf'[slot[e]] = e /\ ~HoldsLiveTicket(e[1]) BY <1>2, <1>4, <2>2
    <3> QED BY <1>5, <2>1, <3>1 DEF HoldsLiveTicket
  <2>3. CASE entry[e] = "won"
    <3>1. PICK t \in TicketIds : entryOf[t] = e BY <2>3 DEF PageInv, WinsHaveTickets
    <3>2. status[t] # "none"
      <4>1. IsTicketFor(t, e) /\ TierOf[e[2]] \in LotteryTiers /\ NoTier \notin LotteryTiers
        BY <3>1, ConcertAssumption DEF PageInv, TicketsAreOfWins, Tiers
      <4> QED BY <4>1 DEF PageInv, TicketsAreOfWins, IsTicketFor
    <3>3. t \notin Issued BY <1>2, <3>2
    <3> QED BY <1>5, <2>1, <2>3, <3>1, <3>3 DEF PageInv, WinsHaveTickets
  <2> QED BY <1>3, <2>2, <2>3
<1> QED BY <1>8, <1>9

\* Deleting a campaign deletes its entries and unlinks their tickets.
LEMMA DeletionKeepsPages ==
  ASSUME PageInv, NEW c \in Campaigns, DeleteCampaign(c) PROVE TicketsAreOfWins' /\ WinsHaveTickets'
<1>1. UNCHANGED <<status, tier>> BY DEF DeleteCampaign
<1>2. \A e \in Fans \X Campaigns : entry'[e] = IF e[2] = c THEN "none" ELSE entry[e] BY DEF DeleteCampaign
<1>3. \A t \in TicketIds : entryOf[t] \in (Fans \X Campaigns) \cup {NoEntry} BY DEF PageInv, TypeOK
<1>4. \A t \in TicketIds : entryOf'[t] = IF entryOf[t] # NoEntry /\ entryOf[t][2] = c THEN NoEntry ELSE entryOf[t]
  BY DEF DeleteCampaign
<1>5. TicketsAreOfWins'
  BY <1>1, <1>2, <1>3, <1>4 DEF PageInv, TicketsAreOfWins, IsTicketFor
<1>6. WinsHaveTickets'
  BY <1>1, <1>2, <1>4, ConcertAssumption DEF PageInv, WinsHaveTickets
<1> QED BY <1>5, <1>6

LEMMA StepKeepsPages == PageInv /\ [Next]_vars => PageInv'
<1> SUFFICES ASSUME PageInv, [Next]_vars PROVE PageInv' OBVIOUS
<1>1. TypeOK' BY StepTypeOK DEF PageInv
<1>2. CASE DrawLottery BY <1>1, <1>2, DrawKeepsPages DEF PageInv
<1>0. \A t \in TicketIds : entryOf[t] \in (Fans \X Campaigns) \cup {NoEntry} BY DEF PageInv, TypeOK
<1>3. CASE UNCHANGED <<status, tier, entryOf>> /\ \A e \in Fans \X Campaigns : entry'[e] = "won" <=> entry[e] = "won"
  <2>1. TicketsAreOfWins' BY <1>0, <1>3 DEF PageInv, TicketsAreOfWins, IsTicketFor
  <2>2. WinsHaveTickets' BY <1>3 DEF PageInv, WinsHaveTickets
  <2> QED BY <1>1, <2>1, <2>2 DEF PageInv
<1>4. CASE SalesNext
  <2>1. UNCHANGED <<entry, entryOf>> /\ \A t \in TicketIds : SaleOf(t) BY <1>4, SaleSteps DEF PageInv, lotteryVars
  <2>2. NoTier \notin DirectTiers /\ NoTier \notin LotteryTiers /\ LotteryTiers \cap DirectTiers = {}
    BY ConcertAssumption DEF Tiers
  <2>3. TicketsAreOfWins'
    <3>1. ASSUME NEW t \in TicketIds
          PROVE  (status'[t] = "none" <=> tier'[t] = NoTier) /\ status'[t] # "used"
      BY <2>1, <2>2 DEF PageInv, TicketsAreOfWins, SaleOf
    <3>2. ASSUME NEW t \in TicketIds, entryOf[t] # NoEntry PROVE entry[entryOf[t]] = "won" /\ IsTicketFor(t, entryOf[t])'
      <4>1. entry[entryOf[t]] = "won" /\ IsTicketFor(t, entryOf[t]) BY <3>2 DEF PageInv, TicketsAreOfWins
      <4>2. entryOf[t][2] \in Campaigns BY <1>0, <3>2
      <4>3. tier[t] # NoTier BY <2>2, <4>1, <4>2, ConcertAssumption DEF IsTicketFor
      <4>4. tier'[t] = tier[t] BY <2>1, <4>3 DEF PageInv, TicketsAreOfWins, SaleOf
      <4> QED BY <2>1, <4>1, <4>4 DEF IsTicketFor
    <3> QED BY <2>1, <3>1, <3>2 DEF PageInv, TicketsAreOfWins
  <2>4. WinsHaveTickets'
    <3> SUFFICES ASSUME NEW e \in Fans \X Campaigns, entry[e] = "won", NEW t \in TicketIds,
                        HolderOf(t) = e[1], tier'[t] \in DirectTiers
                 PROVE  status'[t] \notin LiveStatuses
      BY <2>1 DEF WinsHaveTickets, PageInv
    <3>1. HasUnresolvedEntry(HolderOf(t))
      <4>1. e = <<e[1], e[2]>> /\ e[2] \in Campaigns OBVIOUS
      <4> QED BY <4>1 DEF HasUnresolvedEntry
    <3> QED BY <2>1, <3>1 DEF SaleOf, PageInv, WinsHaveTickets
  <2> QED BY <1>1, <2>3, <2>4 DEF PageInv
<1>5. CASE \E u \in Fans, c \in Campaigns : ApplyToLottery(u, c)
  BY <1>3, <1>5 DEF ApplyToLottery, CanStageEntry, ticketVars, PageInv, TypeOK
<1>6. CASE \E u \in Fans, C \in SUBSET Campaigns : Cardinality(C) > 1 /\ ApplyToLotteries(u, C)
  <2>1. PICK u \in Fans, C \in SUBSET Campaigns : ApplyToLotteries(u, C) BY <1>6
  <2>2. \A e \in Fans \X Campaigns : e[1] = u /\ e[2] \in C => entry[e] = "none"
    <3>1. \A e \in Fans \X Campaigns : e = <<e[1], e[2]>> OBVIOUS
    <3> QED BY <2>1, <3>1 DEF ApplyToLotteries, CanStageEntry
  <2> QED BY <1>3, <2>1, <2>2 DEF ApplyToLotteries, ticketVars
<1>7. CASE LotteryNext
  BY <1>2, <1>3, <1>5, <1>6, <1>7
     DEF LotteryNext, SetPreferences, ClearMyPreferences, WindowMoves, ticketVars
<1>8. CASE ManagerNext
  <2>1. CASE \E c \in Campaigns : DeleteCampaign(c) BY <1>1, <2>1, DeletionKeepsPages DEF PageInv
  <2> QED BY <1>3, <1>8, <2>1
          DEF ManagerNext, CheckResize, CommitResize, WriteTotal, RefuseResize, AddCampaign, UpdateCampaign,
              lotteryVars, ticketVars
<1> QED BY <1>3, <1>4, <1>7, <1>8 DEF Next, FanNext, DirectSaleTurns, lotteryVars, ticketVars, vars

\* The results page shows one ticket, of the tier won, for every win and none
\* for a lost entry, and who is shown as a winner with a ticket did not buy
\* it, also with several campaigns on a tier and with managers who reopen
\* and delete campaigns meanwhile (concert_service 284-285,
\* lottery_entry_service 157-188).
THEOREM ResultPagesAgree == Spec => []PagesAgree
<1>1. Init => PageInv
  <2>1. NoTier \notin LotteryTiers BY ConcertAssumption DEF Tiers
  <2> QED BY <2>1, InitTypeOK DEF Init, PageInv, TicketsAreOfWins, WinsHaveTickets
<1>2. PageInv => PagesAgree
  <2> SUFFICES ASSUME PageInv, NEW u \in Fans
               PROVE  /\ \A e \in DrawnEntries(u) :
                           IF entry[e] = "won"
                           THEN \E t \in TicketIds : DrawResults(u)[e] = {t} /\ IsTicketFor(t, e)
                           ELSE DrawResults(u)[e] = {}
                      /\ HasWonLottery(u) /\ HasTicket(u) =>
                           \E t \in TicketIds : HolderOf(t) = u /\ status[t] = "paid" /\ tier[t] \in LotteryTiers
    BY DEF PagesAgree
  <2>1. ASSUME NEW e \in DrawnEntries(u)
        PROVE  IF entry[e] = "won"
               THEN \E t \in TicketIds : DrawResults(u)[e] = {t} /\ IsTicketFor(t, e)
               ELSE DrawResults(u)[e] = {}
    <3>1. e \in Fans \X Campaigns /\ DrawResults(u)[e] = {t \in TicketIds : entryOf[t] = e}
      BY DEF DrawnEntries, DrawResults
    <3>2. e # NoEntry BY <3>1, ConcertAssumption
    <3>3. CASE entry[e] = "won"
      <4>1. PICK t \in TicketIds : entryOf[t] = e BY <3>1, <3>3 DEF PageInv, WinsHaveTickets
      <4>2. \A x \in TicketIds : entryOf[x] = e <=> x = t BY <3>2, <4>1 DEF PageInv, TicketsAreOfWins
      <4>3. IsTicketFor(t, e) BY <3>2, <4>1 DEF PageInv, TicketsAreOfWins
      <4>4. DrawResults(u)[e] = {t} BY <3>1, <4>2
      <4> QED BY <3>3, <4>3, <4>4
    <3>4. CASE entry[e] # "won"
      <4>1. \A x \in TicketIds : entryOf[x] # e BY <3>2, <3>4 DEF PageInv, TicketsAreOfWins
      <4> QED BY <3>1, <3>4, <4>1
    <3> QED BY <3>3, <3>4
  <2>2. ASSUME HasWonLottery(u), HasTicket(u)
        PROVE  \E t \in TicketIds : HolderOf(t) = u /\ status[t] = "paid" /\ tier[t] \in LotteryTiers
    <3>1. PICK t \in TicketIds : HolderOf(t) = u /\ status[t] = "paid"
      BY <2>2 DEF HasTicket, PageInv, TicketsAreOfWins
    <3>2. PICK c \in Campaigns : entry[<<u, c>>] = "won" BY <2>2 DEF HasWonLottery
    <3>3. tier[t] \notin DirectTiers BY <3>1, <3>2 DEF PageInv, WinsHaveTickets, LiveStatuses
    <3>4. tier[t] # NoTier /\ tier[t] \in Tiers \cup {NoTier} BY <3>1 DEF PageInv, TicketsAreOfWins, TypeOK
    <3> QED BY <3>1, <3>3, <3>4 DEF Tiers
  <2> QED BY <2>1, <2>2
<1> QED BY <1>1, <1>2, StepKeepsPages, PTL DEF Spec
=============================================================================
