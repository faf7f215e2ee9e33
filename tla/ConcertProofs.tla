---------------------------- MODULE ConcertProofs ----------------------------
(***************************************************************************)
(* Safety of ConcertSales for every set of fans, tiers, campaigns and keys *)
(* that satisfies ConcertAssumption: its rows keep their types, seats are  *)
(* accounted for and never oversold, a fan has at most one live ticket,    *)
(* and is charged once, for a ticket that is paid.                         *)
(***************************************************************************)
EXTENDS ConcertSales, FiniteSetTheorems, FunctionTheorems, TLAPS

-----------------------------------------------------------------------------
(***************************************************************************)
(* Types                                                                   *)
(***************************************************************************)
\* The holder of a ticket id is a fan.
LEMMA HolderIsFan ==
  ASSUME NEW t \in TicketIds
  PROVE  HolderOf(t) \in Fans
BY DEF TicketIds, HolderOf

\* The number of lottery tiers is a natural number.
LEMMA MaxRankNat == MaxRank \in Nat
BY ConcertAssumption, FS_CardinalityType DEF MaxRank

\* The announced concert is well typed.
LEMMA InitTypeOK == Init => TypeOK
<1>1. Capacity \in [Tiers -> Nat]
  BY ConcertAssumption
<1>2. 0 \in 0..MaxRank
  BY MaxRankNat
<1>3. QED BY <1>1, <1>2 DEF Init, TypeOK, Phases, CampaignStatus

\* Every step of a preference or entry handler keeps the types.
LEMMA LotteryTypeOK == TypeOK /\ LotteryNext => TypeOK'
<1> SUFFICES ASSUME TypeOK, LotteryNext PROVE TypeOK'
  OBVIOUS
<1> USE DEF TypeOK, catalogVars, ticketVars, paymentVars
<1>1. CASE \E u \in Fans, r \in Rankings : SetPreferences(u, r)
  BY <1>1 DEF SetPreferences, Rankings
<1>2. CASE \E u \in Fans : ClearMyPreferences(u)
  BY <1>2, MaxRankNat DEF ClearMyPreferences, NoRanking
<1>3. CASE \E u \in Fans, c \in Campaigns : ApplyToLottery(u, c)
  BY <1>3 DEF ApplyToLottery, EntryStatus
<1>4. CASE \E u \in Fans, C \in SUBSET Campaigns : Cardinality(C) > 1 /\ ApplyToLotteries(u, C)
  BY <1>4 DEF ApplyToLotteries, EntryStatus
<1>5. CASE DrawLottery
  <2>w. PICK W \in SUBSET PendingEntries : \E slot \in WinningTickets(W) : AwardSeats(W, slot)
    BY <1>5 DEF DrawLottery
  <2>1. PICK slot \in WinningTickets(W) : AwardSeats(W, slot)
    BY <2>w
  <2>2. W \subseteq Fans \X Campaigns
    BY DEF PendingEntries, OpenCampaigns
  <2>3. \A w \in W : TierOf[w[2]] \in Tiers
    BY <2>2, ConcertAssumption DEF Tiers
  <2>4. entry' \in [Fans \X Campaigns -> EntryStatus \cup {"none"}]
    BY <2>1 DEF AwardSeats, EntryStatus
  <2>5. status' \in [TicketIds -> TicketStatus \cup {"none"}] /\ due' \in [TicketIds -> {"none", "ahead", "past"}]
    BY <2>1 DEF AwardSeats, TicketStatus
  <2>6. tier' \in [TicketIds -> Tiers \cup {NoTier}]
    <3>1. \A t \in TicketIds : (\E w \in W : slot[w] = t) => (CHOOSE w \in W : slot[w] = t) \in W
      OBVIOUS
    <3>2. QED BY <2>1, <2>3, <3>1 DEF AwardSeats, TierWon, EntryWon
  <2>e. entryOf' \in [TicketIds -> (Fans \X Campaigns) \cup {NoEntry}]
    <3>1. \A t \in TicketIds : (\E w \in W : slot[w] = t) => EntryWon(W, slot, t) \in W
      BY DEF EntryWon
    <3>2. QED BY <2>1, <2>2, <3>1 DEF AwardSeats
  <2>7. sold' \in [Tiers -> Int]
    <3>1. IsFiniteSet(W)
      <4>1. IsFiniteSet(Fans \X Campaigns)
        BY ConcertAssumption, FS_Product
      <4>2. QED BY <4>1, <2>2, FS_Subset
    <3>2. \A tt \in Tiers : Cardinality({w \in W : TierOf[w[2]] = tt}) \in Nat
      <4>1. SUFFICES ASSUME NEW tt \in Tiers PROVE Cardinality({w \in W : TierOf[w[2]] = tt}) \in Nat
        OBVIOUS
      <4>2. {w \in W : TierOf[w[2]] = tt} \in SUBSET W
        OBVIOUS
      <4>3. QED BY <3>1, <4>2, FS_Subset, FS_CardinalityType
    <3>3. sold' = [tt \in Tiers |-> sold[tt] + Cardinality({w \in W : TierOf[w[2]] = tt})]
      BY <2>1 DEF AwardSeats
    <3>4. \A tt \in Tiers : sold[tt] + Cardinality({w \in W : TierOf[w[2]] = tt}) \in Int
      BY <3>2
    <3>5. QED BY <3>3, <3>4
  <2>8. campaign' \in [Campaigns -> CampaignStatus \cup {"absent"}] /\ drawn' \in [Campaigns -> BOOLEAN]
    BY <2>1 DEF AwardSeats, CampaignStatus
  <2>9. QED BY <2>1, <2>4, <2>5, <2>6, <2>e, <2>7, <2>8 DEF AwardSeats
<1>6. CASE \E c \in Campaigns : WindowMoves(c)
  BY <1>6 DEF WindowMoves, Phases
<1>7. QED BY <1>1, <1>2, <1>3, <1>4, <1>5, <1>6 DEF LotteryNext

\* What a gateway answers is a status of a payment and of a ticket.
LEMMA GatewayTypes ==
  ASSUME NEW g \in Gateways, NEW tt
  PROVE  /\ PaymentAfter(g) \in PaymentStatus
         /\ TicketAfter(g, tt) \in TicketStatus
BY DEF Gateways, PaymentAfter, TicketAfter, PaymentStatus, TicketStatus

\* The expiry of any ticket keeps the types.
LEMMA ExpiryTypeOK ==
  ASSUME TypeOK, NEW t, ExpireTicket(t)
  PROVE  TypeOK'
<1> USE DEF TypeOK, ExpireTicket, lotteryVars, paymentVars
<1>1. status' \in [TicketIds -> TicketStatus \cup {"none"}]
  BY DEF TicketStatus
<1>2. sold' \in [Tiers -> Int]
  <2> DEFINE tt == tier[t]
  <2>1. sold' = [sold EXCEPT ![tt] = sold[tt] - 1]
    OBVIOUS
  <2>2. CASE tt \in Tiers
    BY <2>1, <2>2
  <2>3. CASE tt \notin Tiers
    BY <2>1, <2>3
  <2>4. QED BY <2>2, <2>3
<1>3. QED BY <1>1, <1>2

\* Every checkout, capture and expiry keeps the types.
LEMMA SalesTypeOK == TypeOK /\ SalesNext => TypeOK'
<1> SUFFICES ASSUME TypeOK, SalesNext PROVE TypeOK'
  OBVIOUS
<1> USE DEF TypeOK, catalogVars, lotteryVars, ticketVars, paymentVars
<1>1. CASE \E u \in Fans, tt \in DirectTiers, k \in Keys, g \in Gateways :
             \E t \in FreshTickets(u) : CheckoutTicket(u, tt, t, k, g)
  <2>1. PICK u \in Fans, tt \in DirectTiers, k \in Keys, g \in Gateways :
          \E t \in FreshTickets(u) : CheckoutTicket(u, tt, t, k, g)
    BY <1>1
  <2>2. PICK t \in FreshTickets(u) : CheckoutTicket(u, tt, t, k, g)
    BY <2>1
  <2>3. t \in TicketIds /\ tt \in Tiers
    BY DEF FreshTickets, Tiers
  <2>4. QED BY <2>2, <2>3, GatewayTypes DEF CheckoutTicket, CreateTicketPayment
<1>2. CASE \E t \in TicketIds, k \in Keys : CheckoutWonTicketTooLate(t, k)
  BY <1>2, ExpiryTypeOK DEF CheckoutWonTicketTooLate
<1>3. CASE \E t \in TicketIds, k \in Keys, g \in Gateways : CheckoutWonTicket(t, k, g)
  BY <1>3, GatewayTypes DEF CheckoutWonTicket, CreateTicketPayment
<1>4. CASE \E k \in Keys, caller \in Fans \cup {Webhook} : FinalizeTooLate(k, caller)
  BY <1>4, ExpiryTypeOK DEF FinalizeTooLate
<1>5. CASE \E k \in Keys, caller \in Fans \cup {Webhook} : FinalizeCompleted(k, caller)
  <2>1. PICK k \in Keys, caller \in Fans \cup {Webhook} : FinalizeCompleted(k, caller)
    BY <1>5
  <2> DEFINE t == payFor[k]
             tt == tier[t]
  <2>2. payment' \in [Keys -> PaymentStatus \cup {"none"}]
    BY <2>1 DEF FinalizeCompleted, PaymentStatus
  <2>3. status' \in [TicketIds -> TicketStatus \cup {"none"}]
    BY <2>1 DEF FinalizeCompleted, TicketStatus
  <2>4. paidBy' \in [TicketIds -> Keys \cup {NoKey}]
    BY <2>1 DEF FinalizeCompleted
  <2>5. sold' \in [Tiers -> Int]
    <3>1. sold' = sold \/ (tt \in DirectTiers /\ sold' = [sold EXCEPT ![tt] = sold[tt] + 1])
      BY <2>1 DEF FinalizeCompleted
    <3>2. QED BY <3>1 DEF Tiers
  <2>6. QED BY <2>1, <2>2, <2>3, <2>4, <2>5 DEF FinalizeCompleted
<1>6. CASE \E k \in Keys, caller \in Fans \cup {Webhook} : FinalizeFailed(k, caller)
  <2>1. PICK k \in Keys, caller \in Fans \cup {Webhook} : FinalizeFailed(k, caller)
    BY <1>6
  <2> DEFINE t == payFor[k]
  <2>2. payment' \in [Keys -> PaymentStatus \cup {"none"}]
    BY <2>1 DEF FinalizeFailed, PaymentStatus
  <2>3. status' \in [TicketIds -> TicketStatus \cup {"none"}]
    <3>1. status' = [status EXCEPT ![t] = "cancelled"] \/ status' = [status EXCEPT ![t] = status[t]]
      BY <2>1 DEF FinalizeFailed
    <3>2. QED BY <3>1 DEF TicketStatus
  <2>4. QED BY <2>1, <2>2, <2>3 DEF FinalizeFailed
<1>7. CASE \E t \in TicketIds : DeadlinePasses(t)
  BY <1>7 DEF DeadlinePasses
<1>8. QED BY <1>1, <1>2, <1>3, <1>4, <1>5, <1>6, <1>7 DEF SalesNext

\* Every edit of a manager keeps the types.
LEMMA ManagerTypeOK == TypeOK /\ ManagerNext => TypeOK'
<1> SUFFICES ASSUME TypeOK, ManagerNext PROVE TypeOK'
  OBVIOUS
<1> USE DEF TypeOK, catalogVars, lotteryVars, ticketVars, paymentVars
<1>1. CASE \E tt \in Tiers, n \in Quantities : CheckResize(tt, n) \/ CommitResize(tt, n) \/ RefuseResize(tt, n)
  BY <1>1, ConcertAssumption DEF CheckResize, CommitResize, WriteTotal, RefuseResize
<1>2. CASE \E c \in Campaigns, p \in Phases : AddCampaign(c, p)
  BY <1>2 DEF AddCampaign, CampaignStatus
<1>3. CASE \E c \in Campaigns, s \in CampaignStatus, p \in Phases : UpdateCampaign(c, s, p)
  BY <1>3 DEF UpdateCampaign
<1>4. CASE \E c \in Campaigns : DeleteCampaign(c)
  <2>1. PICK c \in Campaigns : DeleteCampaign(c)
    BY <1>4
  <2>2. entryOf' \in [TicketIds -> (Fans \X Campaigns) \cup {NoEntry}]
    BY <2>1 DEF DeleteCampaign
  <2>3. QED BY <2>1, <2>2 DEF DeleteCampaign
<1>5. QED BY <1>1, <1>2, <1>3, <1>4 DEF ManagerNext

\* Every step of the specification keeps the types.
LEMMA StepTypeOK == TypeOK /\ [Next]_vars => TypeOK'
<1> SUFFICES ASSUME TypeOK, [Next]_vars PROVE TypeOK'
  OBVIOUS
<1>1. CASE LotteryNext
  BY <1>1, LotteryTypeOK
<1>2. CASE SalesNext
  BY <1>2, SalesTypeOK
<1>3. CASE \E tt \in DirectTiers : DirectSaleTurns(tt)
  BY <1>3 DEF DirectSaleTurns, TypeOK, lotteryVars, ticketVars, paymentVars
<1>4. CASE ManagerNext
  BY <1>4, ManagerTypeOK
<1>5. CASE UNCHANGED vars
  BY <1>5 DEF vars, TypeOK
<1>6. QED BY <1>1, <1>2, <1>3, <1>4, <1>5 DEF Next, FanNext

\* The rows of a concert stay well typed whatever fans, gateways, draws and
\* managers do.
THEOREM TypeCorrect == Spec => []TypeOK
BY InitTypeOK, StepTypeOK, PTL DEF Spec

-----------------------------------------------------------------------------
(***************************************************************************)
(* Seats, tickets and charges                                              *)
(***************************************************************************)
\* A ticket row has a ticket type; a payment row has the id of a ticket row.
RowsRefer ==
  /\ \A t \in TicketIds : status[t] # "none" => tier[t] \in Tiers
  /\ \A k \in Keys : payment[k] # "none" =>
       payFor[k] \in TicketIds /\ status[payFor[k]] # "none"

\* The payment that succeeded for a ticket is the one its payment_id names.
PaidByTheSuccess ==
  \A k \in Keys : payment[k] = "success" => paidBy[payFor[k]] = k

\* The inductive invariant.  OneLiveTicket and PaidMeansCharged are kept with
\* the help of RowsRefer; ChargedAtMostOnce follows from the last three.
IInv ==
  /\ TypeOK
  /\ RowsRefer
  /\ SeatAccounting
  /\ OneLiveTicket
  /\ PaidMeansCharged
  /\ PaidByTheSuccess

-----------------------------------------------------------------------------
(***************************************************************************)
(* Counting seats                                                          *)
(***************************************************************************)
\* The tickets that occupy a seat of a tier are finitely many.
LEMMA SeatTicketsFinite ==
  ASSUME NEW tt
  PROVE  /\ IsFiniteSet(SeatTickets(tt))
         /\ IsFiniteSet(SeatTickets(tt)')
<1>1. IsFiniteSet(TicketIds)
  BY ConcertAssumption, FS_Product DEF TicketIds
<1>2. SeatTickets(tt) \in SUBSET TicketIds /\ SeatTickets(tt)' \in SUBSET TicketIds
  BY DEF SeatTickets
<1>3. QED BY <1>1, <1>2, FS_Subset

\* A step that changes one ticket, which has no seat of the tier before or
\* after, keeps the occupied seats of the tier.
LEMMA OtherTicketsKept ==
  ASSUME NEW x, NEW t,
         \A y \in TicketIds \ {t} : status'[y] = status[y] /\ tier'[y] = tier[y],
         t \notin SeatTickets(x), t \notin SeatTickets(x)'
  PROVE  SeatTickets(x)' = SeatTickets(x)
BY DEF SeatTickets

\* A step that leaves the counters and the occupied seats alone.
LEMMA SeatsKept ==
  ASSUME SeatAccounting, sold' = sold,
         \A tt \in Tiers : SeatTickets(tt)' = SeatTickets(tt)
  PROVE  SeatAccounting'
BY DEF SeatAccounting

\* A step that counts one seat where one ticket came to occupy it.
LEMMA SeatTaken ==
  ASSUME TypeOK, SeatAccounting, NEW x \in Tiers, NEW t,
         sold' = [sold EXCEPT ![x] = @ + 1],
         t \notin SeatTickets(x),
         SeatTickets(x)' = SeatTickets(x) \cup {t},
         \A tt \in Tiers \ {x} : SeatTickets(tt)' = SeatTickets(tt)
  PROVE  SeatAccounting'
<1>1. Cardinality(SeatTickets(x)') = Cardinality(SeatTickets(x)) + 1
  BY SeatTicketsFinite, FS_AddElement
<1>2. sold'[x] = Cardinality(SeatTickets(x)')
  BY <1>1 DEF SeatAccounting, TypeOK
<1>3. \A tt \in Tiers \ {x} : sold'[tt] = Cardinality(SeatTickets(tt)')
  BY DEF SeatAccounting, TypeOK
<1>4. QED BY <1>2, <1>3 DEF SeatAccounting

\* A step that releases the seat one ticket occupied.
LEMMA SeatReleased ==
  ASSUME TypeOK, SeatAccounting, NEW x \in Tiers, NEW t,
         sold' = [sold EXCEPT ![x] = @ - 1],
         t \in SeatTickets(x),
         SeatTickets(x)' = SeatTickets(x) \ {t},
         \A tt \in Tiers \ {x} : SeatTickets(tt)' = SeatTickets(tt)
  PROVE  SeatAccounting'
<1>1. Cardinality(SeatTickets(x)') = Cardinality(SeatTickets(x)) - 1
  BY SeatTicketsFinite, FS_RemoveElement
<1>2. sold'[x] = Cardinality(SeatTickets(x)')
  BY <1>1 DEF SeatAccounting, TypeOK
<1>3. \A tt \in Tiers \ {x} : sold'[tt] = Cardinality(SeatTickets(tt)')
  BY DEF SeatAccounting, TypeOK
<1>4. QED BY <1>2, <1>3 DEF SeatAccounting

-----------------------------------------------------------------------------
(***************************************************************************)
(* One lemma per operation that writes a ticket or a payment               *)
(***************************************************************************)
\* Steps that write neither tickets, payments nor counters.
LEMMA Frame ==
  ASSUME IInv, TypeOK', UNCHANGED <<sold, status, tier, paymentVars>>
  PROVE  IInv'
BY DEF IInv, RowsRefer, SeatAccounting, SeatTickets, OneLiveTicket, PaidMeansCharged,
       PaidByTheSuccess, paymentVars

\* The announced concert satisfies the invariant.
LEMMA InitIInv == Init => IInv
<1> SUFFICES ASSUME Init PROVE IInv
  OBVIOUS
<1>1. TypeOK
  BY InitTypeOK
<1>2. SeatAccounting
  <2>1. \A tt \in Tiers : SeatTickets(tt) = {}
    BY DEF Init, SeatTickets, OccupyingStatuses
  <2>2. QED BY <2>1, FS_EmptySet DEF Init, SeatAccounting
<1>3. RowsRefer /\ OneLiveTicket /\ PaidMeansCharged /\ PaidByTheSuccess
  BY DEF Init, RowsRefer, OneLiveTicket, LiveStatuses, PaidMeansCharged, PaidByTheSuccess
<1>4. QED BY <1>1, <1>2, <1>3 DEF IInv

\* A direct purchase.
LEMMA CheckoutTicketIInv ==
  ASSUME IInv, TypeOK',
         NEW u \in Fans, NEW tt \in DirectTiers, NEW k \in Keys, NEW g \in Gateways,
         NEW t \in FreshTickets(u), CheckoutTicket(u, tt, t, k, g)
  PROVE  IInv'
<1> USE DEF IInv, CheckoutTicket, CreateTicketPayment
<1>1. t \in TicketIds /\ status[t] = "none" /\ HolderOf(t) = u
  BY DEF FreshTickets
<1>2. tt \in Tiers /\ tt \notin LotteryTiers
  BY ConcertAssumption DEF Tiers
<1>3. /\ status' = [status EXCEPT ![t] = TicketAfter(g, tt)]
      /\ tier' = [tier EXCEPT ![t] = tt]
      /\ payment' = [payment EXCEPT ![k] = PaymentAfter(g)]
      /\ payFor' = [payFor EXCEPT ![k] = t]
      /\ paidBy' = [paidBy EXCEPT ![t] = k]
      /\ payment[k] = "none"
  OBVIOUS
<1>4. \/ g = "mock_success" /\ PaymentAfter(g) = "success" /\ TicketAfter(g, tt) = "paid"
      \/ g # "mock_success" /\ PaymentAfter(g) \in {"failed", "pending"}
           /\ TicketAfter(g, tt) \in {"cancelled", "pending_payment"}
  BY DEF Gateways, PaymentAfter, TicketAfter
<1> HIDE DEF CheckoutTicket, CreateTicketPayment
<1>5. RowsRefer'
  BY <1>1, <1>2, <1>3, <1>4 DEF RowsRefer, TypeOK
<1>6. SeatAccounting'
  <2>1. \A x \in Tiers \ {tt} : SeatTickets(x)' = SeatTickets(x)
    <3>1. SUFFICES ASSUME NEW x \in Tiers \ {tt} PROVE SeatTickets(x)' = SeatTickets(x)
      OBVIOUS
    <3>2. \A y \in TicketIds \ {t} : status'[y] = status[y] /\ tier'[y] = tier[y]
      BY <1>3 DEF TypeOK
    <3>3. t \notin SeatTickets(x) /\ t \notin SeatTickets(x)'
      BY <1>1, <1>3 DEF TypeOK, SeatTickets, OccupyingStatuses
    <3>4. QED BY <3>2, <3>3, OtherTicketsKept
  <2>2. t \notin SeatTickets(tt)
    BY <1>1 DEF SeatTickets, OccupyingStatuses
  <2>3. CASE g = "mock_success"
    <3>1. SeatTickets(tt)' = SeatTickets(tt) \cup {t}
      BY <1>1, <1>2, <1>3, <1>4, <2>3 DEF TypeOK, SeatTickets, OccupyingStatuses
    <3>2. sold' = [sold EXCEPT ![tt] = @ + 1]
      BY <2>3 DEF CheckoutTicket
    <3>3. QED BY <1>2, <2>1, <2>2, <3>1, <3>2, SeatTaken
  <2>4. CASE g # "mock_success"
    <3>1. SeatTickets(tt)' = SeatTickets(tt)
      BY <1>1, <1>2, <1>3, <1>4, <2>4 DEF TypeOK, SeatTickets, OccupyingStatuses
    <3>2. sold' = sold
      BY <2>4 DEF CheckoutTicket
    <3>3. QED BY <2>1, <3>1, <3>2, SeatsKept
  <2>5. QED BY <2>3, <2>4
<1>7. OneLiveTicket'
  <2>1. \A x \in TicketIds : HolderOf(x) = u => status[x] \notin LiveStatuses
    BY DEF CheckoutTicket, HoldsLiveTicket
  <2>2. \A x \in TicketIds \ {t} : status'[x] = status[x]
    BY <1>3 DEF TypeOK
  <2>3. QED BY <1>1, <2>1, <2>2 DEF OneLiveTicket
<1>8. PaidMeansCharged' /\ PaidByTheSuccess'
  BY <1>1, <1>3, <1>4 DEF RowsRefer, PaidMeansCharged, PaidByTheSuccess, TypeOK
<1>9. QED BY <1>5, <1>6, <1>7, <1>8

\* A step that moves one live ticket keeps every fan to one.
LEMMA StillOneLive ==
  ASSUME TypeOK, OneLiveTicket, NEW t \in TicketIds, status[t] \in LiveStatuses,
         NEW s, status' = [status EXCEPT ![t] = s]
  PROVE  OneLiveTicket'
<1>1. \A x \in TicketIds : status'[x] \in LiveStatuses => status[x] \in LiveStatuses
  BY DEF TypeOK
<1>2. QED BY <1>1 DEF OneLiveTicket

\* The expiry of a lottery win that was not paid in time.
LEMMA ExpireTicketIInv ==
  ASSUME IInv, TypeOK', NEW t \in TicketIds, IsPayableWin(t), ExpireTicket(t)
  PROVE  IInv'
<1> DEFINE x == tier[t]
<1>1. x \in Tiers /\ x \in LotteryTiers /\ status[t] = "pending_payment"
  BY DEF IsPayableWin, Tiers
<1>2. /\ status' = [status EXCEPT ![t] = "expired"]
      /\ sold' = [sold EXCEPT ![x] = @ - 1]
      /\ UNCHANGED <<tier, paidBy, payment, payFor>>
  BY DEF ExpireTicket, paymentVars
<1>3. \A y \in TicketIds \ {t} : status'[y] = status[y]
  BY <1>2 DEF IInv, TypeOK
<1>4. status'[t] = "expired"
  BY <1>2 DEF IInv, TypeOK
<1>5. RowsRefer'
  BY <1>1, <1>2, <1>3, <1>4 DEF IInv, RowsRefer
<1>6. SeatAccounting'
  <2>1. t \in SeatTickets(x)
    BY <1>1 DEF SeatTickets, OccupyingStatuses
  <2>2. SeatTickets(x)' = SeatTickets(x) \ {t}
    BY <1>2, <1>3, <1>4 DEF SeatTickets, OccupyingStatuses
  <2>3. \A tt \in Tiers \ {x} : SeatTickets(tt)' = SeatTickets(tt)
    BY <1>2, <1>3 DEF SeatTickets
  <2>4. QED BY <1>1, <1>2, <2>1, <2>2, <2>3, SeatReleased DEF IInv
<1>7. OneLiveTicket'
  BY <1>1, <1>2, StillOneLive DEF IInv, LiveStatuses
<1>8. PaidMeansCharged' /\ PaidByTheSuccess'
  <2>1. \A k \in Keys : payment[k] = "success" => payFor[k] # t
    BY <1>1 DEF IInv, PaidMeansCharged
  <2>2. QED BY <1>2, <1>3, <1>4, <2>1 DEF IInv, PaidMeansCharged, PaidByTheSuccess, RowsRefer
<1>9. QED BY <1>5, <1>6, <1>7, <1>8 DEF IInv

\* The payment of a lottery win in time.
LEMMA CheckoutWonTicketIInv ==
  ASSUME IInv, TypeOK', NEW t \in TicketIds, NEW k \in Keys, NEW g \in Gateways,
         CheckoutWonTicket(t, k, g)
  PROVE  IInv'
<1> DEFINE x == tier[t]
<1>1. x \in LotteryTiers /\ status[t] = "pending_payment" /\ payment[k] = "none"
  BY DEF CheckoutWonTicket, IsPayableWin
<1>2. /\ status' = [status EXCEPT ![t] = TicketAfter(g, x)]
      /\ payment' = [payment EXCEPT ![k] = PaymentAfter(g)]
      /\ payFor' = [payFor EXCEPT ![k] = t]
      /\ paidBy' = [paidBy EXCEPT ![t] = k]
      /\ UNCHANGED <<sold, tier>>
  BY DEF CheckoutWonTicket, CreateTicketPayment, catalogVars
<1>3. \/ PaymentAfter(g) = "success" /\ TicketAfter(g, x) = "paid"
      \/ PaymentAfter(g) \in {"failed", "pending"} /\ TicketAfter(g, x) = "pending_payment"
  BY <1>1, ConcertAssumption DEF Gateways, PaymentAfter, TicketAfter
<1>4. RowsRefer'
  BY <1>1, <1>2, <1>3 DEF IInv, RowsRefer, TypeOK
<1>5. SeatAccounting'
  <2>1. \A tt \in Tiers : SeatTickets(tt)' = SeatTickets(tt)
    <3>1. SUFFICES ASSUME NEW tt \in Tiers PROVE SeatTickets(tt)' = SeatTickets(tt)
      OBVIOUS
    <3>2. \A y \in TicketIds \ {t} : status'[y] = status[y] /\ tier'[y] = tier[y]
      BY <1>2 DEF IInv, TypeOK
    <3>3. t \in SeatTickets(tt) <=> tt = x
      BY <1>1 DEF SeatTickets, OccupyingStatuses
    <3>4. t \in SeatTickets(tt)' <=> tt = x
      BY <1>1, <1>2, <1>3 DEF IInv, TypeOK, SeatTickets, OccupyingStatuses
    <3>5. QED BY <3>2, <3>3, <3>4 DEF SeatTickets
  <2>2. QED BY <1>2, <2>1, SeatsKept DEF IInv
<1>6. OneLiveTicket'
  BY <1>1, <1>2, StillOneLive DEF IInv, LiveStatuses
<1>7. PaidMeansCharged' /\ PaidByTheSuccess'
  BY <1>1, <1>2, <1>3 DEF IInv, RowsRefer, PaidMeansCharged, PaidByTheSuccess, TypeOK
<1>8. QED BY <1>4, <1>5, <1>6, <1>7 DEF IInv

\* A capture that PayPal completed.
LEMMA FinalizeCompletedIInv ==
  ASSUME IInv, TypeOK', NEW k \in Keys, NEW caller, FinalizeCompleted(k, caller)
  PROVE  IInv'
<1> DEFINE t == payFor[k]
           x == tier[t]
<1>1. payment[k] = "pending" /\ status[t] = "pending_payment"
  BY DEF FinalizeCompleted, CanCapture, CanFinalize
<1>2. t \in TicketIds /\ x \in Tiers
  BY <1>1 DEF IInv, RowsRefer
<1>3. /\ payment' = [payment EXCEPT ![k] = "success"]
      /\ status' = [status EXCEPT ![t] = "paid"]
      /\ paidBy' = [paidBy EXCEPT ![t] = k]
      /\ sold' = IF x \in DirectTiers THEN [sold EXCEPT ![x] = @ + 1] ELSE sold
      /\ UNCHANGED <<tier, payFor>>
  BY DEF FinalizeCompleted
<1>4. status'[t] = "paid" /\ \A y \in TicketIds \ {t} : status'[y] = status[y]
  BY <1>2, <1>3 DEF IInv, TypeOK
<1>5. RowsRefer'
  BY <1>1, <1>2, <1>3, <1>4 DEF IInv, RowsRefer, TypeOK
<1>6. SeatAccounting'
  <2>1. \A tt \in Tiers \ {x} : SeatTickets(tt)' = SeatTickets(tt)
    BY <1>3, <1>4 DEF SeatTickets
  <2>2. CASE x \in DirectTiers
    <3>1. x \notin LotteryTiers
      BY <2>2, ConcertAssumption
    <3>2. t \notin SeatTickets(x)
      BY <1>1, <3>1 DEF SeatTickets, OccupyingStatuses
    <3>3. SeatTickets(x)' = SeatTickets(x) \cup {t}
      BY <1>2, <1>3, <1>4, <3>1 DEF SeatTickets, OccupyingStatuses
    <3>4. QED BY <1>2, <1>3, <2>1, <2>2, <3>2, <3>3, SeatTaken DEF IInv
  <2>3. CASE x \notin DirectTiers
    <3>1. SeatTickets(x)' = SeatTickets(x)
      BY <1>1, <1>2, <1>3, <1>4, <2>3 DEF Tiers, SeatTickets, OccupyingStatuses
    <3>2. QED BY <1>3, <2>1, <2>3, <3>1, SeatsKept DEF IInv
  <2>4. QED BY <2>2, <2>3
<1>7. OneLiveTicket'
  BY <1>1, <1>2, <1>3, StillOneLive DEF IInv, LiveStatuses
<1>8. PaidMeansCharged' /\ PaidByTheSuccess'
  <2>1. \A l \in Keys : payment[l] = "success" => payFor[l] # t
    BY <1>1 DEF IInv, PaidMeansCharged
  <2>2. \A y \in TicketIds : status[y] = "paid" => paidBy[y] # k
    BY <1>1 DEF IInv, PaidMeansCharged
  <2>3. QED BY <1>2, <1>3, <1>4, <2>1, <2>2
        DEF IInv, RowsRefer, PaidMeansCharged, PaidByTheSuccess, TypeOK
<1>9. QED BY <1>5, <1>6, <1>7, <1>8 DEF IInv

\* A capture that PayPal did not complete.
LEMMA FinalizeFailedIInv ==
  ASSUME IInv, TypeOK', NEW k \in Keys, NEW caller, FinalizeFailed(k, caller)
  PROVE  IInv'
<1> DEFINE t == payFor[k]
           x == tier[t]
           s == IF x \in DirectTiers THEN "cancelled" ELSE status[t]
<1>1. payment[k] = "pending" /\ status[t] = "pending_payment"
  BY DEF FinalizeFailed, CanCapture, CanFinalize
<1>2. t \in TicketIds /\ x \in Tiers
  BY <1>1 DEF IInv, RowsRefer
<1>3. /\ payment' = [payment EXCEPT ![k] = "failed"]
      /\ status' = [status EXCEPT ![t] = s]
      /\ UNCHANGED <<sold, tier, paidBy, payFor>>
  BY DEF FinalizeFailed, catalogVars
<1>4. status'[t] = s /\ \A y \in TicketIds \ {t} : status'[y] = status[y]
  BY <1>2, <1>3 DEF IInv, TypeOK
<1>5. s \in {"cancelled", "pending_payment"}
  BY <1>1
<1>6. RowsRefer'
  BY <1>1, <1>2, <1>3, <1>4, <1>5 DEF IInv, RowsRefer, TypeOK
<1>7. SeatAccounting'
  <2>1. \A tt \in Tiers \ {x} : SeatTickets(tt)' = SeatTickets(tt)
    BY <1>3, <1>4 DEF SeatTickets
  <2>2. CASE x \in DirectTiers
    <3>1. x \notin LotteryTiers
      BY <2>2, ConcertAssumption
    <3>2. SeatTickets(x)' = SeatTickets(x)
      BY <1>1, <1>3, <1>4, <1>5, <3>1 DEF SeatTickets, OccupyingStatuses
    <3>3. QED BY <1>3, <2>1, <3>2, SeatsKept DEF IInv
  <2>3. CASE x \notin DirectTiers
    <3>1. SeatTickets(x)' = SeatTickets(x)
      BY <1>1, <1>3, <1>4, <2>3 DEF SeatTickets
    <3>2. QED BY <1>3, <2>1, <3>1, SeatsKept DEF IInv
  <2>4. QED BY <2>2, <2>3
<1>8. OneLiveTicket'
  BY <1>1, <1>2, <1>3, StillOneLive DEF IInv, LiveStatuses
<1>9. PaidMeansCharged' /\ PaidByTheSuccess'
  <2>1. \A l \in Keys : payment[l] = "success" => payFor[l] # t
    BY <1>1 DEF IInv, PaidMeansCharged
  <2>2. \A y \in TicketIds : status[y] = "paid" => paidBy[y] # k
    BY <1>1 DEF IInv, PaidMeansCharged
  <2>3. QED BY <1>2, <1>3, <1>4, <1>5, <2>1, <2>2
        DEF IInv, RowsRefer, PaidMeansCharged, PaidByTheSuccess, TypeOK
<1>10. QED BY <1>6, <1>7, <1>8, <1>9 DEF IInv

\* A draw: every winner's new ticket occupies a seat of the tier won.
LEMMA DrawLotteryIInv ==
  ASSUME IInv, TypeOK', DrawLottery
  PROVE  IInv'
<1>1. PICK W \in SUBSET PendingEntries : \E slot \in WinningTickets(W) : AwardSeats(W, slot)
  BY DEF DrawLottery
<1>2. PICK slot \in WinningTickets(W) : AwardSeats(W, slot)
  BY <1>1
<1> DEFINE Issued == {slot[w] : w \in W}
           At(tt) == {w \in W : TierOf[w[2]] = tt}
           New(tt) == {slot[w] : w \in At(tt)}
<1>3. W \subseteq Fans \X Campaigns
  BY DEF PendingEntries, OpenCampaigns
<1>4. /\ slot \in [W -> TicketIds]
      /\ \A w \in W : HolderOf(slot[w]) = w[1] /\ status[slot[w]] = "none" /\ ~HoldsLiveTicket(w[1])
      /\ \A w \in W, v \in W : v # w => v[1] # w[1]
  BY DEF WinningTickets, FreshTickets
<1>5. \A w \in W, v \in W : slot[w] = slot[v] => w = v
  BY <1>4
<1>6. \A t \in TicketIds \ Issued : status'[t] = status[t] /\ tier'[t] = tier[t]
  BY <1>2 DEF AwardSeats
<1>7. \A w \in W : status'[slot[w]] = "pending_payment" /\ tier'[slot[w]] = TierOf[w[2]]
  <2>1. SUFFICES ASSUME NEW w \in W
                 PROVE  status'[slot[w]] = "pending_payment" /\ tier'[slot[w]] = TierOf[w[2]]
    OBVIOUS
  <2>2. slot[w] \in TicketIds /\ (CHOOSE v \in W : slot[v] = slot[w]) = w
    BY <1>4, <1>5
  <2>3. QED BY <1>2, <2>2 DEF AwardSeats, TierWon, EntryWon
<1>8. \A w \in W : TierOf[w[2]] \in LotteryTiers
  BY <1>3, ConcertAssumption
<1>9. RowsRefer'
  <2>1. \A t \in TicketIds : status'[t] # "none" => tier'[t] \in Tiers
    BY <1>6, <1>7, <1>8 DEF IInv, RowsRefer, Tiers
  <2>2. UNCHANGED <<payment, payFor>>
    BY <1>2 DEF AwardSeats, paymentVars
  <2>3. \A k \in Keys : payment[k] # "none" => payFor[k] \notin Issued
    BY <1>4 DEF IInv, RowsRefer
  <2>4. QED BY <1>6, <2>1, <2>2, <2>3 DEF IInv, RowsRefer
<1>10. SeatAccounting'
  <2>1. SUFFICES ASSUME NEW tt \in Tiers PROVE sold'[tt] = Cardinality(SeatTickets(tt)')
    BY DEF SeatAccounting
  <2>2. SeatTickets(tt)' = SeatTickets(tt) \cup New(tt)
    <3>1. \A t \in TicketIds \ Issued : t \in SeatTickets(tt)' <=> t \in SeatTickets(tt)
      BY <1>6 DEF SeatTickets
    <3>2. \A w \in W : slot[w] \in SeatTickets(tt)' <=> TierOf[w[2]] = tt
      BY <1>4, <1>7, <1>8 DEF SeatTickets, OccupyingStatuses
    <3>3. \A w \in W : slot[w] \notin SeatTickets(tt)
      BY <1>4 DEF SeatTickets, OccupyingStatuses
    <3>4. New(tt) \subseteq TicketIds /\ New(tt) \subseteq Issued
      BY <1>4
    <3>5. SeatTickets(tt) \subseteq TicketIds /\ SeatTickets(tt)' \subseteq TicketIds
      BY DEF SeatTickets
    <3>6. \A t \in Issued : t \in SeatTickets(tt)' <=> t \in New(tt)
      BY <1>5, <3>2
    <3>7. \A t \in Issued : t \notin SeatTickets(tt)
      BY <3>3
    <3>8. QED BY <3>1, <3>4, <3>5, <3>6, <3>7
  <2>3. SeatTickets(tt) \cap New(tt) = {}
    BY <1>4 DEF SeatTickets, OccupyingStatuses
  <2>4. IsFiniteSet(At(tt))
    <3>1. IsFiniteSet(Fans \X Campaigns)
      BY ConcertAssumption, FS_Product
    <3>2. At(tt) \in SUBSET (Fans \X Campaigns)
      BY <1>3
    <3>3. QED BY <3>1, <3>2, FS_Subset
  <2>5. IsFiniteSet(New(tt)) /\ Cardinality(New(tt)) = Cardinality(At(tt))
    <3>1. [w \in At(tt) |-> slot[w]] \in Bijection(At(tt), New(tt))
      <4> DEFINE f == [w \in At(tt) |-> slot[w]]
      <4>1. f \in [At(tt) -> New(tt)]
        OBVIOUS
      <4>2. \A v \in At(tt), w \in At(tt) : f[v] = f[w] => v = w
        BY <1>5
      <4>3. \A t \in New(tt) : \E w \in At(tt) : f[w] = t
        OBVIOUS
      <4>4. QED BY <4>1, <4>2, <4>3, Fun_IsBij
    <3>2. ExistsBijection(At(tt), New(tt))
      BY <3>1, Fun_ExistsBij
    <3>3. QED BY <2>4, <3>2, FS_Bijection
  <2>6. Cardinality(SeatTickets(tt)') = Cardinality(SeatTickets(tt)) + Cardinality(At(tt))
    <3>1. Cardinality(SeatTickets(tt)') =
            Cardinality(SeatTickets(tt)) + Cardinality(New(tt)) - Cardinality(SeatTickets(tt) \cap New(tt))
      BY <2>2, <2>5, SeatTicketsFinite, FS_Union
    <3>2. Cardinality(SeatTickets(tt) \cap New(tt)) = 0
      BY <2>3, FS_EmptySet
    <3>3. Cardinality(SeatTickets(tt)) \in Nat /\ Cardinality(At(tt)) \in Nat
      BY <2>4, SeatTicketsFinite, FS_CardinalityType
    <3>4. QED BY <2>5, <3>1, <3>2, <3>3
  <2>7. sold'[tt] = sold[tt] + Cardinality(At(tt))
    BY <1>2 DEF AwardSeats
  <2>8. QED BY <2>6, <2>7 DEF IInv, SeatAccounting
<1>11. OneLiveTicket'
  <2>1. SUFFICES ASSUME NEW t1 \in TicketIds, NEW t2 \in TicketIds,
                        HolderOf(t1) = HolderOf(t2),
                        status'[t1] \in LiveStatuses, status'[t2] \in LiveStatuses
                 PROVE  t1 = t2
    BY DEF OneLiveTicket
  <2>2. \A t \in TicketIds, w \in W : HolderOf(t) = w[1] => status[t] \notin LiveStatuses
    BY <1>4 DEF HoldsLiveTicket
  <2>3. \A t \in TicketIds, w \in W :
          (HolderOf(t) = w[1] /\ status'[t] \in LiveStatuses) => t = slot[w]
    <3>1. SUFFICES ASSUME NEW t \in TicketIds, NEW w \in W,
                          HolderOf(t) = w[1], status'[t] \in LiveStatuses
                   PROVE  t = slot[w]
      OBVIOUS
    <3>2. t \in Issued
      BY <1>6, <2>2, <3>1
    <3>3. QED BY <1>4, <3>1, <3>2
  <2>4. CASE t1 \in Issued
    BY <1>4, <2>1, <2>3, <2>4
  <2>5. CASE t2 \in Issued
    BY <1>4, <2>1, <2>3, <2>5
  <2>6. CASE t1 \notin Issued /\ t2 \notin Issued
    BY <1>6, <2>1, <2>6 DEF IInv, OneLiveTicket
  <2>7. QED BY <2>4, <2>5, <2>6
<1>12. PaidMeansCharged' /\ PaidByTheSuccess'
  <2>1. UNCHANGED <<paidBy, payment, payFor>>
    BY <1>2 DEF AwardSeats, paymentVars
  <2>2. \A t \in TicketIds : status'[t] = "paid" => t \notin Issued
    BY <1>7
  <2>3. \A k \in Keys : payment[k] # "none" => payFor[k] \in TicketIds \ Issued
    BY <1>4 DEF IInv, RowsRefer
  <2>4. QED BY <1>6, <2>1, <2>2, <2>3 DEF IInv, PaidMeansCharged, PaidByTheSuccess
<1>13. QED BY <1>9, <1>10, <1>11, <1>12 DEF IInv

-----------------------------------------------------------------------------
(***************************************************************************)
(* The invariant                                                           *)
(***************************************************************************)
\* Every step of the specification keeps the invariant.
LEMMA StepIInv == IInv /\ [Next]_vars => IInv'
<1> SUFFICES ASSUME IInv, [Next]_vars PROVE IInv'
  OBVIOUS
<1>1. TypeOK'
  BY StepTypeOK DEF IInv
<1>2. CASE SalesNext
  <2>1. CASE \E u \in Fans, tt \in DirectTiers, k \in Keys, g \in Gateways :
               \E t \in FreshTickets(u) : CheckoutTicket(u, tt, t, k, g)
    BY <1>1, <2>1, CheckoutTicketIInv
  <2>2. CASE \E t \in TicketIds, k \in Keys : CheckoutWonTicketTooLate(t, k)
    BY <1>1, <2>2, ExpireTicketIInv DEF CheckoutWonTicketTooLate
  <2>3. CASE \E t \in TicketIds, k \in Keys, g \in Gateways : CheckoutWonTicket(t, k, g)
    BY <1>1, <2>3, CheckoutWonTicketIInv
  <2>4. CASE \E k \in Keys, caller \in Fans \cup {Webhook} : FinalizeTooLate(k, caller)
    <3>1. PICK k \in Keys, caller \in Fans \cup {Webhook} : FinalizeTooLate(k, caller)
      BY <2>4
    <3>2. payFor[k] \in TicketIds /\ IsPayableWin(payFor[k]) /\ ExpireTicket(payFor[k])
      BY <3>1 DEF FinalizeTooLate, CanFinalize, IsPayableWin, IInv, RowsRefer
    <3>3. QED BY <1>1, <3>2, ExpireTicketIInv
  <2>5. CASE \E k \in Keys, caller \in Fans \cup {Webhook} : FinalizeCompleted(k, caller)
    BY <1>1, <2>5, FinalizeCompletedIInv
  <2>6. CASE \E k \in Keys, caller \in Fans \cup {Webhook} : FinalizeFailed(k, caller)
    BY <1>1, <2>6, FinalizeFailedIInv
  <2>7. CASE \E t \in TicketIds : DeadlinePasses(t)
    BY <1>1, <2>7, Frame DEF DeadlinePasses, catalogVars
  <2>8. QED BY <1>2, <2>1, <2>2, <2>3, <2>4, <2>5, <2>6, <2>7 DEF SalesNext
<1>3. CASE LotteryNext
  <2>1. CASE DrawLottery
    BY <1>1, <2>1, DrawLotteryIInv
  <2>2. CASE ~DrawLottery
    <3>1. UNCHANGED <<sold, status, tier, paymentVars>>
      BY <1>3, <2>2 DEF LotteryNext, SetPreferences, ClearMyPreferences, ApplyToLottery,
                        ApplyToLotteries, WindowMoves, catalogVars, ticketVars
    <3>2. QED BY <1>1, <3>1, Frame
  <2>3. QED BY <2>1, <2>2
<1>4. CASE \E tt \in DirectTiers : DirectSaleTurns(tt)
  BY <1>1, <1>4, Frame DEF DirectSaleTurns, ticketVars
<1>5. CASE ManagerNext
  BY <1>1, <1>5, Frame DEF ManagerNext, CheckResize, CommitResize, WriteTotal, RefuseResize,
                           AddCampaign, UpdateCampaign, DeleteCampaign, catalogVars, ticketVars
<1>6. CASE UNCHANGED vars
  BY <1>1, <1>6, Frame DEF vars, paymentVars
<1>7. QED BY <1>2, <1>3, <1>4, <1>5, <1>6 DEF Next, FanNext

\* The invariant holds in every reachable state.
THEOREM Invariant == Spec => []IInv
BY InitIInv, StepIInv, PTL DEF Spec

\* sold_quantity of every ticket type is the number of tickets that occupy a
\* seat of it.
THEOREM SeatsAreAccounted == Spec => []SeatAccounting
<1>1. IInv => SeatAccounting
  BY DEF IInv
<1>2. QED BY <1>1, Invariant, PTL

\* No fan ever has two live tickets for the concert.
THEOREM OneTicketPerFan == Spec => []OneLiveTicket
<1>1. IInv => OneLiveTicket
  BY DEF IInv
<1>2. QED BY <1>1, Invariant, PTL

\* A ticket is paid exactly when the payment its payment_id names succeeded.
THEOREM PaidIsCharged == Spec => []PaidMeansCharged
<1>1. IInv => PaidMeansCharged
  BY DEF IInv
<1>2. QED BY <1>1, Invariant, PTL

\* Two successful payments of a fan are for one ticket, the only live one,
\* and its payment_id names both, so they are the same payment.
THEOREM ChargedOnce == Spec => []ChargedAtMostOnce
<1>1. IInv => ChargedAtMostOnce
  <2>1. SUFFICES ASSUME IInv, NEW k1 \in Keys, NEW k2 \in Keys,
                        payment[k1] = "success", payment[k2] = "success",
                        HolderOf(payFor[k1]) = HolderOf(payFor[k2])
                 PROVE  k1 = k2
    BY DEF ChargedAtMostOnce
  <2>2. /\ payFor[k1] \in TicketIds /\ status[payFor[k1]] = "paid"
        /\ payFor[k2] \in TicketIds /\ status[payFor[k2]] = "paid"
    BY <2>1 DEF IInv, RowsRefer, PaidMeansCharged
  <2>3. payFor[k1] = payFor[k2]
    BY <2>1, <2>2 DEF IInv, OneLiveTicket, LiveStatuses
  <2>4. QED BY <2>1, <2>3 DEF IInv, PaidByTheSuccess
<1>2. QED BY <1>1, Invariant, PTL
\* A charge pays, in the same step, for a ticket that was not paid and whose
\* deadline, if it was won, has not passed.
ChargeIsTimely(k) ==
  (payment[k] # "success" /\ payment'[k] = "success") =>
    LET t == payFor'[k]
    IN  /\ status[t] # "paid" /\ status'[t] = "paid"
        /\ tier'[t] \in LotteryTiers => due[t] # "past"

LEMMA StepChargesInTime ==
  ASSUME IInv, [Next]_vars, NEW k \in Keys, payment[k] # "success", payment'[k] = "success"
  PROVE  ChargeIsTimely(k)
<1>0. TypeOK /\ RowsRefer BY DEF IInv
<1>1. CASE \E u \in Fans, tt \in DirectTiers, j \in Keys, g \in Gateways :
             \E t \in FreshTickets(u) : CheckoutTicket(u, tt, t, j, g)
  <2>1. PICK u \in Fans, tt \in DirectTiers, j \in Keys, g \in Gateways :
          \E t \in FreshTickets(u) : CheckoutTicket(u, tt, t, j, g)
    BY <1>1
  <2>2. PICK t \in FreshTickets(u) : CheckoutTicket(u, tt, t, j, g) BY <2>1
  <2>3. t \in TicketIds /\ status[t] = "none" /\ tt \notin LotteryTiers
    BY ConcertAssumption DEF FreshTickets
  <2>4. /\ payment' = [payment EXCEPT ![j] = PaymentAfter(g)] /\ payFor' = [payFor EXCEPT ![j] = t]
        /\ status' = [status EXCEPT ![t] = TicketAfter(g, tt)] /\ tier' = [tier EXCEPT ![t] = tt]
    BY <2>2 DEF CheckoutTicket, CreateTicketPayment
  <2>5. k = j /\ PaymentAfter(g) = "success" BY <1>0, <2>4 DEF TypeOK
  <2>6. TicketAfter(g, tt) = "paid" BY <2>5 DEF PaymentAfter, TicketAfter, Gateways
  <2> QED BY <1>0, <2>3, <2>4, <2>5, <2>6 DEF TypeOK, ChargeIsTimely
<1>2. CASE \E t \in TicketIds, j \in Keys, g \in Gateways : CheckoutWonTicket(t, j, g)
  <2>1. PICK t \in TicketIds, j \in Keys, g \in Gateways : CheckoutWonTicket(t, j, g) BY <1>2
  <2>2. /\ payment' = [payment EXCEPT ![j] = PaymentAfter(g)] /\ payFor' = [payFor EXCEPT ![j] = t]
        /\ status' = [status EXCEPT ![t] = TicketAfter(g, tier[t])]
        /\ status[t] = "pending_payment" /\ due[t] # "past"
    BY <2>1 DEF CheckoutWonTicket, CreateTicketPayment, IsPayableWin
  <2>3. k = j /\ PaymentAfter(g) = "success" BY <1>0, <2>2 DEF TypeOK
  <2>4. TicketAfter(g, tier[t]) = "paid" BY <2>3 DEF PaymentAfter, TicketAfter, Gateways
  <2> QED BY <1>0, <2>2, <2>3, <2>4 DEF TypeOK, ChargeIsTimely
<1>3. ASSUME NEW j \in Keys, NEW caller, FinalizeCompleted(j, caller) PROVE ChargeIsTimely(k)
  <2> DEFINE t == payFor[j]
  <2>1. /\ payment[j] = "pending" /\ status[t] = "pending_payment"
        /\ tier[t] \in LotteryTiers => due[t] # "past"
    BY <1>3 DEF FinalizeCompleted, CanCapture, CanFinalize
  <2>2. /\ payment' = [payment EXCEPT ![j] = "success"] /\ status' = [status EXCEPT ![t] = "paid"]
        /\ payFor' = payFor /\ tier' = tier
    BY <1>3 DEF FinalizeCompleted
  <2>3. k = j /\ t \in TicketIds BY <1>0, <2>1, <2>2 DEF TypeOK, RowsRefer
  <2> QED BY <1>0, <2>1, <2>2, <2>3 DEF TypeOK, ChargeIsTimely
<1>4. ASSUME NEW j \in Keys, NEW caller, FinalizeFailed(j, caller) PROVE FALSE
  BY <1>0, <1>4 DEF FinalizeFailed, TypeOK
<1>5. CASE payment' = payment BY <1>5
<1>6. CASE SalesNext
  BY <1>1, <1>2, <1>3, <1>4, <1>5, <1>6
     DEF SalesNext, CheckoutWonTicketTooLate, FinalizeTooLate, ExpireTicket, DeadlinePasses, paymentVars
<1>7. CASE LotteryNext
  BY <1>5, <1>7 DEF LotteryNext, SetPreferences, ClearMyPreferences, ApplyToLottery, ApplyToLotteries,
                    WindowMoves, DrawLottery, AwardSeats, paymentVars
<1>8. CASE ManagerNext
  BY <1>5, <1>8 DEF ManagerNext, CheckResize, CommitResize, WriteTotal, RefuseResize, AddCampaign,
                    UpdateCampaign, DeleteCampaign, paymentVars
<1> QED BY <1>5, <1>6, <1>7, <1>8 DEF Next, FanNext, DirectSaleTurns, paymentVars, vars

\* Nobody pays for a win after its deadline, or for a ticket somebody else's
\* step gives away.
THEOREM ChargesInTime == Spec => ChargesAreTimely
<1>1. IInv /\ [Next]_vars => [\A k \in Keys : ChargeIsTimely(k)]_vars
  BY StepChargesInTime DEF ChargeIsTimely
<1>2. (\A k \in Keys : ChargeIsTimely(k)) =>
        \A k \in Keys :
          (payment[k] # "success" /\ payment'[k] = "success") =>
            LET t == payFor'[k]
            IN  /\ status[t] # "paid" /\ status'[t] = "paid"
                /\ tier'[t] \in LotteryTiers => due[t] # "past"
  BY DEF ChargeIsTimely
<1>3. QED BY <1>1, <1>2, Invariant, PTL DEF Spec, ChargesAreTimely

-----------------------------------------------------------------------------
(***************************************************************************)
(* Capacity: the checks of sold_quantity in the handlers and the seat      *)
(* counting of the draw suffice; a resize, whose check may be stale when   *)
(* it commits, is kept out by chk_ticket_types_capacity.                   *)
(***************************************************************************)
\* The half of SeatsWithinCapacity that SeatAccounting does not give.
NotOversold == \A tt \in Tiers : sold[tt] <= total[tt]

CInv == IInv /\ NotOversold

\* A non-empty set of bounded naturals has a largest element.
LEMMA LargestExists ==
  ASSUME NEW n \in Nat, NEW S \in SUBSET (0..n), S # {}
  PROVE  \E m \in S : \A k \in S : k <= m
<1> DEFINE T == {n - k : k \in S}
<1>1. T \subseteq Nat /\ T # {}
  <2>1. \A k \in S : n - k \in Nat
    OBVIOUS
  <2>2. PICK k \in S : TRUE
    OBVIOUS
  <2>3. n - k \in T
    OBVIOUS
  <2>4. QED BY <2>1, <2>3
<1>2. PICK x \in T : \A y \in T : ~(<<y, x>> \in OpToRel(<, Nat))
  BY <1>1, NatLessThanWellFounded, WFMin
<1>3. \A y \in T : x <= y
  <2>0. \A y \in T : ~(y < x) => x <= y
    <3> HIDE DEF T
    <3> QED BY <1>1
  <2>1. SUFFICES ASSUME NEW y \in T PROVE ~(y < x)
    BY <2>0
  <2>2. y < x => <<y, x>> \in OpToRel(<, Nat)
    BY <1>1 DEF OpToRel
  <2>3. QED BY <1>2, <2>2
<1>4. PICK m \in S : x = n - m
  OBVIOUS
<1>5. \A k \in S : k <= m
  BY <1>3, <1>4
<1>6. QED BY <1>5

\* The draw awards no more seats of a tier than are left.  The last stage of
\* the cascade (the highest rank, then the last campaign scanned) that awards
\* one of them knows of all the others.
LEMMA DrawWithinSeatsLeft ==
  ASSUME TypeOK, NotOversold, NEW tt \in Tiers,
         NEW pos \in ScanOrders, NEW W \in SUBSET PendingEntries, IsDraw(W, pos),
         \A e \in PendingEntries : EntryRank(e) # 0
  PROVE  Cardinality({w \in W : TierOf[w[2]] = tt}) <= SeatsLeft(tt)
<1> DEFINE At == {w \in W : TierOf[w[2]] = tt}
           Order == Cardinality(OpenCampaigns)
<1>1. IsFiniteSet(OpenCampaigns) /\ Order \in Nat
  <2>1. OpenCampaigns \in SUBSET Campaigns
    BY DEF OpenCampaigns
  <2>2. QED BY <2>1, ConcertAssumption, FS_Subset, FS_CardinalityType
<1>2. W \subseteq Fans \X OpenCampaigns /\ W \subseteq Fans \X Campaigns
  BY DEF PendingEntries, OpenCampaigns
<1>3. IsFiniteSet(W)
  <2>1. IsFiniteSet(Fans \X Campaigns)
    BY ConcertAssumption, FS_Product
  <2>2. QED BY <1>2, <2>1, FS_Subset
<1>4. \A w \in W : EntryRank(w) \in 1..MaxRank
  <2>1. SUFFICES ASSUME NEW w \in W PROVE EntryRank(w) \in 1..MaxRank
    OBVIOUS
  <2>2. w[1] \in Fans /\ w[2] \in Campaigns /\ TierOf[w[2]] \in LotteryTiers
    BY <1>2, ConcertAssumption
  <2>3. EntryRank(w) \in 0..MaxRank
    BY <2>2 DEF TypeOK, EntryRank
  <2>4. QED BY <2>3, MaxRankNat
<1>5. \A w \in W : pos[w[2]] \in 1..Order
  BY <1>2 DEF ScanOrders
<1>6. CASE At = {}
  <2>1. Cardinality(At) = 0
    BY <1>6, FS_EmptySet
  <2>2. QED BY <2>1 DEF NotOversold, SeatsLeft, TypeOK
<1>7. CASE At # {}
  <2> DEFINE ranks == {EntryRank(w) : w \in At}
  <2>1. PICK r \in ranks : \A q \in ranks : q <= r
    <3>1. ranks \in SUBSET (0..MaxRank) /\ ranks # {}
      BY <1>4, <1>7, MaxRankNat
    <3>2. QED BY <3>1, MaxRankNat, LargestExists
  <2>2. r \in 1..MaxRank
    BY <1>4, <2>1
  <2> DEFINE places == {pos[w[2]] : w \in {v \in At : EntryRank(v) = r}}
  <2>3. PICK p \in places : \A q \in places : q <= p
    <3>1. places \in SUBSET (0..Order) /\ places # {}
      BY <1>1, <1>5, <2>1
    <3>2. QED BY <1>1, <3>1, LargestExists
  <2>4. PICK last \in At : EntryRank(last) = r /\ pos[last[2]] = p
    BY <2>3
  <2> DEFINE c == last[2]
             Earlier == {w \in W : TierOf[w[2]] = TierOf[c] /\ DrawnBefore(w, r, c, pos)}
             Final == {w \in W : w[2] = c /\ EntryRank(w) = r}
  <2>5. c \in OpenCampaigns /\ TierOf[c] = tt
    BY <1>2, <2>4
  <2>6. At = Earlier \cup Final
    <3>1. \A w \in At : w \in Earlier \/ w \in Final
      <4>1. SUFFICES ASSUME NEW w \in At PROVE w \in Earlier \/ w \in Final
        OBVIOUS
      <4>2. EntryRank(w) <= r /\ EntryRank(w) \in Nat /\ r \in Nat
        BY <1>4, <2>1, <2>2
      <4>3. CASE EntryRank(w) = r
        <5>1. pos[w[2]] <= pos[c] /\ pos[w[2]] \in Nat /\ pos[c] \in Nat
          BY <1>5, <2>3, <2>4, <4>3
        <5>2. pos[w[2]] = pos[c] => w[2] = c
          BY <1>2, <2>5 DEF ScanOrders
        <5>3. QED BY <2>5, <4>3, <5>1, <5>2 DEF DrawnBefore
      <4>4. CASE EntryRank(w) # r
        BY <2>5, <4>2, <4>4 DEF DrawnBefore
      <4>5. QED BY <4>3, <4>4
    <3>2. Earlier \subseteq At /\ Final \subseteq At
      BY <2>5
    <3>3. QED BY <3>1, <3>2
  <2>7. Earlier \cap Final = {}
    BY <1>5, <2>2, <2>4 DEF DrawnBefore
  <2>8. IsFiniteSet(Earlier) /\ IsFiniteSet(Final)
    <3>1. Earlier \in SUBSET W /\ Final \in SUBSET W
      OBVIOUS
    <3>2. QED BY <1>3, <3>1, FS_Subset
  <2>9. Cardinality(Earlier) \in Nat /\ Cardinality(Final) \in Nat
    BY <2>8, FS_CardinalityType
  <2>10. Cardinality(At) = Cardinality(Earlier) + Cardinality(Final)
    <3>1. Cardinality(At) = Cardinality(Earlier) + Cardinality(Final) - Cardinality(Earlier \cap Final)
      BY <2>6, <2>8, FS_Union
    <3>2. Cardinality(Earlier \cap Final) = 0
      BY <2>7, FS_EmptySet
    <3>3. QED BY <2>9, <3>1, <3>2
  <2>11. Cardinality(Final) <= SeatsLeft(tt) - Cardinality(Earlier)
    <3> DEFINE cand == Candidates(W, r, c, pos)
               left == SeatsLeftAt(W, r, c, pos)
    <3>1. Cardinality(Final) = Smaller(Cardinality(cand), left)
      BY <2>2, <2>5 DEF IsDraw
    <3>2. left = SeatsLeft(tt) - Cardinality(Earlier)
      BY <2>5 DEF SeatsLeftAt
    <3>3. IsFiniteSet(PendingEntries)
      <4>1. IsFiniteSet(Fans \X OpenCampaigns)
        BY <1>1, ConcertAssumption, FS_Product
      <4>2. PendingEntries \in SUBSET (Fans \X OpenCampaigns)
        BY DEF PendingEntries
      <4>3. QED BY <4>1, <4>2, FS_Subset
    <3>4. Cardinality(cand) \in Nat
      <4>1. cand \in SUBSET PendingEntries
        BY DEF Candidates
      <4>2. QED BY <3>3, <4>1, FS_Subset, FS_CardinalityType
    <3>5. left \in Int
      BY <2>9, <3>2 DEF SeatsLeft, TypeOK
    <3>6. QED BY <3>1, <3>2, <3>4, <3>5 DEF Smaller
  <2>12. QED BY <2>9, <2>10, <2>11 DEF SeatsLeft, TypeOK
<1>8. QED BY <1>6, <1>7

\* Every step of the specification leaves each tier within its total.
LEMMA StepNotOversold == CInv /\ [Next]_vars => NotOversold'
<1> SUFFICES ASSUME CInv, [Next]_vars PROVE NotOversold'
  OBVIOUS
<1>1. sold \in [Tiers -> Int] /\ total \in [Tiers -> Nat] /\ TypeOK /\ NotOversold
  BY DEF CInv, IInv, TypeOK
<1>2. CASE SalesNext
  <2>1. total' = total
    BY <1>2 DEF SalesNext, CheckoutTicket, CheckoutWonTicketTooLate, CheckoutWonTicket, ExpireTicket,
                FinalizeTooLate, FinalizeCompleted, FinalizeFailed, DeadlinePasses, catalogVars
  <2>2. \/ sold' = sold
        \/ \E tt \in Tiers : sold[tt] < total[tt] /\ sold' = [sold EXCEPT ![tt] = @ + 1]
        \/ \E t \in TicketIds : sold' = [sold EXCEPT ![tier[t]] = @ - 1]
    <3>1. CASE \E u \in Fans, tt \in DirectTiers, k \in Keys, g \in Gateways :
                 \E t \in FreshTickets(u) : CheckoutTicket(u, tt, t, k, g)
      BY <3>1 DEF CheckoutTicket, Tiers
    <3>2. CASE \E t \in TicketIds, k \in Keys : CheckoutWonTicketTooLate(t, k)
      BY <3>2 DEF CheckoutWonTicketTooLate, ExpireTicket
    <3>3. CASE \E t \in TicketIds, k \in Keys, g \in Gateways : CheckoutWonTicket(t, k, g)
      BY <3>3 DEF CheckoutWonTicket, catalogVars
    <3>4. CASE \E k \in Keys, caller \in Fans \cup {Webhook} : FinalizeTooLate(k, caller)
      <4>1. PICK k \in Keys, caller \in Fans \cup {Webhook} : FinalizeTooLate(k, caller)
        BY <3>4
      <4>2. payFor[k] \in TicketIds
        BY <4>1 DEF FinalizeTooLate, CanFinalize, CInv, IInv, RowsRefer
      <4>3. QED BY <4>1, <4>2 DEF FinalizeTooLate, ExpireTicket
    <3>5. CASE \E k \in Keys, caller \in Fans \cup {Webhook} : FinalizeCompleted(k, caller)
      <4>1. PICK k \in Keys, caller \in Fans \cup {Webhook} : FinalizeCompleted(k, caller)
        BY <3>5
      <4> DEFINE tt == tier[payFor[k]]
      <4>2. CASE tt \in DirectTiers
        <5>1. tt \in Tiers /\ SeatsLeft(tt) > 0 /\ sold' = [sold EXCEPT ![tt] = @ + 1]
          BY <4>1, <4>2 DEF FinalizeCompleted, CanCapture, Tiers
        <5>2. sold[tt] < total[tt]
          BY <1>1, <5>1 DEF SeatsLeft
        <5>3. QED BY <5>1, <5>2
      <4>3. CASE tt \notin DirectTiers
        BY <4>1, <4>3 DEF FinalizeCompleted
      <4>4. QED BY <4>2, <4>3
    <3>6. CASE \E k \in Keys, caller \in Fans \cup {Webhook} : FinalizeFailed(k, caller)
      BY <3>6 DEF FinalizeFailed, catalogVars
    <3>7. CASE \E t \in TicketIds : DeadlinePasses(t)
      BY <3>7 DEF DeadlinePasses, catalogVars
    <3>8. QED BY <1>2, <3>1, <3>2, <3>3, <3>4, <3>5, <3>6, <3>7 DEF SalesNext
  <2>3. CASE sold' = sold
    BY <1>1, <2>1, <2>3 DEF NotOversold
  <2>4. CASE \E tt \in Tiers : sold[tt] < total[tt] /\ sold' = [sold EXCEPT ![tt] = @ + 1]
    <3>1. PICK x \in Tiers : sold[x] < total[x] /\ sold' = [sold EXCEPT ![x] = sold[x] + 1]
      BY <2>4
    <3>2. sold'[x] <= total'[x] /\ \A tt \in Tiers \ {x} : sold'[tt] = sold[tt]
      BY <1>1, <2>1, <3>1
    <3>3. QED BY <1>1, <2>1, <3>2 DEF NotOversold
  <2>5. CASE \E t \in TicketIds : sold' = [sold EXCEPT ![tier[t]] = @ - 1]
    <3>1. PICK t \in TicketIds : sold' = [sold EXCEPT ![tier[t]] = sold[tier[t]] - 1]
      BY <2>5
    <3>2. \A tt \in Tiers : sold'[tt] <= sold[tt] /\ sold'[tt] \in Int
      BY <1>1, <3>1
    <3>3. QED BY <1>1, <2>1, <3>2 DEF NotOversold
  <2>6. QED BY <2>2, <2>3, <2>4, <2>5
<1>3. CASE DrawLottery
  <2>1. \A e \in PendingEntries : EntryRank(e) # 0
    BY <1>3 DEF DrawLottery
  <2>2. PICK pos \in ScanOrders :
          \E W \in SUBSET PendingEntries :
            IsDraw(W, pos) /\ \E slot \in WinningTickets(W) : AwardSeats(W, slot)
    BY <1>3 DEF DrawLottery
  <2>3. PICK W \in SUBSET PendingEntries :
          IsDraw(W, pos) /\ \E slot \in WinningTickets(W) : AwardSeats(W, slot)
    BY <2>2
  <2>4. SUFFICES ASSUME NEW tt \in Tiers PROVE sold'[tt] <= total'[tt]
    BY DEF NotOversold
  <2>5. sold'[tt] = sold[tt] + Cardinality({w \in W : TierOf[w[2]] = tt}) /\ total' = total
    BY <2>3 DEF AwardSeats
  <2>6. Cardinality({w \in W : TierOf[w[2]] = tt}) <= total[tt] - sold[tt]
    BY <1>1, <2>1, <2>3, DrawWithinSeatsLeft DEF SeatsLeft
  <2>7. Cardinality({w \in W : TierOf[w[2]] = tt}) \in Nat
    <3>1. IsFiniteSet(Fans \X Campaigns)
      BY ConcertAssumption, FS_Product
    <3>2. {w \in W : TierOf[w[2]] = tt} \in SUBSET (Fans \X Campaigns)
      BY DEF PendingEntries, OpenCampaigns
    <3>3. QED BY <3>1, <3>2, FS_Subset, FS_CardinalityType
  <2>8. QED BY <1>1, <2>5, <2>6, <2>7
<1>4. CASE LotteryNext /\ ~DrawLottery
  <2>1. UNCHANGED <<sold, total>>
    BY <1>4 DEF LotteryNext, SetPreferences, ClearMyPreferences, ApplyToLottery,
                ApplyToLotteries, WindowMoves, catalogVars
  <2>2. QED BY <1>1, <2>1 DEF NotOversold
<1>5. CASE \E tt \in DirectTiers : DirectSaleTurns(tt)
  BY <1>1, <1>5 DEF DirectSaleTurns, NotOversold
<1>6. CASE ManagerNext
  <2>1. CASE \E tt \in Tiers, n \in Quantities : CommitResize(tt, n)
    BY <1>1, <2>1 DEF CommitResize, WriteTotal, NotOversold
  <2>2. CASE ~\E tt \in Tiers, n \in Quantities : CommitResize(tt, n)
    <3>1. UNCHANGED <<sold, total>>
      BY <1>6, <2>2 DEF ManagerNext, CheckResize, RefuseResize, AddCampaign, UpdateCampaign, DeleteCampaign,
                        catalogVars
    <3>2. QED BY <1>1, <3>1 DEF NotOversold
  <2>3. QED BY <2>1, <2>2
<1>7. CASE UNCHANGED vars
  BY <1>1, <1>7 DEF vars, NotOversold
<1>8. QED BY <1>2, <1>3, <1>4, <1>5, <1>6, <1>7 DEF Next, FanNext

\* CInv holds in every reachable state.
LEMMA CapacityInvariant == Spec => []CInv
<1>1. Init => CInv
  <2>1. Init => TypeOK /\ \A tt \in Tiers : sold[tt] = 0
    BY InitTypeOK DEF Init
  <2>2. Init => NotOversold
    BY <2>1 DEF NotOversold, TypeOK
  <2>3. QED BY <2>2, InitIInv DEF CInv
<1>2. CInv /\ [Next]_vars => CInv'
  BY StepIInv, StepNotOversold DEF CInv
<1>3. QED BY <1>1, <1>2, PTL DEF Spec

\* No tier is ever oversold and no count negative, and of all the steps that
\* write ticket_types only CommitResize is guarded by the CHECK constraint:
\* the commits of fans, captures, expiries and draws never meet it.
THEOREM NeverOversold == Spec => []SeatsWithinCapacity
<1>1. CInv => SeatsWithinCapacity
  BY SeatTicketsFinite, FS_CardinalityType
     DEF CInv, IInv, SeatAccounting, NotOversold, SeatsWithinCapacity, SoldChecks
<1>2. QED BY <1>1, CapacityInvariant, PTL
=============================================================================
