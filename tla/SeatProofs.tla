----------------------------- MODULE SeatProofs -----------------------------
(***************************************************************************)
(* The ticketing of a concert implements SeatAllocation, for any fans,     *)
(* tiers, campaigns and payments, with managers resizing tiers: every      *)
(* handler, draw and expiry is one abstract step or none.                  *)
(***************************************************************************)
EXTENDS ConcertProofs

-----------------------------------------------------------------------------
(***************************************************************************)
(* Where a fan sits                                                        *)
(***************************************************************************)
\* A ticket that occupies a seat gives its fan that seat, and only that.
SeatIsOfTicket(u) ==
  /\ \A tt \in Tiers, t \in TicketIds :
       (HolderOf(t) = u /\ t \in SeatTickets(tt)) => HasSeat(u) /\ SeatOf(u) = tt
  /\ ~HasSeat(u) => SeatOf(u) = NoTier
  /\ HasSeat(u) => SeatOf(u) \in Tiers

SeatsAreOfTickets == \A u \in Fans : SeatIsOfTicket(u)

\* Fans who sit in a tier are as many as its seats sold.
TakenAreSold == \A tt \in Tiers : Cardinality({u \in Fans : SeatOf(u) = tt}) = sold[tt]

LEMMA SeatOfHolder == IInv => SeatsAreOfTickets
<1> SUFFICES ASSUME IInv, NEW u \in Fans PROVE SeatIsOfTicket(u)
  BY DEF SeatsAreOfTickets
<1> DEFINE P(tt) == \E t \in SeatTickets(tt) : HolderOf(t) = u
<1>1. ASSUME NEW tt \in Tiers, NEW t \in SeatTickets(tt), HolderOf(t) = u,
             NEW x \in Tiers, P(x)
      PROVE  x = tt
  <2>1. PICK y \in SeatTickets(x) : HolderOf(y) = u BY <1>1
  <2>2. /\ t \in TicketIds /\ y \in TicketIds
        /\ status[t] \in LiveStatuses /\ status[y] \in LiveStatuses
        /\ tier[t] = tt /\ tier[y] = x
    BY <1>1, <2>1 DEF SeatTickets, OccupyingStatuses, LiveStatuses
  <2> QED BY <1>1, <2>1, <2>2 DEF IInv, OneLiveTicket
<1>2. ASSUME NEW tt \in Tiers, NEW t \in TicketIds, HolderOf(t) = u, t \in SeatTickets(tt)
      PROVE  HasSeat(u) /\ SeatOf(u) = tt
  <2>1. HasSeat(u) BY <1>2 DEF HasSeat
  <2>2. P(tt) BY <1>2
  <2>3. (CHOOSE x \in Tiers : P(x)) \in Tiers /\ P(CHOOSE x \in Tiers : P(x)) BY <2>2
  <2>4. (CHOOSE x \in Tiers : P(x)) = tt BY <1>1, <1>2, <2>3
  <2> QED BY <2>1, <2>4 DEF SeatOf
<1>3. ~HasSeat(u) => SeatOf(u) = NoTier BY DEF SeatOf
<1>4. HasSeat(u) => SeatOf(u) \in Tiers BY <1>2 DEF HasSeat
<1> QED BY <1>2, <1>3, <1>4 DEF SeatIsOfTicket

LEMMA TakenCounted == IInv => TakenAreSold
<1> SUFFICES ASSUME IInv, NEW tt \in Tiers
             PROVE  Cardinality({u \in Fans : SeatOf(u) = tt}) = sold[tt]
  BY DEF TakenAreSold
<1>0. SeatsAreOfTickets BY SeatOfHolder
<1> USE <1>0 DEF SeatsAreOfTickets, SeatIsOfTicket
<1> DEFINE taken == {u \in Fans : SeatOf(u) = tt}
           f == [t \in SeatTickets(tt) |-> HolderOf(t)]
<1>1. tt # NoTier BY ConcertAssumption
<1>2. \A t \in SeatTickets(tt) : t \in TicketIds /\ HolderOf(t) \in taken
  BY HolderIsFan DEF SeatTickets
<1>3. \A t, x \in SeatTickets(tt) : HolderOf(t) = HolderOf(x) => t = x
  BY DEF IInv, OneLiveTicket, SeatTickets, OccupyingStatuses, LiveStatuses
<1>4. ASSUME NEW u \in taken PROVE \E t \in SeatTickets(tt) : f[t] = u
  <2>1. HasSeat(u) BY <1>1
  <2>2. PICK x \in Tiers, t \in TicketIds : HolderOf(t) = u /\ t \in SeatTickets(x) BY <2>1 DEF HasSeat
  <2>3. x = tt BY <2>2
  <2> QED BY <2>2, <2>3
<1>5. f \in Bijection(SeatTickets(tt), taken)
  <2>1. f \in [SeatTickets(tt) -> taken] BY <1>2
  <2>2. \A t, x \in SeatTickets(tt) : f[t] = f[x] => t = x BY <1>3
  <2> QED BY <1>4, <2>1, <2>2, Fun_IsBij
<1>6. Cardinality(taken) = Cardinality(SeatTickets(tt))
  BY <1>5, Fun_ExistsBij, FS_Bijection, SeatTicketsFinite
<1> QED BY <1>6 DEF IInv, SeatAccounting

\* The same of the state after a step.
LEMMA SeatsNext == IInv' => SeatsAreOfTickets' /\ TakenAreSold'
BY SeatOfHolder, TakenCounted, PTL

\* A fan whose tickets are left alone keeps the seat.
LEMMA SeatKept ==
  ASSUME IInv, IInv', NEW u \in Fans,
         \A t \in TicketIds : HolderOf(t) = u => status'[t] = status[t] /\ tier'[t] = tier[t]
  PROVE  /\ SeatOf(u)' = SeatOf(u)
         /\ u \in PaidFans' <=> u \in PaidFans
<1>0. SeatsAreOfTickets /\ SeatsAreOfTickets' BY SeatOfHolder, SeatsNext
<1> USE DEF SeatsAreOfTickets, SeatIsOfTicket
<1>1. \A tt \in Tiers, t \in TicketIds : HolderOf(t) = u => (t \in SeatTickets(tt)' <=> t \in SeatTickets(tt))
  BY DEF SeatTickets
<1>2. HasSeat(u)' <=> HasSeat(u) BY <1>1 DEF HasSeat
<1>3. CASE HasSeat(u)
  <2>1. PICK tt \in Tiers, t \in TicketIds : HolderOf(t) = u /\ t \in SeatTickets(tt) BY <1>3 DEF HasSeat
  <2>2. SeatOf(u) = tt BY <1>0, <2>1
  <2>3. SeatOf(u)' = tt BY <1>0, <1>1, <2>1
  <2> QED BY <2>2, <2>3 DEF PaidFans
<1>4. CASE ~HasSeat(u)
  BY <1>0, <1>2, <1>4 DEF PaidFans
<1> QED BY <1>3, <1>4
-----------------------------------------------------------------------------
(***************************************************************************)
(* One fan moves                                                           *)
(***************************************************************************)
Kept(v) == SeatOf(v)' = SeatOf(v) /\ (v \in PaidFans' <=> v \in PaidFans)

\* The tiers hold who sits in them.
LEMMA WithinQuota ==
  ASSUME CInv', total' = total
  PROVE  \A tt \in Tiers : Cardinality({u \in Fans : SeatOf(u)' = tt}) <= total[tt]
BY SeatsNext DEF CInv, NotOversold, TakenAreSold

\* SeatAllocation counts with the same Cardinality.
LEMMA SameCount == ASSUME NEW S PROVE Seats!Cardinality(S) = Cardinality(S)
BY DEF Seats!Cardinality, Cardinality

\* Seats go to fans who have none, and the tiers hold them.
LEMMA SeatsHandedOut ==
  ASSUME CInv', total' = total, NEW given,
         \A v \in Fans : given[v] # NoTier => SeatOf(v) = NoTier,
         \A v \in Fans : SeatOf(v)' = IF given[v] = NoTier THEN SeatOf(v) ELSE given[v]
  PROVE  Seats!HandOut(given)
<1>1. \A u \in Fans : given[u] # NoTier => [v \in Fans |-> SeatOf(v)][u] = NoTier
  OBVIOUS
<1>2. [u \in Fans |-> SeatOf(u)]' =
        [u \in Fans |-> IF given[u] = NoTier THEN [v \in Fans |-> SeatOf(v)][u] ELSE given[u]]
  OBVIOUS
<1>3. \A tt \in Tiers : Seats!Cardinality(Seats!TakenBy([u \in Fans |-> SeatOf(u)]', tt)) <= total[tt]
  <2> SUFFICES ASSUME NEW tt \in Tiers
               PROVE  Seats!Cardinality(Seats!TakenBy([u \in Fans |-> SeatOf(u)]', tt)) <= total[tt]
    OBVIOUS
  <2>1. Seats!TakenBy([u \in Fans |-> SeatOf(u)]', tt) = {v \in Fans : SeatOf(v)' = tt} BY DEF Seats!TakenBy
  <2> QED BY <2>1, SameCount, WithinQuota
<1> QED BY <1>1, <1>2, <1>3, Zenon DEF Seats!HandOut

\* Nothing SeatAllocation sees changes.
LEMMA NobodyMoves ==
  ASSUME total' = total, \A v \in Fans : Kept(v)
  PROVE  UNCHANGED Seats!svars
BY DEF Seats!svars, Kept, PaidFans

LEMMA OneFanMoves ==
  ASSUME CInv', total' = total, NEW u \in Fans,
         \A v \in Fans \ {u} : Kept(v),
         \/ Kept(u)
         \/ SeatOf(u) = NoTier /\ SeatOf(u)' \in Tiers /\ u \in PaidFans'
         \/ SeatOf(u) \in Tiers /\ SeatOf(u)' = SeatOf(u) /\ u \in PaidFans'
         \/ SeatOf(u)' = NoTier /\ u \notin PaidFans /\ u \notin PaidFans'
  PROVE  [Seats!SNext]_(Seats!svars)
<1> USE DEF Kept
<1>0. NoTier \notin Tiers /\ PaidFans \subseteq Fans /\ PaidFans' \subseteq Fans
  BY ConcertAssumption DEF PaidFans
<1>1. CASE Kept(u) BY <1>1, NobodyMoves
<1>2. CASE SeatOf(u) = NoTier /\ SeatOf(u)' \in Tiers /\ u \in PaidFans'
  <2> DEFINE tt == SeatOf(u)'
             given == [v \in Fans |-> IF v = u THEN tt ELSE NoTier]
  <2>4. Seats!HandOut(given) BY <1>0, <1>2, SeatsHandedOut
  <2>5. PaidFans' = PaidFans \cup {u} BY <1>0, <1>2
  <2>6. Seats!Sell(u, tt) BY <2>4, <2>5 DEF Seats!Sell
  <2> QED BY <1>2, <2>6 DEF Seats!SNext
<1>3. CASE SeatOf(u) \in Tiers /\ SeatOf(u)' = SeatOf(u) /\ u \in PaidFans'
  <2>1. PaidFans' = PaidFans \cup {u} BY <1>0, <1>3
  <2>2. Seats!Pay(u) BY <1>0, <1>3, <2>1 DEF Seats!Pay
  <2> QED BY <2>2 DEF Seats!SNext
<1>4. CASE SeatOf(u)' = NoTier /\ u \notin PaidFans /\ u \notin PaidFans'
  <2>1. PaidFans' = PaidFans BY <1>0, <1>4
  <2>2. [v \in Fans |-> SeatOf(v)]' = [[v \in Fans |-> SeatOf(v)] EXCEPT ![u] = NoTier] BY <1>4
  <2>3. Seats!Release(u) BY <1>4, <2>1, <2>2 DEF Seats!Release
  <2> QED BY <2>3 DEF Seats!SNext
<1> QED BY <1>1, <1>2, <1>3, <1>4

\* A handler that changes the one ticket of a fan that is or becomes live:
\* an unpaid ticket that keeps its seat, is paid or is given up.
LEMMA OneTicketMoves ==
  ASSUME CInv, CInv', total' = total, NEW t \in TicketIds,
         \A y \in TicketIds \ {t} : status'[y] = status[y] /\ tier'[y] = tier[y],
         \A y \in TicketIds \ {t} : HolderOf(y) = HolderOf(t) => status[y] \notin LiveStatuses,
         status[t] # "paid",
         \A x \in Tiers : t \in SeatTickets(x) => t \in SeatTickets(x)' \/ status'[t] \notin LiveStatuses,
         \A x \in Tiers : t \in SeatTickets(x)' => t \in SeatTickets(x) \/ status'[t] = "paid"
  PROVE  [Seats!SNext]_(Seats!svars)
<1> DEFINE u == HolderOf(t)
<1>1. u \in Fans /\ IInv /\ IInv' BY HolderIsFan DEF CInv
<1>2. SeatsAreOfTickets /\ SeatsAreOfTickets' BY <1>1, SeatOfHolder, SeatsNext
<1>3. \A v \in Fans \ {u} : Kept(v)
  <2> SUFFICES ASSUME NEW v \in Fans \ {u} PROVE Kept(v) OBVIOUS
  <2>1. \A y \in TicketIds : HolderOf(y) = v => status'[y] = status[y] /\ tier'[y] = tier[y] OBVIOUS
  <2> QED BY <1>1, <2>1, SeatKept DEF Kept
<1>4. u \in PaidFans' <=> status'[t] = "paid" BY <1>1 DEF PaidFans, LiveStatuses
<1>5. u \notin PaidFans BY DEF PaidFans, LiveStatuses
<1>6. HasSeat(u) <=> \E x \in Tiers : t \in SeatTickets(x)
  BY DEF HasSeat, SeatTickets, OccupyingStatuses, LiveStatuses
<1>7. HasSeat(u)' <=> \E x \in Tiers : t \in SeatTickets(x)'
  BY DEF HasSeat, SeatTickets, OccupyingStatuses, LiveStatuses
<1>8. CASE \E x \in Tiers : t \in SeatTickets(x)
  <2>1. PICK x \in Tiers : t \in SeatTickets(x) BY <1>8
  <2>2. SeatOf(u) = x BY <1>1, <1>2, <2>1 DEF SeatsAreOfTickets, SeatIsOfTicket
  <2>3. CASE t \in SeatTickets(x)'
    <3>1. SeatOf(u)' = x BY <1>1, <1>2, <2>3 DEF SeatsAreOfTickets, SeatIsOfTicket
    <3> QED BY <1>1, <1>3, <1>4, <1>5, <2>2, <3>1, OneFanMoves DEF Kept
  <2>4. CASE t \notin SeatTickets(x)'
    <3>1. status'[t] \notin LiveStatuses BY <2>1, <2>4
    <3>2. ~HasSeat(u)' BY <1>7, <3>1 DEF SeatTickets, OccupyingStatuses, LiveStatuses
    <3>3. SeatOf(u)' = NoTier BY <1>1, <1>2, <3>2 DEF SeatsAreOfTickets, SeatIsOfTicket
    <3>4. u \notin PaidFans' BY <1>4, <3>1 DEF LiveStatuses
    <3> QED BY <1>1, <1>3, <1>5, <3>3, <3>4, OneFanMoves
  <2> QED BY <2>3, <2>4
<1>9. CASE ~\E x \in Tiers : t \in SeatTickets(x)
  <2>1. SeatOf(u) = NoTier BY <1>1, <1>2, <1>6, <1>9 DEF SeatsAreOfTickets, SeatIsOfTicket
  <2>2. CASE \E x \in Tiers : t \in SeatTickets(x)'
    <3>1. status'[t] = "paid" BY <1>9, <2>2
    <3>2. SeatOf(u)' \in Tiers BY <1>1, <1>2, <1>7, <2>2 DEF SeatsAreOfTickets, SeatIsOfTicket
    <3> QED BY <1>1, <1>3, <1>4, <2>1, <3>1, <3>2, OneFanMoves
  <2>3. CASE ~\E x \in Tiers : t \in SeatTickets(x)'
    <3>1. SeatOf(u)' = NoTier BY <1>1, <1>2, <1>7, <2>3 DEF SeatsAreOfTickets, SeatIsOfTicket
    <3>2. status'[t] # "paid" BY <1>1, <2>3 DEF IInv, RowsRefer, SeatTickets, OccupyingStatuses
    <3> QED BY <1>1, <1>3, <1>4, <1>5, <2>1, <3>1, <3>2, OneFanMoves DEF Kept
  <2> QED BY <2>2, <2>3
<1> QED BY <1>8, <1>9
-----------------------------------------------------------------------------
(***************************************************************************)
(* Each handler                                                            *)
(***************************************************************************)
LEMMA TicketsLeftAlone ==
  ASSUME CInv, CInv', UNCHANGED <<total, status, tier>>
  PROVE  [Seats!SNext]_(Seats!svars)
<1>1. \A v \in Fans : Kept(v) BY SeatKept DEF CInv, Kept
<1> QED BY <1>1, NobodyMoves

\* The other tickets of the holder of a live one are not live.
LEMMA OthersNotLive ==
  ASSUME IInv, NEW t \in TicketIds, status[t] \in LiveStatuses
  PROVE  \A y \in TicketIds \ {t} : HolderOf(y) = HolderOf(t) => status[y] \notin LiveStatuses
BY DEF IInv, OneLiveTicket

LEMMA CheckoutImplements ==
  ASSUME CInv, CInv', NEW u \in Fans, NEW tt \in DirectTiers, NEW k \in Keys, NEW g \in Gateways,
         NEW t \in FreshTickets(u), CheckoutTicket(u, tt, t, k, g)
  PROVE  [Seats!SNext]_(Seats!svars)
<1>1. t \in TicketIds /\ status[t] = "none" /\ HolderOf(t) = u BY DEF FreshTickets
<1>2. tt \notin LotteryTiers BY ConcertAssumption
<1>3. TypeOK BY DEF CInv, IInv
<1>4. /\ status' = [status EXCEPT ![t] = TicketAfter(g, tt)]
      /\ tier' = [tier EXCEPT ![t] = tt] /\ total' = total
  BY DEF CheckoutTicket, CreateTicketPayment
<1>5. TicketAfter(g, tt) \in {"paid", "cancelled", "pending_payment"} BY DEF TicketAfter, Gateways
<1>6. /\ status'[t] = TicketAfter(g, tt) /\ tier'[t] = tt
      /\ \A y \in TicketIds \ {t} : status'[y] = status[y] /\ tier'[y] = tier[y]
  BY <1>1, <1>3, <1>4 DEF TypeOK
<1>7. \A y \in TicketIds \ {t} : HolderOf(y) = HolderOf(t) => status[y] \notin LiveStatuses
  BY <1>1 DEF CheckoutTicket, HoldsLiveTicket
<1>8. \A x \in Tiers : /\ t \notin SeatTickets(x)
                       /\ t \in SeatTickets(x)' => status'[t] = "paid"
  BY <1>1, <1>2, <1>5, <1>6 DEF SeatTickets, OccupyingStatuses
<1> QED BY <1>1, <1>4, <1>6, <1>7, <1>8, OneTicketMoves

\* A handler that changes the status of a ticket that waits for its payment.
LEMMA PendingTicketImplements ==
  ASSUME CInv, CInv', NEW t \in TicketIds, status[t] = "pending_payment", total' = total, tier' = tier,
         NEW s, status' = [status EXCEPT ![t] = s],
         \/ s = "paid"
         \/ s = "pending_payment"
         \/ s = "expired"
         \/ s = "cancelled"
  PROVE  [Seats!SNext]_(Seats!svars)
<1>1. IInv /\ TypeOK BY DEF CInv, IInv
<1>2. status'[t] = s /\ \A y \in TicketIds \ {t} : status'[y] = status[y] BY <1>1 DEF TypeOK
<1>3. \A y \in TicketIds \ {t} : HolderOf(y) = HolderOf(t) => status[y] \notin LiveStatuses
  BY <1>1, OthersNotLive DEF LiveStatuses
<1>4. \A x \in Tiers : t \in SeatTickets(x) => t \in SeatTickets(x)' \/ status'[t] \notin LiveStatuses
  BY <1>2 DEF SeatTickets, OccupyingStatuses, LiveStatuses
<1>5. \A x \in Tiers : t \in SeatTickets(x)' => t \in SeatTickets(x) \/ status'[t] = "paid"
  BY <1>2 DEF SeatTickets, OccupyingStatuses
<1> QED BY <1>2, <1>3, <1>4, <1>5, OneTicketMoves

LEMMA SalesImplement ==
  ASSUME CInv, CInv', SalesNext PROVE [Seats!SNext]_(Seats!svars)
<1>1. CASE \E u \in Fans, tt \in DirectTiers, k \in Keys, g \in Gateways :
             \E t \in FreshTickets(u) : CheckoutTicket(u, tt, t, k, g)
  BY <1>1, CheckoutImplements
<1>2. CASE \E t \in TicketIds, k \in Keys : CheckoutWonTicketTooLate(t, k)
  BY <1>2, PendingTicketImplements DEF CheckoutWonTicketTooLate, IsPayableWin, ExpireTicket
<1>3. CASE \E t \in TicketIds, k \in Keys, g \in Gateways : CheckoutWonTicket(t, k, g)
  <2>1. PICK t \in TicketIds, k \in Keys, g \in Gateways : CheckoutWonTicket(t, k, g) BY <1>3
  <2>2. /\ status[t] = "pending_payment" /\ total' = total /\ tier' = tier
        /\ status' = [status EXCEPT ![t] = TicketAfter(g, tier[t])]
    BY <2>1 DEF CheckoutWonTicket, CreateTicketPayment, IsPayableWin, catalogVars
  <2>3. TicketAfter(g, tier[t]) \in {"paid", "cancelled", "pending_payment"} BY DEF TicketAfter, Gateways
  <2> QED BY <2>2, <2>3, PendingTicketImplements
<1>4. CASE \E k \in Keys, caller \in Fans \cup {Webhook} :
             FinalizeTooLate(k, caller) \/ FinalizeCompleted(k, caller) \/ FinalizeFailed(k, caller)
  <2>1. PICK k \in Keys, caller \in Fans \cup {Webhook} :
          FinalizeTooLate(k, caller) \/ FinalizeCompleted(k, caller) \/ FinalizeFailed(k, caller)
    BY <1>4
  <2> DEFINE t == payFor[k]
  <2>2. payment[k] = "pending" /\ status[t] = "pending_payment"
    BY <2>1 DEF FinalizeTooLate, FinalizeCompleted, FinalizeFailed, CanCapture, CanFinalize
  <2>3. t \in TicketIds BY <2>2 DEF CInv, IInv, RowsRefer
  <2>4. CASE FinalizeTooLate(k, caller)
    BY <2>2, <2>3, <2>4, PendingTicketImplements DEF FinalizeTooLate, ExpireTicket
  <2>5. CASE FinalizeCompleted(k, caller)
    BY <2>2, <2>3, <2>5, PendingTicketImplements DEF FinalizeCompleted
  <2>6. CASE FinalizeFailed(k, caller)
    <3> DEFINE s == IF tier[t] \in DirectTiers THEN "cancelled" ELSE status[t]
    <3>1. status' = [status EXCEPT ![t] = s] /\ total' = total /\ tier' = tier
      BY <2>6 DEF FinalizeFailed, catalogVars
    <3>2. s \in {"cancelled", "pending_payment"} BY <2>2
    <3> HIDE DEF s
    <3> QED BY <2>2, <2>3, <3>1, <3>2, PendingTicketImplements
  <2> QED BY <2>1, <2>4, <2>5, <2>6
<1>5. CASE \E t \in TicketIds : DeadlinePasses(t)
  BY <1>5, TicketsLeftAlone DEF DeadlinePasses, catalogVars
<1> QED BY <1>1, <1>2, <1>3, <1>4, <1>5 DEF SalesNext

\* A draw hands its seats out at once.
LEMMA DrawImplements ==
  ASSUME CInv, CInv', DrawLottery PROVE Seats!SNext
<1> DEFINE given == [v \in Fans |-> IF SeatOf(v) = NoTier THEN SeatOf(v)' ELSE NoTier]
<1>1. IInv /\ IInv' /\ SeatsAreOfTickets /\ SeatsAreOfTickets' BY SeatOfHolder, SeatsNext DEF CInv
<1>2. PICK W \in SUBSET PendingEntries : \E slot \in WinningTickets(W) : AwardSeats(W, slot)
  BY DEF DrawLottery
<1>3. PICK slot \in WinningTickets(W) : AwardSeats(W, slot) BY <1>2
<1>4. \A t \in TicketIds :
        \/ status'[t] = status[t] /\ tier'[t] = tier[t]
        \/ status[t] = "none" /\ status'[t] = "pending_payment"
  BY <1>3 DEF AwardSeats, WinningTickets, FreshTickets
<1>5. total' = total BY <1>3 DEF AwardSeats
<1>6. PaidFans' = PaidFans BY <1>4 DEF PaidFans
<1>7. \A v \in Fans : SeatOf(v) # NoTier => SeatOf(v)' = SeatOf(v)
  <2> SUFFICES ASSUME NEW v \in Fans, SeatOf(v) # NoTier PROVE SeatOf(v)' = SeatOf(v) OBVIOUS
  <2>1. HasSeat(v) BY <1>1 DEF SeatsAreOfTickets, SeatIsOfTicket
  <2>2. PICK tt \in Tiers, t \in TicketIds : HolderOf(t) = v /\ t \in SeatTickets(tt) BY <2>1 DEF HasSeat
  <2>3. t \in SeatTickets(tt)' BY <1>4, <2>2 DEF SeatTickets, OccupyingStatuses
  <2> QED BY <1>1, <2>2, <2>3 DEF SeatsAreOfTickets, SeatIsOfTicket
<1>8. given \in [Fans -> Tiers \cup {NoTier}]
  BY <1>1 DEF SeatsAreOfTickets, SeatIsOfTicket
<1>9. Seats!HandOut(given) BY <1>5, <1>7, SeatsHandedOut
<1>10. Seats!Award(given) BY <1>5, <1>6, <1>9 DEF Seats!Award
<1> QED BY <1>8, <1>10 DEF Seats!SNext, Seats!Allocations

\* A manager resizes a tier, not below what is sold.
LEMMA ResizeImplements ==
  ASSUME CInv, CInv', NEW tt \in Tiers, NEW n \in Quantities, CommitResize(tt, n)
  PROVE  Seats!SNext
<1>1. UNCHANGED <<status, tier>> /\ total' = [total EXCEPT ![tt] = n] /\ n >= sold[tt]
  BY DEF CommitResize, WriteTotal, ticketVars
<1>2. \A v \in Fans : Kept(v) BY <1>1, SeatKept DEF CInv, Kept
<1>3. PaidFans' = PaidFans /\ [v \in Fans |-> SeatOf(v)]' = [v \in Fans |-> SeatOf(v)]
  BY <1>2 DEF Kept, PaidFans
<1>4. Seats!Cardinality(Seats!TakenBy([v \in Fans |-> SeatOf(v)], tt)) = sold[tt]
  <2>1. Seats!TakenBy([v \in Fans |-> SeatOf(v)], tt) = {v \in Fans : SeatOf(v) = tt} BY DEF Seats!TakenBy
  <2> QED BY <2>1, SameCount, TakenCounted DEF TakenAreSold, CInv
<1>5. Seats!Resize(tt, n) BY <1>1, <1>3, <1>4 DEF Seats!Resize
<1> QED BY <1>5 DEF Seats!SNext

LEMMA StepImplements ==
  ASSUME CInv, CInv', [Next]_vars PROVE [Seats!SNext]_(Seats!svars)
<1>1. CASE UNCHANGED <<total, status, tier>> BY <1>1, TicketsLeftAlone
<1>2. CASE SalesNext BY <1>2, SalesImplement
<1>3. CASE DrawLottery BY <1>3, DrawImplements
<1>4. CASE LotteryNext
  BY <1>1, <1>3, <1>4 DEF LotteryNext, SetPreferences, ClearMyPreferences, ApplyToLottery, ApplyToLotteries,
                          WindowMoves, catalogVars, ticketVars
<1>5. CASE \E tt \in Tiers, n \in Quantities : CommitResize(tt, n) BY <1>5, ResizeImplements
<1>6. CASE ManagerNext
  BY <1>1, <1>5, <1>6 DEF ManagerNext, CheckResize, RefuseResize, AddCampaign, UpdateCampaign, DeleteCampaign,
                          catalogVars, ticketVars
<1> QED BY <1>1, <1>2, <1>4, <1>6 DEF Next, FanNext, DirectSaleTurns, ticketVars, vars

LEMMA InitImplements == Init => Seats!SInit
<1> SUFFICES ASSUME Init PROVE Seats!SInit OBVIOUS
<1>1. \A t \in TicketIds : status[t] = "none" BY DEF Init
<1>2. PaidFans = {} BY <1>1 DEF PaidFans
<1>3. \A u \in Fans : ~HasSeat(u) BY <1>1 DEF HasSeat, SeatTickets, OccupyingStatuses
<1>4. [u \in Fans |-> SeatOf(u)] = [u \in Fans |-> NoTier] BY <1>3 DEF SeatOf
<1>5. total \in [Tiers -> Quantities] BY ConcertAssumption DEF Init
<1> QED BY <1>2, <1>4, <1>5 DEF Seats!SInit

\* Sales, draws, expiries and resizes keep every promise of SeatAllocation:
\* a fan has one seat, no tier is overfull, a paid seat is never lost.
THEOREM SeatsAreAllocated == Spec => ImplementsSeatAllocation
<1>1. CInv /\ CInv' /\ [Next]_vars => [Seats!SNext]_(Seats!svars) BY StepImplements
<1> QED BY <1>1, InitImplements, CapacityInvariant, PTL DEF Spec, ImplementsSeatAllocation, Seats!SSpec
=============================================================================
