--------------------------- MODULE SeatAllocation ---------------------------
(***************************************************************************)
(* What the ticketing of a concert promises, with nothing said of tickets, *)
(* payments, draws or deadlines: a fan has at most one seat, a tier never  *)
(* has more seats taken than its quota, a seat is held until it is paid or *)
(* released, and a paid seat is the fan's for good.                        *)
(***************************************************************************)
EXTENDS Integers, FiniteSets

CONSTANTS
  Fans,
  Tiers,
  NoTier,
  Quotas      \* the quotas staff may choose

VARIABLES
  seat,       \* the tier in which a fan has a seat, or NoTier
  paid,       \* the fans whose seat is paid
  quota       \* seats of a tier

svars == <<seat, paid, quota>>

TakenBy(s, tt) == {u \in Fans : s[u] = tt}

\* seats go to fans who have none
HandOut(given) ==
  /\ \A u \in Fans : given[u] # NoTier => seat[u] = NoTier
  /\ seat' = [u \in Fans |-> IF given[u] = NoTier THEN seat[u] ELSE given[u]]
  /\ \A tt \in Tiers : Cardinality(TakenBy(seat', tt)) <= quota[tt]

Allocations == [Fans -> Tiers \cup {NoTier}]

\* a draw: held until paid
Award(given) ==
  /\ HandOut(given)
  /\ UNCHANGED <<paid, quota>>

\* a purchase: one seat, paid at once
Sell(u, tt) ==
  /\ HandOut([v \in Fans |-> IF v = u THEN tt ELSE NoTier])
  /\ paid' = paid \cup {u}
  /\ UNCHANGED quota

Pay(u) ==
  /\ seat[u] # NoTier
  /\ paid' = paid \cup {u}
  /\ UNCHANGED <<seat, quota>>

Release(u) ==
  /\ u \notin paid
  /\ seat' = [seat EXCEPT ![u] = NoTier]
  /\ UNCHANGED <<paid, quota>>

Resize(tt, n) ==
  /\ n >= Cardinality(TakenBy(seat, tt))
  /\ quota' = [quota EXCEPT ![tt] = n]
  /\ UNCHANGED <<seat, paid>>

SInit ==
  /\ seat = [u \in Fans |-> NoTier]
  /\ paid = {}
  /\ quota \in [Tiers -> Quotas]

SNext ==
  \/ \E given \in Allocations : Award(given)
  \/ \E u \in Fans, tt \in Tiers : Sell(u, tt)
  \/ \E u \in Fans : Pay(u) \/ Release(u)
  \/ \E tt \in Tiers, n \in Quotas : Resize(tt, n)

SSpec == SInit /\ [][SNext]_svars
=============================================================================
