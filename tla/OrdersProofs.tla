---------------------------- MODULE OrdersProofs ----------------------------
(***************************************************************************)
(* What holds of the orders of the shop for every set of fans, products    *)
(* and orders that satisfies OrdersAssumption.                             *)
(***************************************************************************)
EXTENDS Orders, FiniteSetTheorems, WellFoundedInduction, TLAPS

\* Carts are read for orders that are not made yet, and fulfilment requests
\* name orders that are.
OrderStages ==
  /\ \A o \in reading : status[o] = "none"
  /\ \A r \in desk : status[r.order] # "none"
  /\ \A o \in OrderIds : status[o] = "none" <=> payment[o] = "none"
  /\ \A o \in OrderIds : status[o] = "none" <=> shipping[o] = "none"

OInv == TypeOK /\ OrderStages /\ NeverOversold /\ PaymentsMatchOrders

\* No order and nothing sold: the shop opens with the invariant.
LEMMA InitOInv == Init => OInv
<1> SUFFICES ASSUME Init PROVE OInv
  OBVIOUS
<1> USE OrdersAssumption DEF Init
<1>1. NoItems \in Quantities
  BY DEF NoItems, Quantities
<1>2. TypeOK
  BY <1>1 DEF TypeOK
<1>3. QED BY <1>2 DEF OInv, OrderStages, NeverOversold, PaymentsMatchOrders

\* A new value for the row of one fan keeps the carts well typed.
LEMMA CartWithRow ==
  ASSUME cart \in [Fans -> Quantities], NEW u \in Fans, NEW q \in Quantities
  PROVE  [cart EXCEPT ![u] = q] \in [Fans -> Quantities]
OBVIOUS

\* Clearing the rows that were ordered leaves a cart.
LEMMA ClearCartType ==
  ASSUME cart \in [Fans -> Quantities], NEW o \in OrderIds, ClearCart(o)
  PROVE  cart' \in [Fans -> Quantities]
<1> DEFINE q == [p \in Products |-> IF p \in ProductsIn(ordered[o]) THEN 0 ELSE cart[Buyer[o]][p]]
<1>1. Buyer[o] \in Fans
  BY OrdersAssumption
<1>2. q \in Quantities
  BY <1>1, OrdersAssumption DEF Quantities
<1>3. cart' = [cart EXCEPT ![Buyer[o]] = q]
  BY DEF ClearCart
<1> HIDE DEF q
<1>4. QED BY <1>1, <1>2, <1>3, CartWithRow

\* A checkout that is placed becomes an order with its payment; InStock
\* covers what is then taken.
LEMMA PlaceOInv ==
  ASSUME OInv, NEW o \in OrderIds,
         NEW st \in OrderStatus, NEW pay \in PaymentStatus, NEW ship \in ShippingStatus,
         Place(o, st, pay, ship),
         TakeStock(o) \/ UNCHANGED stock,
         ClearCart(o) \/ UNCHANGED cart,
         pay = "success" <=> st = "confirmed", pay = "failed" => st = "cancelled"
  PROVE  OInv'
<1> USE DEF OInv, Place
<1>1. stock' \in [Products -> Int] /\ NeverOversold'
  <2>1. CASE TakeStock(o)
    BY <2>1 DEF TakeStock, InStock, TypeOK, Quantities, NeverOversold
  <2>2. CASE UNCHANGED stock
    BY <2>2 DEF TypeOK, NeverOversold
  <2>3. QED BY <2>1, <2>2
<1>2. cart' \in [Fans -> Quantities]
  BY ClearCartType DEF TypeOK
<1>3. TypeOK'
  BY <1>1, <1>2 DEF TypeOK
<1>4. OrderStages'
  BY DEF OrderStages, TypeOK, OrderStatus, PaymentStatus, ShippingStatus, Request
<1>5. PaymentsMatchOrders'
  BY DEF PaymentsMatchOrders, TypeOK
<1>6. QED BY <1>1, <1>3, <1>4, <1>5

\* A fulfilment request is accepted for an order that exists.
LEMMA AcceptOInv ==
  ASSUME OInv, NEW o \in OrderIds, NEW s \in ShippingStatus, NEW b \in BOOLEAN,
         shipping[o] # "none", Accept(Request(o, s, b))
  PROVE  OInv'
<1> USE DEF OInv, Accept
<1>1. TypeOK'
  BY DEF TypeOK
<1>2. OrderStages'
  BY DEF OrderStages, Request
<1>3. QED BY <1>1, <1>2 DEF NeverOversold, PaymentsMatchOrders

\* Every handler of the cart, the checkout, the capture and the fulfilment
\* keeps the invariant.
LEMMA NextOInv == OInv /\ [Next]_vars => OInv'
<1> SUFFICES ASSUME OInv, [Next]_vars PROVE OInv'
  OBVIOUS
<1>1. CASE \E u \in Fans, p \in Products : RemoveCart(u, p)
  <2>1. PICK u \in Fans, p \in Products : RemoveCart(u, p)
    BY <1>1
  <2>2. TypeOK'
    <3>1. [cart[u] EXCEPT ![p] = 0] \in Quantities
      BY OrdersAssumption DEF OInv, TypeOK, Quantities
    <3>2. cart' = [cart EXCEPT ![u] = [cart[u] EXCEPT ![p] = 0]]
      BY <2>1 DEF RemoveCart
    <3>3. cart' \in [Fans -> Quantities]
      BY <3>1, <3>2, CartWithRow DEF OInv, TypeOK
    <3>4. QED BY <2>1, <3>3 DEF RemoveCart, OInv, TypeOK
  <2>3. QED BY <2>1, <2>2 DEF OInv, RemoveCart, OrderStages, NeverOversold, PaymentsMatchOrders
<1>2. CASE \E u \in Fans, p \in Products, n \in 1..MaxInCart : AddToCart(u, p, n)
  <2>1. PICK u \in Fans, p \in Products, n \in 1..MaxInCart : AddToCart(u, p, n)
    BY <1>2
  <2>2. TypeOK'
    <3>1. cart[u] \in Quantities /\ cart[u][p] + n \in 0..MaxInCart
      BY <2>1, OrdersAssumption DEF OInv, TypeOK, AddToCart, Quantities
    <3>2. [cart[u] EXCEPT ![p] = @ + n] \in Quantities
      BY <3>1 DEF Quantities
    <3>3. cart' \in [Fans -> Quantities]
      BY <2>1, <3>2 DEF AddToCart, OInv, TypeOK
    <3>4. QED BY <2>1, <3>3 DEF AddToCart, OInv, TypeOK
  <2>3. QED BY <2>1, <2>2 DEF OInv, AddToCart, OrderStages, NeverOversold, PaymentsMatchOrders
<1>3. CASE \E o \in OrderIds : ReadCart(o)
  <2>1. PICK o \in OrderIds : ReadCart(o)
    BY <1>3
  <2>2. TypeOK'
    <3>1. cart[Buyer[o]] \in Quantities
      BY OrdersAssumption DEF OInv, TypeOK
    <3>2. ordered' \in [OrderIds -> Quantities]
      BY <2>1, <3>1 DEF OInv, TypeOK, ReadCart
    <3>3. QED BY <2>1, <3>2 DEF OInv, TypeOK, ReadCart
  <2>3. QED BY <2>1, <2>2 DEF OInv, ReadCart, OrderStages, NeverOversold, PaymentsMatchOrders
<1>4. CASE \E o \in OrderIds : CheckoutPaid(o) \/ CheckoutDeclined(o) \/ CheckoutPayPal(o)
  BY <1>4, PlaceOInv DEF CheckoutPaid, CheckoutDeclined, CheckoutPayPal, OrderStatus, PaymentStatus, ShippingStatus
<1>5. CASE \E o \in OrderIds : CheckoutRefused(o)
  <2>1. TypeOK'
    BY <1>5, OrdersAssumption DEF OInv, TypeOK, CheckoutRefused, NoItems, Quantities
  <2>2. QED BY <1>5, <2>1 DEF OInv, CheckoutRefused, OrderStages, NeverOversold, PaymentsMatchOrders
<1>6. CASE \E o \in OrderIds : FinalizeCompleted(o)
  <2>1. PICK o \in OrderIds : FinalizeCompleted(o)
    BY <1>6
  <2> USE DEF OInv, FinalizeCompleted, CanFinalizeOrder
  <2>2. stock' \in [Products -> Int] /\ NeverOversold'
    BY <2>1 DEF TakeStock, InStock, TypeOK, Quantities, NeverOversold
  <2>3. cart' \in [Fans -> Quantities]
    BY <2>1, ClearCartType DEF TypeOK
  <2>4. TypeOK'
    BY <2>1, <2>2, <2>3 DEF TypeOK, OrderStatus, PaymentStatus, ShippingStatus
  <2>5. OrderStages' /\ PaymentsMatchOrders'
    BY <2>1 DEF OrderStages, PaymentsMatchOrders, TypeOK, Request
  <2>6. QED BY <2>2, <2>4, <2>5
<1>7. CASE \E o \in OrderIds : FinalizeFailed(o)
  <2>1. PICK o \in OrderIds : FinalizeFailed(o)
    BY <1>7
  <2> USE DEF OInv, FinalizeFailed, CanFinalizeOrder
  <2>2. TypeOK'
    BY <2>1 DEF TypeOK, OrderStatus, PaymentStatus, ShippingStatus
  <2>3. OrderStages' /\ PaymentsMatchOrders'
    BY <2>1 DEF OrderStages, PaymentsMatchOrders, TypeOK, Request
  <2>4. QED BY <2>1, <2>2, <2>3 DEF NeverOversold
<1>8. CASE \E o \in OrderIds : CancelPlacedOrder(o) \/ ShipOrder(o)
  BY <1>8, AcceptOInv DEF CancelPlacedOrder, ShipOrder, NotShippedYet, ShippingStatus
<1>9. CASE \E r \in desk : Write(r)
  <2>1. PICK r \in desk : Write(r)
    BY <1>9
  <2> USE DEF OInv, Write
  <2>2. r.order \in OrderIds /\ r.writes \in ShippingStatus /\ status[r.order] # "none"
    BY <2>1 DEF TypeOK, Request, OrderStages
  <2>3. TypeOK'
    BY <2>1, <2>2 DEF TypeOK, OrderStatus
  <2>4. OrderStages'
    BY <2>1, <2>2 DEF OrderStages, TypeOK, Request, ShippingStatus
  <2>5. PaymentsMatchOrders'
    BY <2>1, <2>2 DEF PaymentsMatchOrders, TypeOK
  <2>6. QED BY <2>1, <2>3, <2>4, <2>5 DEF NeverOversold
<1>10. CASE \E o \in OrderIds, s \in ShippingStatus : UpdateShippingStatus(o, s)
  BY <1>10, AcceptOInv DEF UpdateShippingStatus
<1>11. CASE UNCHANGED vars
  BY <1>11 DEF vars, OInv, TypeOK, OrderStages, NeverOversold, PaymentsMatchOrders
<1>12. QED
  BY <1>1, <1>2, <1>3, <1>4, <1>5, <1>6, <1>7, <1>8, <1>9, <1>10, <1>11 DEF Next, ShopNext

\* The invariant of the shop, with the manual corrections of admins.
THEOREM ShopInvariant == Spec => []OInv
<1>1. QED BY InitOInv, NextOInv, PTL DEF Spec

\* The stock of no product goes below zero, whatever checkouts and captures
\* overlap (order_service.py 85-88, payment_service.py 180).
THEOREM NothingOversold == Spec => []NeverOversold
<1>1. OInv => NeverOversold
  BY DEF OInv
<1>2. QED BY <1>1, ShopInvariant, PTL

\* A confirmed order is paid, one whose payment failed is cancelled, and a
\* paid one is confirmed unless it was cancelled.
THEOREM OrdersMatchPayments == Spec => []PaymentsMatchOrders
<1>1. OInv => PaymentsMatchOrders
  BY DEF OInv
<1>2. QED BY <1>1, ShopInvariant, PTL

\* No capture that comes after the cancellation of an unpaid order charges
\* the fan for it (payment_service.py 171).
THEOREM CancelledNotCharged == Spec => CancelledIsNotCharged
<1>1. OInv /\ [Next]_vars =>
        [\A o \in OrderIds :
           (status[o] = "cancelled" /\ payment[o] # "success") => payment'[o] # "success"]_vars
  <2> SUFFICES ASSUME OInv, Next, NEW o \in OrderIds,
                      status[o] = "cancelled", payment[o] # "success"
               PROVE  payment'[o] # "success"
    BY DEF OInv, TypeOK
  <2> USE DEF OInv, TypeOK, OrderStages
  <2>1. CASE \E x \in OrderIds : CheckoutPaid(x) \/ CheckoutDeclined(x) \/ CheckoutPayPal(x)
    BY <2>1 DEF CheckoutPaid, CheckoutDeclined, CheckoutPayPal, Place
  <2>2. CASE \E x \in OrderIds : FinalizeCompleted(x) \/ FinalizeFailed(x)
    BY <2>2 DEF FinalizeCompleted, FinalizeFailed, CanFinalizeOrder
  <2>3. CASE UNCHANGED payment
    BY <2>3
  <2>4. QED
    BY <2>1, <2>2, <2>3 DEF Next, ShopNext, RemoveCart, AddToCart, ReadCart, CheckoutRefused,
       CancelPlacedOrder, ShipOrder, UpdateShippingStatus, Accept, Write
<1>2. QED BY <1>1, ShopInvariant, PTL DEF Spec, CancelledIsNotCharged

-----------------------------------------------------------------------------
(***************************************************************************)
(* Sums over orders                                                        *)
(***************************************************************************)
\* the units of a product in a set of orders
Units(f, p, S) == MapThenSumSet(LAMBDA o : f[o][p], S)

\* how the sum is computed: an order that is chosen, and the others
Chosen(s) == CHOOSE x \in s : TRUE
Without(s, x) == s \ {x}
Rest(s) == Without(s, Chosen(s))
Iteration(f, p, S, g) == g = [s \in SUBSET S |-> IF s = {} THEN 0 ELSE f[Chosen(s)][p] + g[Rest(s)]]

LEMMA LeastNumber ==
  ASSUME NEW N \in SUBSET Nat, N # {} PROVE \E n \in N : \A m \in N : n <= m
<1>1. PICK n \in N : \A m \in N : ~(<<m, n>> \in OpToRel(<, Nat))
  BY NatLessThanWellFounded, WFMin
<1>2. \A m \in N : ~(m < n) BY <1>1 DEF OpToRel
<1> QED BY <1>2

\* Among finite sets there is one with no other below it.
LEMMA SmallestSet ==
  ASSUME NEW S, IsFiniteSet(S), NEW B \in SUBSET (SUBSET S), B # {}
  PROVE  \E T \in B : \A U \in B : U \subseteq T => U = T
<1> DEFINE sizes == {Cardinality(T) : T \in B}
<1>1. \A T \in B : IsFiniteSet(T) /\ Cardinality(T) \in Nat BY FS_Subset, FS_CardinalityType
<1>2. sizes \in SUBSET Nat /\ sizes # {} BY <1>1
<1>3. PICK n \in sizes : \A m \in sizes : n <= m
  <2> HIDE DEF sizes
  <2> QED BY <1>2, LeastNumber
<1>4. PICK T \in B : Cardinality(T) = n OBVIOUS
<1>5. ASSUME NEW U \in B, U \subseteq T, U # T PROVE FALSE
  <2>1. IsFiniteSet(T) /\ U \in SUBSET T BY <1>1, <1>5
  <2>2. Cardinality(U) <= Cardinality(T) /\ Cardinality(U) # Cardinality(T) BY <1>5, <2>1, FS_Subset
  <2>3. Cardinality(U) \in sizes OBVIOUS
  <2> QED BY <1>1, <1>3, <1>4, <2>2, <2>3
<1> QED BY <1>4, <1>5

LEMMA RestIsSmaller ==
  ASSUME NEW s, s # {} PROVE Chosen(s) \in s /\ Rest(s) \subseteq s /\ Rest(s) # s
BY DEF Chosen, Rest, Without

\* The recursion has one value for each set, wherever it is computed.
LEMMA IterationsAgree ==
  ASSUME NEW f, NEW p, NEW S, IsFiniteSet(S), NEW T \in SUBSET S, NEW g, NEW h,
         Iteration(f, p, S, g), Iteration(f, p, T, h)
  PROVE  \A s \in SUBSET T : g[s] = h[s]
<1> DEFINE B == {s \in SUBSET T : g[s] # h[s]}
<1> SUFFICES ASSUME B # {} PROVE FALSE OBVIOUS
<1>1. IsFiniteSet(T) BY FS_Subset
<1>2. PICK s \in B : \A u \in B : u \subseteq s => u = s
  <2>1. B \in SUBSET (SUBSET T) OBVIOUS
  <2> HIDE DEF B
  <2> QED BY <1>1, <2>1, SmallestSet
<1>3. g[s] = IF s = {} THEN 0 ELSE f[Chosen(s)][p] + g[Rest(s)] BY DEF Iteration
<1>4. h[s] = IF s = {} THEN 0 ELSE f[Chosen(s)][p] + h[Rest(s)] BY DEF Iteration
<1>5. s # {} BY <1>3, <1>4
<1>6. g[Rest(s)] = h[Rest(s)] BY <1>2, <1>5, RestIsSmaller
<1> QED BY <1>3, <1>4, <1>6

\* The library's sum is the value of such a recursion, if there is one.
LEMMA UnitsIterate ==
  ASSUME NEW f, NEW p, NEW S, NEW g, Iteration(f, p, S, g)
  PROVE  \E h : Iteration(f, p, S, h) /\ Units(f, p, S) = h[S]
<1> DEFINE h == CHOOSE h : Iteration(f, p, S, h)
<1>1. Iteration(f, p, S, h) OBVIOUS
<1>2. Units(f, p, S) = h[S] BY DEF Units, MapThenSumSet, MapThenFoldSet, Iteration, Chosen, Rest, Without
<1> QED BY <1>1, <1>2

\* and there is one for every finite set.
LEMMA IterationExists ==
  ASSUME NEW f, NEW p, NEW S, IsFiniteSet(S) PROVE \E g : Iteration(f, p, S, g)
<1> DEFINE B == {T \in SUBSET S : ~\E g : Iteration(f, p, T, g)}
<1> SUFFICES ASSUME B # {} PROVE FALSE OBVIOUS
<1>1. PICK T \in B : \A U \in B : U \subseteq T => U = T
  <2>1. B \in SUBSET (SUBSET S) OBVIOUS
  <2> HIDE DEF B
  <2> QED BY <2>1, SmallestSet
<1>2. \A U \in SUBSET T : U # T => \E g : Iteration(f, p, U, g) BY <1>1
<1> DEFINE g == [s \in SUBSET T |-> IF s = {} THEN 0 ELSE f[Chosen(s)][p] + Units(f, p, Rest(s))]
<1>3. ASSUME NEW U \in SUBSET T, U # T PROVE Units(f, p, U) = g[U]
  <2>1. PICK h : Iteration(f, p, U, h) /\ Units(f, p, U) = h[U] BY <1>2, <1>3, UnitsIterate
  <2>2. h[U] = IF U = {} THEN 0 ELSE f[Chosen(U)][p] + h[Rest(U)] BY <2>1 DEF Iteration
  <2>3. ASSUME U # {} PROVE h[Rest(U)] = Units(f, p, Rest(U))
    <3>1. Rest(U) \in SUBSET U /\ Rest(U) # T BY <1>3, <2>3, RestIsSmaller
    <3>2. PICK k : Iteration(f, p, Rest(U), k) /\ Units(f, p, Rest(U)) = k[Rest(U)]
      BY <1>2, <3>1, UnitsIterate
    <3>3. IsFiniteSet(U) BY FS_Subset
    <3> QED BY <2>1, <3>1, <3>2, <3>3, IterationsAgree
  <2>4. CASE U = {} BY <2>1, <2>2, <2>4
  <2>5. CASE U # {} BY <2>1, <2>2, <2>3, <2>5
  <2> QED BY <2>4, <2>5
<1>4. ASSUME NEW s \in SUBSET T, s # {} PROVE Units(f, p, Rest(s)) = g[Rest(s)]
  <2>1. Rest(s) \in SUBSET T /\ Rest(s) # T BY <1>4, RestIsSmaller
  <2> QED BY <1>3, <2>1
<1>5. g = [s \in SUBSET T |-> IF s = {} THEN 0 ELSE f[Chosen(s)][p] + g[Rest(s)]]
  BY <1>4
<1> HIDE DEF g
<1>6. Iteration(f, p, T, g) BY <1>5 DEF Iteration
<1> QED BY <1>6

LEMMA UnitsStep ==
  ASSUME NEW f, NEW p, NEW S, IsFiniteSet(S)
  PROVE  /\ S = {} => Units(f, p, S) = 0
         /\ S # {} => Units(f, p, S) = f[Chosen(S)][p] + Units(f, p, Rest(S))
<1>1. PICK g : Iteration(f, p, S, g) /\ Units(f, p, S) = g[S] BY IterationExists, UnitsIterate
<1>2. g[S] = IF S = {} THEN 0 ELSE f[Chosen(S)][p] + g[Rest(S)] BY <1>1 DEF Iteration
<1>3. ASSUME S # {} PROVE g[Rest(S)] = Units(f, p, Rest(S))
  <2>1. Rest(S) \in SUBSET S BY <1>3, RestIsSmaller
  <2>2. IsFiniteSet(Rest(S)) BY <2>1, FS_Subset
  <2>3. PICK k : Iteration(f, p, Rest(S), k) /\ Units(f, p, Rest(S)) = k[Rest(S)]
    BY <2>2, IterationExists, UnitsIterate
  <2> QED BY <1>1, <2>1, <2>3, IterationsAgree
<1> QED BY <1>1, <1>2, <1>3

\* Quantities that are naturals have a natural sum, which depends on them
\* alone.
LEMMA UnitsNat ==
  ASSUME NEW f, NEW p, NEW S, IsFiniteSet(S), \A o \in S : f[o][p] \in Nat PROVE Units(f, p, S) \in Nat
<1> DEFINE B == {T \in SUBSET S : Units(f, p, T) \notin Nat}
<1> SUFFICES ASSUME B # {} PROVE FALSE OBVIOUS
<1>1. PICK T \in B : \A U \in B : U \subseteq T => U = T
  <2>1. B \in SUBSET (SUBSET S) OBVIOUS
  <2> HIDE DEF B
  <2> QED BY <2>1, SmallestSet
<1>2. IsFiniteSet(T) BY FS_Subset
<1>3. T # {}
  <2> SUFFICES ASSUME T = {} PROVE FALSE OBVIOUS
  <2>1. Units(f, p, T) = 0 BY <1>2, UnitsStep
  <2> QED BY <2>1
<1>4. Units(f, p, Rest(T)) \in Nat BY <1>1, <1>3, RestIsSmaller
<1>5. f[Chosen(T)][p] \in Nat BY <1>3, RestIsSmaller
<1> QED BY <1>2, <1>3, <1>4, <1>5, UnitsStep

LEMMA SameUnits ==
  ASSUME NEW f, NEW h, NEW p, NEW S, IsFiniteSet(S), \A o \in S : f[o][p] = h[o][p]
  PROVE  Units(f, p, S) = Units(h, p, S)
<1> DEFINE B == {T \in SUBSET S : Units(f, p, T) # Units(h, p, T)}
<1> SUFFICES ASSUME B # {} PROVE FALSE OBVIOUS
<1>1. PICK T \in B : \A U \in B : U \subseteq T => U = T
  <2>1. B \in SUBSET (SUBSET S) OBVIOUS
  <2> HIDE DEF B
  <2> QED BY <2>1, SmallestSet
<1>2. IsFiniteSet(T) BY FS_Subset
<1>3. T # {} BY <1>2, UnitsStep
<1>4. Units(f, p, Rest(T)) = Units(h, p, Rest(T)) BY <1>1, <1>3, RestIsSmaller
<1>5. f[Chosen(T)][p] = h[Chosen(T)][p] BY <1>3, RestIsSmaller
<1> QED BY <1>2, <1>3, <1>4, <1>5, UnitsStep

\* Whichever order is taken out, the sum is its units and those of the rest.
LEMMA UnitsWithout ==
  ASSUME NEW f, NEW p, NEW S, IsFiniteSet(S), \A o \in S : f[o][p] \in Nat, NEW x \in S
  PROVE  Units(f, p, S) = f[x][p] + Units(f, p, Without(S, x))
<1> DEFINE B == {T \in SUBSET S : \E y \in T : Units(f, p, T) # f[y][p] + Units(f, p, Without(T, y))}
<1> SUFFICES ASSUME B # {} PROVE FALSE OBVIOUS
<1>1. PICK T \in B : \A U \in B : U \subseteq T => U = T
  <2>1. B \in SUBSET (SUBSET S) OBVIOUS
  <2> HIDE DEF B
  <2> QED BY <2>1, SmallestSet
<1>2. PICK y \in T : Units(f, p, T) # f[y][p] + Units(f, p, Without(T, y)) OBVIOUS
<1>3. PICK c \in T : c = Chosen(T) BY <1>2, RestIsSmaller
<1>4. Units(f, p, T) = f[c][p] + Units(f, p, Without(T, c))
  <2>1. IsFiniteSet(T) BY FS_Subset
  <2> QED BY <1>2, <1>3, <2>1, UnitsStep DEF Rest
<1>5. y # c BY <1>2, <1>4
<1>6. \A z \in T : Without(T, z) \in SUBSET S /\ Without(T, z) \subseteq T /\ Without(T, z) # T
  BY DEF Without
<1>7. y \in Without(T, c) /\ c \in Without(T, y) BY <1>5 DEF Without
<1>8. \A z \in T : \A v \in Without(T, z) :
        Units(f, p, Without(T, z)) = f[v][p] + Units(f, p, Without(Without(T, z), v))
  BY <1>1, <1>6
<1>9. Without(Without(T, c), y) = Without(Without(T, y), c) BY DEF Without
<1> DEFINE n == Units(f, p, Without(Without(T, y), c))
<1>10. n \in Nat
  <2>1. Without(Without(T, y), c) \in SUBSET S BY DEF Without
  <2>2. IsFiniteSet(Without(Without(T, y), c)) BY <2>1, FS_Subset
  <2> QED BY <2>1, <2>2, UnitsNat
<1>11. f[c][p] \in Nat /\ f[y][p] \in Nat BY <1>3
<1>12. Units(f, p, Without(T, c)) = f[y][p] + n BY <1>7, <1>8, <1>9
<1>13. Units(f, p, Without(T, y)) = f[c][p] + n BY <1>7, <1>8
<1> HIDE DEF n
<1> QED BY <1>2, <1>4, <1>10, <1>11, <1>12, <1>13

\* One order more.
LEMMA UnitsWith ==
  ASSUME NEW f, NEW p, NEW S, IsFiniteSet(S), NEW x, x \notin S, \A o \in S \cup {x} : f[o][p] \in Nat
  PROVE  Units(f, p, S \cup {x}) = f[x][p] + Units(f, p, S)
<1>1. IsFiniteSet(S \cup {x}) BY FS_AddElement
<1>2. Without(S \cup {x}, x) = S BY DEF Without
<1>3. PICK T : T = S \cup {x} OBVIOUS
<1>4. Units(f, p, T) = f[x][p] + Units(f, p, Without(T, x)) BY <1>1, <1>3, UnitsWithout
<1> QED BY <1>2, <1>3, <1>4

-----------------------------------------------------------------------------
(***************************************************************************)
(* The stock and the cap                                                   *)
(***************************************************************************)
Paid == {o \in OrderIds : payment[o] = "success"}

LEMMA StockIsSum ==
  StockAccounting <=> \A p \in Products : stock[p] = InitialStock[p] - Units(ordered, p, Paid)
BY DEF StockAccounting, Units, Paid, MapThenSumSet, MapThenFoldSet

LEMMA StockIsSumNext ==
  StockAccounting' <=> \A p \in Products : stock'[p] = InitialStock[p] - Units(ordered', p, Paid')
BY DEF StockAccounting, Units, Paid, MapThenSumSet, MapThenFoldSet

LEMMA OrderedIsSum ==
  ASSUME NEW u, NEW p
  PROVE  /\ OrderedBy(u, p) = Units(ordered, p, OrdersOf(u))
         /\ OrderedBy(u, p)' = Units(ordered', p, OrdersOf(u)')
BY DEF OrderedBy, Units, MapThenSumSet, MapThenFoldSet

\* The orders that are made keep their items.
OrderedStays == \A o \in OrderIds : status[o] # "none" => ordered'[o] = ordered[o]

\* A step that pays for no order and takes no stock.
LEMMA StockStays ==
  ASSUME OInv, StockAccounting, OrderedStays, UNCHANGED stock,
         \A o \in OrderIds : payment[o] = "success" <=> payment'[o] = "success"
  PROVE  StockAccounting'
<1>1. Paid' = Paid BY DEF Paid
<1>2. IsFiniteSet(Paid) BY OrdersAssumption, FS_Subset DEF Paid
<1>3. ASSUME NEW p \in Products PROVE Units(ordered', p, Paid) = Units(ordered, p, Paid)
  <2>1. \A o \in Paid : ordered'[o][p] = ordered[o][p] BY DEF OrderedStays, Paid, OInv, OrderStages
  <2> QED BY <1>2, <2>1, SameUnits
<1> QED BY <1>1, <1>3, StockIsSum, StockIsSumNext

\* A step that pays for an order and takes its units.
LEMMA StockTaken ==
  ASSUME OInv, StockAccounting, NEW x \in OrderIds, UNCHANGED ordered, TakeStock(x),
         payment[x] # "success", payment' = [payment EXCEPT ![x] = "success"]
  PROVE  StockAccounting'
<1>1. Paid' = Paid \cup {x} /\ x \notin Paid BY DEF Paid, OInv, TypeOK
<1>2. IsFiniteSet(Paid) BY OrdersAssumption, FS_Subset DEF Paid
<1>3. ASSUME NEW p \in Products PROVE stock'[p] = InitialStock[p] - Units(ordered', p, Paid')
  <2>1. \A o \in OrderIds : ordered[o][p] \in Nat BY OrdersAssumption DEF OInv, TypeOK, Quantities
  <2>2. Units(ordered, p, Paid \cup {x}) = ordered[x][p] + Units(ordered, p, Paid)
    <3>1. \A o \in Paid \cup {x} : ordered[o][p] \in Nat BY <2>1 DEF Paid
    <3> QED BY <1>1, <1>2, <3>1, UnitsWith
  <2>3. Units(ordered, p, Paid) \in Nat BY <1>2, <2>1, UnitsNat DEF Paid
  <2>4. stock[p] = InitialStock[p] - Units(ordered, p, Paid) /\ InitialStock[p] \in Int
    BY StockIsSum, OrdersAssumption
  <2>5. stock'[p] = stock[p] - ordered[x][p] BY DEF TakeStock
  <2>6. Units(ordered', p, Paid') = Units(ordered, p, Paid \cup {x}) BY <1>1
  <2> QED BY <2>1, <2>2, <2>3, <2>4, <2>5, <2>6
<1> QED BY <1>3, StockIsSumNext

\* A step that makes no order of a fan.
LEMMA CapStays ==
  ASSUME OInv, ResaleCapHeld, OrderedStays, \A o \in OrderIds : status[o] = "none" <=> status'[o] = "none"
  PROVE  ResaleCapHeld'
<1> SUFFICES ASSUME NEW u \in Fans, NEW p \in Capped PROVE OrderedBy(u, p)' <= ResaleCap
  BY DEF ResaleCapHeld
<1>1. OrdersOf(u)' = OrdersOf(u) BY DEF OrdersOf
<1>2. IsFiniteSet(OrdersOf(u)) BY OrdersAssumption, FS_Subset DEF OrdersOf
<1>3. \A o \in OrdersOf(u) : ordered'[o][p] = ordered[o][p] BY DEF OrderedStays, OrdersOf
<1>4. Units(ordered', p, OrdersOf(u)) = Units(ordered, p, OrdersOf(u)) BY <1>2, <1>3, SameUnits
<1>5. Units(ordered', p, OrdersOf(u)') = Units(ordered', p, OrdersOf(u)) BY <1>1
<1> QED BY <1>4, <1>5, OrderedIsSum DEF ResaleCapHeld

\* A placed order was within the cap with all others of its fan.
LEMMA PlaceWithinCap ==
  ASSUME OInv, ResaleCapHeld, NEW x \in OrderIds, NEW st \in OrderStatus, NEW pay, NEW ship, Place(x, st, pay, ship)
  PROVE  ResaleCapHeld'
<1> SUFFICES ASSUME NEW u \in Fans, NEW p \in Capped PROVE OrderedBy(u, p)' <= ResaleCap
  BY DEF ResaleCapHeld
<1>1. ordered' = ordered /\ status[x] = "none" /\ status' = [status EXCEPT ![x] = st]
  BY DEF Place, OInv, OrderStages
<1>2. st # "none" BY DEF OrderStatus
<1>3. p \in Products /\ \A o \in OrderIds : ordered[o][p] \in Nat
  BY OrdersAssumption DEF OInv, TypeOK, Quantities
<1>4. IsFiniteSet(OrdersOf(u)) BY OrdersAssumption, FS_Subset DEF OrdersOf
<1>5. OrderedBy(u, p) <= ResaleCap BY DEF ResaleCapHeld
<1>6. CASE u # Buyer[x]
  <2>1. OrdersOf(u)' = OrdersOf(u) BY <1>1, <1>6 DEF OrdersOf, OInv, TypeOK
  <2>2. Units(ordered', p, OrdersOf(u)') = Units(ordered, p, OrdersOf(u)) BY <1>1, <2>1
  <2> QED BY <1>5, <2>2, OrderedIsSum
<1>7. CASE u = Buyer[x]
  <2>1. OrdersOf(u)' = OrdersOf(u) \cup {x} /\ x \notin OrdersOf(u)
    BY <1>1, <1>2, <1>7 DEF OrdersOf, OInv, TypeOK
  <2>2. Units(ordered, p, OrdersOf(u) \cup {x}) = ordered[x][p] + Units(ordered, p, OrdersOf(u))
    BY <1>3, <1>4, <2>1, UnitsWith DEF OrdersOf
  <2>3. Units(ordered', p, OrdersOf(u)') = Units(ordered, p, OrdersOf(u) \cup {x}) BY <1>1, <2>1
  <2>4. OrderedBy(u, p)' = ordered[x][p] + OrderedBy(u, p) BY <2>2, <2>3, OrderedIsSum
  <2>5. OrderedBy(u, p) \in Nat
    <3>1. \A o \in OrdersOf(u) : ordered[o][p] \in Nat BY <1>3 DEF OrdersOf
    <3> QED BY <1>4, <3>1, UnitsNat, OrderedIsSum
  <2>6. CASE p \in ProductsIn(ordered[x])
    <3>1. OrderedBy(u, p) + ordered[x][p] <= ResaleCap BY <1>7, <2>6 DEF Place, WithinResaleCap
    <3> QED BY <1>3, <2>4, <2>5, <3>1, OrdersAssumption
  <2>7. CASE p \notin ProductsIn(ordered[x])
    <3>1. ordered[x][p] = 0 BY <1>3, <2>7 DEF ProductsIn
    <3> QED BY <1>5, <2>4, <2>5, <3>1, OrdersAssumption
  <2> QED BY <2>6, <2>7
<1> QED BY <1>6, <1>7

SumInv == OInv /\ StockAccounting /\ ResaleCapHeld

LEMMA InitSums == Init => SumInv
<1> SUFFICES ASSUME Init PROVE SumInv OBVIOUS
<1>1. Paid = {} /\ \A u : OrdersOf(u) = {} BY DEF Init, Paid, OrdersOf
<1>2. IsFiniteSet({}) BY FS_EmptySet
<1>3. \A p : Units(ordered, p, {}) = 0 BY <1>2, UnitsStep
<1>4. StockAccounting BY <1>1, <1>3, StockIsSum, OrdersAssumption DEF Init
<1>5. ResaleCapHeld BY <1>1, <1>3, OrderedIsSum, OrdersAssumption DEF ResaleCapHeld
<1> QED BY <1>4, <1>5, InitOInv DEF SumInv

LEMMA NextSums == SumInv /\ [Next]_vars => SumInv'
<1> SUFFICES ASSUME SumInv, [Next]_vars PROVE SumInv' OBVIOUS
<1>0. OInv /\ OInv' /\ StockAccounting /\ ResaleCapHeld BY NextOInv DEF SumInv
<1> SUFFICES StockAccounting' /\ ResaleCapHeld' BY <1>0 DEF SumInv
<1>1. UNCHANGED <<stock, ordered, status, payment>> => StockAccounting' /\ ResaleCapHeld'
  BY <1>0, StockStays, CapStays DEF OrderedStays
<1>2. ASSUME NEW o \in OrderIds, ReadCart(o) \/ CheckoutRefused(o) PROVE StockAccounting' /\ ResaleCapHeld'
  <2>1. status[o] = "none" BY <1>0, <1>2 DEF ReadCart, CheckoutRefused, OInv, OrderStages
  <2>2. OrderedStays /\ UNCHANGED <<stock, status, payment>>
    BY <1>0, <1>2, <2>1 DEF ReadCart, CheckoutRefused, OrderedStays, OInv, TypeOK
  <2> QED BY <1>0, <2>2, StockStays, CapStays
<1>3. ASSUME NEW o \in OrderIds, CheckoutPaid(o) PROVE StockAccounting' /\ ResaleCapHeld'
  <2>1. Place(o, "confirmed", "success", "pending") /\ TakeStock(o) BY <1>3 DEF CheckoutPaid
  <2>2. payment[o] # "success" BY <1>0, <2>1 DEF Place, OInv, OrderStages
  <2>3. StockAccounting' BY <1>0, <2>1, <2>2, StockTaken DEF Place
  <2> QED BY <1>0, <2>1, <2>3, PlaceWithinCap DEF OrderStatus
<1>4. ASSUME NEW o \in OrderIds, CheckoutDeclined(o) \/ CheckoutPayPal(o) PROVE StockAccounting' /\ ResaleCapHeld'
  <2>1. PICK st \in {"pending", "cancelled"}, pay \in {"pending", "failed"}, ship \in ShippingStatus :
          Place(o, st, pay, ship) /\ UNCHANGED stock
    BY <1>4 DEF CheckoutDeclined, CheckoutPayPal, ShippingStatus
  <2>2. payment[o] = "none" BY <1>0, <2>1 DEF Place, OInv, OrderStages
  <2>3. \A x \in OrderIds : payment[x] = "success" <=> payment'[x] = "success"
    BY <1>0, <2>1, <2>2 DEF Place, OInv, TypeOK
  <2>4. StockAccounting' BY <1>0, <2>1, <2>3, StockStays DEF Place, OrderedStays
  <2> QED BY <1>0, <2>1, <2>4, PlaceWithinCap DEF OrderStatus
<1>5. ASSUME NEW o \in OrderIds, FinalizeCompleted(o) PROVE StockAccounting' /\ ResaleCapHeld'
  <2>1. StockAccounting' BY <1>0, <1>5, StockTaken DEF FinalizeCompleted, CanFinalizeOrder
  <2>2. \A x \in OrderIds : status[x] = "none" <=> status'[x] = "none"
    BY <1>0, <1>5 DEF FinalizeCompleted, CanFinalizeOrder, OInv, TypeOK
  <2> QED BY <1>0, <1>5, <2>1, <2>2, CapStays DEF FinalizeCompleted, OrderedStays
<1>6. ASSUME NEW o \in OrderIds, FinalizeFailed(o) PROVE StockAccounting' /\ ResaleCapHeld'
  <2>1. \A x \in OrderIds : payment[x] = "success" <=> payment'[x] = "success"
    BY <1>0, <1>6 DEF FinalizeFailed, CanFinalizeOrder, OInv, TypeOK
  <2>2. \A x \in OrderIds : status[x] = "none" <=> status'[x] = "none"
    BY <1>0, <1>6 DEF FinalizeFailed, CanFinalizeOrder, OInv, TypeOK
  <2> QED BY <1>0, <1>6, <2>1, <2>2, CapStays, StockStays DEF FinalizeFailed, OrderedStays
<1>7. ASSUME NEW r \in desk, Write(r) PROVE StockAccounting' /\ ResaleCapHeld'
  <2>1. r.order \in OrderIds /\ status[r.order] # "none"
    BY <1>0 DEF OInv, TypeOK, OrderStages, Request
  <2>2. \A x \in OrderIds : status[x] = "none" <=> status'[x] = "none"
    BY <1>0, <1>7, <2>1 DEF Write, OInv, TypeOK
  <2> QED BY <1>0, <1>7, <2>2, CapStays, StockStays DEF Write, OrderedStays
<1>8. ASSUME \/ UNCHANGED vars
             \/ \E u \in Fans, p \in Products : RemoveCart(u, p) \/ \E n \in 1..MaxInCart : AddToCart(u, p, n)
             \/ \E o \in OrderIds : CancelPlacedOrder(o) \/ ShipOrder(o)
             \/ \E o \in OrderIds, s \in ShippingStatus : UpdateShippingStatus(o, s)
      PROVE  StockAccounting' /\ ResaleCapHeld'
  <2>1. UNCHANGED <<stock, ordered, status, payment>>
    BY <1>8 DEF vars, RemoveCart, AddToCart, CancelPlacedOrder, ShipOrder, UpdateShippingStatus, Accept
  <2> QED BY <1>1, <2>1
<1> QED BY <1>2, <1>3, <1>4, <1>5, <1>6, <1>7, <1>8 DEF Next, ShopNext

LEMMA SumInvariant == Spec => []SumInv
BY InitSums, NextSums, PTL DEF Spec

\* The units that left the stock are exactly those of the paid orders,
\* whatever checkouts, captures and cancellations overlap
\* (order_service.py 111-113, payment_service.py 188-190).
THEOREM StockAccounted == Spec => []StockAccounting
<1>1. SumInv => StockAccounting BY DEF SumInv
<1> QED BY <1>1, SumInvariant, PTL

\* No fan orders more of a capped product than the cap, over all orders:
\* two checkouts cannot both count the same room (order_service.py 69-83).
THEOREM ResaleCapNeverExceeded == Spec => []ResaleCapHeld
<1>1. SumInv => ResaleCapHeld BY DEF SumInv
<1> QED BY <1>1, SumInvariant, PTL
=============================================================================
