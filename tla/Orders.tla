------------------------------- MODULE Orders -------------------------------
(***************************************************************************)
(* The shop: carts, orders of merchandise, their payment and fulfilment.   *)
(*                                                                         *)
(* Checkout and capture lock the rows they decide on and commit once, so   *)
(* each is one step, but for what they read before they lock: a checkout   *)
(* reads the cart first.  Cancelling, shipping and the admin override lock *)
(* nothing: they read the order in one step and write it in another.       *)
(*                                                                         *)
(* Prices are left out; a checkout whose amount does not match is refused. *)
(***************************************************************************)
EXTENDS Integers, FiniteSets, FiniteSetsExt

CONSTANTS
  Fans,
  Products,
  Capped,       \* products of a category with is_resale_capped
  ResaleCap,    \* RESALE_CAP_QUANTITY
  InitialStock, \* products.quantity at first
  OrderIds,     \* each names a checkout and the order it makes
  Buyer,        \* orders.user_id
  MaxInCart,    \* bound: units of a product in a cart
  MaxAtDesk     \* bound: fulfilment requests in flight

ASSUME OrdersAssumption ==
  /\ Capped \subseteq Products
  /\ IsFiniteSet(OrderIds)
  /\ Buyer \in [OrderIds -> Fans]
  /\ ResaleCap \in Nat /\ MaxInCart \in Nat /\ MaxAtDesk \in Nat
  /\ InitialStock \in [Products -> Nat]

OrderStatus == {"pending", "confirmed", "cancelled"}
PaymentStatus == {"pending", "success", "failed", "cancelled"}
ShippingStatus == {"pending", "processing", "shipped", "delivered", "cancelled"}
Quantities == [Products -> 0..MaxInCart]

VARIABLES
  stock,     \* products.quantity
  cart,      \* cart.quantity of a fan for a product, 0 if there is no row
  reading,   \* the checkouts that have read the cart and hold no lock yet
  ordered,   \* orders_items.quantity; the cart as read, for those in reading
  status,    \* orders.status, "none" if there is no order
  payment,   \* payment.status, one payment per order
  shipping,  \* shipping_status.status
  desk       \* fulfilment requests that have read the order and not written it

vars == <<stock, cart, reading, ordered, status, payment, shipping, desk>>

\* a write of shipping_status and, if cancels, of orders.status
Request(o, s, cancels) == [order |-> o, writes |-> s, cancels |-> cancels]

TypeOK ==
  /\ stock \in [Products -> Int]
  /\ cart \in [Fans -> Quantities]
  /\ reading \subseteq OrderIds
  /\ ordered \in [OrderIds -> Quantities]
  /\ status \in [OrderIds -> OrderStatus \cup {"none"}]
  /\ payment \in [OrderIds -> PaymentStatus \cup {"none"}]
  /\ shipping \in [OrderIds -> ShippingStatus \cup {"none"}]
  /\ desk \subseteq {Request(o, s, b) : o \in OrderIds, s \in ShippingStatus, b \in BOOLEAN}

NoItems == [p \in Products |-> 0]
ProductsIn(q) == {p \in Products : q[p] > 0}

Init ==
  /\ stock = InitialStock
  /\ cart = [u \in Fans |-> NoItems]
  /\ reading = {}
  /\ ordered = [o \in OrderIds |-> NoItems]
  /\ status = [o \in OrderIds |-> "none"]
  /\ payment = [o \in OrderIds |-> "none"]
  /\ shipping = [o \in OrderIds |-> "none"]
  /\ desk = {}

(***************************************************************************)
(* CartService                                                             *)
(***************************************************************************)
\* the stock is compared with what is added, not with what is in the cart then
AddToCart(u, p, n) ==
  /\ stock[p] >= n
  /\ cart[u][p] + n <= MaxInCart
  /\ cart' = [cart EXCEPT ![u][p] = @ + n]
  /\ UNCHANGED <<stock, reading, ordered, status, payment, shipping, desk>>

RemoveCart(u, p) ==
  /\ cart[u][p] > 0
  /\ cart' = [cart EXCEPT ![u][p] = 0]
  /\ UNCHANGED <<stock, reading, ordered, status, payment, shipping, desk>>

(***************************************************************************)
(* OrderService.checkout                                                   *)
(***************************************************************************)
ReadCart(o) ==
  /\ o \notin reading /\ status[o] = "none"
  /\ cart[Buyer[o]] # NoItems
  /\ reading' = reading \cup {o}
  /\ ordered' = [ordered EXCEPT ![o] = cart[Buyer[o]]]
  /\ UNCHANGED <<stock, cart, status, payment, shipping, desk>>

\* Every order counts, whatever became of it.
OrdersOf(u) == {o \in OrderIds : Buyer[o] = u /\ status[o] # "none"}

OrderedBy(u, p) == MapThenSumSet(LAMBDA o : ordered[o][p], OrdersOf(u))

\* mutant: the order is compared with the cap alone
WithinCapAlone(o) == \A p \in Capped \cap ProductsIn(ordered[o]) : ordered[o][p] <= ResaleCap

\* the check of the service and that of trg_orders_items_resale_cap
WithinResaleCap(o) ==
  \A p \in Capped \cap ProductsIn(ordered[o]) : OrderedBy(Buyer[o], p) + ordered[o][p] <= ResaleCap

InStock(o) == \A p \in Products : stock[p] >= ordered[o][p]

\* What a paid order does to the stock and the cart.  Every cart row of its
\* products goes, with the quantity it has by now.
TakeStock(o) == stock' = [p \in Products |-> stock[p] - ordered[o][p]]
ClearCart(o) ==
  cart' = [cart EXCEPT ![Buyer[o]] =
             [p \in Products |-> IF p \in ProductsIn(ordered[o]) THEN 0 ELSE @[p]]]

Place(o, st, pay, ship) ==
  /\ o \in reading
  /\ WithinResaleCap(o)
  /\ InStock(o)
  /\ reading' = reading \ {o}
  /\ status' = [status EXCEPT ![o] = st]
  /\ payment' = [payment EXCEPT ![o] = pay]
  /\ shipping' = [shipping EXCEPT ![o] = ship]
  /\ UNCHANGED <<ordered, desk>>

CheckoutPaid(o) ==
  /\ Place(o, "confirmed", "success", "pending")
  /\ TakeStock(o)
  /\ ClearCart(o)

CheckoutDeclined(o) ==
  /\ Place(o, "cancelled", "failed", "cancelled")
  /\ UNCHANGED <<stock, cart>>

\* mutant: the units are set aside when the PayPal order is made
CheckoutPayPalReserving(o) ==
  /\ Place(o, "pending", "pending", "pending")
  /\ TakeStock(o)
  /\ UNCHANGED cart

CheckoutPayPal(o) ==
  /\ Place(o, "pending", "pending", "pending")
  /\ UNCHANGED <<stock, cart>>

\* a wrong amount, or a check that fails once the products are locked
CheckoutRefused(o) ==
  /\ o \in reading
  /\ reading' = reading \ {o}
  /\ ordered' = [ordered EXCEPT ![o] = NoItems]
  /\ UNCHANGED <<stock, cart, status, payment, shipping, desk>>

(***************************************************************************)
(* PaymentService.finalize_paypal_payment, the order branch                *)
(***************************************************************************)
\* mutant: the order is not looked at
CanFinalizeAnyOrder(o) == payment[o] = "pending" /\ InStock(o)

\* mutant: the stock is not looked at
CanFinalizeUnchecked(o) == payment[o] = "pending" /\ status[o] = "pending"

CanFinalizeOrder(o) ==
  /\ payment[o] = "pending"
  /\ status[o] = "pending"
  /\ InStock(o)

FinalizeCompleted(o) ==
  /\ CanFinalizeOrder(o)
  /\ payment' = [payment EXCEPT ![o] = "success"]
  /\ status' = [status EXCEPT ![o] = "confirmed"]
  /\ shipping' = [shipping EXCEPT ![o] = "pending"]
  /\ TakeStock(o)
  /\ ClearCart(o)
  /\ UNCHANGED <<reading, ordered, desk>>

\* mutant: the order stays open
FinalizeFailedKeepingOrder(o) ==
  /\ CanFinalizeOrder(o)
  /\ payment' = [payment EXCEPT ![o] = "failed"]
  /\ UNCHANGED <<stock, cart, reading, ordered, status, shipping, desk>>

FinalizeFailed(o) ==
  /\ CanFinalizeOrder(o)
  /\ payment' = [payment EXCEPT ![o] = "failed"]
  /\ status' = [status EXCEPT ![o] = "cancelled"]
  /\ shipping' = [shipping EXCEPT ![o] = "cancelled"]
  /\ UNCHANGED <<stock, cart, reading, ordered, desk>>

(***************************************************************************)
(* OrderService: cancel_placed_order, ship_order, update_shipping_status   *)
(***************************************************************************)
NotShippedYet(o) == shipping[o] \in {"pending", "processing"}

Accept(r) ==
  /\ Cardinality(desk) < MaxAtDesk
  /\ desk' = desk \cup {r}
  /\ UNCHANGED <<stock, cart, reading, ordered, status, payment, shipping>>

CancelPlacedOrder(o) == NotShippedYet(o) /\ Accept(Request(o, "cancelled", TRUE))

ShipOrder(o) == NotShippedYet(o) /\ Accept(Request(o, "shipped", FALSE))

\* a write of the value that was read is no write
UpdateShippingStatus(o, s) ==
  /\ shipping[o] \notin {"none", "cancelled", s}
  /\ Accept(Request(o, s, FALSE))

Write(r) ==
  /\ r \in desk
  /\ desk' = desk \ {r}
  /\ shipping' = [shipping EXCEPT ![r.order] = r.writes]
  /\ status' = IF r.cancels THEN [status EXCEPT ![r.order] = "cancelled"] ELSE status
  /\ UNCHANGED <<stock, cart, reading, ordered, payment>>

ShopNext ==
  \/ \E u \in Fans, p \in Products : RemoveCart(u, p) \/ \E n \in 1..MaxInCart : AddToCart(u, p, n)
  \/ \E o \in OrderIds :
       \/ ReadCart(o) \/ CheckoutPaid(o) \/ CheckoutDeclined(o) \/ CheckoutPayPal(o) \/ CheckoutRefused(o)
       \/ FinalizeCompleted(o) \/ FinalizeFailed(o)
       \/ CancelPlacedOrder(o) \/ ShipOrder(o)
  \/ \E r \in desk : Write(r)

\* and the manual correction of an admin
Next == ShopNext \/ \E o \in OrderIds, s \in ShippingStatus : UpdateShippingStatus(o, s)

ShopSpec == Init /\ [][ShopNext]_vars
Spec == Init /\ [][Next]_vars

-----------------------------------------------------------------------------
\* The units that left the stock are those of the orders paid for: whatever
\* checkouts, captures and cancellations overlap, none is taken twice, taken
\* for an unpaid order or forgotten (order_service.py 111-113,
\* payment_service.py 188-190).
StockAccounting ==
  \A p \in Products :
    stock[p] = InitialStock[p]
                 - MapThenSumSet(LAMBDA o : ordered[o][p], {o \in OrderIds : payment[o] = "success"})

\* No product is oversold; products.quantity has no CHECK constraint, so only
\* the comparisons made under the product locks prevent it, also for a
\* PayPal order that took no stock until its capture.
NeverOversold == \A p \in Products : stock[p] >= 0

\* No fan has ordered more than the cap of a capped product, over all orders.
ResaleCapHeld == \A u \in Fans, p \in Capped : OrderedBy(u, p) <= ResaleCap

\* What an order says of its payment: confirmed orders are paid, those whose
\* payment failed are cancelled, and a paid order is confirmed unless the fan
\* cancelled it.
PaymentsMatchOrders ==
  \A o \in OrderIds :
    /\ status[o] = "confirmed" => payment[o] = "success"
    /\ payment[o] = "failed" => status[o] = "cancelled"
    /\ payment[o] = "success" => status[o] \in {"confirmed", "cancelled"}

\* A fan who cancelled an order before it was paid is not charged for it,
\* even by a capture that arrives later.
CancelledIsNotCharged ==
  [][\A o \in OrderIds :
       (status[o] = "cancelled" /\ payment[o] # "success") => payment'[o] # "success"]_vars

\* A cancelled order is not shipped and a shipped order is not cancelled: the
\* two statuses of an order agree (order_service.py 150-151 and 168-169).
CancelledIsNotShipped ==
  \A o \in OrderIds : status[o] = "cancelled" => shipping[o] = "cancelled"
=============================================================================
