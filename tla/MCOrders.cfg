CONSTANTS
  u1 = u1
  u2 = u2
  album = album
  o1 = o1
  o2 = o2
  o3 = o3
  Fans = {u1, u2}
  Products = {album}
  Capped = {album}
  ResaleCap = 2
  InitialStock <- Stock
  OrderIds = {o1, o2, o3}
  Buyer <- ThreeOrders
  MaxInCart = 2
  MaxAtDesk = 1
SPECIFICATION Spec
SYMMETRY Symmetry
INVARIANTS
  PaymentsMatchOrders
  StockAccounting
  NeverOversold
  ResaleCapHeld
PROPERTIES
  CancelledIsNotCharged
CHECK_DEADLOCK FALSE
