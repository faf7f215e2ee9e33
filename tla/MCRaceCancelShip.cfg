CONSTANTS
  u1 = u1
  u2 = u2
  album = album
  o1 = o1
  o2 = o2
  o3 = o3
  Fans = {u1}
  Products = {album}
  Capped = {album}
  ResaleCap = 2
  InitialStock <- Stock
  OrderIds = {o1}
  Buyer <- OneOrder
  MaxInCart = 2
  MaxAtDesk = 2
SPECIFICATION ShopSpec
INVARIANTS
  CancelledIsNotShipped
CHECK_DEADLOCK FALSE
