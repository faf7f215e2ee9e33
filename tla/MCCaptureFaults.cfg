CONSTANTS
  win = win
  ticket = ticket
  order = order
  p1 = p1
  p2 = p2
  p3 = p3
  Wins = {win}
  DirectTickets = {}
  Orders = {order}
  Payments = {p1, p2, p3}
  SubjectOf <- TwoOfTheWin
  Browsers = {browser}
  Webhooks = {webhook}
  Buyers = {buyer}
  Shippers = {shipper}
  Draws = {draw}
  NoPayment = NoPayment
  MaxFaults = 1
  MaxUnreachable = 1
SPECIFICATION Spec
CONSTRAINT Scene
INVARIANTS
  SuccessIsCaptured
PROPERTIES
  ChargedWhileOpen
  AcknowledgedIsSettled
CHECK_DEADLOCK FALSE
