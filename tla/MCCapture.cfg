CONSTANTS
  win = win
  ticket = ticket
  order = order
  p1 = p1
  p2 = p2
  p3 = p3
  Wins = {win}
  DirectTickets = {}
  Orders = {}
  Payments = {p1}
  SubjectOf <- OneOfTheWin
  Browsers = {browser}
  Webhooks = {webhook}
  Buyers = {buyer}
  Shippers = {}
  Draws = {draw}
  NoPayment = NoPayment
  MaxFaults = 1
  MaxUnreachable = 1
SPECIFICATION FairSpec
PROPERTIES
  EventuallyAcknowledged
CHECK_DEADLOCK FALSE
