CONSTANTS
  win = win
  ticket = ticket
  order = order
  p1 = p1
  p2 = p2
  p3 = p3
  Wins = {}
  DirectTickets = {ticket}
  Orders = {}
  Payments = {p1}
  SubjectOf <- OneOfTheTicket
  Browsers = {browser}
  Webhooks = {webhook}
  Buyers = {buyer}
  Shippers = {}
  Draws = {}
  NoPayment = NoPayment
  MaxFaults = 0
  MaxUnreachable = 0
SPECIFICATION Spec
INVARIANTS
  CapturedIsRecorded
CHECK_DEADLOCK FALSE
