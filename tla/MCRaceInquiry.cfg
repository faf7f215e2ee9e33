CONSTANTS
  c1 = c1
  c2 = c2
  g1 = g1
  g2 = g2
  i1 = i1
  i2 = i2
  m1 = m1
  m2 = m2
  boss = boss
  p1 = p1
  p2 = p2
  cat = cat
  hall = hall
  concert1 = concert1
  concert2 = concert2
  None = None
  Absent = Absent
  Users = {m1, m2, boss}
  Companies = {c1, c2}
  Tokens = {t1, t2, t3}
  Requests = {r1, r2}
  NoUser = NoUser
  Idle = Idle
  Groups = {g1, g2}
  Idols = {i1, i2}
  Colors = {red}
  Positions = {leader}
  Products = {p1, p2}
  Categories = {cat}
  Genres = {kpop}
  Venues = {hall}
  Concerts = {concert1, concert2}
  Offers = {vipLottery, gaDirect}
  Capacities = {1, 2}
  TotalQuantities = {1, 2}
  Readers = {reader}
  MaxOwed = 2
  NoPage = NoPage
  MaxPageWrites = 2
  MaxRowWrites = 3
  Draws = {d1, d2}
  DrawnConcert = concert1
  MaxFaults = 1
  Senders = {s1, s2}
  Limit = 2
  CONFIRMATIONS_PER_ADDRESS = 3
  MaxRecent = 5
  Uploaders = {w1, w2}
  Files = {f1, f2, f3}
  NoFile = NoFile
  SeedRoles <- MCRoles
  SeedEmployers <- MCEmployers
  SeedGroups <- OneGroup
  SeedIdols <- OneMember
  SeedProducts <- OneProduct
  SeedConcerts <- OneConcert
SPECIFICATION Spec
INVARIANT ConfirmationsCapped
CHECK_DEADLOCK FALSE
