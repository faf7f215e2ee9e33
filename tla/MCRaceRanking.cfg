CONSTANTS
  u1 = u1
  u2 = u2
  r1 = r1
  r2 = r2
  r3 = r3
  Fans = {u1}
  Tiers = {tierA}
  DirectTier = direct
  Requests = {r1, r2}
  FanOf <- OneFan
  Draws = {draw1}
  Nobody = Nobody
SPECIFICATION Spec
INVARIANTS
  PendingEntriesRanked
CHECK_DEADLOCK FALSE
