CONSTANTS
  u1 = u1
  u2 = u2
  r1 = r1
  r2 = r2
  r3 = r3
  Fans = {u1, u2}
  Tiers = {tierA, tierB}
  DirectTier = direct
  Requests = {r1, r2, r3}
  FanOf <- TwoFans
  Draws = {draw1, draw2}
  Nobody = Nobody
SPECIFICATION Spec
CONSTRAINT SmallScene
SYMMETRY SceneSymmetry
INVARIANTS
  EntriesKeepRanks
  EntriesStaySingle
  PathsStayApart
  NoEntryLeftBehind
PROPERTIES
  DrawSeesFinalRankings
  DrawSucceeds
CHECK_DEADLOCK FALSE
