CONSTANTS
  tierA = tierA
  tierB = tierB
  direct = direct
  campaignA = campaignA
  campaignB = campaignB
  Webhook = Webhook
  NoKey = NoKey
  NoTier = NoTier
  NoTicket = NoTicket
  NoEntry = NoEntry
  Fans = {u1, u2}
  Attempts = {a1, a2}
  Keys = {k1, k2}
  LotteryTiers = {tierA, tierB}
  DirectTiers = {direct}
  Campaigns = {campaignA, campaignB}
  TierOf <- TwoLotteryTiers
  Quantities = {1}
  Capacity <- OneSeatEach
SPECIFICATION FanSpec
SYMMETRY Symmetry
INVARIANTS
  TypeOK
  ChargedAtMostOnce
  PaidMeansCharged
  PagesAgree
PROPERTIES
  ChargesAreTimely
  ImplementsSeatAllocation
CHECK_DEADLOCK FALSE
