CONSTANTS
  tierA = tierA
  tierB = tierB
  direct = direct
  campaignA = campaignA
  campaignB = campaignB
  Webhook = Webhook
  NoKey = NoKey
  NoTier = NoTier
  NoTicket = NoTicket
  NoEntry = NoEntry
  Fans = {u1, u2}
  Attempts = {a1, a2}
  Keys = {k1}
  LotteryTiers = {tierA}
  DirectTiers = {direct}
  Campaigns = {campaignA}
  TierOf <- OneLotteryTier
  Quantities = {1}
  Capacity <- OneSeatEach
SPECIFICATION AdminSpec
SYMMETRY Symmetry
INVARIANTS
  OneLiveTicket

CHECK_DEADLOCK FALSE
