CONSTANTS
  tierA = tierA
  tierB = tierB
  campaignA = campaignA
  campaignA2 = campaignA2
  campaignB = campaignB
  Webhook = Webhook
  NoKey = NoKey
  NoTier = NoTier
  NoTicket = NoTicket
  NoEntry = NoEntry
  Fans = {u1, u2, u3}
  Attempts = {a1}
  Keys = {}
  LotteryTiers = {tierA, tierB}
  DirectTiers = {}
  Campaigns = {campaignA, campaignA2, campaignB}
  TierOf <- MCTierOf
  Quantities = {1}
  Capacity <- OneSeatEach
SPECIFICATION FanSpec
SYMMETRY Symmetry
INVARIANTS
  PendingEntriesRanked
PROPERTIES
  LosersHadNoSeat
  HigherRankFirst
  DrawIssuesOneTicketPerWinner
CHECK_DEADLOCK FALSE
