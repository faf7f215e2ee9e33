--------------------------- MODULE MCConcertSales ---------------------------
(***************************************************************************)
(* ConcertSales with a direct tier and up to two lottery tiers, for TLC.   *)
(***************************************************************************)
EXTENDS ConcertSales, TLC

CONSTANTS tierA, tierB, direct, campaignA, campaignB

TwoLotteryTiers == campaignA :> tierA @@ campaignB :> tierB
OneLotteryTier == campaignA :> tierA
OneSeatEach == [tt \in Tiers |-> 1]

\* one resize under way at a time
OneResize == Cardinality(resizing) <= 1

Symmetry == Permutations(Fans) \cup Permutations(Attempts) \cup Permutations(Keys)
=============================================================================
