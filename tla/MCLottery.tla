----------------------------- MODULE MCLottery ------------------------------
(***************************************************************************)
(* ConcertSales without a gateway: the lottery of two tiers, one of them   *)
(* with two campaigns, for TLC.                                            *)
(***************************************************************************)
EXTENDS ConcertSales, TLC

CONSTANTS tierA, tierB, campaignA, campaignA2, campaignB

MCTierOf == campaignA :> tierA @@ campaignA2 :> tierA @@ campaignB :> tierB
OneSeatEach == [tt \in Tiers |-> 1]

Symmetry == Permutations(Fans) \cup Permutations({campaignA, campaignA2})
=============================================================================
