------------------------------ MODULE MCOrders ------------------------------
(***************************************************************************)
(* Orders for TLC: an album under the resale cap, and three checkouts, two *)
(* of them by the same fan.                                                *)
(***************************************************************************)
EXTENDS Orders, TLC

CONSTANTS u1, u2, album, o1, o2, o3

Stock == album :> 3
ThreeOrders == o1 :> u1 @@ o2 :> u1 @@ o3 :> u2
OneOrder == o1 :> u1

Symmetry == Permutations({o1, o2})
=============================================================================
