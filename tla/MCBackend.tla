----------------------------- MODULE MCBackend -----------------------------
(***************************************************************************)
(* Backend with two companies, the second without artists yet, for TLC.    *)
(* Two managers and an admin edit the site; the other parts start with one *)
(* manager and an account yet to be made.                                  *)
(***************************************************************************)
EXTENDS Backend, TLC

CONSTANTS c1, c2, g1, g2, i1, i2, m1, m2, boss, p1, p2, cat, hall, concert1, concert2

EveryRole == m1 :> "manager" @@ m2 :> "manager" @@ boss :> "admin"
OneManager == m1 :> "manager" @@ m2 :> "none" @@ boss :> "gone"
MCRoles == [p \in Parts |-> IF p = "site" THEN EveryRole ELSE OneManager]
MCEmployers == m1 :> c1 @@ m2 :> c2 @@ boss :> None
OneGroup == g1 :> [company |-> c1, active |-> TRUE] @@ g2 :> Absent
OneMember == i1 :> [company |-> c1, group |-> g1, color |-> None, active |-> TRUE] @@ i2 :> Absent
OneProduct == p1 :> cat @@ p2 :> Absent
OneConcert ==
  concert1 :> [company |-> c1, venue |-> hall, status |-> "scheduled", capacity |-> 2] @@ concert2 :> Absent

\* the page of a concert is watched
ConcertPage == page = "concert_detail"
=============================================================================
