------------------------ MODULE MCLotteryTransactions ------------------------
(***************************************************************************)
(* LotteryTransactions for TLC: which fan sends which request.             *)
(***************************************************************************)
EXTENDS LotteryTransactions, TLC

CONSTANTS u1, u2, r1, r2, r3

OneFan == r1 :> u1 @@ r2 :> u1
TwoFans == r1 :> u1 @@ r2 :> u1 @@ r3 :> u2

Busy(P) == {p \in P : txn[p].at # "idle"}

\* in one campaign: one draw at a time, requests and rankings name its tier,
\* and its window lets entries and draws pass
OneTier ==
  LET named(p) == ({txn[p].now} \ {Nobody}) \cup txn[p].todo \cup txn[p].new
  IN  /\ Cardinality(Busy(Draws)) <= 1
      /\ Cardinality(open \cup UNION ({named(p) : p \in Requests} \cup {ranked[u] : u \in Fans})) <= 1
      /\ Busy(Procs) # {} => open \subseteq due

\* the second fan has done nothing
FirstFanAlone == r3 \notin Busy(Requests) /\ ranked[u2] = {} /\ u2 \notin holders

NoneMet == appliedTwice = {} /\ rankedMeanwhile = {} /\ boughtMeanwhile = {}

\* one fan with one request at a time
OneRequest == FirstFanAlone /\ Cardinality(Busy(Requests)) <= 1 /\ NoneMet

\* one fan with two requests at a time, until they have met in one way
OneMeeting ==
  /\ FirstFanAlone
  /\ Cardinality(appliedTwice) + Cardinality(rankedMeanwhile) + Cardinality(boughtMeanwhile) <= 1
  /\ OneTier

\* two fans with a request each; the first fan's rankings meet the requests of
\* the second, whose own meet nothing
TwoFansCompete ==
  /\ NoneMet /\ Cardinality(Busy({r1, r2})) <= 1
  /\ txn[r3].at \in Ranking => Busy(Procs) = {r3}
  /\ OneTier

SmallScene == OneRequest \/ OneMeeting \/ TwoFansCompete

Symmetry == Permutations(Tiers)
SceneSymmetry == Symmetry \cup Permutations(Draws) \cup Permutations({r1, r2})
=============================================================================
