------------------------------- MODULE Contact -------------------------------
(***************************************************************************)
(* The contact form: the rate limiter in front of it (cache/rate_limit.py) *)
(* and the confirmations an email address is sent (inquiry_service.py).    *)
(* Senders are guests with a network address each, who all write as the    *)
(* same email address.  A submission counts before it commits, and others  *)
(* run in between.                                                         *)
(***************************************************************************)
EXTENDS Integers, FiniteSets, Sequences

CONSTANTS
  Senders,                   \* rate-limit keys, one submission at a time each
  Limit,                     \* requests a key may make in a window
  CONFIRMATIONS_PER_ADDRESS,
  MaxRecent                  \* bound on the inquiries of an hour

ASSUME ContactAssumption ==
  /\ IsFiniteSet(Senders)
  /\ Limit \in Nat /\ MaxRecent \in Nat
  /\ CONFIRMATIONS_PER_ADDRESS \in Nat \ {0}

VARIABLES
  counter,      \* rate:ip:<route>:<sender>, 0 if the key does not exist
  expires,      \* the key has a time to live
  redisUp,      \* Redis answers
  recent,       \* the address's inquiries of the last hour, oldest first
  at,           \* where the submission of a sender stands
  counted,      \* the inquiries it counted
  met           \* senders whose submission has met another one that had counted: history

contactVars == <<counter, expires, redisUp, recent, at, counted, met>>

\* of an inquiry: whether it was confirmed, by a submission that met another
\* or by one that did not
Answers == {"silent", "alone", "met"}

-----------------------------------------------------------------------------
\* SET key 0 EX window NX and INCR key, in one MULTI
Increment(s) ==
  /\ counter' = [counter EXCEPT ![s] = @ + 1]
  /\ expires' = [expires EXCEPT ![s] = TRUE]

\* rate_limit: more than the limit is 429, and when Redis fails all pass.
\* Further requests of a refused sender would only count on.
Limiter(s) ==
  /\ at[s] = "idle"
  /\ counter[s] <= Limit
  /\ IF redisUp
     THEN Increment(s) /\ at' = [at EXCEPT ![s] = IF counter'[s] > Limit THEN "idle" ELSE "admitted"]
     ELSE UNCHANGED <<counter, expires>> /\ at' = [at EXCEPT ![s] = "admitted"]
  /\ UNCHANGED <<redisUp, recent, counted, met>>

\* Redis deletes the key when its window is over
WindowEnds(s) ==
  /\ expires[s]
  /\ counter' = [counter EXCEPT ![s] = 0]
  /\ expires' = [expires EXCEPT ![s] = FALSE]
  /\ UNCHANGED <<redisUp, recent, at, counted, met>>

RedisFailsOrReturns ==
  /\ redisUp' = ~redisUp
  /\ UNCHANGED <<counter, expires, recent, at, counted, met>>

\* the SELECT of submit_inquiry
CountRecent(s) ==
  /\ at[s] = "admitted"
  /\ at' = [at EXCEPT ![s] = "counted"]
  /\ counted' = [counted EXCEPT ![s] = Len(recent)]
  /\ LET others == {q \in Senders : at[q] = "counted"}
     IN  met' = IF others = {} THEN met ELSE met \cup others \cup {s}
  /\ UNCHANGED <<counter, expires, redisUp, recent>>

\* mutant: one more than the cap
OneOverTheCap(n) == n <= CONFIRMATIONS_PER_ADDRESS

BelowCap(n) == n < CONFIRMATIONS_PER_ADDRESS

\* the inquiry is committed and, below the cap, its confirmation queued,
\* unless the broker fails
SubmitInquiry(s) ==
  /\ at[s] = "counted"
  /\ Len(recent) < MaxRecent
  /\ \/ recent' = Append(recent, "silent")
     \/ BelowCap(counted[s]) /\ recent' = Append(recent, IF s \in met THEN "met" ELSE "alone")
  /\ met' = met \ {s}
  /\ at' = [at EXCEPT ![s] = "idle"]
  /\ counted' = [counted EXCEPT ![s] = 0]
  /\ UNCHANGED <<counter, expires, redisUp>>

\* the oldest inquiry is an hour old
InquiryAges ==
  /\ recent # <<>>
  /\ recent' = Tail(recent)
  /\ UNCHANGED <<counter, expires, redisUp, at, counted, met>>

ContactNext ==
  \/ \E s \in Senders : Limiter(s) \/ WindowEnds(s) \/ CountRecent(s) \/ SubmitInquiry(s)
  \/ RedisFailsOrReturns
  \/ InquiryAges

ContactInit ==
  /\ counter = [s \in Senders |-> 0]
  /\ expires = [s \in Senders |-> FALSE]
  /\ redisUp = TRUE
  /\ recent = <<>>
  /\ at = [s \in Senders |-> "idle"]
  /\ counted = [s \in Senders |-> 0]
  /\ met = {}

-----------------------------------------------------------------------------
ContactTypeOK ==
  /\ counter \in [Senders -> 0..Limit + 1]
  /\ expires \in [Senders -> BOOLEAN]
  /\ redisUp \in BOOLEAN
  /\ recent \in Seq(Answers) /\ Len(recent) <= MaxRecent
  /\ at \in [Senders -> {"idle", "admitted", "counted"}]
  /\ counted \in [Senders -> 0..MaxRecent]
  /\ met \subseteq Senders

Confirmed == {i \in 1..Len(recent) : recent[i] # "silent"}

\* What submit_inquiry says (inquiry_service.py 19-22): an address that has
\* received CONFIRMATIONS_PER_ADDRESS within the hour receives no more.  It
\* does not hold of submissions that each count before the other commits.
ConfirmationsCapped == Cardinality(Confirmed) <= CONFIRMATIONS_PER_ADDRESS

\* More than that go out only when one of them was sent by a submission that
\* met another: whatever number of senders, refused requests, broken windows
\* of the limiter and inquiries that grow an hour old do not suffice.
CapNeedsMeeting ==
  (\A i \in Confirmed : recent[i] # "met") => Cardinality(Confirmed) <= CONFIRMATIONS_PER_ADDRESS
=============================================================================
