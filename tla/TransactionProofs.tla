-------------------------- MODULE TransactionProofs --------------------------
(***************************************************************************)
(* The locks of the lottery, the ranking and the direct checkout, for any  *)
(* number of fans, tiers, requests and draws in flight: what each          *)
(* transaction holds to its commit, and that the rows it has read are then *)
(* still as it read them.                                                  *)
(***************************************************************************)
EXTENDS LotteryTransactions, TLAPS

-----------------------------------------------------------------------------
(***************************************************************************)
(* Types                                                                   *)
(***************************************************************************)
Statements ==
  {"idle", "apply", "no_ticket", "has_rank", "entry", "entry_fk", "entry_commit",
   "check", "entered", "snapshot", "delete", "insert", "rank_fk",
   "buy", "buy_tier", "unresolved", "ticket",
   "draw", "draw_campaigns", "read_rankings", "read_entries", "award"}

Transaction ==
  [at : Statements, todo : SUBSET Tiers, now : Tiers \cup {Nobody}, staged : SUBSET Tiers,
   new : SUBSET Tiers, old : SUBSET Tiers, rows : SUBSET Tiers,
   seen : [Fans -> SUBSET Tiers], entrants : SUBSET Fans]

RowTypes ==
  /\ open \subseteq Tiers
  /\ ranked \in [Fans -> SUBSET Tiers]
  /\ pending \in [Fans \X Tiers -> Nat]
  /\ resolved \in [Fans \X Tiers -> Nat]

ProcTypes ==
  /\ txn \in [Procs -> Transaction]
  /\ held = [p \in Procs |-> held[p]]

-----------------------------------------------------------------------------
(***************************************************************************)
(* Locks                                                                   *)
(***************************************************************************)
Excludes(l, m) == l.table = m.table /\ l.row = m.row /\ (l.exclusive \/ m.exclusive)

LocksExclude ==
  \A p \in Procs, q \in Procs : p # q => \A l \in held[p], m \in held[q] : ~Excludes(l, m)

\* The statements of an application and of a ranking after they have checked
\* a campaign, and those of a draw.
Applying == {"no_ticket", "has_rank", "entry", "entry_fk", "entry_commit"}
Reranking == {"entered", "snapshot", "delete", "insert", "rank_fk"}
Selecting == {"draw_campaigns", "read_rankings", "read_entries", "award"}
Drawing == Selecting \ {"draw_campaigns"}

\* The campaigns a request has checked and counts on
Claims(x) ==
  x.staged \cup (IF x.at \in Applying THEN {x.now} ELSE {})
           \cup (IF x.at \in Reranking THEN x.old \cup x.new ELSE {})

\* They are open and locked FOR SHARE.
ClaimsHeld(p, x) ==
  \A c \in Claims(x) : c \in open /\ Lock("campaign", c, FALSE) \in held[p]

\* A draw holds every ticket type and then every open campaign FOR UPDATE.
DrawHolds(d) ==
  /\ txn[d].at \in Selecting => \A t \in AllTiers : Lock("tier", t, TRUE) \in held[d]
  /\ txn[d].at \in Drawing => open # {} /\ \A c \in open : Lock("campaign", c, TRUE) \in held[d]

LockInv ==
  /\ RowTypes
  /\ ProcTypes
  /\ LocksExclude
  /\ \A p \in Requests : ClaimsHeld(p, txn[p])
  /\ \A d \in Draws : DrawHolds(d)
  /\ NoEntryLeftBehind

LEMMA InitLocks == Init => LockInv
<1> SUFFICES ASSUME Init PROVE LockInv OBVIOUS
<1>1. Idle \in Transaction /\ Idle.at = "idle" /\ Claims(Idle) = {}
  BY DEF Idle, Transaction, Statements, Claims, Applying, Reranking
<1>2. RowTypes BY DEF Init, RowTypes, Campaigns
<1>3. txn = [p \in Procs |-> Idle] /\ held = [p \in Procs |-> {}] BY DEF Init
<1>4. ProcTypes BY <1>1, <1>3 DEF ProcTypes
<1>5. LocksExclude BY <1>3 DEF LocksExclude
<1>6. \A p \in Requests : ClaimsHeld(p, txn[p]) BY <1>1, <1>3 DEF ClaimsHeld, Procs
<1>7. \A d \in Draws : DrawHolds(d) BY <1>1, <1>3 DEF DrawHolds, Selecting, Drawing, Procs
<1>8. NoEntryLeftBehind BY DEF Init, NoEntryLeftBehind
<1> QED BY <1>2, <1>4, <1>5, <1>6, <1>7, <1>8 DEF LockInv

\* A process that gives up locks leaves the others theirs.
LEMMA FewerLocks ==
  ASSUME LocksExclude, NEW p \in Procs, held' = [held EXCEPT ![p] = held'[p]], held'[p] \subseteq held[p],
         held = [q \in Procs |-> held[q]]
  PROVE  LocksExclude' /\ held' = [q \in Procs |-> held'[q]]
<1>1. \A q \in Procs : held'[q] \subseteq held[q] OBVIOUS
<1> QED BY <1>1 DEF LocksExclude

\* A lock that one process holds FOR UPDATE no other holds at all.
LEMMA ExclusiveLock ==
  ASSUME LocksExclude, NEW p \in Procs, NEW q \in Procs, NEW table, NEW row, NEW b \in BOOLEAN,
         Lock(table, row, TRUE) \in held[p], Lock(table, row, b) \in held[q]
  PROVE  p = q
BY DEF LocksExclude, Excludes, Lock

\* A request goes on, with all it counts on locked.
LEMMA RequestContinues ==
  ASSUME LockInv, NEW p \in Requests, NEW x \in Transaction, Continue(p, x), ClaimsHeld(p, x)
  PROVE  LockInv'
<1> USE TransactionsAssumption
<1>1. UNCHANGED <<open, ranked, pending, resolved, held>> /\ txn' = [txn EXCEPT ![p] = x]
  BY DEF Continue, rows
<1>2. p \in Procs /\ \A d \in Draws : d # p /\ d \in Procs BY DEF Procs
<1>3. RowTypes' BY <1>1 DEF LockInv, RowTypes
<1>4. ProcTypes' BY <1>1, <1>2 DEF LockInv, ProcTypes
<1>5. LocksExclude' BY <1>1 DEF LockInv, LocksExclude
<1>6. \A q \in Requests : ClaimsHeld(q, txn[q])'
  <2> SUFFICES ASSUME NEW q \in Requests PROVE ClaimsHeld(q, txn'[q])
    BY <1>1 DEF ClaimsHeld
  <2>1. txn'[q] = IF q = p THEN x ELSE txn[q] BY <1>1 DEF LockInv, ProcTypes, Procs
  <2> QED BY <2>1 DEF LockInv
<1>7. \A d \in Draws : DrawHolds(d)'
  <2> SUFFICES ASSUME NEW d \in Draws PROVE DrawHolds(d)' OBVIOUS
  <2>1. txn'[d] = txn[d] BY <1>1, <1>2 DEF LockInv, ProcTypes
  <2> QED BY <1>1, <2>1 DEF LockInv, DrawHolds
<1>8. NoEntryLeftBehind' BY <1>1 DEF LockInv, NoEntryLeftBehind
<1> QED BY <1>3, <1>4, <1>5, <1>6, <1>7, <1>8 DEF LockInv

\* A transaction ends without having changed open campaigns or entries.
LEMMA ProcessEnds ==
  ASSUME LockInv, NEW p \in Procs, txn'[p] = Idle, ProcTypes', Release(p), RowTypes', NoEntryLeftBehind',
         open' = open,
         \A q \in Procs \ {p} : Claims(txn'[q]) = Claims(txn[q]) /\ txn'[q].at = txn[q].at
  PROVE  LockInv'
<1>1. \A q \in Procs : held'[q] = IF q = p THEN {} ELSE held[q] BY DEF LockInv, ProcTypes, Release
<1>2. LocksExclude' BY <1>1 DEF LockInv, LocksExclude
<1>3. Idle.at = "idle" /\ Claims(Idle) = {} BY DEF Idle, Claims, Applying, Reranking
<1>4. \A q \in Requests : ClaimsHeld(q, txn[q])'
  <2> SUFFICES ASSUME NEW q \in Requests PROVE ClaimsHeld(q, txn[q])' OBVIOUS
  <2>1. q \in Procs BY DEF Procs
  <2>2. CASE q = p BY <1>3, <2>2 DEF ClaimsHeld
  <2>3. CASE q # p BY <1>1, <2>1, <2>3 DEF LockInv, ClaimsHeld
  <2> QED BY <2>2, <2>3
<1>5. \A d \in Draws : DrawHolds(d)'
  <2> SUFFICES ASSUME NEW d \in Draws PROVE DrawHolds(d)' OBVIOUS
  <2>1. d \in Procs BY DEF Procs
  <2>2. CASE d = p BY <1>3, <2>2 DEF DrawHolds, Selecting, Drawing
  <2>3. CASE d # p BY <1>1, <2>1, <2>3 DEF LockInv, DrawHolds
  <2> QED BY <2>2, <2>3
<1> QED BY <1>2, <1>4, <1>5 DEF LockInv

LEMMA IdleTransaction == Idle \in Transaction /\ Claims(Idle) = {}
BY DEF Idle, Transaction, Statements, Claims, Applying, Reranking

LEMMA RollbackKeepsLocks == ASSUME LockInv, NEW p \in Procs, Rollback(p) PROVE LockInv'
<1>1. UNCHANGED <<open, ranked, pending, resolved>> /\ txn' = [txn EXCEPT ![p] = Idle] /\ Release(p)
  BY DEF Rollback, rows
<1>2. RowTypes' /\ NoEntryLeftBehind' BY <1>1 DEF LockInv, RowTypes, NoEntryLeftBehind
<1>3. txn'[p] = Idle /\ \A q \in Procs \ {p} : txn'[q] = txn[q] BY <1>1 DEF LockInv, ProcTypes
<1>4. ProcTypes' BY <1>1, IdleTransaction DEF LockInv, ProcTypes, Release
<1> QED BY <1>1, <1>2, <1>3, <1>4, ProcessEnds

\* A statement runs when its locks are held.
LEMMA ReadyHolds ==
  ASSUME NEW p \in Procs, NEW s, Ready(p, s)
  PROVE  txn[p].at = s /\ Wanted(p) \subseteq held[p]
BY DEF Ready, Missing, Rows!Missing

LEMMA WantedLocks ==
  ASSUME NEW p \in Procs
  PROVE  /\ txn[p].at = "apply" => Wanted(p) = {Lock("campaign", txn[p].now, FALSE)}
         /\ txn[p].at = "check" => Wanted(p) = {Lock("campaign", c, FALSE) : c \in txn[p].old \cup txn[p].new}
         /\ txn[p].at = "draw" => Wanted(p) = {Lock("tier", t, TRUE) : t \in AllTiers}
         /\ txn[p].at = "draw_campaigns" => Wanted(p) = {Lock("campaign", c, TRUE) : c \in open}
BY DEF Wanted, DrawSelects

LEMMA RequestGoes ==
  ASSUME LockInv, NEW p \in Requests, NEW s \in Statements, Goto(p, s),
         ClaimsHeld(p, [txn[p] EXCEPT !.at = s])
  PROVE  LockInv'
<1>1. [txn[p] EXCEPT !.at = s] \in Transaction BY DEF LockInv, ProcTypes, Transaction, Procs
<1> QED BY <1>1, RequestContinues DEF Goto

LEMMA ApplicationKeepsLocks ==
  ASSUME LockInv, NEW p \in Requests,
         \/ \E C \in SUBSET Campaigns : Apply(p, C)
         \/ ReadCampaign(p) \/ ReadTicket(p) \/ ReadRank(p) \/ InsertEntry(p) \/ EntryStaged(p)
  PROVE  LockInv'
<1>1. p \in Procs /\ txn[p] \in Transaction /\ ClaimsHeld(p, txn[p]) BY DEF LockInv, ProcTypes, Procs
<1>2. ASSUME NEW s \in Statements \ Reranking, Goto(p, s), s \in Applying => txn[p].at \in Applying
      PROVE  LockInv'
  <2>1. Claims([txn[p] EXCEPT !.at = s]) \subseteq Claims(txn[p]) BY <1>1, <1>2 DEF Claims, Transaction
  <2> QED BY <1>1, <1>2, <2>1, RequestGoes DEF ClaimsHeld
<1>3. ASSUME NEW C \in SUBSET Campaigns, Apply(p, C) PROVE LockInv'
  <2>1. PICK c \in C : Continue(p, [Idle EXCEPT !.at = "apply", !.now = c, !.todo = C \ {c}]) BY <1>3 DEF Apply
  <2> DEFINE x == [Idle EXCEPT !.at = "apply", !.now = c, !.todo = C \ {c}]
  <2>2. x \in Transaction BY IdleTransaction DEF Transaction, Statements, Campaigns
  <2>3. ClaimsHeld(p, x) BY DEF ClaimsHeld, Claims, Idle, Applying, Reranking
  <2> QED BY <2>1, <2>2, <2>3, RequestContinues
<1>4. CASE ReadCampaign(p)
  <2>1. txn[p].at = "apply" /\ Lock("campaign", txn[p].now, FALSE) \in held[p]
    BY <1>1, <1>4, ReadyHolds, WantedLocks DEF ReadCampaign
  <2>2. CASE Goto(p, "no_ticket") /\ txn[p].now \in open
    <3>1. Claims([txn[p] EXCEPT !.at = "no_ticket"]) \subseteq Claims(txn[p]) \cup {txn[p].now}
      BY <1>1 DEF Claims, Transaction, Reranking
    <3>2. ClaimsHeld(p, [txn[p] EXCEPT !.at = "no_ticket"]) BY <1>1, <2>1, <2>2, <3>1 DEF ClaimsHeld
    <3> QED BY <2>2, <3>2, RequestGoes DEF Statements
  <2> QED BY <1>1, <1>4, <2>2, RollbackKeepsLocks DEF ReadCampaign
<1>5. CASE ReadTicket(p) \/ ReadRank(p) \/ InsertEntry(p)
  BY <1>1, <1>2, <1>5, RollbackKeepsLocks
     DEF ReadTicket, ReadRank, InsertEntry, Ready, Applying, Reranking, Statements
<1>6. CASE EntryStaged(p)
  <2> DEFINE y == [txn[p] EXCEPT !.staged = @ \cup {txn[p].now}]
  <2>1. txn[p].at = "entry_fk" BY <1>6 DEF EntryStaged, Ready
  <2>2. txn[p].now \in Claims(txn[p]) BY <2>1 DEF Claims, Applying
  <2>3. txn[p].now \in Tiers BY <1>1, <2>2 DEF ClaimsHeld, LockInv, RowTypes
  <2>4. y \in Transaction BY <1>1, <2>3 DEF Transaction
  <2>5. CASE Continue(p, [y EXCEPT !.at = "entry_commit"])
    <3>1. [y EXCEPT !.at = "entry_commit"] \in Transaction BY <2>4 DEF Transaction, Statements
    <3>2. Claims([y EXCEPT !.at = "entry_commit"]) \subseteq Claims(txn[p])
      BY <1>1, <2>1 DEF Claims, Applying, Reranking, Transaction
    <3> QED BY <1>1, <2>5, <3>1, <3>2, RequestContinues DEF ClaimsHeld
  <2>6. ASSUME NEW c \in y.todo, Continue(p, [y EXCEPT !.at = "apply", !.now = c, !.todo = @ \ {c}])
        PROVE  LockInv'
    <3> DEFINE z == [y EXCEPT !.at = "apply", !.now = c, !.todo = @ \ {c}]
    <3>1. z \in Transaction BY <2>4, <2>6 DEF Transaction, Statements
    <3>2. Claims(z) \subseteq Claims(txn[p]) BY <1>1, <2>1 DEF Claims, Applying, Reranking, Transaction
    <3> QED BY <1>1, <2>6, <3>1, <3>2, RequestContinues DEF ClaimsHeld
  <2> QED BY <1>6, <2>5, <2>6 DEF EntryStaged
<1> QED BY <1>3, <1>4, <1>5, <1>6

LEMMA RankingKeepsLocks ==
  ASSUME LockInv, NEW p \in Requests,
         \/ \E T \in SUBSET Tiers : Rank(p, T)
         \/ CheckCampaigns(p) \/ CheckEntered(p) \/ StartDelete(p) \/ DeleteRanking(p) \/ InsertRanking(p)
  PROVE  LockInv'
<1> USE TransactionsAssumption
<1>1. p \in Procs /\ txn[p] \in Transaction /\ ClaimsHeld(p, txn[p]) BY DEF LockInv, ProcTypes, Procs
<1>2. ranked[FanOf[p]] \subseteq Tiers BY DEF LockInv, RowTypes
<1>3. ASSUME NEW T \in SUBSET Tiers, Rank(p, T) PROVE LockInv'
  <2> DEFINE x == [Idle EXCEPT !.at = "check", !.new = T, !.old = ranked[FanOf[p]]]
  <2>1. x \in Transaction BY <1>2, IdleTransaction DEF Transaction, Statements
  <2>2. ClaimsHeld(p, x) BY DEF ClaimsHeld, Claims, Idle, Applying, Reranking
  <2> QED BY <1>3, <2>1, <2>2, RequestContinues DEF Rank
<1>4. CASE CheckCampaigns(p)
  <2>1. txn[p].at = "check" /\ \A c \in txn[p].old \cup txn[p].new : Lock("campaign", c, FALSE) \in held[p]
    <3>1. txn[p].at = "check" /\ Wanted(p) \subseteq held[p] BY <1>1, <1>4, ReadyHolds DEF CheckCampaigns
    <3>2. Wanted(p) = {Lock("campaign", c, FALSE) : c \in txn[p].old \cup txn[p].new} BY <1>1, <3>1, WantedLocks
    <3> QED BY <3>1, <3>2
  <2>2. CASE Goto(p, "entered") /\ \A c \in txn[p].old \cup txn[p].new : c \in open
    <3>1. Claims([txn[p] EXCEPT !.at = "entered"]) \subseteq Claims(txn[p]) \cup txn[p].old \cup txn[p].new
      BY <1>1 DEF Claims, Transaction, Applying
    <3>2. ClaimsHeld(p, [txn[p] EXCEPT !.at = "entered"]) BY <1>1, <2>1, <2>2, <3>1 DEF ClaimsHeld
    <3> QED BY <2>2, <3>2, RequestGoes DEF Statements
  <2> QED BY <1>1, <1>4, <2>2, RollbackKeepsLocks DEF CheckCampaigns
<1>5. ASSUME NEW s \in Reranking, Goto(p, s), txn[p].at \in Reranking PROVE LockInv'
  <2>1. Claims([txn[p] EXCEPT !.at = s]) \subseteq Claims(txn[p])
    BY <1>1, <1>5 DEF Claims, Transaction, Reranking, Applying
  <2>2. ClaimsHeld(p, [txn[p] EXCEPT !.at = s]) BY <1>1, <2>1 DEF ClaimsHeld
  <2> QED BY <1>5, <2>2, RequestGoes DEF Reranking, Statements
<1>6. CASE CheckEntered(p) \/ DeleteRanking(p) \/ InsertRanking(p)
  BY <1>1, <1>5, <1>6, RollbackKeepsLocks DEF CheckEntered, DeleteRanking, InsertRanking, Ready, Reranking
<1>7. CASE StartDelete(p)
  <2> DEFINE x == [txn[p] EXCEPT !.at = "delete", !.rows = ranked[FanOf[p]]]
  <2>1. x \in Transaction BY <1>1, <1>2 DEF Transaction, Statements
  <2>2. txn[p].at = "snapshot" BY <1>7 DEF StartDelete, Ready
  <2>3. Claims(x) \subseteq Claims(txn[p]) BY <1>1, <2>2 DEF Claims, Transaction, Reranking, Applying
  <2> QED BY <1>1, <1>7, <2>1, <2>3, RequestContinues DEF StartDelete, ClaimsHeld
<1> QED BY <1>3, <1>4, <1>6, <1>7

LEMMA PurchaseKeepsLocks ==
  ASSUME LockInv, NEW p \in Requests,
         Buy(p) \/ BuyerLocked(p) \/ BuyerHasNoTicket(p) \/ BuyerHasNoEntry(p) \/ CommitTicket(p)
  PROVE  LockInv'
<1>1. p \in Procs /\ txn[p] \in Transaction /\ ClaimsHeld(p, txn[p]) BY DEF LockInv, ProcTypes, Procs
<1>2. CASE Buy(p)
  <2> DEFINE x == [Idle EXCEPT !.at = "buy"]
  <2>1. x \in Transaction BY IdleTransaction DEF Transaction, Statements
  <2>2. ClaimsHeld(p, x) BY DEF ClaimsHeld, Claims, Idle, Applying, Reranking
  <2> QED BY <1>2, <2>1, <2>2, RequestContinues DEF Buy
<1>3. ASSUME NEW s \in {"buy_tier", "unresolved", "ticket"}, Goto(p, s) PROVE LockInv'
  <2>1. Claims([txn[p] EXCEPT !.at = s]) \subseteq Claims(txn[p])
    BY <1>1, <1>3 DEF Claims, Transaction, Reranking, Applying
  <2>2. ClaimsHeld(p, [txn[p] EXCEPT !.at = s]) BY <1>1, <2>1 DEF ClaimsHeld
  <2> QED BY <1>3, <2>2, RequestGoes DEF Statements
<1>4. CASE CommitTicket(p) /\ ~Rollback(p)
  <2>1. UNCHANGED <<open, ranked, pending, resolved>> /\ txn' = [txn EXCEPT ![p] = Idle] /\ Release(p)
    BY <1>4 DEF CommitTicket
  <2>2. RowTypes' /\ NoEntryLeftBehind' BY <2>1 DEF LockInv, RowTypes, NoEntryLeftBehind
  <2>3. txn'[p] = Idle /\ \A q \in Procs \ {p} : txn'[q] = txn[q] BY <1>1, <2>1 DEF LockInv, ProcTypes
  <2>4. ProcTypes' BY <2>1, IdleTransaction DEF LockInv, ProcTypes, Release
  <2> QED BY <1>1, <2>1, <2>2, <2>3, <2>4, ProcessEnds
<1> QED BY <1>1, <1>2, <1>3, <1>4, RollbackKeepsLocks DEF BuyerLocked, BuyerHasNoTicket, BuyerHasNoEntry

LEMMA CommitsKeepLocks ==
  ASSUME LockInv, NEW p \in Requests, CommitEntries(p) \/ CommitRanking(p)
  PROVE  LockInv'
<1> USE TransactionsAssumption
<1>1. p \in Procs /\ txn[p] \in Transaction /\ ClaimsHeld(p, txn[p]) BY DEF LockInv, ProcTypes, Procs
<1>2. CASE CommitEntries(p)
  <2>1. /\ txn' = [txn EXCEPT ![p] = Idle] /\ Release(p) /\ UNCHANGED <<open, ranked, resolved>>
        /\ pending' = [e \in Fans \X Tiers |->
                         IF e[1] = FanOf[p] /\ e[2] \in txn[p].staged THEN pending[e] + 1 ELSE pending[e]]
    BY <1>2 DEF CommitEntries, Campaigns
  <2>2. RowTypes' BY <2>1 DEF LockInv, RowTypes
  <2>3. txn[p].staged \subseteq open BY <1>1 DEF ClaimsHeld, Claims
  <2>4. \A u \in Fans, c \in Tiers : pending'[<<u, c>>] =
          IF u = FanOf[p] /\ c \in txn[p].staged THEN pending[<<u, c>>] + 1 ELSE pending[<<u, c>>]
    BY <2>1
  <2>5. NoEntryLeftBehind' BY <2>1, <2>3, <2>4 DEF LockInv, NoEntryLeftBehind, Campaigns
  <2>6. txn'[p] = Idle /\ \A q \in Procs \ {p} : txn'[q] = txn[q] BY <1>1, <2>1 DEF LockInv, ProcTypes
  <2>7. ProcTypes' BY <2>1, IdleTransaction DEF LockInv, ProcTypes, Release
  <2> QED BY <1>1, <2>1, <2>2, <2>5, <2>6, <2>7, ProcessEnds
<1>3. CASE CommitRanking(p)
  <2> DEFINE after(q) == [txn[q] EXCEPT !.rows = @ \ txn[p].rows]
             u == FanOf[p]
  <2>1. /\ Release(p) /\ UNCHANGED <<open, pending, resolved>>
        /\ ranked' = [ranked EXCEPT ![u] = (@ \ txn[p].rows) \cup txn[p].new]
        /\ txn' = [q \in Procs |->
                     IF q = p THEN Idle
                     ELSE IF q \in Requests /\ txn[q].at = "delete" /\ FanOf[q] = u THEN after(q) ELSE txn[q]]
    BY <1>3 DEF CommitRanking
  <2>2. RowTypes' BY <1>1, <2>1 DEF LockInv, RowTypes, Transaction
  <2>3. NoEntryLeftBehind' BY <2>1 DEF LockInv, NoEntryLeftBehind
  <2>4. ASSUME NEW q \in Procs
        PROVE  after(q) \in Transaction /\ after(q).at = txn[q].at /\ Claims(after(q)) = Claims(txn[q])
    BY DEF LockInv, ProcTypes, Transaction, Claims
  <2>5. \A q \in Procs : txn'[q] = IF q = p THEN Idle
                                   ELSE IF q \in Requests /\ txn[q].at = "delete" /\ FanOf[q] = u THEN after(q)
                                   ELSE txn[q]
    BY <2>1
  <2> HIDE DEF after
  <2>6. txn'[p] = Idle /\ \A q \in Procs \ {p} : Claims(txn'[q]) = Claims(txn[q]) /\ txn'[q].at = txn[q].at
    BY <1>1, <2>4, <2>5
  <2>7. \A q \in Procs : txn'[q] \in Transaction BY <2>4, <2>5, IdleTransaction DEF LockInv, ProcTypes
  <2>8. ProcTypes'
    <3>1. txn' \in [Procs -> Transaction] BY <2>1, <2>7
    <3>2. held' = [q \in Procs |-> held'[q]] BY <2>1 DEF LockInv, ProcTypes, Release
    <3> QED BY <3>1, <3>2 DEF ProcTypes
  <2> QED BY <1>1, <2>1, <2>2, <2>3, <2>6, <2>8, ProcessEnds
<1> QED BY <1>2, <1>3

\* A draw past its selects is the only one, and beside it no request counts
\* on a campaign.
LEMMA DrawIsAlone ==
  ASSUME LockInv, NEW d \in Draws, txn[d].at \in Selecting
  PROVE  /\ \A q \in Draws : txn[q].at \in Selecting => q = d
         /\ txn[d].at \in Drawing => \A p \in Requests : Claims(txn[p]) = {}
<1>1. Requests \subseteq Procs /\ Draws \subseteq Procs /\ \A p \in Requests : p # d
  BY TransactionsAssumption DEF Procs
<1>2. ASSUME NEW q \in Draws, txn[q].at \in Selecting PROVE q = d
  <2>1. DirectTier \in AllTiers BY DEF AllTiers
  <2>2. Lock("tier", DirectTier, TRUE) \in held[q] /\ Lock("tier", DirectTier, TRUE) \in held[d]
    BY <1>2, <2>1 DEF LockInv, DrawHolds
  <2> QED BY <1>1, <2>2, ExclusiveLock DEF LockInv
<1>3. ASSUME NEW p \in Requests, NEW c \in Claims(txn[p]), txn[d].at \in Drawing PROVE FALSE
  <2>1. c \in open /\ Lock("campaign", c, FALSE) \in held[p] BY <1>3 DEF LockInv, ClaimsHeld
  <2>2. Lock("campaign", c, TRUE) \in held[d] BY <1>3, <2>1 DEF LockInv, DrawHolds
  <2> QED BY <1>1, <2>1, <2>2, ExclusiveLock DEF LockInv
<1> QED BY <1>2, <1>3

LEMMA DrawContinues ==
  ASSUME LockInv, NEW d \in Draws, NEW x \in Transaction, Continue(d, x), DrawHolds(d)'
  PROVE  LockInv'
<1>1. UNCHANGED <<open, ranked, pending, resolved, held>> /\ txn' = [txn EXCEPT ![d] = x]
  BY DEF Continue, rows
<1>2. d \in Procs /\ \A q \in Requests : q # d /\ q \in Procs BY TransactionsAssumption DEF Procs
<1>3. RowTypes' BY <1>1 DEF LockInv, RowTypes
<1>4. ProcTypes' BY <1>1, <1>2 DEF LockInv, ProcTypes
<1>5. LocksExclude' BY <1>1 DEF LockInv, LocksExclude
<1>6. \A q \in Requests : ClaimsHeld(q, txn[q])'
  <2> SUFFICES ASSUME NEW q \in Requests PROVE ClaimsHeld(q, txn[q])' OBVIOUS
  <2>1. txn'[q] = txn[q] BY <1>1, <1>2 DEF LockInv, ProcTypes
  <2> QED BY <1>1, <2>1 DEF LockInv, ClaimsHeld
<1>7. \A q \in Draws : DrawHolds(q)'
  <2> SUFFICES ASSUME NEW q \in Draws, q # d PROVE DrawHolds(q)' OBVIOUS
  <2>1. txn'[q] = txn[q] BY <1>1 DEF LockInv, ProcTypes, Procs
  <2> QED BY <1>1, <2>1 DEF LockInv, DrawHolds
<1>8. NoEntryLeftBehind' BY <1>1 DEF LockInv, NoEntryLeftBehind
<1> QED BY <1>3, <1>4, <1>5, <1>6, <1>7, <1>8 DEF LockInv

LEMMA DrawKeepsLocks == ASSUME LockInv, NEW d \in Draws, DrawNext(d) PROVE LockInv'
<1>1. d \in Procs /\ txn[d] \in Transaction /\ DrawHolds(d) BY DEF LockInv, ProcTypes, Procs
<1>2. ASSUME NEW x, Continue(d, x) PROVE txn'[d] = x /\ UNCHANGED <<open, held>>
  BY <1>1, <1>2 DEF Continue, rows, LockInv, ProcTypes
<1>3. CASE Draw(d)
  <2> DEFINE x == [Idle EXCEPT !.at = "draw"]
  <2>1. x \in Transaction /\ x.at = "draw" BY IdleTransaction DEF Transaction, Statements
  <2>2. Continue(d, x) BY <1>3 DEF Draw
  <2> HIDE DEF x
  <2>3. DrawHolds(d)' BY <1>2, <2>1, <2>2 DEF DrawHolds, Selecting, Drawing
  <2> QED BY <2>1, <2>2, <2>3, DrawContinues
<1>4. CASE TiersLocked(d)
  <2> DEFINE x == [txn[d] EXCEPT !.at = "draw_campaigns"]
  <2>1. txn[d].at = "draw" /\ Wanted(d) \subseteq held[d] BY <1>1, <1>4, ReadyHolds DEF TiersLocked
  <2>2. Wanted(d) = {Lock("tier", t, TRUE) : t \in AllTiers} BY <1>1, <2>1, WantedLocks
  <2>3. x \in Transaction /\ x.at = "draw_campaigns" BY <1>1 DEF Transaction, Statements
  <2>4. Continue(d, x) BY <1>4 DEF TiersLocked, Goto
  <2> HIDE DEF x
  <2>5. DrawHolds(d)' BY <1>2, <2>1, <2>2, <2>3, <2>4 DEF DrawHolds, Drawing
  <2> QED BY <2>3, <2>4, <2>5, DrawContinues
<1>5. CASE CampaignsLocked(d) /\ ~Rollback(d)
  <2> DEFINE x == [txn[d] EXCEPT !.at = "read_rankings"]
  <2>1. txn[d].at = "draw_campaigns" /\ Wanted(d) \subseteq held[d] BY <1>1, <1>5, ReadyHolds DEF CampaignsLocked
  <2>2. Wanted(d) = {Lock("campaign", c, TRUE) : c \in open} BY <1>1, <2>1, WantedLocks
  <2>3. x \in Transaction /\ x.at = "read_rankings" BY <1>1 DEF Transaction, Statements
  <2>4. Continue(d, x) /\ open # {} BY <1>5 DEF CampaignsLocked, Goto
  <2> HIDE DEF x
  <2>5. DrawHolds(d)' BY <1>1, <1>2, <2>1, <2>2, <2>3, <2>4 DEF DrawHolds, Selecting
  <2> QED BY <2>3, <2>4, <2>5, DrawContinues
<1>6. ASSUME NEW x \in Transaction, Continue(d, x), x.at \in Drawing, txn[d].at \in Drawing PROVE LockInv'
  <2>1. DrawHolds(d)' BY <1>1, <1>2, <1>6 DEF DrawHolds, Drawing
  <2> QED BY <1>6, <2>1, DrawContinues
<1>7. CASE ReadRankings(d)
  <2> DEFINE x == [txn[d] EXCEPT !.at = "read_entries", !.seen = ranked]
  <2>1. x \in Transaction BY <1>1 DEF Transaction, Statements, LockInv, RowTypes
  <2> QED BY <1>1, <1>6, <1>7, <2>1 DEF ReadRankings, Ready, Drawing, Selecting, Transaction
<1>8. CASE ReadEntries(d) /\ ~Rollback(d)
  <2> DEFINE E == {u \in Fans : \E c \in open : pending[<<u, c>>] > 0}
             x == [txn[d] EXCEPT !.at = "award", !.entrants = E]
  <2>1. x \in Transaction BY <1>1 DEF Transaction, Statements
  <2>2. Continue(d, x) BY <1>8 DEF ReadEntries
  <2> QED BY <1>1, <1>6, <1>8, <2>1, <2>2 DEF ReadEntries, Ready, Drawing, Selecting, Transaction
<1>9. CASE CommitDraw(d) /\ ~Rollback(d)
  <2>1. /\ open' = {} /\ Release(d) /\ UNCHANGED ranked /\ txn' = [txn EXCEPT ![d] = Idle]
        /\ resolved' = [e \in Fans \X Tiers |-> IF e[2] \in open THEN EntriesOf(e[1], e[2]) ELSE resolved[e]]
        /\ pending' = [e \in Fans \X Tiers |-> IF e[2] \in open THEN 0 ELSE pending[e]]
    BY <1>9 DEF CommitDraw, Campaigns
  <2>2. txn[d].at \in Drawing /\ txn[d].at \in Selecting BY <1>9 DEF CommitDraw, Ready, Drawing, Selecting
  <2>3. RowTypes'
    <3>1. \A u \in Fans, c \in Tiers : EntriesOf(u, c) \in Nat BY DEF EntriesOf, LockInv, RowTypes
    <3> QED BY <2>1, <3>1 DEF LockInv, RowTypes
  <2>4. txn'[d] = Idle /\ \A q \in Procs \ {d} : txn'[q] = txn[q] BY <1>1, <2>1 DEF LockInv, ProcTypes
  <2>5. \A q \in Procs : held'[q] = IF q = d THEN {} ELSE held[q] BY <2>1 DEF LockInv, ProcTypes, Release
  <2>6. ProcTypes' BY <2>1, IdleTransaction DEF LockInv, ProcTypes, Release
  <2>7. LocksExclude' BY <2>5 DEF LockInv, LocksExclude
  <2>8. \A p \in Requests : ClaimsHeld(p, txn[p])'
    <3>1. \A p \in Requests : p # d /\ p \in Procs BY TransactionsAssumption DEF Procs
    <3> QED BY <2>2, <2>4, <3>1, DrawIsAlone DEF ClaimsHeld
  <2>9. \A q \in Draws : DrawHolds(q)'
    <3>1. Idle.at = "idle" BY DEF Idle
    <3>2. \A q \in Draws : txn'[q].at \notin Selecting
      BY <2>2, <2>4, <3>1, DrawIsAlone DEF Selecting, Procs
    <3> QED BY <3>2 DEF DrawHolds, Drawing
  <2>10. NoEntryLeftBehind' BY <2>1 DEF LockInv, NoEntryLeftBehind, Campaigns
  <2> QED BY <2>3, <2>6, <2>7, <2>8, <2>9, <2>10 DEF LockInv
<1> QED BY <1>1, <1>3, <1>4, <1>5, <1>7, <1>8, <1>9, RollbackKeepsLocks DEF DrawNext

LEMMA NextLocks == LockInv /\ [Next]_vars => LockInv'
<1> SUFFICES ASSUME LockInv, Step \/ UNCHANGED vars PROVE LockInv' BY DEF Next
<1>1. ASSUME NEW p \in Procs, TakeLock(p) PROVE LockInv'
  <2>1. PICK l \in Missing(p) : Rows!Holders(p, l) = {} /\ held' = [held EXCEPT ![p] = @ \cup {l}]
    BY <1>1 DEF TakeLock
  <2>2. UNCHANGED <<open, ranked, pending, resolved, txn>> BY <1>1 DEF TakeLock, rows
  <2>3. \A q \in Procs : held'[q] = IF q = p THEN held[p] \cup {l} ELSE held[q]
    BY <2>1 DEF LockInv, ProcTypes
  <2>4. \A q \in Procs \ {p} : \A m \in held[q] : ~Excludes(m, l) /\ ~Excludes(l, m)
    BY <2>1 DEF Rows!Holders, Excludes
  <2>5. LocksExclude' BY <2>3, <2>4 DEF LockInv, LocksExclude
  <2>6. RowTypes' /\ ProcTypes' BY <2>1, <2>2 DEF LockInv, RowTypes, ProcTypes
  <2>7. \A q \in Requests : ClaimsHeld(q, txn[q])' BY <2>2, <2>3 DEF LockInv, ClaimsHeld, Procs
  <2>8. \A d \in Draws : DrawHolds(d)' BY <2>2, <2>3 DEF LockInv, DrawHolds, Procs
  <2>9. NoEntryLeftBehind' BY <2>2 DEF LockInv, NoEntryLeftBehind
  <2> QED BY <2>5, <2>6, <2>7, <2>8, <2>9 DEF LockInv
<1>2. ASSUME NEW p \in Procs, DeadlockAbort(p) PROVE LockInv' BY <1>2, RollbackKeepsLocks DEF DeadlockAbort
<1>3. CASE (\E c \in Campaigns : WindowMoves(c)) \/ UNCHANGED vars
  <2>1. UNCHANGED <<open, ranked, pending, resolved, txn, held>> BY <1>3 DEF WindowMoves, vars
  <2> QED BY <2>1 DEF LockInv, RowTypes, ProcTypes, LocksExclude, ClaimsHeld, DrawHolds, NoEntryLeftBehind
<1>4. ASSUME NEW p \in Requests, RequestNext(p) PROVE LockInv'
  BY <1>4, ApplicationKeepsLocks, RankingKeepsLocks, PurchaseKeepsLocks, CommitsKeepLocks DEF RequestNext
<1> QED BY <1>1, <1>2, <1>3, <1>4, DrawKeepsLocks DEF Step

\* Whatever is in flight when a draw commits, no pending entry is left in a
\* drawn campaign: applications hold FOR SHARE what the draw needs FOR UPDATE.
THEOREM NoneLeftBehind == Spec => []NoEntryLeftBehind
<1>1. Spec => []LockInv BY InitLocks, NextLocks, PTL DEF Spec
<1> QED BY <1>1, PTL DEF LockInv

-----------------------------------------------------------------------------
(***************************************************************************)
(* What a transaction knows of the rows                                    *)
(***************************************************************************)
\* The history of a fan tells which requests of theirs are in flight together.
HistoryInv ==
  /\ MeetsApplication(Application) \subseteq appliedTwice
  /\ MeetsApplication(Ranking) \subseteq rankedMeanwhile
  /\ MeetsApplication(Purchase) \subseteq boughtMeanwhile

\* What the steps below are given of their next state
Proceeds ==
  /\ LockInv' /\ HistoryInv'
  /\ appliedTwice \subseteq appliedTwice'
  /\ rankedMeanwhile \subseteq rankedMeanwhile'
  /\ boughtMeanwhile \subseteq boughtMeanwhile'

\* the entries an application is about to commit
Entering(x) == x.staged \cup (IF x.at \in {"entry_fk", "entry_commit"} THEN {x.now} ELSE {})

\* What the request x of a fan u may count on.  An application that met no
\* purchase has read that the fan has no ticket, and a purchase that no entry
\* is pending; an application that met no other has read that the fan has no
\* entry in its campaigns; one that met no ranking that the fan ranks them, and
\* a ranking replaces and keeps every tier with a pending entry.
SeesNoTicket(u, x) ==
  /\ (x.at \in Applying \ {"no_ticket"} \/ x.staged # {}) => u \notin holders
  /\ x.at = "ticket" => \A c \in Campaigns : ~(pending[<<u, c>>] > 0)

SeesNoEntry(u, x) == \A c \in Entering(x) : EntriesOf(u, c) = 0

SeesRanks(u, x) ==
  /\ \A c \in Entering(x) : c \in ranked[u]
  /\ x.at \in Ranking => \A c \in Campaigns : pending[<<u, c>>] > 0 => c \in x.old
  /\ x.at \in Reranking \ {"entered"} => \A c \in Campaigns : pending[<<u, c>>] > 0 => c \in x.new

Sees(u, x) ==
  /\ x.staged # {} => x.at \in Application
  /\ u \notin boughtMeanwhile => SeesNoTicket(u, x)
  /\ u \notin appliedTwice => SeesNoEntry(u, x)
  /\ u \notin rankedMeanwhile => SeesRanks(u, x)

\* What a draw has read of its entrants is still so.
DrawKnows(d) ==
  /\ txn[d].at \in {"read_entries", "award"} =>
       \A u \in Fans \ rankedMeanwhile, c \in open : pending[<<u, c>>] > 0 => txn[d].seen[u] = ranked[u]
  /\ txn[d].at = "award" =>
       txn[d].entrants = {u \in Fans : \E c \in open : pending[<<u, c>>] > 0}

FanInv ==
  /\ LockInv
  /\ HistoryInv
  /\ EntriesKeepRanks
  /\ EntriesStaySingle
  /\ PathsStayApart
  /\ \A p \in Requests : Sees(FanOf[p], txn[p])
  /\ \A d \in Draws : DrawKnows(d)

LEMMA InitFans == Init => FanInv
<1> SUFFICES ASSUME Init PROVE FanInv OBVIOUS
<1>1. LockInv BY InitLocks
<1>2. EntriesKeepRanks /\ EntriesStaySingle /\ PathsStayApart
  BY DEF Init, EntriesKeepRanks, EntriesStaySingle, PathsStayApart, EntriesOf, Campaigns
<1>3. Idle.at = "idle" /\ Idle.staged = {} BY DEF Idle
<1>4. \A p \in Procs : txn[p] = Idle BY DEF Init
<1>5. \A p \in Requests : Sees(FanOf[p], txn[p])
  BY <1>3, <1>4 DEF Sees, SeesNoTicket, SeesNoEntry, SeesRanks, Entering, Applying, Reranking, Ranking, Procs
<1>6. \A d \in Draws : DrawKnows(d) BY <1>3, <1>4 DEF DrawKnows, Procs
<1>7. HistoryInv BY <1>3, <1>4 DEF HistoryInv, MeetsApplication, Application, Procs
<1> QED BY <1>1, <1>2, <1>5, <1>6, <1>7 DEF FanInv

\* The history grows with what is in flight.
LEMMA HistoryGrows == ASSUME HistoryInv, LockInv', [Next]_vars PROVE Proceeds
<1>1. CASE Next BY <1>1 DEF Next, Remember, Proceeds, HistoryInv
<1>2. CASE UNCHANGED vars BY <1>2 DEF vars, meetings, Proceeds, HistoryInv, MeetsApplication
<1> QED BY <1>1, <1>2

\* An application in flight beside another request of its fan is remembered.
LEMMA Met ==
  ASSUME HistoryInv, NEW p \in Requests, NEW q \in Requests, p # q, FanOf[p] = FanOf[q], txn[p].at \in Application
  PROVE  /\ txn[q].at \in Application => FanOf[p] \in appliedTwice
         /\ txn[q].at \in Ranking => FanOf[p] \in rankedMeanwhile
         /\ txn[q].at \in Purchase => FanOf[p] \in boughtMeanwhile
<1>1. FanOf[p] \in Fans BY TransactionsAssumption
<1> QED BY <1>1 DEF HistoryInv, MeetsApplication

LEMMA IdleSees == ASSUME NEW u PROVE Sees(u, Idle)
BY DEF Sees, SeesNoTicket, SeesNoEntry, SeesRanks, Entering, Application, Ranking, Idle, Applying, Reranking

\* While no row changes, a transaction goes on that knows what it counts on.
LEMMA RowsStay ==
  ASSUME FanInv, Proceeds, NEW p \in Procs, UNCHANGED <<open, ranked, pending, resolved, holders>>,
         \A q \in Procs \ {p} : txn'[q] = txn[q],
         p \in Requests => Sees(FanOf[p], txn'[p]),
         p \in Draws => DrawKnows(p)'
  PROVE  FanInv'
<1>1. EntriesKeepRanks' /\ EntriesStaySingle' /\ PathsStayApart'
  BY DEF FanInv, Proceeds, EntriesKeepRanks, EntriesStaySingle, PathsStayApart, EntriesOf
<1>2. ASSUME NEW q \in Requests PROVE Sees(FanOf[q], txn[q])'
  <2>1. Sees(FanOf[q], txn'[q]) BY DEF FanInv, Procs
  <2> QED BY <2>1 DEF Sees, SeesNoTicket, SeesNoEntry, SeesRanks, Entering, Application, Ranking, EntriesOf, Proceeds
<1>3. ASSUME NEW d \in Draws PROVE DrawKnows(d)'
  <2>1. CASE d # p
    <3>1. txn'[d] = txn[d] BY <2>1 DEF Procs
    <3>2. {u \in Fans : \E c \in open' : pending'[<<u, c>>] > 0} = {u \in Fans : \E c \in open : pending[<<u, c>>] > 0}
      OBVIOUS
    <3>3. DrawKnows(d) BY DEF FanInv
    <3>4. Fans \ rankedMeanwhile' \subseteq Fans \ rankedMeanwhile BY DEF Proceeds
    <3> QED BY <3>1, <3>2, <3>3, <3>4 DEF DrawKnows
  <2> QED BY <2>1
<1> QED BY <1>1, <1>2, <1>3 DEF FanInv, Proceeds

LEMMA RequestKnows ==
  ASSUME FanInv, Proceeds, NEW p \in Requests, NEW x, Continue(p, x), Sees(FanOf[p], x)
  PROVE  FanInv'
<1>1. UNCHANGED <<open, ranked, pending, resolved, holders>> /\ txn' = [txn EXCEPT ![p] = x]
  BY DEF Continue, rows
<1>2. p \in Procs /\ p \notin Draws BY TransactionsAssumption DEF Procs
<1>3. txn'[p] = x /\ \A q \in Procs \ {p} : txn'[q] = txn[q] BY <1>1, <1>2 DEF FanInv, LockInv, ProcTypes
<1> QED BY <1>1, <1>2, <1>3, RowsStay

LEMMA RollbackKnows == ASSUME FanInv, Proceeds, NEW p \in Procs, Rollback(p) PROVE FanInv'
<1>1. UNCHANGED <<open, ranked, pending, resolved, holders>> /\ txn' = [txn EXCEPT ![p] = Idle]
  BY DEF Rollback, rows
<1>2. txn'[p] = Idle /\ \A q \in Procs \ {p} : txn'[q] = txn[q] BY <1>1 DEF FanInv, LockInv, ProcTypes
<1>3. DrawKnows(p)' BY <1>2 DEF DrawKnows, Idle
<1> QED BY <1>1, <1>2, <1>3, IdleSees, RowsStay

LEMMA ApplicationKnows ==
  ASSUME FanInv, Proceeds, NEW p \in Requests,
         \/ \E C \in SUBSET Campaigns : Apply(p, C)
         \/ ReadCampaign(p) \/ ReadTicket(p) \/ ReadRank(p) \/ InsertEntry(p) \/ EntryStaged(p)
  PROVE  FanInv'
<1>1. p \in Procs /\ txn[p] \in Transaction /\ Sees(FanOf[p], txn[p]) BY DEF FanInv, LockInv, ProcTypes, Procs
<1>2. CASE \E C \in SUBSET Campaigns : Apply(p, C)
  <2>1. PICK C \in SUBSET Campaigns : \E c \in C :
          Continue(p, [Idle EXCEPT !.at = "apply", !.now = c, !.todo = C \ {c}]) BY <1>2 DEF Apply
  <2>2. \A c \in C : Sees(FanOf[p], [Idle EXCEPT !.at = "apply", !.now = c, !.todo = C \ {c}])
    BY DEF Sees, SeesNoTicket, SeesNoEntry, SeesRanks, Entering, Application, Ranking, Idle, Applying, Reranking
  <2> QED BY <2>1, <2>2, RequestKnows
<1>3. ASSUME NEW s \in Statements, Goto(p, s), Sees(FanOf[p], [txn[p] EXCEPT !.at = s]) PROVE FanInv'
  BY <1>3, RequestKnows DEF Goto
<1>4. CASE ReadCampaign(p) /\ ~Rollback(p)
  <2>1. txn[p].at = "apply" /\ Goto(p, "no_ticket") BY <1>4 DEF ReadCampaign, Ready
  <2>2. Sees(FanOf[p], [txn[p] EXCEPT !.at = "no_ticket"])
    BY <1>1, <2>1 DEF Sees, SeesNoTicket, SeesNoEntry, SeesRanks, Entering, Application, Ranking, Applying, Reranking, Transaction
  <2> QED BY <1>3, <2>1, <2>2 DEF Statements
<1>5. CASE ReadTicket(p) /\ ~Rollback(p)
  <2>1. txn[p].at = "no_ticket" /\ Goto(p, "has_rank") /\ FanOf[p] \notin holders
    BY <1>5 DEF ReadTicket, Ready
  <2>2. Sees(FanOf[p], [txn[p] EXCEPT !.at = "has_rank"])
    BY <1>1, <2>1 DEF Sees, SeesNoTicket, SeesNoEntry, SeesRanks, Entering, Application, Ranking, Applying, Reranking, Transaction
  <2> QED BY <1>3, <2>1, <2>2 DEF Statements
<1>6. CASE ReadRank(p) /\ ~Rollback(p)
  <2>1. txn[p].at = "has_rank" /\ Goto(p, "entry") BY <1>6 DEF ReadRank, Ready
  <2>2. Sees(FanOf[p], [txn[p] EXCEPT !.at = "entry"])
    BY <1>1, <2>1 DEF Sees, SeesNoTicket, SeesNoEntry, SeesRanks, Entering, Application, Ranking, Applying, Reranking, Transaction
  <2> QED BY <1>3, <2>1, <2>2 DEF Statements
<1>7. CASE InsertEntry(p) /\ ~Rollback(p)
  <2>1. /\ txn[p].at = "entry" /\ Goto(p, "entry_fk")
        /\ EntriesOf(FanOf[p], txn[p].now) = 0 /\ txn[p].now \in ranked[FanOf[p]]
    BY <1>7 DEF InsertEntry, Ready
  <2>2. Sees(FanOf[p], [txn[p] EXCEPT !.at = "entry_fk"])
    BY <1>1, <2>1 DEF Sees, SeesNoTicket, SeesNoEntry, SeesRanks, Entering, Application, Ranking, Applying, Reranking, Transaction
  <2> QED BY <1>3, <2>1, <2>2 DEF Statements
<1>8. CASE EntryStaged(p)
  <2> DEFINE y == [txn[p] EXCEPT !.staged = @ \cup {txn[p].now}]
  <2>1. txn[p].at = "entry_fk" BY <1>8 DEF EntryStaged, Ready
  <2>2. CASE Continue(p, [y EXCEPT !.at = "entry_commit"])
    <3>1. Sees(FanOf[p], [y EXCEPT !.at = "entry_commit"])
      BY <1>1, <2>1 DEF Sees, SeesNoTicket, SeesNoEntry, SeesRanks, Entering, Application, Ranking, Applying, Reranking, Transaction
    <3> QED BY <2>2, <3>1, RequestKnows
  <2>3. ASSUME NEW c \in y.todo, Continue(p, [y EXCEPT !.at = "apply", !.now = c, !.todo = @ \ {c}])
        PROVE  FanInv'
    <3>1. Sees(FanOf[p], [y EXCEPT !.at = "apply", !.now = c, !.todo = @ \ {c}])
      BY <1>1, <2>1 DEF Sees, SeesNoTicket, SeesNoEntry, SeesRanks, Entering, Application, Ranking, Applying, Reranking, Transaction
    <3> QED BY <2>3, <3>1, RequestKnows
  <2> QED BY <1>8, <2>2, <2>3 DEF EntryStaged
<1> QED BY <1>1, <1>2, <1>4, <1>5, <1>6, <1>7, <1>8, RollbackKnows

LEMMA RankingKnows ==
  ASSUME FanInv, Proceeds, NEW p \in Requests,
         \/ \E T \in SUBSET Tiers : Rank(p, T)
         \/ CheckCampaigns(p) \/ CheckEntered(p) \/ StartDelete(p) \/ DeleteRanking(p) \/ InsertRanking(p)
  PROVE  FanInv'
<1>1. p \in Procs /\ txn[p] \in Transaction /\ Sees(FanOf[p], txn[p]) BY DEF FanInv, LockInv, ProcTypes, Procs
<1>2. CASE \E T \in SUBSET Tiers : Rank(p, T)
  <2>1. PICK T \in SUBSET Tiers : Continue(p, [Idle EXCEPT !.at = "check", !.new = T, !.old = ranked[FanOf[p]]])
    BY <1>2 DEF Rank
  <2>2. Sees(FanOf[p], [Idle EXCEPT !.at = "check", !.new = T, !.old = ranked[FanOf[p]]])
    BY TransactionsAssumption DEF FanInv, EntriesKeepRanks, Sees, SeesNoTicket, SeesNoEntry, SeesRanks, Entering, Application, Ranking, Idle, Applying, Reranking
  <2> QED BY <2>1, <2>2, RequestKnows
<1>3. ASSUME NEW s \in Statements, Goto(p, s), Sees(FanOf[p], [txn[p] EXCEPT !.at = s]) PROVE FanInv'
  BY <1>3, RequestKnows DEF Goto
<1>4. CASE CheckCampaigns(p) /\ ~Rollback(p)
  <2>1. txn[p].at = "check" /\ Goto(p, "entered") BY <1>4 DEF CheckCampaigns, Ready
  <2>2. Sees(FanOf[p], [txn[p] EXCEPT !.at = "entered"])
    BY <1>1, <2>1 DEF Sees, SeesNoTicket, SeesNoEntry, SeesRanks, Entering, Application, Ranking, Applying, Reranking, Transaction
  <2> QED BY <1>3, <2>1, <2>2 DEF Statements
<1>5. CASE CheckEntered(p) /\ ~Rollback(p)
  <2>1. txn[p].at = "entered" /\ Goto(p, "snapshot") /\ \A c \in txn[p].old \ txn[p].new : pending[<<FanOf[p], c>>] = 0
    BY <1>5 DEF CheckEntered, Ready
  <2>2. Sees(FanOf[p], [txn[p] EXCEPT !.at = "snapshot"])
    BY <1>1, <2>1 DEF Sees, SeesNoTicket, SeesNoEntry, SeesRanks, Entering, Application, Ranking, Applying, Reranking, Transaction
  <2> QED BY <1>3, <2>1, <2>2 DEF Statements
<1>6. CASE StartDelete(p)
  <2>1. txn[p].at = "snapshot" /\ Continue(p, [txn[p] EXCEPT !.at = "delete", !.rows = ranked[FanOf[p]]])
    BY <1>6 DEF StartDelete, Ready
  <2>2. Sees(FanOf[p], [txn[p] EXCEPT !.at = "delete", !.rows = ranked[FanOf[p]]])
    BY <1>1, <2>1 DEF Sees, SeesNoTicket, SeesNoEntry, SeesRanks, Entering, Application, Ranking, Applying, Reranking, Transaction
  <2> QED BY <2>1, <2>2, RequestKnows
<1>7. CASE DeleteRanking(p)
  <2>1. txn[p].at = "delete" /\ Goto(p, "insert") BY <1>7 DEF DeleteRanking, Ready
  <2>2. Sees(FanOf[p], [txn[p] EXCEPT !.at = "insert"])
    BY <1>1, <2>1 DEF Sees, SeesNoTicket, SeesNoEntry, SeesRanks, Entering, Application, Ranking, Applying, Reranking, Transaction
  <2> QED BY <1>3, <2>1, <2>2 DEF Statements
<1>8. CASE InsertRanking(p) /\ ~Rollback(p)
  <2>1. txn[p].at = "insert" /\ Goto(p, "rank_fk") BY <1>8 DEF InsertRanking, Ready
  <2>2. Sees(FanOf[p], [txn[p] EXCEPT !.at = "rank_fk"])
    BY <1>1, <2>1 DEF Sees, SeesNoTicket, SeesNoEntry, SeesRanks, Entering, Application, Ranking, Applying, Reranking, Transaction
  <2> QED BY <1>3, <2>1, <2>2 DEF Statements
<1> QED BY <1>1, <1>2, <1>4, <1>5, <1>6, <1>7, <1>8, RollbackKnows


LEMMA PurchaseKnows ==
  ASSUME FanInv, Proceeds, NEW p \in Requests,
         Buy(p) \/ BuyerLocked(p) \/ BuyerHasNoTicket(p) \/ BuyerHasNoEntry(p)
  PROVE  FanInv'
<1>1. p \in Procs /\ txn[p] \in Transaction /\ Sees(FanOf[p], txn[p]) BY DEF FanInv, LockInv, ProcTypes, Procs
<1>2. CASE Buy(p)
  <2>1. Sees(FanOf[p], [Idle EXCEPT !.at = "buy"]) BY DEF Sees, SeesNoTicket, SeesNoEntry, SeesRanks, Entering, Application, Ranking, Idle, Applying, Reranking
  <2> QED BY <1>2, <2>1, RequestKnows DEF Buy
<1>3. ASSUME NEW s \in {"buy_tier", "unresolved", "ticket"}, Goto(p, s),
             s = "ticket" => \A c \in Campaigns : ~(pending[<<FanOf[p], c>>] > 0),
             txn[p].at \in {"buy", "buy_tier", "unresolved"}
      PROVE  FanInv'
  <2>1. Sees(FanOf[p], [txn[p] EXCEPT !.at = s])
    BY <1>1, <1>3 DEF Sees, SeesNoTicket, SeesNoEntry, SeesRanks, Entering, Application, Ranking, Applying, Reranking, Transaction
  <2> QED BY <1>3, <2>1, RequestKnows DEF Goto
<1>4. CASE BuyerHasNoEntry(p) /\ ~Rollback(p) BY <1>3, <1>4 DEF BuyerHasNoEntry, Ready
<1>5. CASE BuyerLocked(p) BY <1>3, <1>5 DEF BuyerLocked, Ready
<1>6. CASE BuyerHasNoTicket(p) /\ ~Rollback(p) BY <1>3, <1>6 DEF BuyerHasNoTicket, Ready
<1> QED BY <1>1, <1>2, <1>4, <1>5, <1>6, RollbackKnows

\* Transactions that differ in the rows they are to delete, if at all
Alike(x, y) ==
  /\ x.at = y.at /\ x.staged = y.staged /\ x.now = y.now /\ x.old = y.old /\ x.new = y.new
  /\ x.seen = y.seen /\ x.entrants = y.entrants

\* A commit that changes the rows of its fan, such that this fan's other
\* requests and the draws that have read them still know what they count on.
LEMMA FanCommits ==
  ASSUME FanInv, Proceeds, NEW p \in Requests, UNCHANGED <<open, resolved>>, txn'[p] = Idle,
         \A q \in Procs \ {p} : Alike(txn'[q], txn[q]),
         \A u \in Fans \ {FanOf[p]} :
           /\ u \in holders' <=> u \in holders
           /\ ranked'[u] = ranked[u]
           /\ \A c \in Campaigns : pending'[<<u, c>>] = pending[<<u, c>>],
         \A d \in Draws : txn[d].at \in Drawing => \A c \in open :
           /\ pending'[<<FanOf[p], c>>] = pending[<<FanOf[p], c>>]
           /\ FanOf[p] \notin rankedMeanwhile => ~(pending[<<FanOf[p], c>>] > 0) \/ ranked'[FanOf[p]] = ranked[FanOf[p]],
         \A c \in Campaigns :
           /\ FanOf[p] \notin appliedTwice => pending'[<<FanOf[p], c>>] + resolved[<<FanOf[p], c>>] <= 1
           /\ pending'[<<FanOf[p], c>>] > 0 =>
                /\ FanOf[p] \notin rankedMeanwhile => c \in ranked'[FanOf[p]]
                /\ FanOf[p] \notin boughtMeanwhile => FanOf[p] \notin holders',
         \A q \in Requests \ {p} : FanOf[q] = FanOf[p] => Sees(FanOf[q], txn[q])'
  PROVE  FanInv'
<1> USE TransactionsAssumption DEF Campaigns
<1>1. open \subseteq Tiers BY DEF FanInv, LockInv, RowTypes
<1>2. EntriesKeepRanks'
  <2> SUFFICES ASSUME NEW u \in Fans \ rankedMeanwhile', NEW c \in Tiers, pending'[<<u, c>>] > 0 PROVE c \in ranked'[u]
    BY DEF EntriesKeepRanks
  <2>1. u \notin rankedMeanwhile BY DEF Proceeds
  <2> QED BY <2>1 DEF FanInv, EntriesKeepRanks
<1>3. EntriesStaySingle'
  <2> SUFFICES ASSUME NEW u \in Fans \ appliedTwice', NEW c \in Tiers PROVE pending'[<<u, c>>] + resolved[<<u, c>>] <= 1
    BY DEF EntriesStaySingle, EntriesOf
  <2>1. u \notin appliedTwice BY DEF Proceeds
  <2>2. pending[<<u, c>>] + resolved[<<u, c>>] <= 1 BY <2>1 DEF FanInv, EntriesStaySingle, EntriesOf
  <2>3. CASE u = FanOf[p] BY <2>1, <2>3
  <2>4. CASE u # FanOf[p] BY <2>2, <2>4
  <2> QED BY <2>3, <2>4
<1>4. PathsStayApart'
  <2> SUFFICES ASSUME NEW u \in Fans \ boughtMeanwhile', NEW c \in Tiers, pending'[<<u, c>>] > 0 PROVE u \notin holders'
    BY DEF PathsStayApart
  <2>1. u \notin boughtMeanwhile BY DEF Proceeds
  <2> QED BY <2>1 DEF FanInv, PathsStayApart
<1>5. ASSUME NEW q \in Requests PROVE Sees(FanOf[q], txn[q])'
  <2>1. CASE q = p
    <3>1. Idle.at = "idle" /\ Idle.staged = {} BY DEF Idle
    <3> QED BY <2>1, <3>1 DEF Sees, SeesNoTicket, SeesNoEntry, SeesRanks, Entering, Applying, Reranking, Ranking
  <2>2. CASE q # p /\ FanOf[q] # FanOf[p]
    <3>1. Sees(FanOf[q], txn[q]) /\ Alike(txn'[q], txn[q]) /\ FanOf[q] \in Fans BY <2>2 DEF FanInv, Procs
    <3>2. /\ FanOf[q] \in holders' <=> FanOf[q] \in holders
          /\ ranked'[FanOf[q]] = ranked[FanOf[q]]
          /\ \A c \in Tiers : pending'[<<FanOf[q], c>>] = pending[<<FanOf[q], c>>]
      BY <2>2, <3>1
    <3>3. Entering(txn[q]) \subseteq Tiers
      BY <1>1 DEF Entering, FanInv, LockInv, ClaimsHeld, Claims, Applying
    <3>4. Entering(txn'[q]) = Entering(txn[q]) BY <3>1 DEF Entering, Alike
    <3>5. (FanOf[q] \notin boughtMeanwhile => SeesNoTicket(FanOf[q], txn[q])') BY <3>1, <3>2 DEF Sees, SeesNoTicket, Alike
    <3>6. (FanOf[q] \notin appliedTwice => SeesNoEntry(FanOf[q], txn[q])')
      BY <3>1, <3>2, <3>3, <3>4 DEF Sees, SeesNoEntry, EntriesOf
    <3>7. (FanOf[q] \notin rankedMeanwhile => SeesRanks(FanOf[q], txn[q])')
      BY <3>1, <3>2, <3>4 DEF Sees, SeesRanks, Alike
    <3> QED BY <3>1, <3>5, <3>6, <3>7 DEF Sees, Alike, Proceeds
  <2> QED BY <2>1, <2>2
<1>6. ASSUME NEW d \in Draws PROVE DrawKnows(d)'
  <2>1. Alike(txn'[d], txn[d]) BY DEF Procs
  <2>2. CASE txn[d].at \notin Drawing BY <2>1, <2>2 DEF DrawKnows, Drawing, Selecting, Alike
  <2>3. CASE txn[d].at \in Drawing
    <3>1. \A u \in Fans, c \in open : pending'[<<u, c>>] = pending[<<u, c>>] BY <1>1, <2>3
    <3>2. \A u \in Fans \ rankedMeanwhile, c \in open : pending[<<u, c>>] > 0 => ranked'[u] = ranked[u] BY <1>1, <2>3
    <3>3. {u \in Fans : \E c \in open' : pending'[<<u, c>>] > 0} = {u \in Fans : \E c \in open : pending[<<u, c>>] > 0}
      BY <3>1
    <3>4. DrawKnows(d) BY DEF FanInv
    <3>5. Fans \ rankedMeanwhile' \subseteq Fans \ rankedMeanwhile BY DEF Proceeds
    <3>6. \A u \in Fans \ rankedMeanwhile', c \in open' : pending'[<<u, c>>] > 0 =>
            pending[<<u, c>>] > 0 /\ ranked'[u] = ranked[u]
      BY <3>1, <3>2, <3>5
    <3> QED BY <2>1, <3>3, <3>4, <3>5, <3>6 DEF DrawKnows, Alike
  <2> QED BY <2>2, <2>3
<1> QED BY <1>2, <1>3, <1>4, <1>5, <1>6 DEF FanInv, Proceeds

\* What holds when a request commits
LEMMA AtCommit ==
  ASSUME FanInv, NEW p \in Requests
  PROVE  /\ p \in Procs /\ p \notin Draws /\ Sees(FanOf[p], txn[p]) /\ FanOf[p] \in Fans
         /\ open \subseteq Tiers /\ txn = [q \in Procs |-> txn[q]] /\ pending \in [Fans \X Tiers -> Nat]
         /\ resolved \in [Fans \X Tiers -> Nat] /\ ranked \in [Fans -> SUBSET Tiers]
         /\ \A d \in Draws : txn[d].at \in Drawing => Claims(txn[p]) = {}
         /\ \A q \in Requests : Sees(FanOf[q], txn[q])
<1>1. p \in Procs /\ p \notin Draws /\ FanOf[p] \in Fans BY TransactionsAssumption DEF Procs
<1>2. \A d \in Draws : txn[d].at \in Drawing => Claims(txn[p]) = {} BY DrawIsAlone DEF FanInv, Drawing
<1> QED BY <1>1, <1>2 DEF FanInv, LockInv, RowTypes, ProcTypes

LEMMA EntriesCommit == ASSUME FanInv, Proceeds, NEW p \in Requests, CommitEntries(p) PROVE FanInv'
<1> DEFINE u == FanOf[p]
           S == txn[p].staged
<1> USE DEF Campaigns
<1>1. /\ p \in Procs /\ u \in Fans /\ Sees(u, txn[p]) /\ \A q \in Requests : Sees(FanOf[q], txn[q])
      /\ txn = [q \in Procs |-> txn[q]]
      /\ open \subseteq Tiers /\ pending \in [Fans \X Tiers -> Nat] /\ resolved \in [Fans \X Tiers -> Nat]
  BY AtCommit
<1>2. /\ txn' = [txn EXCEPT ![p] = Idle] /\ UNCHANGED <<open, ranked, resolved, holders>>
      /\ pending' = [e \in Fans \X Tiers |-> IF e[1] = u /\ e[2] \in S THEN pending[e] + 1 ELSE pending[e]]
      /\ txn[p].at = "entry_commit"
  BY DEF CommitEntries, Ready
<1>3. \A z \in Fans, c \in Tiers : pending'[<<z, c>>] =
        IF z = u /\ c \in S THEN pending[<<z, c>>] + 1 ELSE pending[<<z, c>>]
  BY <1>2
<1>4. txn'[p] = Idle /\ \A q \in Procs \ {p} : txn'[q] = txn[q] BY <1>1, <1>2
<1>5. \A d \in Draws : txn[d].at \notin Drawing BY <1>2, AtCommit DEF Claims, Applying
<1>6. S \subseteq Entering(txn[p]) BY DEF Entering
<1>7. ASSUME NEW c \in Tiers
      PROVE  /\ u \notin appliedTwice => pending'[<<u, c>>] + resolved[<<u, c>>] <= 1
             /\ pending'[<<u, c>>] > 0 =>
                  /\ u \notin rankedMeanwhile => c \in ranked[u]
                  /\ u \notin boughtMeanwhile => u \notin holders
  <2>1. u \notin boughtMeanwhile => u \notin holders BY <1>1, <1>2 DEF Sees, SeesNoTicket, Applying
  <2>2. CASE c \in S
    <3>1. u \notin rankedMeanwhile => c \in ranked[u] BY <1>1, <1>6, <2>2 DEF Sees, SeesRanks
    <3>2. u \notin appliedTwice => pending[<<u, c>>] + resolved[<<u, c>>] = 0
      BY <1>1, <1>6, <2>2 DEF Sees, SeesNoEntry, EntriesOf
    <3>3. pending[<<u, c>>] \in Nat /\ resolved[<<u, c>>] \in Nat BY <1>1
    <3> QED BY <1>1, <1>3, <2>1, <2>2, <3>1, <3>2, <3>3
  <2>3. CASE c \notin S
    <3>1. pending'[<<u, c>>] = pending[<<u, c>>] BY <1>1, <1>3, <2>3
    <3> QED BY <1>1, <2>1, <3>1 DEF FanInv, EntriesKeepRanks, EntriesStaySingle, EntriesOf
  <2> QED BY <2>2, <2>3
<1>8. ASSUME NEW q \in Requests \ {p}, FanOf[q] = u PROVE Sees(FanOf[q], txn[q])'
  <2>1. txn'[q] = txn[q] /\ Sees(u, txn[q]) BY <1>1, <1>4, <1>8 DEF Procs
  <2>2. /\ txn[q].at \in Application => u \in appliedTwice
        /\ txn[q].at \in Ranking => u \in rankedMeanwhile
        /\ txn[q].at \in Purchase => u \in boughtMeanwhile
    BY <1>2, <1>8, Met DEF FanInv, Application
  <2>3. u \notin boughtMeanwhile => SeesNoTicket(u, txn[q])'
    BY <1>2, <2>1, <2>2 DEF Sees, SeesNoTicket, Purchase
  <2>4. u \notin appliedTwice => SeesNoEntry(u, txn[q])'
    BY <2>1, <2>2 DEF Sees, SeesNoEntry, Entering, Application
  <2>5. u \notin rankedMeanwhile => SeesRanks(u, txn[q])'
    BY <1>2, <2>1, <2>2 DEF Sees, SeesRanks, Entering, Ranking, Reranking
  <2> QED BY <1>8, <2>1, <2>3, <2>4, <2>5 DEF Sees, Proceeds
<1>9. \A z \in Fans \ {u}, c \in Tiers : pending'[<<z, c>>] = pending[<<z, c>>] BY <1>3
<1>10. \A q \in Procs \ {p} : Alike(txn'[q], txn[q]) BY <1>4 DEF Alike
<1> HIDE DEF u, S
<1> QED BY <1>2, <1>4, <1>5, <1>7, <1>8, <1>9, <1>10, FanCommits DEF u

LEMMA RankingCommits == ASSUME FanInv, Proceeds, NEW p \in Requests, CommitRanking(p) PROVE FanInv'
<1> DEFINE u == FanOf[p]
           after(q) == [txn[q] EXCEPT !.rows = @ \ txn[p].rows]
<1> USE DEF Campaigns
<1>1. /\ p \in Procs /\ u \in Fans /\ Sees(u, txn[p]) /\ \A q \in Requests : Sees(FanOf[q], txn[q])
      /\ txn = [q \in Procs |-> txn[q]] /\ ranked \in [Fans -> SUBSET Tiers]
      /\ open \subseteq Tiers
  BY AtCommit
<1>2. /\ txn[p].at = "rank_fk" /\ UNCHANGED <<open, pending, resolved, holders>>
      /\ ranked' = [ranked EXCEPT ![u] = (@ \ txn[p].rows) \cup txn[p].new]
      /\ txn' = [q \in Procs |->
                   IF q = p THEN Idle
                   ELSE IF q \in Requests /\ txn[q].at = "delete" /\ FanOf[q] = u THEN after(q) ELSE txn[q]]
  BY DEF CommitRanking, Ready
<1>3. \A q \in Procs : Alike(after(q), txn[q])
  BY DEF FanInv, LockInv, ProcTypes, Transaction, Alike
<1>4. \A q \in Procs : txn'[q] = IF q = p THEN Idle
                                 ELSE IF q \in Requests /\ txn[q].at = "delete" /\ FanOf[q] = u THEN after(q)
                                 ELSE txn[q]
  BY <1>2
<1> HIDE DEF after
<1>5. txn'[p] = Idle /\ \A q \in Procs \ {p} : Alike(txn'[q], txn[q])
  <2>1. \A q \in Procs : Alike(txn[q], txn[q]) BY DEF Alike
  <2> QED BY <1>1, <1>3, <1>4, <2>1
<1>6. txn[p].new \subseteq ranked'[u] /\ \A z \in Fans \ {u} : ranked'[z] = ranked[z] BY <1>1, <1>2
<1>7. ASSUME u \notin rankedMeanwhile, NEW c \in Tiers, pending[<<u, c>>] > 0 PROVE c \in txn[p].old /\ c \in txn[p].new
  BY <1>1, <1>2, <1>7 DEF Sees, SeesRanks, Ranking, Reranking
<1>8. ASSUME NEW d \in Draws, txn[d].at \in Drawing, NEW c \in open, u \notin rankedMeanwhile PROVE ~(pending[<<u, c>>] > 0)
  <2>1. txn[p].old = {} BY <1>2, <1>8, AtCommit DEF Claims, Reranking
  <2> QED BY <1>1, <1>7, <1>8, <2>1
<1>9. ASSUME NEW c \in Tiers
      PROVE  /\ u \notin appliedTwice => pending[<<u, c>>] + resolved[<<u, c>>] <= 1
             /\ pending[<<u, c>>] > 0 =>
                  /\ u \notin rankedMeanwhile => c \in ranked'[u]
                  /\ u \notin boughtMeanwhile => u \notin holders
  BY <1>1, <1>6, <1>7 DEF FanInv, EntriesStaySingle, PathsStayApart, EntriesOf
<1>10. ASSUME NEW q \in Requests \ {p}, FanOf[q] = u PROVE Sees(FanOf[q], txn[q])'
  <2>1. Alike(txn'[q], txn[q]) /\ Sees(u, txn[q]) BY <1>1, <1>5, <1>10 DEF Procs
  <2>2. Entering(txn'[q]) = Entering(txn[q]) BY <2>1 DEF Alike, Entering
  <2>3. u \notin rankedMeanwhile => txn[q].at \notin Application
    BY <1>2, <1>10, Met DEF FanInv, Ranking
  <2>4. u \notin boughtMeanwhile => SeesNoTicket(u, txn[q])' BY <1>2, <2>1 DEF Sees, SeesNoTicket, Alike
  <2>5. u \notin appliedTwice => SeesNoEntry(u, txn[q])' BY <1>2, <2>1, <2>2 DEF Sees, SeesNoEntry, EntriesOf
  <2>6. u \notin rankedMeanwhile => SeesRanks(u, txn[q])'
    <3>1. u \notin rankedMeanwhile => Entering(txn[q]) = {} BY <2>1, <2>3 DEF Sees, Entering, Application
    <3> QED BY <1>2, <2>1, <2>2, <3>1 DEF Sees, SeesRanks, Alike
  <2> QED BY <1>10, <2>1, <2>4, <2>5, <2>6 DEF Sees, Alike, Proceeds
<1> HIDE DEF u
<1> QED BY <1>1, <1>2, <1>5, <1>6, <1>8, <1>9, <1>10, FanCommits DEF u

LEMMA TicketCommits == ASSUME FanInv, Proceeds, NEW p \in Requests, CommitTicket(p), ~Rollback(p) PROVE FanInv'
<1> DEFINE u == FanOf[p]
<1> USE DEF Campaigns
<1>1. /\ p \in Procs /\ u \in Fans /\ Sees(u, txn[p]) /\ \A q \in Requests : Sees(FanOf[q], txn[q])
      /\ txn = [q \in Procs |-> txn[q]]
  BY AtCommit
<1>2. /\ txn[p].at = "ticket" /\ UNCHANGED <<open, ranked, pending, resolved>>
      /\ holders' = holders \cup {u} /\ txn' = [txn EXCEPT ![p] = Idle]
  BY DEF CommitTicket, Ready
<1>3. txn'[p] = Idle /\ \A q \in Procs \ {p} : txn'[q] = txn[q] BY <1>1, <1>2
<1>4. u \notin boughtMeanwhile => \A c \in Tiers : ~(pending[<<u, c>>] > 0) BY <1>1, <1>2 DEF Sees, SeesNoTicket
<1>5. ASSUME NEW c \in Tiers
      PROVE  /\ u \notin appliedTwice => pending[<<u, c>>] + resolved[<<u, c>>] <= 1
             /\ pending[<<u, c>>] > 0 =>
                  /\ u \notin rankedMeanwhile => c \in ranked[u]
                  /\ u \notin boughtMeanwhile => u \notin holders'
  BY <1>1, <1>4 DEF FanInv, EntriesStaySingle, EntriesKeepRanks, EntriesOf
<1>6. ASSUME NEW q \in Requests \ {p}, FanOf[q] = u PROVE Sees(FanOf[q], txn[q])'
  <2>1. txn'[q] = txn[q] /\ Sees(u, txn[q]) BY <1>1, <1>3, <1>6 DEF Procs
  <2>2. u \notin boughtMeanwhile => txn[q].at \notin Application
    BY <1>2, <1>6, Met DEF FanInv, Purchase
  <2>3. u \notin boughtMeanwhile => SeesNoTicket(u, txn[q])'
    BY <1>2, <2>1, <2>2 DEF Sees, SeesNoTicket, Applying, Application
  <2>4. u \notin appliedTwice => SeesNoEntry(u, txn[q])' BY <1>2, <2>1 DEF Sees, SeesNoEntry, EntriesOf
  <2>5. u \notin rankedMeanwhile => SeesRanks(u, txn[q])' BY <1>2, <2>1 DEF Sees, SeesRanks
  <2> QED BY <1>6, <2>1, <2>3, <2>4, <2>5 DEF Sees, Proceeds
<1>7. \A q \in Procs \ {p} : Alike(txn'[q], txn[q]) BY <1>3 DEF Alike
<1> HIDE DEF u
<1> QED BY <1>2, <1>3, <1>5, <1>6, <1>7, FanCommits DEF u

LEMMA DrawsKnow == ASSUME FanInv, Proceeds, NEW d \in Draws, DrawNext(d) PROVE FanInv'
<1>1. d \in Procs /\ d \notin Requests /\ txn[d] \in Transaction /\ DrawKnows(d)
  BY TransactionsAssumption DEF FanInv, LockInv, ProcTypes, Procs
<1>2. ASSUME NEW x, Continue(d, x), DrawKnows(d)' PROVE FanInv'
  <2>1. UNCHANGED <<open, ranked, pending, resolved, holders>> /\ txn' = [txn EXCEPT ![d] = x]
    BY <1>2 DEF Continue, rows
  <2>2. \A q \in Procs \ {d} : txn'[q] = txn[q] BY <2>1 DEF FanInv, LockInv, ProcTypes
  <2> QED BY <1>1, <1>2, <2>1, <2>2, RowsStay
<1>3. ASSUME NEW x, Continue(d, x)
      PROVE  txn'[d] = x /\ UNCHANGED <<open, ranked, pending>>
  BY <1>1, <1>3 DEF Continue, rows, FanInv, LockInv, ProcTypes
<1>4. ASSUME NEW s \in {"draw_campaigns", "read_rankings"}, Goto(d, s) PROVE FanInv'
  <2>1. [txn[d] EXCEPT !.at = s].at = s BY <1>1 DEF Transaction
  <2>2. DrawKnows(d)' BY <1>3, <1>4, <2>1 DEF Goto, DrawKnows
  <2> QED BY <1>2, <1>4, <2>2 DEF Goto
<1>5. CASE Draw(d)
  <2>1. [Idle EXCEPT !.at = "draw"].at = "draw" BY DEF Idle
  <2>2. DrawKnows(d)' BY <1>3, <1>5, <2>1 DEF Draw, DrawKnows
  <2> QED BY <1>2, <1>5, <2>2 DEF Draw
<1>6. CASE ReadRankings(d)
  <2> DEFINE x == [txn[d] EXCEPT !.at = "read_entries", !.seen = ranked]
  <2>1. x.at = "read_entries" /\ x.seen = ranked BY <1>1 DEF Transaction
  <2>2. Continue(d, x) BY <1>6 DEF ReadRankings
  <2> HIDE DEF x
  <2>3. DrawKnows(d)' BY <1>3, <2>1, <2>2 DEF DrawKnows
  <2> QED BY <1>2, <2>2, <2>3
<1>7. CASE ReadEntries(d) /\ ~Rollback(d)
  <2> DEFINE E == {u \in Fans : \E c \in open : pending[<<u, c>>] > 0}
             x == [txn[d] EXCEPT !.at = "award", !.entrants = E]
  <2>1. x.at = "award" /\ x.seen = txn[d].seen /\ x.entrants = E BY <1>1 DEF Transaction
  <2>2. Continue(d, x) /\ txn[d].at = "read_entries" BY <1>7 DEF ReadEntries, Ready
  <2> HIDE DEF x
  <2>3. DrawKnows(d)' BY <1>1, <1>3, <2>1, <2>2 DEF DrawKnows, Proceeds
  <2> QED BY <1>2, <2>2, <2>3
<1>8. CASE CommitDraw(d) /\ ~Rollback(d)
  <2>1. PICK W \in SUBSET txn[d].entrants :
          /\ W \cap holders = {} /\ holders' = holders \cup W
          /\ open' = {} /\ UNCHANGED ranked /\ txn' = [txn EXCEPT ![d] = Idle]
          /\ resolved' = [e \in Fans \X Tiers |-> IF e[2] \in open THEN EntriesOf(e[1], e[2]) ELSE resolved[e]]
          /\ pending' = [e \in Fans \X Tiers |-> IF e[2] \in open THEN 0 ELSE pending[e]]
    BY <1>8 DEF CommitDraw, Campaigns
  <2>2. txn[d].at \in Drawing /\ txn[d].at \in Selecting BY <1>8 DEF CommitDraw, Ready, Drawing, Selecting
  <2>3. \A u \in Fans, c \in Tiers : pending'[<<u, c>>] = 0
    BY <2>1 DEF FanInv, LockInv, NoEntryLeftBehind, Campaigns
  <2>4. EntriesKeepRanks' /\ PathsStayApart' BY <2>3 DEF EntriesKeepRanks, PathsStayApart, Campaigns
  <2>5. EntriesStaySingle'
    <3> SUFFICES ASSUME NEW u \in Fans \ appliedTwice', NEW c \in Tiers PROVE pending'[<<u, c>>] + resolved'[<<u, c>>] <= 1
      BY DEF EntriesStaySingle, EntriesOf, Campaigns
    <3>1. resolved'[<<u, c>>] = IF c \in open THEN EntriesOf(u, c) ELSE resolved[<<u, c>>] BY <2>1
    <3>2. EntriesOf(u, c) <= 1 BY DEF FanInv, Proceeds, EntriesStaySingle, Campaigns
    <3>3. pending[<<u, c>>] \in Nat /\ resolved[<<u, c>>] \in Nat BY DEF FanInv, LockInv, RowTypes
    <3> QED BY <2>3, <3>1, <3>2, <3>3 DEF EntriesOf
  <2>6. \A q \in Procs : txn'[q] = IF q = d THEN Idle ELSE txn[q] BY <2>1 DEF FanInv, LockInv, ProcTypes
  <2>7. ASSUME NEW p \in Requests PROVE Sees(FanOf[p], txn[p])'
    <3>1. txn'[p] = txn[p] BY <1>1, <2>6 DEF Procs
    <3>2. Claims(txn[p]) = {} BY <2>2, DrawIsAlone DEF FanInv
    <3>3. txn[p].staged = {} /\ txn[p].at \notin Applying BY <3>2 DEF Claims
    <3>4. Entering(txn[p]) = {} BY <3>3 DEF Entering, Applying
    <3>5. FanOf[p] \in Fans BY TransactionsAssumption
    <3>6. SeesNoTicket(FanOf[p], txn[p])' BY <2>3, <3>1, <3>3, <3>5 DEF SeesNoTicket, Campaigns
    <3>7. SeesNoEntry(FanOf[p], txn[p])' BY <3>1, <3>4 DEF SeesNoEntry
    <3>8. SeesRanks(FanOf[p], txn[p])' BY <2>3, <3>1, <3>4, <3>5 DEF SeesRanks, Campaigns
    <3> QED BY <3>1, <3>3, <3>6, <3>7, <3>8 DEF Sees
  <2>8. ASSUME NEW q \in Draws PROVE DrawKnows(q)'
    <3>1. Idle.at = "idle" BY DEF Idle
    <3>2. txn'[q].at \notin Selecting BY <2>2, <2>6, <3>1, DrawIsAlone DEF FanInv, Selecting, Procs
    <3> QED BY <3>2 DEF DrawKnows, Selecting
  <2> QED BY <2>4, <2>5, <2>7, <2>8 DEF FanInv, Proceeds
<1> QED BY <1>1, <1>4, <1>5, <1>6, <1>7, <1>8, RollbackKnows DEF DrawNext, TiersLocked, CampaignsLocked

LEMMA NextFans == FanInv /\ [Next]_vars => FanInv'
<1> SUFFICES ASSUME FanInv, Step \/ UNCHANGED vars, Proceeds PROVE FanInv'
  BY NextLocks, HistoryGrows DEF FanInv, Next
<1>1. CASE (\E p \in Procs : TakeLock(p)) \/ (\E c \in Campaigns : WindowMoves(c)) \/ UNCHANGED vars
  <2>1. UNCHANGED <<open, ranked, pending, resolved, holders, txn>> BY <1>1 DEF TakeLock, WindowMoves, rows, vars
  <2>2. EntriesKeepRanks' /\ EntriesStaySingle' /\ PathsStayApart'
    BY <2>1 DEF FanInv, Proceeds, EntriesKeepRanks, EntriesStaySingle, PathsStayApart, EntriesOf
  <2>3. \A p \in Requests : Sees(FanOf[p], txn[p])'
    BY <2>1 DEF FanInv, Proceeds, Sees, SeesNoTicket, SeesNoEntry, SeesRanks, EntriesOf
  <2>4. \A d \in Draws : DrawKnows(d)' BY <2>1 DEF FanInv, Proceeds, DrawKnows
  <2> QED BY <2>2, <2>3, <2>4 DEF FanInv, Proceeds
<1>2. ASSUME NEW p \in Procs, DeadlockAbort(p) PROVE FanInv' BY <1>2, RollbackKnows DEF DeadlockAbort
<1>3. ASSUME NEW p \in Requests, RequestNext(p) PROVE FanInv'
  BY <1>3, ApplicationKnows, RankingKnows, PurchaseKnows, EntriesCommit, RankingCommits, TicketCommits, RollbackKnows
     DEF RequestNext, Procs
<1> QED BY <1>1, <1>2, <1>3, DrawsKnow DEF Step

LEMMA FansServed == Spec => []FanInv
BY InitFans, NextFans, PTL DEF Spec

\* Whatever rankings of a fan overtake each other, and whatever else is in
\* flight, a pending entry keeps its rank unless a ranking met an application
\* of the fan.
THEOREM EntriesStayRanked == Spec => []EntriesKeepRanks
<1>1. FanInv => EntriesKeepRanks BY DEF FanInv
<1> QED BY <1>1, FansServed, PTL

\* A fan gets two entries in a campaign only by two applications in flight
\* together.
THEOREM OneEntryEach == Spec => []EntriesStaySingle
<1>1. FanInv => EntriesStaySingle BY DEF FanInv
<1> QED BY <1>1, FansServed, PTL

\* A fan gets an entry in play beside a ticket, bought or won, only by a
\* purchase in flight beside an application.
THEOREM PathsExclude == Spec => []PathsStayApart
<1>1. FanInv => PathsStayApart BY DEF FanInv
<1> QED BY <1>1, FansServed, PTL

-----------------------------------------------------------------------------
(***************************************************************************)
(* What a draw does                                                        *)
(***************************************************************************)
\* A step that changes a draw in flight is its own.
LEMMA StepOfDraw ==
  ASSUME FanInv, [Next]_vars, NEW d \in Draws, txn'[d] # txn[d]
  PROVE  DrawNext(d) \/ DeadlockAbort(d)
<1> USE TransactionsAssumption
<1>1. d \in Procs /\ d \notin Requests /\ txn = [q \in Procs |-> txn[q]] BY DEF FanInv, LockInv, ProcTypes, Procs
<1>2. ASSUME NEW p \in Procs, p # d, \/ \E x : Continue(p, x)
                                     \/ Rollback(p)
                                     \/ txn' = [txn EXCEPT ![p] = Idle]
      PROVE  FALSE
  BY <1>1, <1>2 DEF Continue, Rollback
<1>3. ~UNCHANGED txn OBVIOUS
<1>4. ASSUME NEW p \in Requests, RequestNext(p) PROVE FALSE
  <2>1. p \in Procs /\ p # d BY DEF Procs
  <2>2. CASE CommitRanking(p) BY <1>1, <2>1, <2>2 DEF CommitRanking
  <2>3. CASE CommitEntries(p) \/ CommitTicket(p) BY <1>2, <2>1, <2>3 DEF CommitEntries, CommitTicket
  <2>4. CASE Buy(p) \/ BuyerLocked(p) \/ BuyerHasNoTicket(p) \/ BuyerHasNoEntry(p)
    BY <1>2, <2>1, <2>4 DEF Buy, BuyerLocked, BuyerHasNoTicket, BuyerHasNoEntry, Goto
  <2>5. CASE (\E T \in SUBSET Tiers : Rank(p, T)) \/ CheckCampaigns(p) \/ CheckEntered(p) \/ StartDelete(p)
             \/ DeleteRanking(p) \/ InsertRanking(p)
    BY <1>2, <2>1, <2>5 DEF Rank, CheckCampaigns, CheckEntered, StartDelete, DeleteRanking, InsertRanking, Goto
  <2>6. CASE (\E C \in SUBSET Campaigns : Apply(p, C)) \/ ReadCampaign(p) \/ ReadTicket(p) \/ ReadRank(p)
             \/ InsertEntry(p) \/ EntryStaged(p)
    BY <1>2, <2>1, <2>6 DEF Apply, ReadCampaign, ReadTicket, ReadRank, InsertEntry, EntryStaged, Goto
  <2> QED BY <1>4, <2>2, <2>3, <2>4, <2>5, <2>6 DEF RequestNext
<1>5. ASSUME NEW q \in Draws, q # d, DrawNext(q) PROVE FALSE
  <2>1. q \in Procs BY DEF Procs
  <2> QED BY <1>2, <1>5, <2>1
        DEF DrawNext, Draw, TiersLocked, CampaignsLocked, ReadRankings, ReadEntries, CommitDraw, Goto
<1>6. ASSUME NEW p \in Procs, p # d, DeadlockAbort(p) PROVE FALSE BY <1>2, <1>6 DEF DeadlockAbort
<1>7. (\A p \in Procs : ~TakeLock(p)) /\ (\A c \in Campaigns : ~WindowMoves(c)) /\ ~UNCHANGED vars
  BY <1>3 DEF TakeLock, WindowMoves, vars
<1> QED BY <1>4, <1>5, <1>6, <1>7 DEF Next, Step

\* An entrant none of whose applications met another request
Unharmed(u) == u \notin appliedTwice \cup rankedMeanwhile \cup boughtMeanwhile

\* A draw that has read the entries of such fans neither lacks a rank nor
\* gives a second ticket: it commits.
LEMMA DrawsEndWell ==
  ASSUME FanInv, [Next]_vars, NEW d \in Draws,
         txn[d].at \in {"read_entries", "award"}, txn'[d].at = "idle",
         \A u \in Fans, c \in open : pending[<<u, c>>] > 0 => Unharmed(u)
  PROVE  \/ Rows!Deadlocked(d)
         \/ txn[d].at = "award" /\ open' # open
<1>1. d \in Procs /\ txn[d] \in Transaction /\ DrawKnows(d) /\ DrawHolds(d) /\ txn = [q \in Procs |-> txn[q]]
  BY DEF FanInv, LockInv, ProcTypes, Procs
<1>2. open \subseteq Tiers /\ pending \in [Fans \X Tiers -> Nat] /\ resolved \in [Fans \X Tiers -> Nat]
  BY DEF FanInv, LockInv, RowTypes
<1>3. DrawNext(d) \/ DeadlockAbort(d)
  <2>1. txn'[d] # txn[d] OBVIOUS
  <2> QED BY <2>1, StepOfDraw
<1>4. CASE DeadlockAbort(d) BY <1>4 DEF DeadlockAbort
<1>5. CASE txn[d].at = "read_entries" /\ DrawNext(d)
  <2>1. ReadEntries(d)
    BY <1>5 DEF DrawNext, Draw, TiersLocked, CampaignsLocked, ReadRankings, CommitDraw, Ready
  <2>2. ASSUME NEW u \in Fans, NEW c \in open, pending[<<u, c>>] > 0 PROVE c \in txn[d].seen[u]
    <3>1. u \notin rankedMeanwhile BY <2>2 DEF Unharmed
    <3>2. txn[d].seen[u] = ranked[u] BY <1>1, <1>5, <2>2, <3>1 DEF DrawKnows
    <3> QED BY <1>2, <2>2, <3>1, <3>2 DEF FanInv, EntriesKeepRanks, Campaigns
  <2> DEFINE x == [txn[d] EXCEPT !.at = "award", !.entrants = {u \in Fans : \E c \in open : pending[<<u, c>>] > 0}]
  <2>3. Continue(d, x) BY <2>1, <2>2 DEF ReadEntries
  <2>4. x.at = "award" BY <1>1 DEF Transaction
  <2> HIDE DEF x
  <2>5. txn'[d] = x BY <1>1, <2>3 DEF Continue
  <2> QED BY <2>4, <2>5
<1>6. CASE txn[d].at = "award" /\ DrawNext(d)
  <2>1. CommitDraw(d)
    BY <1>6 DEF DrawNext, Draw, TiersLocked, CampaignsLocked, ReadRankings, ReadEntries, Ready
  <2>2. ASSUME NEW u \in txn[d].entrants PROVE u \notin holders /\ ~EnteredTwice(u)
    <3>1. u \in Fans /\ \E c \in open : pending[<<u, c>>] > 0 BY <1>1, <1>6 DEF DrawKnows
    <3>2. u \notin appliedTwice /\ u \notin boughtMeanwhile BY <3>1 DEF Unharmed
    <3>3. u \notin holders BY <1>2, <3>1, <3>2 DEF FanInv, PathsStayApart, Campaigns
    <3>4. ASSUME NEW c \in open PROVE ~(pending[<<u, c>>] > 1)
      <4>1. pending[<<u, c>>] \in Nat /\ resolved[<<u, c>>] \in Nat BY <1>2, <3>1
      <4>2. pending[<<u, c>>] + resolved[<<u, c>>] <= 1
        BY <1>2, <3>1, <3>2 DEF FanInv, EntriesStaySingle, EntriesOf, Campaigns
      <4> QED BY <4>1, <4>2
    <3> QED BY <3>3, <3>4 DEF EnteredTwice
  <2>3. open' = {} BY <2>1, <2>2 DEF CommitDraw
  <2>4. open # {} BY <1>1, <1>6 DEF DrawHolds, Drawing, Selecting
  <2> QED BY <1>6, <2>3, <2>4
<1> QED BY <1>3, <1>4, <1>5, <1>6

\* A draw that has read its entries fails only as the victim of a deadlock, or
\* when it found the entry of a fan whose application met another request: no
\* other interleaving of fans and draws makes it.
THEOREM DrawsSucceed == Spec => DrawSucceeds
<1> DEFINE Ends(d) == (txn[d].at \in {"read_entries", "award"} /\ txn'[d].at = "idle") =>
                        \/ Commits(d)
                        \/ Rows!Deadlocked(d)
                        \/ \E u \in appliedTwice \cup rankedMeanwhile \cup boughtMeanwhile, c \in open :
                             pending[<<u, c>>] > 0
<1>1. ASSUME FanInv, [Next]_vars, NEW d \in Draws PROVE Ends(d)
  <2> SUFFICES ASSUME txn[d].at \in {"read_entries", "award"}, txn'[d].at = "idle",
                      \A u \in Fans, c \in open : pending[<<u, c>>] > 0 => Unharmed(u)
               PROVE  Commits(d) \/ Rows!Deadlocked(d)
    BY DEF Unharmed
  <2> QED BY <1>1, DrawsEndWell DEF Commits
<1>2. FanInv /\ [Next]_vars => [\A d \in Draws : Ends(d)]_vars BY <1>1
<1> QED BY <1>2, FansServed, PTL DEF Spec, DrawSucceeds

\* And the rankings a draw read are those of its entrants when it commits, but
\* of a fan who ranked beside an application.
THEOREM DrawsSeeFinalRankings == Spec => DrawSeesFinalRankings
<1> DEFINE Sure(d) == Commits(d) => \A u \in txn[d].entrants \ rankedMeanwhile : txn[d].seen[u] = ranked[u]
<1>1. FanInv => \A d \in Draws : Sure(d)
  <2> SUFFICES ASSUME FanInv, NEW d \in Draws, txn[d].at = "award", NEW u \in txn[d].entrants \ rankedMeanwhile
               PROVE  txn[d].seen[u] = ranked[u]
    BY DEF Commits
  <2>1. u \in Fans /\ \E c \in open : pending[<<u, c>>] > 0 BY DEF FanInv, DrawKnows
  <2> QED BY <2>1 DEF FanInv, DrawKnows
<1>2. FanInv /\ [Next]_vars => [\A d \in Draws : Sure(d)]_vars BY <1>1
<1> QED BY <1>2, FansServed, PTL DEF Spec, DrawSeesFinalRankings
=============================================================================
