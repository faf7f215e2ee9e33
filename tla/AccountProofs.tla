--------------------------- MODULE AccountProofs ---------------------------
(***************************************************************************)
(* Proofs about the parts of Backend beside the site, for any number of    *)
(* accounts, requests, draws, senders and uploads: sessions, the notices   *)
(* about draws, confirmations of inquiries, and pictures.                  *)
(***************************************************************************)
EXTENDS BackendProofs

-----------------------------------------------------------------------------
(***************************************************************************)
(* Sessions                                                                *)
(***************************************************************************)
\* IdentityTypeOK but for users.company_id, which the site writes too
LoginTypeOK ==
  /\ role \in [Users -> {"none", "gone", "fan", "manager", "admin"}]
  /\ verified \in [Users -> BOOLEAN]
  /\ owner \in [Tokens -> Users \cup {NoUser}]
  /\ revoked \in [Tokens -> BOOLEAN]
  /\ expired \in [Tokens -> BOOLEAN]
  /\ links \subseteq Users \X TokenTypes
  /\ request \in [Requests -> Working \cup {Idle}]

\* The UPDATE that revokes the user's tokens has taken its snapshot.
Revoking(r, u) ==
  /\ request[r] # Idle
  /\ request[r].step \in {"updating", "updated"} /\ request[r].for = "session" /\ request[r].user = u

\* f names a worker for every session of u, a different one for each, that
\* will revoke the session before it leaves another.
Issued(u, f) ==
  /\ \A s, t \in Unrevoked(u) : f[s] = f[t] => s = t
  /\ \A t \in Unrevoked(u) : f[t] \in Requests /\ (Revoking(f[t], u) => t \in request[f[t]].rows)

WorkersIssue == \A u \in Users : \E f : Issued(u, f)

\* A request that ran beside no other runs beside none, and its UPDATE found
\* every session of the user.
LoneRequestsSeeAll ==
  \A r \in Requests : (request[r] # Idle /\ request[r].alone) =>
    /\ \A q \in Requests : q # r => request[q] = Idle
    /\ request[r].step \in {"updating", "updated"} => Unrevoked(request[r].user) \subseteq request[r].rows

SessionInv == LoginTypeOK /\ SessionsHaveUsers /\ WorkersIssue /\ LoneRequestsSeeAll

LEMMA InitSessions == Init => SessionInv
<1> SUFFICES ASSUME Init PROVE SessionInv OBVIOUS
<1>1. LoginTypeOK
  <2>1. SeedRoles[part] \in [Users -> {"none", "gone", "fan", "manager", "admin"}]
    BY SeedAssumption DEF Init
  <2> QED BY <2>1 DEF Init, IdentityInit, LoginTypeOK
<1>2. \A u \in Users : Unrevoked(u) = {} BY IdentityAssumption DEF Init, IdentityInit, Unrevoked
<1>3. WorkersIssue BY <1>2 DEF WorkersIssue, Issued
<1> QED BY <1>1, <1>3, IdentityAssumption DEF Init, IdentityInit, SessionInv, SessionsHaveUsers, LoneRequestsSeeAll

\* What keeps the naming of the workers: sessions only end, and a worker that
\* revokes goes on doing so.
SessionsEnd ==
  /\ \A u \in Users : Unrevoked(u)' \subseteq Unrevoked(u)
  /\ \A r \in Requests, u \in Users : Revoking(r, u)' =>
       \A t \in Unrevoked(u)' : (Revoking(r, u) => t \in request[r].rows) => t \in request'[r].rows

LEMMA EndedSessionsKeepWorkers == ASSUME WorkersIssue, SessionsEnd PROVE WorkersIssue'
<1> SUFFICES ASSUME NEW u \in Users PROVE \E f : Issued(u, f)' BY DEF WorkersIssue
<1>1. PICK f : Issued(u, f) BY DEF WorkersIssue
<1>2. \A s, t \in Unrevoked(u)' : f[s] = f[t] => s = t BY <1>1 DEF SessionsEnd, Issued
<1>3. ASSUME NEW t \in Unrevoked(u)'
      PROVE  f[t] \in Requests /\ (Revoking(f[t], u)' => t \in request'[f[t]].rows)
  BY <1>1, <1>3 DEF SessionsEnd, Issued
<1>4. Issued(u, f)' BY <1>2, <1>3 DEF Issued
<1> QED BY <1>4

\* The login or refresh that commits names itself for the session it leaves.
LEMMA IssueKeepsWorkers ==
  ASSUME LoginTypeOK, WorkersIssue, NEW r \in Requests, NEW t \in Tokens, Issue(r, t)
  PROVE  WorkersIssue'
<1> SUFFICES ASSUME NEW u \in Users PROVE \E f : Issued(u, f)' BY DEF WorkersIssue
<1>1. PICK f : Issued(u, f) BY DEF WorkersIssue
<1> DEFINE g == [x \in Tokens |-> IF x = t THEN r ELSE f[x]]
<1>2. /\ request[r] # Idle /\ request[r].step = "updated" /\ request[r].for = "session"
      /\ request' = [request EXCEPT ![r] = Idle]
  BY DEF Issue, Commits, LoginTypeOK
<1>3. ASSUME NEW x \in Unrevoked(u)', x # t
      PROVE  x \in Unrevoked(u) /\ x \notin request[r].rows
  BY <1>3 DEF Issue, Unrevoked, LoginTypeOK
<1>4. t \in Unrevoked(u)' => request[r].user = u BY DEF Issue, Unrevoked, LoginTypeOK
<1>5. ASSUME NEW x \in Unrevoked(u)', x # t, request[r].user = u PROVE f[x] # r
  BY <1>1, <1>2, <1>3, <1>5 DEF Issued, Revoking
<1>6. Unrevoked(u)' \subseteq Tokens BY DEF Unrevoked
<1>7. \A x, y \in Unrevoked(u)' : g[x] = g[y] => x = y
  BY <1>1, <1>3, <1>4, <1>5, <1>6 DEF Issued
<1>8. ASSUME NEW x \in Unrevoked(u)'
      PROVE  g[x] \in Requests /\ (Revoking(g[x], u)' => x \in request'[g[x]].rows)
  <2>1. CASE x = t BY <1>2, <1>6, <2>1 DEF Revoking, LoginTypeOK
  <2>2. CASE x # t
    <3>1. g[x] = f[x] /\ x \in Unrevoked(u) BY <1>3, <1>6, <2>2
    <3>2. f[x] \in Requests /\ (Revoking(f[x], u) => x \in request[f[x]].rows) BY <1>1, <3>1 DEF Issued
    <3>3. Revoking(f[x], u)' => Revoking(f[x], u) /\ request'[f[x]] = request[f[x]]
      BY <1>2, <3>2 DEF Revoking, LoginTypeOK
    <3> QED BY <3>1, <3>2, <3>3
  <2> QED BY <2>1, <2>2
<1> HIDE DEF g
<1>9. Issued(u, g)' BY <1>7, <1>8 DEF Issued
<1> QED BY <1>9

LEMMA WorkingUser == ASSUME LoginTypeOK, NEW r \in Requests, request[r] # Idle
                     PROVE  request[r] \in Working /\ request[r].user \in Users
BY DEF LoginTypeOK, Working

\* Steps of the accounts, of logouts and of clocks, which no worker takes.
LEMMA OthersKeepSessions ==
  ASSUME SessionInv, LoginTypeOK', SessionsHaveUsers', UNCHANGED request,
         \A u \in Users : Unrevoked(u)' \subseteq Unrevoked(u)
  PROVE  SessionInv'
<1>1. SessionsEnd BY DEF SessionsEnd, Revoking
<1>2. WorkersIssue' BY <1>1, EndedSessionsKeepWorkers DEF SessionInv
<1>3. LoneRequestsSeeAll' BY WorkingUser DEF SessionInv, LoneRequestsSeeAll
<1> QED BY <1>2, <1>3 DEF SessionInv

LEMMA BeginKeepsSessions ==
  ASSUME SessionInv, NEW r \in Requests, NEW u \in Users, NEW for \in {"session", "reset"}, Begin(r, u, for)
  PROVE  SessionInv'
<1> DEFINE others == {q \in Requests : request[q] # Idle}
<1>1. UNCHANGED <<userVars, tokenVars, links>> BY DEF Begin
<1>2. ASSUME NEW q \in Requests
      PROVE  /\ request'[q] \in Working \cup {Idle}
             /\ q = r => request'[q].step = "checked" /\ request'[q] # Idle /\ (request'[q].alone => others = {})
             /\ q # r => /\ request'[q] # Idle <=> request[q] # Idle
                         /\ request[q] # Idle => /\ request'[q].step = request[q].step
                                                 /\ request'[q].for = request[q].for
                                                 /\ request'[q].user = request[q].user
                                                 /\ request'[q].rows = request[q].rows
                                                 /\ ~request'[q].alone
  <2>1. CASE q = r
    <3>1. request'[q] = [step |-> "checked", for |-> for, user |-> u, rows |-> {}, alone |-> others = {}]
      BY <2>1 DEF Begin
    <3>2. (others = {}) \in BOOLEAN OBVIOUS
    <3> HIDE DEF others
    <3>3. request'[q] \in Working BY <3>1, <3>2 DEF Working
    <3>4. request'[q].step = "checked" BY <3>1
    <3>5. request'[q].alone = (others = {}) BY <3>1
    <3>6. request'[q].alone => others = {} BY <3>5
    <3> QED BY <2>1, <3>3, <3>4, <3>6, IdentityAssumption
  <2>2. CASE q # r /\ request[q] # Idle
    <3>1. request[q] \in Working BY <2>2 DEF SessionInv, LoginTypeOK
    <3>2. request'[q] = [request[q] EXCEPT !.alone = FALSE] BY <2>2 DEF Begin
    <3>3. [request[q] EXCEPT !.alone = FALSE] \in Working BY <3>1 DEF Working
    <3> QED BY <2>2, <3>1, <3>2, <3>3, IdentityAssumption DEF Working
  <2>3. CASE q # r /\ request[q] = Idle BY <2>3 DEF Begin
  <2> QED BY <2>1, <2>2, <2>3
<1>3. LoginTypeOK'
  <2>1. request' \in [Requests -> Working \cup {Idle}] BY <1>2 DEF Begin
  <2> QED BY <1>1, <2>1 DEF userVars, tokenVars, SessionInv, LoginTypeOK
<1>4. SessionsHaveUsers' BY <1>1 DEF userVars, tokenVars, SessionInv, SessionsHaveUsers, HasAccount
<1>5. \A v \in Users : Unrevoked(v)' = Unrevoked(v) BY <1>1 DEF tokenVars, Unrevoked
<1>6. SessionsEnd
  <2>1. ASSUME NEW q \in Requests, NEW v \in Users, Revoking(q, v)'
        PROVE  Revoking(q, v) /\ request'[q].rows = request[q].rows
    <3>1. q # r BY <1>2, <2>1 DEF Revoking
    <3> QED BY <1>2, <2>1, <3>1 DEF Revoking
  <2> QED BY <1>5, <2>1 DEF SessionsEnd
<1>7. WorkersIssue' BY <1>6, EndedSessionsKeepWorkers DEF SessionInv
<1>8. LoneRequestsSeeAll'
  <2> SUFFICES ASSUME NEW q \in Requests, request'[q] # Idle, request'[q].alone
               PROVE  q = r /\ others = {}
    BY <1>2 DEF LoneRequestsSeeAll
  <2> QED BY <1>2
<1> QED BY <1>3, <1>4, <1>7, <1>8 DEF SessionInv

LEMMA UpdateKeepsSessions ==
  ASSUME SessionInv, NEW r \in Requests, StartUpdate(r) \/ EndUpdate(r)
  PROVE  SessionInv'
<1> DEFINE u == request[r].user
<1>1. UNCHANGED <<userVars, tokenVars, links>> /\ request[r] # Idle BY DEF StartUpdate, EndUpdate
<1>2. request[r] \in Working /\ u \in Users BY <1>1, WorkingUser DEF SessionInv
<1>3. PICK step \in {"updating", "updated"}, rows \in SUBSET Tokens :
        /\ request' = [request EXCEPT ![r].step = step, ![r].rows = rows]
        /\ \/ rows = Unrevoked(u)
           \/ request[r].step = "updating" /\ rows = request[r].rows \cap Unrevoked(u)
  <2>1. Unrevoked(u) \subseteq Tokens BY DEF Unrevoked
  <2>2. CASE StartUpdate(r) BY <2>1, <2>2 DEF StartUpdate
  <2>3. CASE EndUpdate(r)
    <3>1. request[r].rows \cap Unrevoked(u) \subseteq Tokens BY <2>1
    <3> QED BY <2>3, <3>1 DEF EndUpdate
  <2> QED BY <2>2, <2>3
<1>4. /\ request'[r] \in Working /\ request'[r].step = step /\ request'[r].rows = rows
      /\ request'[r].for = request[r].for /\ request'[r].user = u /\ request'[r].alone = request[r].alone
  <2>1. request'[r] = [request[r] EXCEPT !.step = step, !.rows = rows] BY <1>2, <1>3 DEF SessionInv, LoginTypeOK, Working
  <2> QED BY <1>2, <2>1 DEF Working
<1>5. \A q \in Requests : q # r => request'[q] = request[q] BY <1>3 DEF SessionInv, LoginTypeOK
<1>6. request'[r] # Idle BY <1>4, IdentityAssumption
<1>7. LoginTypeOK'
  <2>1. request' \in [Requests -> Working \cup {Idle}] BY <1>3, <1>4, <1>5 DEF SessionInv, LoginTypeOK
  <2> QED BY <1>1, <2>1 DEF userVars, tokenVars, SessionInv, LoginTypeOK
<1>8. SessionsHaveUsers' BY <1>1 DEF userVars, tokenVars, SessionInv, SessionsHaveUsers, HasAccount
<1>9. \A v \in Users : Unrevoked(v)' = Unrevoked(v) BY <1>1 DEF tokenVars, Unrevoked
<1> HIDE DEF u
<1>10. ASSUME NEW q \in Requests, NEW v \in Users, Revoking(q, v)', NEW t \in Unrevoked(v),
              Revoking(q, v) => t \in request[q].rows
       PROVE  t \in request'[q].rows
  <2>1. CASE q # r BY <1>5, <1>10, <2>1 DEF Revoking
  <2>2. CASE q = r
    <3>1. v = u /\ request[r].for = "session" BY <1>4, <1>10, <2>2 DEF Revoking
    <3>2. request[r].step = "updating" => Revoking(r, u) BY <1>1, <3>1 DEF Revoking, u
    <3> QED BY <1>3, <1>4, <1>10, <2>2, <3>1, <3>2
  <2> QED BY <2>1, <2>2
<1>11. SessionsEnd BY <1>9, <1>10 DEF SessionsEnd
<1>12. WorkersIssue' BY <1>11, EndedSessionsKeepWorkers DEF SessionInv
<1>13. LoneRequestsSeeAll'
  <2> SUFFICES ASSUME NEW q \in Requests, request'[q] # Idle, request'[q].alone
               PROVE  /\ \A o \in Requests : o # q => request'[o] = Idle
                      /\ request'[q].step \in {"updating", "updated"} =>
                           Unrevoked(request[q].user)' \subseteq request'[q].rows
    BY DEF LoneRequestsSeeAll
  <2>1. q = r BY <1>1, <1>5 DEF SessionInv, LoneRequestsSeeAll
  <2>2. \A o \in Requests : o # r => request'[o] = Idle
    BY <1>1, <1>4, <1>5, <2>1 DEF SessionInv, LoneRequestsSeeAll
  <2>3. request[r].step = "updating" => Unrevoked(u) \subseteq request[r].rows
    BY <1>1, <1>4, <2>1 DEF SessionInv, LoneRequestsSeeAll, u
  <2>4. Unrevoked(u) \subseteq rows BY <1>3, <2>3
  <2>5. Unrevoked(request[r].user)' = Unrevoked(u) BY <1>1, <1>4 DEF tokenVars, Unrevoked
  <2> QED BY <1>4, <2>1, <2>2, <2>4, <2>5
<1> QED BY <1>7, <1>8, <1>12, <1>13 DEF SessionInv

LEMMA CommitsKeepSessions ==
  ASSUME SessionInv, NEW r \in Requests,
         (\E t \in Tokens : Issue(r, t)) \/ FinishReset(r) \/ RollBack(r)
  PROVE  SessionInv'
<1>1. request[r] # Idle /\ request' = [request EXCEPT ![r] = Idle] BY DEF Issue, FinishReset, RollBack, Commits
<1>2. UNCHANGED <<userVars, links>> BY DEF Issue, FinishReset, RollBack, tokenVars
<1>3. LoginTypeOK'
  <2>1. request' \in [Requests -> Working \cup {Idle}] BY <1>1 DEF SessionInv, LoginTypeOK
  <2>2. /\ owner' \in [Tokens -> Users \cup {NoUser}] /\ revoked' \in [Tokens -> BOOLEAN]
        /\ expired' \in [Tokens -> BOOLEAN]
    BY <1>1, WorkingUser DEF Issue, FinishReset, RollBack, tokenVars, SessionInv, LoginTypeOK
  <2> QED BY <1>2, <2>1, <2>2 DEF userVars, SessionInv, LoginTypeOK
<1>4. SessionsHaveUsers'
  <2>1. CASE \E t \in Tokens : Issue(r, t)
    BY <1>2, <2>1 DEF Issue, UserStillThere, userVars, SessionInv, SessionsHaveUsers, HasAccount, LoginTypeOK
  <2>2. CASE FinishReset(r) \/ RollBack(r)
    BY <1>2, <2>2 DEF FinishReset, RollBack, tokenVars, userVars, SessionInv, SessionsHaveUsers, HasAccount
  <2> QED BY <2>1, <2>2
<1>5. WorkersIssue'
  <2>1. CASE \E t \in Tokens : Issue(r, t) BY <2>1, IssueKeepsWorkers DEF SessionInv
  <2>2. CASE FinishReset(r) \/ RollBack(r)
    <3>1. \A v \in Users : Unrevoked(v)' \subseteq Unrevoked(v)
      BY <2>2 DEF FinishReset, RollBack, tokenVars, Unrevoked, SessionInv, LoginTypeOK
    <3>2. ASSUME NEW q \in Requests, NEW v \in Users, Revoking(q, v)'
          PROVE  Revoking(q, v) /\ request'[q] = request[q]
      BY <1>1, <3>2 DEF Revoking, SessionInv, LoginTypeOK
    <3>3. SessionsEnd BY <3>1, <3>2 DEF SessionsEnd
    <3> QED BY <3>3, EndedSessionsKeepWorkers DEF SessionInv
  <2> QED BY <2>1, <2>2
<1>6. LoneRequestsSeeAll'
  <2>1. ASSUME NEW q \in Requests, request[q] # Idle, request[q].alone PROVE q = r
    BY <1>1, <2>1 DEF SessionInv, LoneRequestsSeeAll
  <2> QED BY <1>1, <2>1 DEF LoneRequestsSeeAll, SessionInv, LoginTypeOK
<1> QED BY <1>3, <1>4, <1>5, <1>6 DEF SessionInv

LEMMA RemovalsKeepSessions ==
  ASSUME SessionInv, NEW rows \in SUBSET Tokens, RemoveTokens(rows), UNCHANGED <<links, request>>,
         role' \in [Users -> {"none", "gone", "fan", "manager", "admin"}], verified' \in [Users -> BOOLEAN],
         \A t \in Tokens : owner'[t] # NoUser => role'[owner[t]] = role[owner[t]]
  PROVE  SessionInv'
<1>1. ASSUME NEW t \in Tokens
      PROVE  /\ owner'[t] = IF t \in rows THEN NoUser ELSE owner[t]
             /\ revoked'[t] = (t \notin rows /\ revoked[t])
  BY DEF RemoveTokens
<1>2. LoginTypeOK' BY DEF RemoveTokens, SessionInv, LoginTypeOK
<1>3. SessionsHaveUsers' BY <1>1 DEF SessionInv, SessionsHaveUsers, HasAccount
<1>4. ASSUME NEW u \in Users PROVE Unrevoked(u)' \subseteq Unrevoked(u)
  BY <1>1, IdentityAssumption DEF Unrevoked
<1> QED BY <1>2, <1>3, <1>4, OthersKeepSessions

LEMMA DeletionKeepsSessions == ASSUME SessionInv, NEW u \in Users, DeleteUser(u) PROVE SessionInv'
<1>1. role' \in [Users -> {"none", "gone", "fan", "manager", "admin"}] /\ verified' \in [Users -> BOOLEAN]
  BY DEF DeleteUser, SessionInv, LoginTypeOK
<1>2. ASSUME NEW t \in Tokens, owner'[t] # NoUser PROVE role'[owner[t]] = role[owner[t]]
  BY <1>2 DEF DeleteUser, RemoveTokens, SessionInv, LoginTypeOK
<1>3. {t \in Tokens : owner[t] = u} \in SUBSET Tokens OBVIOUS
<1> QED BY <1>1, <1>2, <1>3, RemovalsKeepSessions DEF DeleteUser

LEMMA SessionStepsKeepSessions == ASSUME SessionInv, SessionNext PROVE SessionInv'
<1>1. ASSUME NEW r \in Requests, NEW u \in Users, Login(r, u) \/ SetPassword(r, u) PROVE SessionInv'
  BY <1>1, BeginKeepsSessions DEF Login, SetPassword
<1>2. ASSUME NEW r \in Requests, NEW t \in Tokens, Refresh(r, t) PROVE SessionInv'
  <2>1. owner[t] \in Users BY <1>2 DEF Refresh, SessionInv, LoginTypeOK
  <2> QED BY <1>2, <2>1, BeginKeepsSessions DEF Refresh
<1>3. ASSUME NEW r \in Requests,
             \/ \E t \in Tokens : Issue(r, t)
             \/ StartUpdate(r) \/ EndUpdate(r) \/ FinishReset(r) \/ RollBack(r)
      PROVE  SessionInv'
  BY <1>3, UpdateKeepsSessions, CommitsKeepSessions
<1>4. ASSUME NEW t \in Tokens, Logout(t) \/ TokenExpires(t) PROVE SessionInv'
  <2>1. UNCHANGED <<userVars, owner, links, request>> BY <1>4 DEF Logout, TokenExpires
  <2>2. LoginTypeOK' BY <1>4, <2>1 DEF Logout, TokenExpires, userVars, SessionInv, LoginTypeOK
  <2>3. SessionsHaveUsers' BY <2>1 DEF userVars, SessionInv, SessionsHaveUsers, HasAccount
  <2>4. \A u \in Users : Unrevoked(u)' \subseteq Unrevoked(u)
    BY <1>4 DEF Logout, TokenExpires, Unrevoked, SessionInv, LoginTypeOK
  <2> QED BY <2>1, <2>2, <2>3, <2>4, OthersKeepSessions
<1>5. CASE CleanupExpiredTokens
  <2>1. {t \in Tokens : revoked[t] \/ expired[t]} \in SUBSET Tokens OBVIOUS
  <2> QED
    BY <1>5, <2>1, RemovalsKeepSessions DEF CleanupExpiredTokens, userVars, SessionInv, LoginTypeOK
<1> QED BY <1>1, <1>2, <1>3, <1>4, <1>5 DEF SessionNext

LEMMA AccountStepsKeepSessions ==
  ASSUME SessionInv, AccountNext \/ ResetLinkNext \/ VerificationNext PROVE SessionInv'
<1>1. ASSUME NEW u \in Users, DeleteUserAndNotices(u) PROVE SessionInv'
  BY <1>1, DeletionKeepsSessions DEF DeleteUserAndNotices
<1>2. ASSUME UNCHANGED <<tokenVars, request>>, LoginTypeOK', \A u \in Users : HasAccount(u) => HasAccount(u)'
      PROVE  SessionInv'
  <2>1. SessionsHaveUsers' BY <1>2 DEF tokenVars, SessionInv, SessionsHaveUsers, LoginTypeOK
  <2>2. \A u \in Users : Unrevoked(u)' = Unrevoked(u) BY <1>2 DEF tokenVars, Unrevoked
  <2> QED BY <1>2, <2>1, <2>2, OthersKeepSessions
<1>3. ASSUME NEW u \in Users,
             CreateUser(u) \/ PromoteAdmin(u) \/ (\E c \in companies : CreateManager(u, c))
      PROVE  SessionInv'
  <2>1. UNCHANGED <<tokenVars, links, request>> BY <1>3 DEF CreateUser, PromoteAdmin, CreateManager
  <2>2. PICK new \in {"fan", "manager", "admin"} : role' = [role EXCEPT ![u] = new]
    BY <1>3 DEF CreateUser, PromoteAdmin, CreateManager
  <2>3. verified' \in [Users -> BOOLEAN]
    BY <1>3 DEF CreateUser, PromoteAdmin, CreateManager, SessionInv, LoginTypeOK
  <2>4. LoginTypeOK' BY <2>1, <2>2, <2>3 DEF tokenVars, SessionInv, LoginTypeOK
  <2>5. \A v \in Users : HasAccount(v) => HasAccount(v)' BY <2>2 DEF HasAccount, SessionInv, LoginTypeOK
  <2> QED BY <1>2, <2>1, <2>4, <2>5
<1>4. CASE ResetLinkNext \/ VerificationNext
  <2>1. UNCHANGED <<role, tokenVars, request>>
    BY <1>4 DEF ResetLinkNext, VerificationNext, SendLink, LinkExpires, VerifyEmail, ChangePassword, userVars,
      identityVars, tokenVars
  <2>2. verified' \in [Users -> BOOLEAN]
    BY <1>4 DEF ResetLinkNext, VerificationNext, SendLink, LinkExpires, VerifyEmail, ChangePassword, userVars,
      identityVars, SessionInv, LoginTypeOK
  <2>3. links' \subseteq Users \X TokenTypes
    <3>1. ASSUME NEW u \in Users, NEW type \in TokenTypes, SendLink(u, type) \/ LinkExpires(u, type)
          PROVE  links' \subseteq Users \X TokenTypes
      BY <3>1 DEF SendLink, LinkExpires, SessionInv, LoginTypeOK
    <3>2. "reset" \in TokenTypes /\ "verify" \in TokenTypes BY DEF TokenTypes
    <3>3. ASSUME NEW u \in Users, VerifyEmail(u) \/ ChangePassword(u) PROVE links' = links
      BY <3>3 DEF VerifyEmail, ChangePassword, identityVars
    <3> QED BY <1>4, <3>1, <3>2, <3>3 DEF ResetLinkNext, VerificationNext, SessionInv, LoginTypeOK
  <2>4. LoginTypeOK' BY <2>1, <2>2, <2>3 DEF tokenVars, SessionInv, LoginTypeOK
  <2> QED BY <1>2, <2>1, <2>4 DEF HasAccount
<1> QED BY <1>1, <1>3, <1>4 DEF AccountNext

\* role, sessions and requests, which the site never writes
loginVars == <<role, verified, tokenVars, links, request>>

LEMMA IdleKeepsSessions == ASSUME SessionInv, UNCHANGED loginVars PROVE SessionInv'
<1> USE DEF loginVars
<1>1. LoginTypeOK' /\ SessionsHaveUsers' /\ (\A u \in Users : Unrevoked(u)' = Unrevoked(u))
  BY DEF tokenVars, SessionInv, LoginTypeOK, SessionsHaveUsers, HasAccount, Unrevoked
<1> QED BY <1>1, OthersKeepSessions

\* What a step is to sessions.
LEMMA StepsOfSessions ==
  ASSUME [Next]_vars
  PROVE  UNCHANGED loginVars \/ SessionNext \/ AccountNext \/ ResetLinkNext \/ VerificationNext
<1>1. NoticeNext => UNCHANGED loginVars
  BY DEF NoticeNext, ScheduleDraw, TaskSteps, SendTask, TakeTask, DrawCommits, DrawRefused, ClearPage,
    TellCompletion, TellFailure, TaskNotSent, DrawRaises, TaskIsLost, MarkAsRead, MarkAllAsRead, identityVars,
    loginVars, tokenVars
<1>2. (\E u \in Users : DeleteUserAndNotices(u)) => AccountNext BY DEF AccountNext
<1>3. UNCHANGED identityVars => UNCHANGED loginVars BY DEF identityVars, loginVars, tokenVars
<1>4. CASE AccountStep("sessions", Sessions) \/ AccountStep("notices", Notices)
           \/ AccountStep("verifications", Verifications)
  BY <1>1, <1>2, <1>4 DEF AccountStep, Sessions, Notices, Verifications
<1> QED BY <1>3, <1>4 DEF Next, SiteStep, ContactStep, UploadStep, vars, loginVars, accountVars

LEMMA NextSessions == SessionInv /\ [Next]_vars => SessionInv'
BY StepsOfSessions, IdleKeepsSessions, SessionStepsKeepSessions, AccountStepsKeepSessions

\* How many sessions of a user overlapping logins and refreshes can leave.
OnePerWorker == \A u \in Users : Cardinality(Unrevoked(u)) <= Cardinality(Requests)

\* Any number of logins and refreshes at a time leave no more sessions of a
\* user than there are workers.
THEOREM SessionsStayBounded == Spec => []OnePerWorker
<1>1. SessionInv => OnePerWorker
  <2> SUFFICES ASSUME SessionInv, NEW u \in Users PROVE Cardinality(Unrevoked(u)) <= Cardinality(Requests)
    BY DEF OnePerWorker
  <2>1. PICK f : Issued(u, f) BY DEF SessionInv, WorkersIssue
  <2> DEFINE g == [t \in Unrevoked(u) |-> f[t]]
  <2>2. g \in Injection(Unrevoked(u), Requests)
    BY <2>1 DEF Issued, Injection, IsInjective
  <2> QED BY <2>2, FS_Injection, IdentityAssumption
<1>2. Spec => []SessionInv BY InitSessions, NextSessions, PTL DEF Spec
<1> QED BY <1>1, <1>2, PTL

\* A login or refresh that ran alone leaves one session of its user, a reset
\* none, for any number of workers.
THEOREM LoneRequestsEndSessions == Spec => LoneRequestEndsSessions
<1> DEFINE Alone ==
      \A r \in Requests :
        (/\ request[r] # Idle /\ request[r].alone /\ request[r].step = "updated"
         /\ \/ request[r].for = "session" /\ \E t \in Tokens : owner[t] = NoUser /\ owner'[t] = request[r].user
            \/ FinishReset(r))
        => \A t \in Tokens : (owner'[t] = request[r].user /\ ~revoked'[t]) => owner[t] = NoUser
<1>1. ASSUME SessionInv, [Next]_vars, NEW r \in Requests, request[r] # Idle, request[r].alone,
             request[r].step = "updated", NEW t \in Tokens,
             owner'[t] = request[r].user, ~revoked'[t], owner[t] # NoUser,
             \/ request[r].for = "session" /\ \E x \in Tokens : owner[x] = NoUser /\ owner'[x] = request[r].user
             \/ FinishReset(r)
      PROVE  FALSE
  <2>1. Unrevoked(request[r].user) \subseteq request[r].rows BY <1>1 DEF SessionInv, LoneRequestsSeeAll
  <2>2. request[r].user \in Users BY <1>1, WorkingUser DEF SessionInv
  <2>3. CASE FinishReset(r) BY <1>1, <2>1, <2>3 DEF FinishReset, Unrevoked
  <2>4. CASE \E x \in Tokens : owner[x] = NoUser /\ owner'[x] = request[r].user
    <3>1. PICK x \in Tokens : owner[x] = NoUser /\ owner'[x] \in Users BY <2>2, <2>4
    <3>2. \E q \in Requests, y \in Tokens : Issue(q, y)
      <4>1. owner'[x] # NoUser BY <3>1, IdentityAssumption
      <4>2. owner' # owner BY <3>1, <4>1
      <4>3. ~(UNCHANGED loginVars \/ ResetLinkNext \/ VerificationNext)
        BY <4>2 DEF loginVars, tokenVars, ResetLinkNext, VerificationNext, SendLink, LinkExpires, VerifyEmail,
          ChangePassword, identityVars
      <4>4. ~AccountNext
        BY <3>1, <4>1, <4>2, ZenonT(30) DEF AccountNext, CreateUser, PromoteAdmin, CreateManager, DeleteUserAndNotices,
          DeleteUser, RemoveTokens, tokenVars
      <4>5. SessionNext BY <1>1, <4>3, <4>4, StepsOfSessions
      <4> QED
        BY <3>1, <4>1, <4>2, <4>5 DEF SessionNext, Login, SetPassword, Refresh, Begin, StartUpdate, EndUpdate,
          FinishReset, RollBack, Logout, TokenExpires, CleanupExpiredTokens, RemoveTokens, tokenVars
    <3>3. PICK q \in Requests, y \in Tokens : Issue(q, y) BY <3>2
    <3>4. q = r BY <1>1, <3>3 DEF Issue, Commits, SessionInv, LoneRequestsSeeAll
    <3>5. y # t BY <1>1, <3>3 DEF Issue, NeverUsed
    <3>6. owner[t] = request[r].user /\ t \notin request[r].rows /\ ~revoked[t]
      BY <1>1, <3>3, <3>4, <3>5 DEF Issue, SessionInv, LoginTypeOK
    <3> QED BY <2>1, <3>6 DEF Unrevoked
  <2> QED BY <1>1, <2>3, <2>4
<1>2. SessionInv /\ [Next]_vars => [Alone]_identityVars BY <1>1
<1> HIDE DEF Alone
<1>3. Spec => []SessionInv BY InitSessions, NextSessions, PTL DEF Spec
<1>4. Spec => [][Alone]_identityVars BY <1>2, <1>3, PTL DEF Spec
<1> QED BY <1>4 DEF Alone, LoneRequestEndsSessions

-----------------------------------------------------------------------------
(***************************************************************************)
(* Notices of draws                                                        *)
(***************************************************************************)
\* Whoever was told of a finished draw and still manages the company was told
\* its result.
ResultsTold ==
  \A u \in CompanyManagers, d \in Draws :
    (draw[d] = "done" /\ Has(u, d, "lottery_draw_triggered")) => \E type \in Results : Has(u, d, type)

\* Notices are of draws that began, results of draws that ended, all of one
\* draw agree, and "completed" was true when it was said or about to be.
NoticesFollowDraws ==
  /\ \A n \in notice : draw[n.of] # "none"
  /\ \A n \in notice : n.type \in Results => draw[n.of] = "done"
  /\ \A n \in notice : n.type = "lottery_draw_completed" => n.of \in drawn
  /\ \A d \in Draws : draw[d] \in {"committed", "cleared"} => d \in drawn
  /\ \A n, m \in notice : (n.of = m.of /\ n.type \in Results /\ m.type \in Results) => n.type = m.type

\* Notices go with their user; someone who is made a manager later was told
\* of no draw.
NoticesHaveUsers == \A n \in notice : HasAccount(n.to)

NoticeInv ==
  /\ NoticeTypeOK
  /\ NoticesFollowDraws
  /\ NoticesHaveUsers
  /\ ResultsTold
  /\ part = "site" => notice = {}

LEMMA InitNotices == Init => NoticeInv
BY NoticeAssumption DEF Init, NoticeInit, NoticeInv, NoticeTypeOK, NoticesFollowDraws, NoticesHaveUsers,
  ResultsTold, Has

LEMMA ManagersAreUsers ==
  ASSUME NEW u \in CompanyManagers PROVE u \in Users /\ HasAccount(u)
BY DEF CompanyManagers, Managers, HasAccount

\* Steps of a task that nobody is told of.
LEMMA QuietStepsKeepNotices ==
  ASSUME NoticeInv, UNCHANGED <<role, employer, concert, part, notice>>, NoticeTypeOK',
         NEW d \in Draws, NEW to \in {"queued", "drawing", "committed", "cleared", "failing", "lost"},
         draw[d] \notin {"none", "done"}, draw' = [draw EXCEPT ![d] = to],
         drawn \subseteq drawn', to \in {"committed", "cleared"} => d \in drawn'
  PROVE  NoticeInv'
<1> USE DEF NoticeInv
<1>1. \A e \in Draws : e # d => draw'[e] = draw[e] BY DEF NoticeTypeOK
<1>2. draw'[d] = to BY DEF NoticeTypeOK
<1>3. \A n \in notice : n.of \in Draws BY DEF NoticeTypeOK, NoticeRow
<1>4. NoticesFollowDraws' BY <1>1, <1>2, <1>3 DEF NoticesFollowDraws
<1>5. NoticesHaveUsers' BY DEF NoticesHaveUsers, HasAccount
<1>6. ResultsTold' BY <1>1, <1>2 DEF ResultsTold, CompanyManagers, Managers, Has
<1> QED BY <1>4, <1>5, <1>6

LEMMA ScheduleKeepsNotices ==
  ASSUME NoticeInv, UNCHANGED <<concert, part>>, part # "site", NEW u \in Staff, NEW d \in Draws, ScheduleDraw(u, d)
  PROVE  NoticeInv'
<1> USE DEF NoticeInv
<1>1. /\ draw[d] = "none" /\ draw' = [draw EXCEPT ![d] = "told"] /\ scheduler' = [scheduler EXCEPT ![d] = u]
      /\ notice' = notice \cup NoticesOf(d, "lottery_draw_triggered")
      /\ UNCHANGED <<drawn, faults, role, employer>>
  BY DEF ScheduleDraw, DrawGoes, identityVars
<1>2. ASSUME NEW n \in NoticesOf(d, "lottery_draw_triggered")
      PROVE  n \in NoticeRow /\ n.of = d /\ n.type = "lottery_draw_triggered" /\ HasAccount(n.to)
  BY ManagersAreUsers DEF NoticesOf, NoticeRow, NoticeTypes
<1>3. NoticeTypeOK' BY <1>1, <1>2 DEF NoticeTypeOK, Staff, Managers, Admins
<1>4. \A e \in Draws : e # d => draw'[e] = draw[e] BY <1>1 DEF NoticeTypeOK
<1>5. draw'[d] = "told" BY <1>1 DEF NoticeTypeOK
<1>6. \A n \in notice : n.of \in Draws BY DEF NoticeTypeOK, NoticeRow
<1>7. NoticesFollowDraws' BY <1>1, <1>2, <1>4, <1>5, <1>6 DEF NoticesFollowDraws, Results
<1>8. NoticesHaveUsers' BY <1>1, <1>2 DEF NoticesHaveUsers, HasAccount
<1>9. ResultsTold'
  <2> SUFFICES ASSUME NEW v \in CompanyManagers, NEW e \in Draws, draw'[e] = "done",
                      Has(v, e, "lottery_draw_triggered")'
               PROVE  \E type \in Results : Has(v, e, type)'
    BY <1>1 DEF ResultsTold, CompanyManagers, Managers
  <2>1. e # d BY <1>5
  <2>2. Has(v, e, "lottery_draw_triggered") BY <1>1, <1>2, <2>1 DEF Has
  <2>3. PICK type \in Results : Has(v, e, type) BY <1>4, <2>1, <2>2 DEF ResultsTold
  <2> QED BY <1>1, <2>3 DEF Has
<1> QED BY <1>3, <1>7, <1>8, <1>9

LEMMA TellingKeepsNotices ==
  ASSUME NoticeInv, UNCHANGED <<concert, part>>, part # "site", NEW d \in Draws,
         TellCompletion(d) \/ TellFailure(d)
  PROVE  NoticeInv'
<1> USE DEF NoticeInv
<1>1. PICK type \in Results :
        /\ draw[d] \in {"cleared", "failing"} /\ draw' = [draw EXCEPT ![d] = "done"]
        /\ type = "lottery_draw_completed" => draw[d] = "cleared"
        /\ notice' = notice \cup NoticesOf(d, type)
        /\ UNCHANGED <<scheduler, drawn, faults, role, employer>>
  BY DEF TellCompletion, TellFailure, DrawGoes, identityVars, Results
<1>2. ASSUME NEW n \in NoticesOf(d, type)
      PROVE  n \in NoticeRow /\ n.of = d /\ n.type = type /\ HasAccount(n.to)
  <2>1. type \in NoticeTypes BY DEF Results, NoticeTypes
  <2> QED BY <2>1, ManagersAreUsers DEF NoticesOf, NoticeRow
<1>3. NoticeTypeOK' BY <1>1, <1>2 DEF NoticeTypeOK
<1>4. \A e \in Draws : e # d => draw'[e] = draw[e] BY <1>1 DEF NoticeTypeOK
<1>5. draw'[d] = "done" BY <1>1 DEF NoticeTypeOK
<1>6. \A n \in notice : n.of \in Draws BY DEF NoticeTypeOK, NoticeRow
<1>7. \A n \in notice : n.type \in Results => n.of # d BY <1>1 DEF NoticesFollowDraws
<1>8. type = "lottery_draw_completed" => d \in drawn' BY <1>1 DEF NoticesFollowDraws
<1>9. NoticesFollowDraws'
  <2>1. \A n \in notice' : draw'[n.of] # "none" BY <1>1, <1>2, <1>4, <1>5, <1>6 DEF NoticesFollowDraws
  <2>2. \A n \in notice' : n.type \in Results => draw'[n.of] = "done"
    BY <1>1, <1>2, <1>4, <1>5, <1>6 DEF NoticesFollowDraws
  <2>3. \A n \in notice' : n.type = "lottery_draw_completed" => n.of \in drawn'
    BY <1>1, <1>2, <1>8 DEF NoticesFollowDraws
  <2>4. \A e \in Draws : draw'[e] \in {"committed", "cleared"} => e \in drawn'
    BY <1>1, <1>4, <1>5 DEF NoticesFollowDraws
  <2>5. \A n, m \in notice' : (n.of = m.of /\ n.type \in Results /\ m.type \in Results) => n.type = m.type
    BY <1>1, <1>2, <1>7 DEF NoticesFollowDraws
  <2> QED BY <2>1, <2>2, <2>3, <2>4, <2>5 DEF NoticesFollowDraws
<1>10. NoticesHaveUsers' BY <1>1, <1>2 DEF NoticesHaveUsers, HasAccount
<1>11. ResultsTold'
  <2> SUFFICES ASSUME NEW v \in CompanyManagers, NEW e \in Draws, draw'[e] = "done",
                      Has(v, e, "lottery_draw_triggered")'
               PROVE  \E t \in Results : Has(v, e, t)'
    BY <1>1 DEF ResultsTold, CompanyManagers, Managers
  <2>1. CASE e = d
    <3>1. [to |-> v, type |-> type, of |-> d] \in NoticesOf(d, type) BY DEF NoticesOf
    <3>2. Has(v, d, type)' BY <1>1, <3>1 DEF Has
    <3> QED BY <2>1, <3>2
  <2>2. CASE e # d
    <3>1. Has(v, e, "lottery_draw_triggered") BY <1>1, <1>2, <2>2 DEF Has
    <3>2. PICK t \in Results : Has(v, e, t) BY <1>4, <2>2, <3>1 DEF ResultsTold
    <3> QED BY <1>1, <3>2 DEF Has
  <2> QED BY <2>1, <2>2
<1> QED BY <1>3, <1>9, <1>10, <1>11

LEMMA NoticeStepsKeepNotices ==
  ASSUME NoticeInv, UNCHANGED <<concert, part>>, part # "site", NoticeNext PROVE NoticeInv'
<1> USE NoticeAssumption
<1>1. ASSUME NEW d \in Draws,
             \/ SendTask(d) \/ TakeTask(d) \/ DrawCommits(d) \/ DrawRefused(d) \/ ClearPage(d)
             \/ TaskNotSent(d) \/ DrawRaises(d) \/ TaskIsLost(d)
      PROVE  NoticeInv'
  <2>1. UNCHANGED <<role, employer, scheduler, notice>>
    BY <1>1 DEF SendTask, TakeTask, DrawCommits, DrawRefused, ClearPage, TaskNotSent, DrawRaises, TaskIsLost,
      identityVars
  <2>2. PICK to \in {"queued", "drawing", "committed", "cleared", "failing", "lost"} :
          /\ draw[d] \notin {"none", "done"} /\ draw' = [draw EXCEPT ![d] = to]
          /\ to \in {"committed", "cleared"} => d \in drawn'
    BY <1>1 DEF SendTask, TakeTask, DrawCommits, DrawRefused, ClearPage, TaskNotSent, DrawRaises, TaskIsLost,
      DrawGoes, NoticeInv, NoticesFollowDraws
  <2>3. drawn \subseteq drawn' /\ drawn' \subseteq Draws /\ faults' \in 0..MaxFaults
    BY <1>1 DEF SendTask, TakeTask, DrawCommits, DrawRefused, ClearPage, TaskNotSent, DrawRaises, TaskIsLost,
      Fault, NoticeInv, NoticeTypeOK
  <2>4. NoticeTypeOK' BY <2>1, <2>2, <2>3 DEF NoticeInv, NoticeTypeOK
  <2> QED BY <2>1, <2>2, <2>3, <2>4, QuietStepsKeepNotices
<1>2. CASE \/ \E n \in notice : MarkAsRead(n)
           \/ \E u \in Users : MarkAllAsRead(u)
  BY <1>2 DEF MarkAsRead, MarkAllAsRead, noticeVars, identityVars, NoticeInv, NoticeTypeOK, NoticesFollowDraws,
    NoticesHaveUsers, ResultsTold, HasAccount, Has, CompanyManagers, Managers
<1> QED BY <1>1, <1>2, ScheduleKeepsNotices, TellingKeepsNotices DEF NoticeNext, TaskSteps

\* Accounts are made, promoted and deleted.
LEMMA AccountStepsKeepNotices ==
  ASSUME NoticeInv, LoginTypeOK, employer \in [Users -> Companies \cup {None}], UNCHANGED <<concert, part>>, AccountNext
  PROVE  NoticeInv'
<1> USE DEF NoticeInv
<1>1. PICK u \in Users : \/ CreateUser(u) /\ UNCHANGED noticeVars
                         \/ PromoteAdmin(u) /\ UNCHANGED noticeVars
                         \/ (\E c \in companies : CreateManager(u, c)) /\ UNCHANGED noticeVars
                         \/ DeleteUserAndNotices(u)
  BY DEF AccountNext
<1>2. /\ UNCHANGED <<draw, scheduler, drawn, faults>> /\ notice' \subseteq notice
      /\ \A n \in notice : n.to # u => n \in notice'
  BY <1>1 DEF noticeVars, DeleteUserAndNotices
<1>3. \A v \in Users : v # u => role'[v] = role[v] /\ employer'[v] = employer[v]
  <2>1. PICK new, c : /\ role' = [role EXCEPT ![u] = new]
                      /\ employer' = [employer EXCEPT ![u] = c] \/ UNCHANGED employer
    BY <1>1 DEF CreateUser, PromoteAdmin, CreateManager, DeleteUserAndNotices, DeleteUser
  <2> QED BY <2>1 DEF LoginTypeOK
<1>4. HasAccount(u)' \/ \A n \in notice' : n.to # u
  BY <1>1 DEF CreateUser, PromoteAdmin, CreateManager, DeleteUserAndNotices, LoginTypeOK, HasAccount
<1>5. NoticeTypeOK' /\ NoticesFollowDraws' BY <1>2 DEF NoticeTypeOK, NoticesFollowDraws
<1>6. NoticesHaveUsers' BY <1>2, <1>3, <1>4 DEF NoticesHaveUsers, HasAccount, NoticeTypeOK, NoticeRow
<1>7. u \notin Managers' \/ \A n \in notice : n.to # u
  <2>1. CASE CreateUser(u) \/ PromoteAdmin(u) \/ DeleteUserAndNotices(u)
    BY <2>1 DEF CreateUser, PromoteAdmin, DeleteUserAndNotices, DeleteUser, Managers, LoginTypeOK
  <2>2. CASE \E c \in companies : CreateManager(u, c)
    BY <2>2 DEF CreateManager, NoticesHaveUsers, HasAccount
  <2> QED BY <1>1, <2>1, <2>2
<1>8. ResultsTold'
  <2> SUFFICES ASSUME NEW v \in Users, v \in CompanyManagers', NEW d \in Draws, draw[d] = "done",
                      Has(v, d, "lottery_draw_triggered")'
               PROVE  \E type \in Results : Has(v, d, type)'
    BY <1>2 DEF ResultsTold, CompanyManagers, Managers
  <2>1. v # u BY <1>2, <1>7 DEF CompanyManagers, Has
  <2>2. v \in CompanyManagers BY <1>3, <2>1 DEF CompanyManagers, Managers
  <2>3. Has(v, d, "lottery_draw_triggered") BY <1>2 DEF Has
  <2>4. PICK type \in Results : Has(v, d, type) BY <2>2, <2>3 DEF ResultsTold
  <2> QED BY <1>2, <2>1, <2>4 DEF Has
<1> QED BY <1>2, <1>5, <1>6, <1>8

\* Sessions and links change nobody's role or employer; only an account that
\* is deleted takes its notices along.
LEMMA SessionStepsKeepRoles ==
  ASSUME SessionNext \/ ResetLinkNext \/ VerificationNext PROVE UNCHANGED <<role, employer>>
BY DEF SessionNext, ResetLinkNext, VerificationNext, Login, SetPassword, Refresh, Begin, Issue, StartUpdate,
  EndUpdate, FinishReset, RollBack, Logout, TokenExpires, CleanupExpiredTokens, SendLink, LinkExpires,
  VerifyEmail, ChangePassword, userVars, identityVars

LEMMA NextNotices == RowsInv /\ SessionInv /\ NoticeInv /\ [Next]_vars => NoticeInv'
<1> SUFFICES ASSUME RowsInv, SessionInv, NoticeInv, [Next]_vars PROVE NoticeInv' OBVIOUS
<1>1. ASSUME UNCHANGED <<role, employer, concert, part, noticeVars>> PROVE NoticeInv'
  BY <1>1 DEF noticeVars, NoticeInv, NoticeTypeOK, NoticesFollowDraws, NoticesHaveUsers, ResultsTold, HasAccount,
    Has, CompanyManagers, Managers
<1>2. CASE SiteStep(SiteNext)
  <2>1. notice = {} /\ UNCHANGED <<role, noticeVars, part>> BY <1>2 DEF SiteStep, NoticeInv
  <2> QED
    BY <2>1 DEF noticeVars, NoticeInv, NoticeTypeOK, NoticesFollowDraws, NoticesHaveUsers, ResultsTold, HasAccount, Has
<1>3. ASSUME NEW p \in {"sessions", "notices", "verifications"}, part = p, UNCHANGED <<rowVars, part>>,
             \/ Sessions \/ Notices \/ Verifications
      PROVE  NoticeInv'
  <2>1. UNCHANGED concert /\ part # "site" BY <1>3 DEF rowVars, concertVars
  <2>2. CASE AccountNext \/ \E u \in Users : DeleteUserAndNotices(u)
    <3>1. AccountNext BY <2>2 DEF AccountNext
    <3> QED BY <1>3, <2>1, <3>1, AccountStepsKeepNotices DEF RowsInv, TalentInv, SessionInv
  <2>3. CASE NoticeNext BY <1>3, <2>1, <2>3, NoticeStepsKeepNotices
  <2>4. CASE (SessionNext \/ ResetLinkNext \/ VerificationNext) /\ UNCHANGED noticeVars
    BY <1>1, <1>3, <2>1, <2>4, SessionStepsKeepRoles
  <2> QED BY <1>3, <2>2, <2>3, <2>4 DEF Sessions, Notices, Verifications
<1>4. CASE ContactStep(ContactNext) \/ UploadStep(UploadNext) \/ UNCHANGED vars
  <2>1. UNCHANGED <<role, employer, concert, part, noticeVars>>
    BY <1>4 DEF ContactStep, UploadStep, accountVars, identityVars, rowVars, concertVars, vars
  <2> QED BY <1>1, <2>1
<1> QED BY <1>2, <1>3, <1>4 DEF Next, AccountStep

\* For any number of draws, managers and failures: what managers are told of
\* a draw is true, of one result, and reaches all who were told it began.
THEOREM NoticesAreTrue == Spec => []ResultsAreTrue
<1> DEFINE Inv == RowsInv /\ SessionInv /\ NoticeInv
<1>1. Init => Inv BY InitRows, InitSessions, InitNotices
<1>2. Inv /\ [Next]_vars => Inv' BY NextRows, NextSessions, NextNotices
<1>3. Inv => ResultsAreTrue
  BY DEF NoticeInv, NoticesFollowDraws, ResultsTold, ResultsAreTrue, Has, Results
<1> HIDE DEF Inv
<1> QED BY <1>1, <1>2, <1>3, PTL DEF Spec

-----------------------------------------------------------------------------
(***************************************************************************)
(* Confirmations of inquiries                                              *)
(***************************************************************************)
\* What was confirmed by a submission that met no other is among the first.
AloneIsEarly == \A i \in 1..Len(recent) : recent[i] = "alone" => i <= CONFIRMATIONS_PER_ADDRESS

\* While a submission that has met no other is between its count and its
\* commit, nobody else is, and inquiries only grow old.
AloneKnows ==
  \A s \in Senders \ met : at[s] = "counted" =>
    /\ Len(recent) <= counted[s]
    /\ \A q \in Senders \ {s} : at[q] # "counted"

ContactInv == ContactTypeOK /\ AloneIsEarly /\ AloneKnows

LEMMA InitContact == Init => ContactInv
BY ContactAssumption DEF Init, ContactInit, ContactInv, ContactTypeOK, AloneIsEarly, AloneKnows

LEMMA CountKeepsCap == ASSUME ContactInv, NEW s \in Senders, CountRecent(s) PROVE ContactInv'
<1> USE ContactAssumption
<1> DEFINE others == {q \in Senders : at[q] = "counted"}
<1>1. /\ Len(recent) \in 0..MaxRecent /\ recent' = recent
      /\ at' = [at EXCEPT ![s] = "counted"] /\ counted' = [counted EXCEPT ![s] = Len(recent)]
      /\ met' = IF others = {} THEN met ELSE met \cup others \cup {s}
  BY DEF CountRecent, ContactInv, ContactTypeOK
<1>2. ContactTypeOK' BY <1>1 DEF CountRecent, ContactInv, ContactTypeOK
<1>3. AloneIsEarly' BY <1>1 DEF ContactInv, AloneIsEarly
<1>4. AloneKnows'
  <2> SUFFICES ASSUME NEW z \in Senders, z \notin met', at'[z] = "counted"
               PROVE  Len(recent) <= counted'[z] /\ \A q \in Senders \ {z} : at'[q] # "counted"
    BY <1>1 DEF AloneKnows
  <2>1. others = {}
    <3> SUFFICES ASSUME others # {} PROVE FALSE OBVIOUS
    <3>1. met' = met \cup others \cup {s} BY <1>1
    <3>2. z # s /\ z \notin others BY <3>1
    <3>3. at[z] = "counted" BY <1>1, <3>2 DEF ContactInv, ContactTypeOK
    <3> QED BY <3>2, <3>3
  <2>2. \A q \in Senders : at[q] # "counted" BY <2>1
  <2>3. z = s BY <1>1, <2>2 DEF ContactInv, ContactTypeOK
  <2>4. counted'[z] = Len(recent) BY <1>1, <2>3 DEF ContactInv, ContactTypeOK
  <2>5. \A q \in Senders \ {z} : at'[q] = at[q] BY <1>1, <2>3 DEF ContactInv, ContactTypeOK
  <2> QED BY <1>1, <2>2, <2>4, <2>5
<1> QED BY <1>2, <1>3, <1>4 DEF ContactInv

LEMMA SubmitKeepsCap == ASSUME ContactInv, NEW s \in Senders, SubmitInquiry(s) PROVE ContactInv'
<1> USE ContactAssumption
<1>1. /\ Len(recent) \in Nat /\ at[s] = "counted"
      /\ at' = [at EXCEPT ![s] = "idle"] /\ counted' = [counted EXCEPT ![s] = 0] /\ met' = met \ {s}
  BY DEF SubmitInquiry, ContactInv, ContactTypeOK
<1>2. PICK answer \in Answers :
        /\ recent' = Append(recent, answer)
        /\ answer = "alone" => BelowCap(counted[s]) /\ s \notin met
  BY DEF SubmitInquiry, Answers
<1>3. /\ recent' \in Seq(Answers) /\ Len(recent') = Len(recent) + 1
      /\ \A i \in 1..Len(recent) : recent'[i] = recent[i]
      /\ recent'[Len(recent) + 1] = answer
  BY <1>1, <1>2 DEF ContactInv, ContactTypeOK
<1>4. ContactTypeOK' BY <1>1, <1>3 DEF SubmitInquiry, ContactInv, ContactTypeOK
<1>5. answer = "alone" => Len(recent) + 1 <= CONFIRMATIONS_PER_ADDRESS
  <2> SUFFICES ASSUME answer = "alone" PROVE Len(recent) + 1 <= CONFIRMATIONS_PER_ADDRESS OBVIOUS
  <2>1. Len(recent) <= counted[s] BY <1>1, <1>2 DEF ContactInv, AloneKnows
  <2>2. counted[s] \in Nat /\ counted[s] < CONFIRMATIONS_PER_ADDRESS
    BY <1>2 DEF BelowCap, ContactInv, ContactTypeOK
  <2> QED BY <1>1, <2>1, <2>2
<1>6. AloneIsEarly'
  <2> SUFFICES ASSUME NEW i \in 1..(Len(recent) + 1), recent'[i] = "alone" PROVE i <= CONFIRMATIONS_PER_ADDRESS
    BY <1>3 DEF AloneIsEarly
  <2>1. CASE i = Len(recent) + 1 BY <1>3, <1>5, <2>1
  <2>2. CASE i # Len(recent) + 1
    <3>1. i \in 1..Len(recent) BY <1>1, <2>2
    <3> QED BY <1>3, <3>1 DEF ContactInv, AloneIsEarly
  <2> QED BY <2>1, <2>2
<1>7. AloneKnows'
  <2> SUFFICES ASSUME NEW z \in Senders, z \notin met', at'[z] = "counted" PROVE FALSE BY DEF AloneKnows
  <2>1. z # s /\ at[z] = "counted" BY <1>1 DEF ContactInv, ContactTypeOK
  <2>2. z \notin met BY <1>1, <2>1
  <2> QED BY <1>1, <2>1, <2>2 DEF ContactInv, AloneKnows
<1> QED BY <1>4, <1>6, <1>7 DEF ContactInv

LEMMA AgeingKeepsCap == ASSUME ContactInv, InquiryAges PROVE ContactInv'
<1> USE ContactAssumption
<1>1. /\ recent' \in Seq(Answers) /\ Len(recent) \in Nat \ {0} /\ Len(recent') = Len(recent) - 1
      /\ \A i \in 1..Len(recent') : recent'[i] = recent[i + 1]
  BY DEF InquiryAges, ContactInv, ContactTypeOK
<1>2. UNCHANGED <<at, counted, met>> BY DEF InquiryAges
<1>3. ContactTypeOK' BY <1>1 DEF InquiryAges, ContactInv, ContactTypeOK
<1>4. AloneIsEarly'
  <2> SUFFICES ASSUME NEW i \in 1..Len(recent'), recent'[i] = "alone" PROVE i <= CONFIRMATIONS_PER_ADDRESS
    BY DEF AloneIsEarly
  <2>1. i + 1 \in 1..Len(recent) /\ recent[i + 1] = "alone" BY <1>1
  <2> QED BY <2>1 DEF ContactInv, AloneIsEarly
<1>5. AloneKnows'
  <2> SUFFICES ASSUME NEW z \in Senders, z \notin met, at[z] = "counted"
               PROVE  Len(recent') <= counted[z] /\ \A q \in Senders \ {z} : at[q] # "counted"
    BY <1>2 DEF AloneKnows
  <2>1. Len(recent) <= counted[z] /\ counted[z] \in Nat BY DEF ContactInv, AloneKnows, ContactTypeOK
  <2>2. \A q \in Senders \ {z} : at[q] # "counted" BY DEF ContactInv, AloneKnows
  <2> QED BY <1>1, <2>1, <2>2
<1> QED BY <1>3, <1>4, <1>5 DEF ContactInv

LEMMA ContactStepsKeepCap == ASSUME ContactInv, ContactNext PROVE ContactInv'
<1> USE ContactAssumption
<1>1. ASSUME NEW s \in Senders, Limiter(s) \/ WindowEnds(s) PROVE ContactInv'
  <2>1. UNCHANGED <<recent, counted, met>> BY <1>1 DEF Limiter, WindowEnds
  <2>2. ContactTypeOK'
    <3>1. CASE Limiter(s)
      <4>1. at' \in [Senders -> {"idle", "admitted", "counted"}]
        BY <3>1 DEF Limiter, ContactInv, ContactTypeOK
      <4>2. counter' \in [Senders -> 0..Limit + 1] /\ expires' \in [Senders -> BOOLEAN]
        <5>1. CASE Increment(s)
          <6>1. counter[s] \in Nat /\ counter[s] <= Limit BY <3>1 DEF Limiter, ContactInv, ContactTypeOK
          <6>2. counter[s] + 1 \in 0..Limit + 1 BY <6>1
          <6> QED BY <5>1, <6>2 DEF Increment, ContactInv, ContactTypeOK
        <5>2. CASE UNCHANGED <<counter, expires>> BY <5>2 DEF ContactInv, ContactTypeOK
        <5> QED BY <3>1, <5>1, <5>2 DEF Limiter
      <4> QED BY <2>1, <3>1, <4>1, <4>2 DEF Limiter, ContactInv, ContactTypeOK
    <3>2. CASE WindowEnds(s) BY <3>2 DEF WindowEnds, ContactInv, ContactTypeOK
    <3> QED BY <1>1, <3>1, <3>2
  <2>3. \A z \in Senders : at'[z] = "counted" <=> at[z] = "counted"
    BY <1>1 DEF Limiter, WindowEnds, ContactInv, ContactTypeOK
  <2>4. AloneIsEarly' BY <2>1 DEF ContactInv, AloneIsEarly
  <2>5. AloneKnows' BY <2>1, <2>3 DEF ContactInv, AloneKnows
  <2> QED BY <2>2, <2>4, <2>5 DEF ContactInv
<1>2. CASE RedisFailsOrReturns
  BY <1>2 DEF RedisFailsOrReturns, ContactInv, ContactTypeOK, AloneIsEarly, AloneKnows
<1> QED BY <1>1, <1>2, CountKeepsCap, SubmitKeepsCap, AgeingKeepsCap DEF ContactNext

LEMMA NextContact == ContactInv /\ [Next]_vars => ContactInv'
<1> SUFFICES ASSUME ContactInv, [Next]_vars PROVE ContactInv' OBVIOUS
<1>1. CASE UNCHANGED contactVars BY <1>1 DEF contactVars, ContactInv, ContactTypeOK, AloneIsEarly, AloneKnows
<1>2. CASE ContactStep(ContactNext) BY <1>2, ContactStepsKeepCap DEF ContactStep
<1>3. CASE ~ContactStep(ContactNext)
  BY <1>1, <1>3 DEF Next, SiteStep, AccountStep, UploadStep, vars
<1> QED BY <1>2, <1>3

\* However many senders there are, and whatever Redis and the broker do: an
\* address gets more confirmations than the cap only when submissions met
\* between count and commit.
THEOREM ConfirmationsStayCapped == Spec => []CapNeedsMeeting
<1>1. Spec => []ContactInv BY InitContact, NextContact, PTL DEF Spec
<1>2. ContactInv => CapNeedsMeeting
  <2> SUFFICES ASSUME ContactInv, \A i \in Confirmed : recent[i] # "met"
               PROVE  Cardinality(Confirmed) <= CONFIRMATIONS_PER_ADDRESS
    BY DEF CapNeedsMeeting
  <2> DEFINE first == 1..CONFIRMATIONS_PER_ADDRESS
  <2>1. ASSUME NEW i \in Confirmed PROVE i \in first
    <3>1. i \in 1..Len(recent) /\ Len(recent) \in Nat /\ recent[i] \in Answers
      BY DEF Confirmed, ContactInv, ContactTypeOK
    <3>2. recent[i] = "alone" BY <3>1 DEF Answers, Confirmed
    <3> QED BY <3>1, <3>2, ContactAssumption DEF ContactInv, AloneIsEarly
  <2>2. IsFiniteSet(first) /\ Cardinality(first) = CONFIRMATIONS_PER_ADDRESS
    <3>1. 1 \in Int /\ CONFIRMATIONS_PER_ADDRESS \in Int BY ContactAssumption
    <3> QED BY <3>1, FS_Interval, ContactAssumption
  <2> HIDE DEF first
  <2>3. Confirmed \subseteq first BY <2>1
  <2> QED BY <2>2, <2>3, FS_Subset
<1> QED BY <1>1, <1>2, PTL

-----------------------------------------------------------------------------
(***************************************************************************)
(* Pictures                                                                *)
(***************************************************************************)
\* What keeps a picture whole: names in use differ, a saved file is whole
\* until its row is committed, and nobody still writes the file of the row.
UploadInv ==
  /\ UploadTypeOK
  /\ PictureIsWhole
  /\ \A w \in Uploaders : saved[w] => writing[w] # NoFile /\ file[writing[w]] = "whole"
  /\ \A v, w \in Uploaders : writing[v] # NoFile /\ writing[v] = writing[w] => v = w
  /\ \A w \in Uploaders : IsSaving(w) => writing[w] # picture

LEMMA InitUploads == Init => UploadInv
BY DEF Init, UploadInit, UploadInv, UploadTypeOK, PictureIsWhole, IsSaving

LEMMA UploadStepKeepsInv == ASSUME UploadInv, UploadNext PROVE UploadInv'
<1> USE FileAssumption
<1>1. ASSUME NEW w \in Uploaders, NEW f \in Files, NewFilename(w, f) PROVE UploadInv'
  BY <1>1 DEF UploadInv, UploadTypeOK, PictureIsWhole, IsSaving, NewFilename
<1>2. ASSUME NEW w \in Uploaders, WriteChunk(w) PROVE UploadInv'
  BY <1>2 DEF UploadInv, UploadTypeOK, PictureIsWhole, IsSaving, WriteChunk
<1>3. ASSUME NEW w \in Uploaders, SaveReturns(w) PROVE UploadInv'
  BY <1>3 DEF UploadInv, UploadTypeOK, PictureIsWhole, IsSaving, SaveReturns
<1>4. ASSUME NEW w \in Uploaders, TooLarge(w) PROVE UploadInv'
  BY <1>4 DEF UploadInv, UploadTypeOK, PictureIsWhole, IsSaving, TooLarge, UploadEnds
<1>5. ASSUME NEW w \in Uploaders, SavingFails(w) \/ ImageNotSet(w) PROVE UploadInv'
  <2>1. /\ file' = file /\ picture' = picture
        /\ writing' = [writing EXCEPT ![w] = NoFile] /\ saved' = [saved EXCEPT ![w] = FALSE]
    BY <1>5 DEF SavingFails, ImageNotSet, UploadEnds
  <2> QED BY <2>1 DEF UploadInv, UploadTypeOK, PictureIsWhole, IsSaving
<1>6. ASSUME NEW w \in Uploaders, SetImage(w) PROVE UploadInv'
  BY <1>6 DEF UploadInv, UploadTypeOK, PictureIsWhole, IsSaving, SetImage, UploadEnds
<1> QED BY <1>1, <1>2, <1>3, <1>4, <1>5, <1>6 DEF UploadNext

LEMMA NextUploads == UploadInv /\ [Next]_vars => UploadInv'
<1> SUFFICES ASSUME UploadInv, [Next]_vars PROVE UploadInv' OBVIOUS
<1>1. CASE UNCHANGED uploadVars
  BY <1>1 DEF uploadVars, UploadInv, UploadTypeOK, PictureIsWhole, IsSaving
<1>2. CASE UploadStep(UploadNext) BY <1>2, UploadStepKeepsInv DEF UploadStep
<1>3. CASE ~UploadStep(UploadNext)
  BY <1>1, <1>3 DEF Next, SiteStep, AccountStep, ContactStep, vars
<1> QED BY <1>2, <1>3

\* For any number of uploads of any sizes, and any crashes, the picture of a
\* row is a file that was stored in full.
THEOREM PicturesAreWhole == Spec => []PictureIsWhole
<1>1. Spec => []UploadInv BY InitUploads, NextUploads, PTL DEF Spec
<1> QED BY <1>1, PTL DEF UploadInv

-----------------------------------------------------------------------------
(***************************************************************************)
(* Types                                                                   *)
(***************************************************************************)
\* Every variable of the site stays in its type, and every row that names
\* another row names one that exists: no delete leaves a dangling key.
THEOREM TypesHold == Spec => []TypeOK
<1> DEFINE Inv == RowsInv /\ CacheInv /\ SessionInv /\ NoticeInv /\ ContactInv /\ UploadInv
<1>1. Init => Inv BY InitRows, InitCache, InitSessions, InitNotices, InitContact, InitUploads
<1>2. Inv /\ [Next]_vars => Inv'
  BY NextRows, NextCache, NextSessions, NextNotices, NextContact, NextUploads
<1>3. Inv => TypeOK
  <2>1. RowsInv /\ SessionInv => IdentityTypeOK
    BY DEF RowsInv, TalentInv, SessionInv, LoginTypeOK, IdentityTypeOK
  <2>2. RowsInv => TalentTypeOK /\ ProductsTypeOK /\ ConcertsTypeOK /\ RefsExist
    BY DEF RowsInv, TalentInv, CatalogueInv, StageInv, RefsExist
  <2> QED BY <2>1, <2>2 DEF CacheInv, SessionInv, NoticeInv, ContactInv, UploadInv, TypeOK
<1> HIDE DEF Inv
<1> QED BY <1>1, <1>2, <1>3, PTL DEF Spec
=============================================================================
