------------------------------ MODULE Identity ------------------------------
(***************************************************************************)
(* Accounts, roles and sessions (services/identity).  A session is a row   *)
(* of refresh_tokens.  Requests for sessions and password resets take      *)
(* their steps one by one, as their statements run under READ COMMITTED:   *)
(* a check, the snapshot of the UPDATE that revokes the user's tokens, its *)
(* wait for the locks of those rows, the commit.  The other requests read  *)
(* and write their rows in one statement and are one step.                 *)
(***************************************************************************)
EXTENDS Integers, FiniteSets

CONSTANTS
  Users,        \* accounts there may be
  Companies,    \* management companies there may be
  Tokens,       \* refresh tokens that may be issued; bounds the sessions
  Requests,     \* workers that serve logins, refreshes and resets
  None,         \* NULL in a foreign key
  NoUser,       \* the owner of a token that does not exist
  Idle          \* a worker without a request

VARIABLES
  role,         \* users.role; "none" before the row is inserted, "gone" once deleted
  employer,     \* users.company_id
  verified,     \* users.is_verified
  owner,        \* refresh_tokens.user_id, NoUser if there is no such row
  revoked,      \* refresh_tokens.revoked
  expired,      \* refresh_tokens.expires_at is past
  links,        \* <<user, type>> of the emailed tokens that are not expired
  request       \* what a worker is doing

userVars == <<role, employer, verified>>
tokenVars == <<owner, revoked, expired>>
identityVars == <<role, employer, verified, owner, revoked, expired, links, request>>

HasAccount(u) == role[u] \notin {"none", "gone"}

TokenTypes == {"verify", "reset"}

\* mutant: "RefreshToken.revoked is False" is no SQL condition but Python's False
NoRows(u) == {}

\* the rows the UPDATE of create_tokens and verify_rtoken finds, expired or not
Unrevoked(u) == {t \in Tokens : owner[t] = u /\ ~revoked[t]}

\* a statement has to wait for rows another transaction has updated
Locked(rows) == \E r \in Requests : request[r] # Idle /\ request[r].step = "updated" /\ request[r].rows \cap rows # {}

\* verify_rtoken has flushed the new password hash
UserLocked(u) ==
  \E r \in Requests : request[r] # Idle /\ request[r].user = u
                      /\ request[r].for = "reset" /\ request[r].step # "checked"

-----------------------------------------------------------------------------
(***************************************************************************)
(* Sessions                                                                *)
(***************************************************************************)
\* A request begins.  alone notes whether it ever ran beside another.
Begin(r, u, for) ==
  LET others == {q \in Requests : request[q] # Idle}
  IN  /\ request[r] = Idle
      /\ request' = [q \in Requests |->
           IF q = r THEN [step |-> "checked", for |-> for, user |-> u, rows |-> {}, alone |-> others = {}]
           ELSE IF q \in others THEN [request[q] EXCEPT !.alone = FALSE] ELSE Idle]
      /\ UNCHANGED <<userVars, tokenVars, links>>

\* authenticate_user found the password right
Login(r, u) == HasAccount(u) /\ Begin(r, u, "session")

\* verify_refresh_token
Refresh(r, t) ==
  /\ owner[t] # NoUser /\ ~revoked[t] /\ ~expired[t]
  /\ Begin(r, owner[t], "session")

\* the link is not used up: it can be submitted until it expires
SetPassword(r, u) == HasAccount(u) /\ <<u, "reset">> \in links /\ Begin(r, u, "reset")

\* the UPDATE starts with the tokens committed by now; that of a reset is
\* preceded by the UPDATE of the user
StartUpdate(r) ==
  /\ request[r] # Idle /\ request[r].step = "checked"
  /\ request[r].for = "reset" => HasAccount(request[r].user) /\ ~UserLocked(request[r].user)
  /\ request' = [request EXCEPT ![r].step = "updating", ![r].rows = Unrevoked(request[r].user)]
  /\ UNCHANGED <<userVars, tokenVars, links>>

\* it gets the locks, all at once here, and leaves out the rows that were
\* revoked or deleted while it waited
EndUpdate(r) ==
  /\ request[r] # Idle /\ request[r].step = "updating"
  /\ ~Locked(request[r].rows)
  /\ request' = [request EXCEPT ![r].step = "updated", ![r].rows = @ \cap Unrevoked(request[r].user)]
  /\ UNCHANGED <<userVars, tokenVars, links>>

Commits(r, for) ==
  /\ request[r] # Idle /\ request[r].step = "updated" /\ request[r].for = for
  /\ request' = [request EXCEPT ![r] = Idle]

\* the foreign key of the row inserted; it keeps a new row of a user who is
\* being deleted out
UserStillThere(u) == HasAccount(u)

\* a name for the new token that no transaction has met
NeverUsed(t) == owner[t] = NoUser /\ \A r \in Requests : request[r] # Idle => t \notin request[r].rows

\* create_tokens commits the rows it revoked and the new one
Issue(r, t) ==
  /\ Commits(r, "session")
  /\ NeverUsed(t)
  /\ UserStillThere(request[r].user)
  /\ owner' = [owner EXCEPT ![t] = request[r].user]
  /\ revoked' = [x \in Tokens |-> x \in request[r].rows \/ revoked[x]]
  /\ expired' = [expired EXCEPT ![t] = FALSE]
  /\ UNCHANGED <<userVars, links>>

\* verify_rtoken commits the new password with the rows it revoked
FinishReset(r) ==
  /\ Commits(r, "reset")
  /\ revoked' = [x \in Tokens |-> x \in request[r].rows \/ revoked[x]]
  /\ UNCHANGED <<userVars, owner, expired, links>>

\* an error, a crash, or the foreign key: the transaction is rolled back
RollBack(r) ==
  /\ request[r] # Idle
  /\ request' = [request EXCEPT ![r] = Idle]
  /\ UNCHANGED <<userVars, tokenVars, links>>

\* revoke_token
Logout(t) ==
  /\ owner[t] # NoUser /\ ~Locked({t})
  /\ revoked' = [revoked EXCEPT ![t] = TRUE]
  /\ UNCHANGED <<userVars, owner, expired, links, request>>

RemoveTokens(rows) ==
  /\ ~Locked(rows)
  /\ owner' = [t \in Tokens |-> IF t \in rows THEN NoUser ELSE owner[t]]
  /\ revoked' = [t \in Tokens |-> t \notin rows /\ revoked[t]]
  /\ expired' = [t \in Tokens |-> t \notin rows /\ expired[t]]

CleanupExpiredTokens ==
  /\ RemoveTokens({t \in Tokens : revoked[t] \/ expired[t]})
  /\ UNCHANGED <<userVars, links, request>>

TokenExpires(t) ==
  /\ owner[t] # NoUser
  /\ expired' = [expired EXCEPT ![t] = TRUE]
  /\ UNCHANGED <<userVars, owner, revoked, links, request>>

(***************************************************************************)
(* Accounts                                                                *)
(***************************************************************************)
CreateUser(u) ==
  /\ role[u] = "none"
  /\ role' = [role EXCEPT ![u] = "fan"]
  /\ employer' = [employer EXCEPT ![u] = None]
  /\ verified' = [verified EXCEPT ![u] = FALSE]
  /\ UNCHANGED <<tokenVars, links, request>>

\* by an admin, as is the next
CreateManager(u, c) ==
  /\ role[u] = "none"
  /\ role' = [role EXCEPT ![u] = "manager"]
  /\ employer' = [employer EXCEPT ![u] = c]
  /\ verified' = [verified EXCEPT ![u] = FALSE]
  /\ UNCHANGED <<tokenVars, links, request>>

\* a manager who is promoted keeps the company
PromoteAdmin(u) ==
  /\ role[u] \in {"fan", "manager"} /\ ~UserLocked(u)
  /\ role' = [role EXCEPT ![u] = "admin"]
  /\ UNCHANGED <<employer, verified, tokenVars, links, request>>

\* change_password_process: another hash, the same sessions
ChangePassword(u) == HasAccount(u) /\ ~UserLocked(u) /\ UNCHANGED identityVars

\* send_verification_link and forgot_password
SendLink(u, type) ==
  /\ HasAccount(u)
  /\ links' = links \cup {<<u, type>>}
  /\ UNCHANGED <<userVars, tokenVars, request>>

LinkExpires(u, type) ==
  /\ <<u, type>> \in links
  /\ links' = links \ {<<u, type>>}
  /\ UNCHANGED <<userVars, tokenVars, request>>

VerifyEmail(u) ==
  /\ <<u, "verify">> \in links
  /\ HasAccount(u) /\ ~verified[u] /\ ~UserLocked(u)
  /\ verified' = [verified EXCEPT ![u] = TRUE]
  /\ UNCHANGED <<role, employer, tokenVars, links, request>>

\* delete_user: the tokens go by ON DELETE CASCADE, the links stay valid
DeleteUser(u) ==
  /\ HasAccount(u) /\ ~UserLocked(u)
  /\ RemoveTokens({t \in Tokens : owner[t] = u})
  /\ role' = [role EXCEPT ![u] = "gone"]
  /\ employer' = [employer EXCEPT ![u] = None]
  /\ verified' = [verified EXCEPT ![u] = FALSE]
  /\ UNCHANGED <<links, request>>

SessionNext ==
  \/ \E r \in Requests :
       \/ \E u \in Users : Login(r, u) \/ SetPassword(r, u)
       \/ \E t \in Tokens : Refresh(r, t) \/ Issue(r, t)
       \/ StartUpdate(r) \/ EndUpdate(r) \/ FinishReset(r) \/ RollBack(r)
  \/ \E t \in Tokens : Logout(t) \/ TokenExpires(t)
  \/ CleanupExpiredTokens

ResetLinkNext == \E u \in Users : SendLink(u, "reset") \/ LinkExpires(u, "reset")

VerificationNext ==
  \E u \in Users :
    SendLink(u, "verify") \/ LinkExpires(u, "verify") \/ VerifyEmail(u) \/ ChangePassword(u)

IdentityInit(roles, employers) ==
  /\ role = roles
  /\ employer = employers
  /\ verified = [u \in Users |-> FALSE]
  /\ owner = [t \in Tokens |-> NoUser]
  /\ revoked = [t \in Tokens |-> FALSE]
  /\ expired = [t \in Tokens |-> FALSE]
  /\ links = {}
  /\ request = [r \in Requests |-> Idle]

-----------------------------------------------------------------------------
Working == [step : {"checked", "updating", "updated"}, for : {"session", "reset"}, user : Users,
            rows : SUBSET Tokens, alone : BOOLEAN]

ASSUME IdentityAssumption ==
  /\ NoUser \notin Users
  /\ Idle \notin Working
  /\ IsFiniteSet(Requests)

IdentityTypeOK ==
  /\ role \in [Users -> {"none", "gone", "fan", "manager", "admin"}]
  /\ employer \in [Users -> Companies \cup {None}]
  /\ verified \in [Users -> BOOLEAN]
  /\ owner \in [Tokens -> Users \cup {NoUser}]
  /\ revoked \in [Tokens -> BOOLEAN]
  /\ expired \in [Tokens -> BOOLEAN]
  /\ links \subseteq Users \X TokenTypes
  /\ request \in [Requests -> Working \cup {Idle}]

\* "One active session per user" (auth_service.py 43).  It does not hold of
\* logins that overlap: each may leave a session the others did not see.
OneSession == \A u \in Users : Cardinality(Unrevoked(u)) <= 1

\* A login or refresh that ran beside no other request leaves its own as the
\* only session of the user, and a reset that did leaves none
\* (user_service.py:52).
LoneRequestEndsSessions ==
  [][\A r \in Requests :
       (/\ request[r] # Idle /\ request[r].alone /\ request[r].step = "updated"
        /\ \/ request[r].for = "session" /\ \E t \in Tokens : owner[t] = NoUser /\ owner'[t] = request[r].user
           \/ FinishReset(r))
       => \A t \in Tokens : (owner'[t] = request[r].user /\ ~revoked'[t]) => owner[t] = NoUser]_identityVars

\* A deleted account leaves no session, although a login may be between its
\* check and its commit when the account is deleted.
SessionsHaveUsers == \A t \in Tokens : owner[t] # NoUser => HasAccount(owner[t])
=============================================================================
