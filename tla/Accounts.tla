------------------------------ MODULE Accounts ------------------------------
(***************************************************************************)
(* The changes of accounts, beside sessions, beside the notices of         *)
(* managers about draws, and beside links in emails.                       *)
(***************************************************************************)
EXTENDS DrawNotices, Contact

accountVars == <<identityVars, noticeVars>>

AccountNext ==
  \E u \in Users :
    \/ CreateUser(u) /\ UNCHANGED noticeVars
    \/ PromoteAdmin(u) /\ UNCHANGED noticeVars
    \/ \E c \in companies : CreateManager(u, c) /\ UNCHANGED noticeVars
    \/ DeleteUserAndNotices(u)

Sessions ==
  \/ (SessionNext \/ ResetLinkNext) /\ UNCHANGED noticeVars
  \/ \E u \in Users : DeleteUserAndNotices(u)

Notices == NoticeNext \/ AccountNext

Verifications ==
  \/ (VerificationNext \/ ResetLinkNext) /\ UNCHANGED noticeVars
  \/ AccountNext
=============================================================================
