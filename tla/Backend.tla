------------------------------ MODULE Backend ------------------------------
(***************************************************************************)
(* Everything but the sales: the site that staff edit, the accounts, the   *)
(* contact form and the uploads.  A behaviour exercises one part of it and *)
(* sees the rows of the others as it found them: their handlers share no   *)
(* row with it but those their own part includes.                          *)
(***************************************************************************)
EXTENDS Site, Accounts, Uploads

CONSTANTS
  \* the rows a behaviour starts from; accounts by part
  SeedRoles, SeedEmployers, SeedGroups, SeedIdols, SeedProducts, SeedConcerts

Parts == {"site", "sessions", "notices", "verifications", "contact", "uploads"}

ASSUME SeedAssumption ==
  /\ SeedRoles \in [Parts -> [Users -> {"none", "gone", "fan", "manager", "admin"}]]
  /\ SeedEmployers \in [Users -> Companies \cup {None}]
  /\ SeedGroups \in [Groups -> GroupRow \cup {Absent}]
  /\ SeedIdols \in [Idols -> IdolRow \cup {Absent}]
  /\ \A i \in Idols : (SeedIdols[i] # Absent /\ SeedIdols[i].group # None) =>
       /\ SeedGroups[SeedIdols[i].group] # Absent
       /\ SeedGroups[SeedIdols[i].group].company = SeedIdols[i].company
  /\ SeedProducts \in [Products -> Categories \cup {Absent}]
  /\ SeedConcerts \in [Concerts -> ConcertRow \cup {Absent}]
  /\ None \notin Companies \cup Groups \cup Idols \cup Colors
  /\ Absent \notin GroupRow \cup IdolRow \cup Categories \cup AlbumArtists
                   \cup ConcertRow \cup TicketTypeRow

VARIABLE part   \* the part a behaviour exercises; never changes

\* the rows of the site but users.company_id, which accounts have too
rowVars == <<companies, group, idol, colors, positions, held, productVars, concertVars, cacheVars, writes>>

vars == <<identityVars, rowVars, noticeVars, contactVars, uploadVars, part>>

SiteStep(step) ==
  /\ part = "site" /\ step
  /\ UNCHANGED <<role, verified, tokenVars, links, request, noticeVars, contactVars, uploadVars, part>>

AccountStep(p, step) ==
  /\ part = p /\ step
  /\ UNCHANGED <<rowVars, contactVars, uploadVars, part>>

ContactStep(step) ==
  /\ part = "contact" /\ step
  /\ UNCHANGED <<accountVars, rowVars, uploadVars, part>>

UploadStep(step) ==
  /\ part = "uploads" /\ step
  /\ UNCHANGED <<accountVars, rowVars, contactVars, part>>

Next ==
  \/ SiteStep(SiteNext)
  \/ AccountStep("sessions", Sessions)
  \/ AccountStep("notices", Notices)
  \/ AccountStep("verifications", Verifications)
  \/ ContactStep(ContactNext)
  \/ UploadStep(UploadNext)

Init ==
  /\ part \in Parts
  /\ IdentityInit(SeedRoles[part], SeedEmployers)
  /\ companies = Companies
  /\ group = SeedGroups
  /\ idol = SeedIdols
  /\ colors = Colors
  /\ positions = Positions
  /\ held = [ip \in Idols \X Positions |-> "no"]
  /\ categories = Categories
  /\ product = SeedProducts
  /\ album = [p \in Products |-> Absent]
  /\ merch = [p \in Products |-> Absent]
  /\ genres = Genres
  /\ tagged = {}
  /\ adding = [pk \in Products \X Kinds |-> Absent]
  /\ together = {}
  /\ ordered = {}
  /\ venues = Venues
  /\ concert = SeedConcerts
  /\ performers = {}
  /\ ticketType = [co \in Concerts \X Offers |-> Absent]
  /\ campaigns = {}
  /\ CacheInit /\ (part # "site" => page = NoPage)
  /\ writes = 0
  /\ NoticeInit
  /\ ContactInit
  /\ UploadInit

Spec == Init /\ [][Next]_vars

\* Redis expires keys by itself; a request that built a page stores it or
\* ends without; the handlers of a draw and its task take their next step or
\* fail.  That a handler gets to delete pages is not assumed.
Fairness ==
  /\ WF_vars(SiteStep(CacheOnly(Expire)))
  /\ \A r \in Readers : WF_vars(SiteStep(CacheOnly(Store(r) \/ Abandon(r))))
  /\ \A d \in Draws : WF_vars(AccountStep("notices", TaskSteps(d)))

FairSpec == Spec /\ Fairness

-----------------------------------------------------------------------------
\* The columns have their types, and every foreign key names a row that is
\* there (what each table does when that row is deleted is in RefsExist).
TypeOK ==
  /\ IdentityTypeOK /\ TalentTypeOK /\ ProductsTypeOK /\ ConcertsTypeOK
  /\ CacheTypeOK /\ NoticeTypeOK /\ ContactTypeOK /\ UploadTypeOK
  /\ RefsExist /\ SessionsHaveUsers
=============================================================================
