--------------------------- MODULE BackendProofs ---------------------------
(***************************************************************************)
(* Proofs about the site of Backend, for any companies, artists, products, *)
(* concerts, staff and readers: idols stay in groups of their own company, *)
(* no handler forgets a page, no row refers to a row that is gone, and the *)
(* ways to find a product's company agree.                                 *)
(***************************************************************************)
EXTENDS Backend, FiniteSetTheorems, TLAPS

-----------------------------------------------------------------------------
(***************************************************************************)
(* Idols and groups                                                        *)
(***************************************************************************)
\* An idol's group is there and of the idol's company.
MembersMatch ==
  \A i \in Idols : (Exists(idol[i]) /\ idol[i].group # None) =>
    /\ Exists(group[idol[i].group])
    /\ group[idol[i].group].company = idol[i].company

ArtistsInv ==
  /\ group \in [Groups -> GroupRow \cup {Absent}]
  /\ idol \in [Idols -> IdolRow \cup {Absent}]
  /\ MembersMatch

artistVars == <<group, idol>>

\* What a manager's idols page labels follows from the rows alone.
LEMMA PagesFollow == ArtistsInv => IdolGroupSameCompany
<1> SUFFICES ASSUME ArtistsInv PROVE IdolGroupSameCompany OBVIOUS
<1>1. ASSUME NEW m \in Managers, NEW g \in GroupsShownTo(m) PROVE g \in GroupOptionsOf(m)
  <2>1. PICK i \in IdolsShownTo(m) : g = idol[i].group /\ g # None BY <1>1 DEF GroupsShownTo
  <2>2. i \in Idols /\ Exists(idol[i]) /\ idol[i].company = employer[m] BY <2>1 DEF IdolsShownTo
  <2>3. idol[i] \in IdolRow BY <2>2 DEF ArtistsInv, Exists
  <2>4. g \in Groups BY <2>1, <2>3 DEF IdolRow
  <2> QED BY <2>1, <2>2, <2>4 DEF ArtistsInv, MembersMatch, GroupOptionsOf
<1> QED BY <1>1 DEF ArtistsInv, MembersMatch, IdolGroupSameCompany

LEMMA InitArtists == Init => ArtistsInv
BY SeedAssumption DEF Init, ArtistsInv, MembersMatch, Exists

\* The handlers of concerts write no row of talent or of the catalogue.
LEMMA EventsKeepOthers == EventHandlers => UNCHANGED <<talentVars, productVars>>
BY ZenonT(30) DEF EventHandlers, Staged, AddNewVenue, UpdateExistingVenue, DeleteExistingVenue, AddNewConcert,
    UpdateExistingConcert, DeleteExistingConcert, AssignConcertPerformer, UnassignConcertPerformer,
    AddNewTicketType, UpdateExistingTicketType, DeleteExistingTicketType, AddNewCampaign,
    UpdateExistingCampaign, DeleteExistingCampaign, SoldQuantityMoves, FanApplies

\* The handlers of the catalogue and of concerts, the cache and the readers
\* leave the artists alone.
LEMMA OtherHandlersKeepArtists ==
  ASSUME SiteNext, ~TalentHandlers PROVE UNCHANGED artistVars
<1>1. CASE MarketplaceHandlers
  BY <1>1 DEF MarketplaceHandlers, Marketed, AddNewProduct, AddNewBulkProducts, AddNewProductWithDetail,
    UpdateExistingProduct, UploadProductImage, DeleteExistingProduct, AddNewAlbumDetail,
    UpdateExistingAlbumDetail, DeleteExistingAlbumDetail, AddNewMerchDetail, UpdateExistingMerchDetail,
    DeleteExistingMerchDetail, AddNewCategory, UpdateExistingCategory, DeleteExistingCategory, AddNewGenre,
    DeleteExistingGenre, AssignGenreToAlbum, UnassignGenreFromAlbum, OrderPaid, OrderCaptured,
    Inserted, CommitNewDetail, artistVars, talentVars
<1>2. CASE EventHandlers
  BY <1>2, EventsKeepOthers DEF artistVars, talentVars
<1>3. CASE ~Handlers BY <1>3 DEF SiteNext, CacheOnly, artistVars, talentVars
<1> QED BY <1>1, <1>2, <1>3 DEF Handlers

\* Only seven services write the rows of groups and idols, besides the
\* deletion of a colour.
LEMMA TalentWrites ==
  ASSUME TalentHandlers
  PROVE  \/ UNCHANGED artistVars
         \/ \E who \in Staff, g \in Groups :
              \/ \E c \in Companies : AddGroup(who, g, c)
              \/ DeleteGroup(who, g) \/ ReactivateGroup(who, g)
         \/ \E who \in Staff, i \in Idols :
              \/ \E g \in Groups \cup {None}, color \in Colors \cup {None} :
                   \/ \E c \in Companies : AddIdol(who, i, c, g, color)
                   \/ UpdateIdol(who, i, g, color)
              \/ DeleteIdol(who, i) \/ ReactivateIdol(who, i)
         \/ \E color \in Colors : DeleteColor(color)
<1>1. CASE \E c \in Companies : AddNewCompany(c) \/ UpdateExistingCompany(c) \/ DeleteExistingCompany(c)
  BY <1>1 DEF AddNewCompany, UpdateExistingCompany, DeleteExistingCompany, Talented, AddCompany,
    UpdateCompany, DeleteCompany, artistVars, talentVars
<1>2. CASE \E who \in Staff, g \in Groups :
             \/ \E c \in Companies : AddNewGroup(who, g, c)
             \/ UpdateExistingGroup(who, g) \/ DeleteExistingGroup(who, g) \/ ActivateExistingGroup(who, g)
  BY <1>2 DEF AddNewGroup, UpdateExistingGroup, DeleteExistingGroup, ActivateExistingGroup, Talented,
    UpdateGroup, artistVars, talentVars
<1>3. ASSUME NEW who \in Staff, NEW i \in Idols,
             \/ \E g \in Groups \cup {None}, color \in Colors \cup {None} :
                  \/ \E c \in Companies : AddNewIdol(who, i, c, g, color)
                  \/ UpdateExistingIdol(who, i, g, color)
             \/ DeleteExistingIdol(who, i) \/ ActivateExistingIdol(who, i) \/ UploadIdolImage(who, i)
      PROVE  \/ UNCHANGED artistVars
             \/ \E g \in Groups \cup {None}, color \in Colors \cup {None} :
                  \/ \E c \in Companies : AddIdol(who, i, c, g, color)
                  \/ UpdateIdol(who, i, g, color)
             \/ DeleteIdol(who, i) \/ ReactivateIdol(who, i)
  BY <1>3 DEF AddNewIdol, UpdateExistingIdol, DeleteExistingIdol, ActivateExistingIdol, UploadIdolImage,
    Talented, SetIdolImage, artistVars, talentVars
<1>4. ASSUME NEW who \in Staff, NEW i \in Idols, NEW p \in Positions,
             \/ \E primary \in BOOLEAN :
                  AssignPositionToIdol(who, i, p, primary) \/ SetIdolPositionPrimary(who, i, p, primary)
             \/ UnassignPositionFromIdol(who, i, p)
      PROVE  UNCHANGED artistVars
  BY <1>4 DEF AssignPositionToIdol, SetIdolPositionPrimary, UnassignPositionFromIdol, Talented,
    AssignPosition, SetPrimary, RemovePosition, artistVars
<1>5. CASE \E color \in Colors :
             AddNewIdolColor(color) \/ UpdateExistingIdolColor(color) \/ DeleteExistingIdolColor(color)
  BY <1>5 DEF AddNewIdolColor, UpdateExistingIdolColor, DeleteExistingIdolColor, Talented, AddColor,
    UpdateColor, artistVars, talentVars
<1>6. CASE \E p \in Positions :
             AddNewPosition(p) \/ UpdateExistingPosition(p) \/ DeleteExistingPosition(p)
  BY <1>6 DEF AddNewPosition, UpdateExistingPosition, DeleteExistingPosition, Talented, AddPosition,
    UpdatePosition, DeletePosition, artistVars, talentVars
<1> QED BY <1>1, <1>2, <1>3, <1>4, <1>5, <1>6 DEF TalentHandlers

\* Groups are only added or switched on and off: none moves to another
\* company and none goes.
LEMMA GroupWritesKeepMembers ==
  ASSUME ArtistsInv, NEW who \in Staff, NEW g \in Groups,
         \/ \E c \in Companies : AddGroup(who, g, c)
         \/ DeleteGroup(who, g) \/ ReactivateGroup(who, g)
  PROVE  ArtistsInv'
<1>1. PICK row \in GroupRow : /\ group' = [group EXCEPT ![g] = row]
                              /\ group[g] # Absent => row.company = group[g].company
                              /\ idol' = idol
  <2>1. CASE \E c \in Companies : AddGroup(who, g, c)
    <3>1. PICK c \in Companies : AddGroup(who, g, c) BY <2>1
    <3>2. [company |-> c, active |-> TRUE] \in GroupRow BY DEF GroupRow
    <3> USE <3>2
    <3> WITNESS [company |-> c, active |-> TRUE] \in GroupRow
    <3> QED BY <3>1 DEF AddGroup
  <2>2. CASE DeleteGroup(who, g) \/ ReactivateGroup(who, g)
    <3>1. group[g] \in GroupRow /\ idol' = idol
      BY <2>2 DEF DeleteGroup, ReactivateGroup, ManagesGroup, Exists, ArtistsInv
    <3>2. PICK on \in BOOLEAN : group' = [group EXCEPT ![g].active = on]
      BY <2>2 DEF DeleteGroup, ReactivateGroup
    <3>3. [group[g] EXCEPT !.active = on] \in GroupRow BY <3>1, <3>2 DEF GroupRow
    <3> USE <3>3
    <3> WITNESS [group[g] EXCEPT !.active = on] \in GroupRow
    <3> QED BY <3>1, <3>2 DEF GroupRow, ArtistsInv
  <2> QED BY <2>1, <2>2
<1>2. group' \in [Groups -> GroupRow \cup {Absent}] /\ row # Absent
  BY <1>1, SeedAssumption DEF ArtistsInv
<1>3. MembersMatch'
  <2> SUFFICES ASSUME NEW i \in Idols, Exists(idol[i]), idol[i].group # None
               PROVE  Exists(group'[idol[i].group]) /\ group'[idol[i].group].company = idol[i].company
    BY <1>1 DEF MembersMatch, Exists
  <2>1. idol[i].group \in Groups BY DEF ArtistsInv, IdolRow, Exists
  <2> QED BY <1>1, <1>2, <2>1 DEF ArtistsInv, MembersMatch, Exists
<1> QED BY <1>1, <1>2, <1>3 DEF ArtistsInv

LEMMA IdolWritesKeepMembers ==
  ASSUME ArtistsInv, NEW who \in Staff, NEW i \in Idols,
         \/ \E g \in Groups \cup {None}, color \in Colors \cup {None} :
              \/ \E c \in Companies : AddIdol(who, i, c, g, color)
              \/ UpdateIdol(who, i, g, color)
         \/ DeleteIdol(who, i) \/ ReactivateIdol(who, i)
  PROVE  ArtistsInv'
<1>1. PICK row \in IdolRow : /\ idol' = [idol EXCEPT ![i] = row]
                             /\ row.group # None => /\ Exists(group[row.group])
                                                    /\ group[row.group].company = row.company
                             /\ group' = group
  <2>1. CASE \E g \in Groups \cup {None}, color \in Colors \cup {None}, c \in Companies :
               AddIdol(who, i, c, g, color)
    <3>1. PICK g \in Groups \cup {None}, color \in Colors \cup {None}, c \in Companies :
            AddIdol(who, i, c, g, color)
      BY <2>1
    <3>2. [company |-> c, group |-> g, color |-> color, active |-> TRUE] \in IdolRow BY DEF IdolRow
    <3> USE <3>2
    <3> WITNESS [company |-> c, group |-> g, color |-> color, active |-> TRUE] \in IdolRow
    <3> QED BY <3>1 DEF AddIdol, ValidRefs, Exists
  <2>2. CASE \E g \in Groups \cup {None}, color \in Colors \cup {None} : UpdateIdol(who, i, g, color)
    <3>1. PICK g \in Groups \cup {None}, color \in Colors \cup {None} : UpdateIdol(who, i, g, color) BY <2>2
    <3>2. idol[i] \in IdolRow BY <3>1 DEF UpdateIdol, ManagesIdol, Exists, ArtistsInv
    <3>3. [idol[i] EXCEPT !.group = g, !.color = color] \in IdolRow BY <3>2 DEF IdolRow
    <3> USE <3>3
    <3> WITNESS [idol[i] EXCEPT !.group = g, !.color = color] \in IdolRow
    <3> QED BY <3>1, <3>2 DEF UpdateIdol, ValidRefs, IdolRow, ArtistsInv
  <2>3. CASE DeleteIdol(who, i) \/ ReactivateIdol(who, i)
    <3>1. idol[i] \in IdolRow /\ Exists(idol[i]) /\ group' = group
      BY <2>3 DEF DeleteIdol, ReactivateIdol, ManagesIdol, Exists, ArtistsInv
    <3>2. PICK on \in BOOLEAN : idol' = [idol EXCEPT ![i].active = on]
      <4>1. CASE DeleteIdol(who, i) BY <4>1 DEF DeleteIdol
      <4>2. CASE ReactivateIdol(who, i) BY <4>2 DEF ReactivateIdol
      <4> QED BY <2>3, <4>1, <4>2
    <3>3. [idol[i] EXCEPT !.active = on] \in IdolRow BY <3>1 DEF IdolRow
    <3> USE <3>3
    <3> WITNESS [idol[i] EXCEPT !.active = on] \in IdolRow
    <3> QED BY <3>1, <3>2 DEF IdolRow, ArtistsInv, MembersMatch
  <2> QED BY <2>1, <2>2, <2>3
<1> QED BY <1>1 DEF ArtistsInv, MembersMatch, Exists

LEMMA DeleteColorKeepsMembers ==
  ASSUME ArtistsInv, NEW color \in Colors, DeleteColor(color) PROVE ArtistsInv'
<1>1. ASSUME NEW i \in Idols
      PROVE  /\ idol'[i] \in IdolRow \cup {Absent}
             /\ Exists(idol'[i]) <=> Exists(idol[i])
             /\ Exists(idol[i]) => idol'[i].group = idol[i].group /\ idol'[i].company = idol[i].company
  <2>1. CASE Exists(idol[i])
    <3>1. idol[i] \in IdolRow BY <2>1 DEF ArtistsInv, Exists
    <3>2. /\ idol'[i] \in IdolRow
          /\ idol'[i].group = idol[i].group /\ idol'[i].company = idol[i].company
      BY <3>1 DEF DeleteColor, IdolRow
    <3> QED BY <2>1, <3>2, SeedAssumption DEF Exists
  <2>2. CASE ~Exists(idol[i]) BY <2>2 DEF DeleteColor, Exists
  <2> QED BY <2>1, <2>2
<1>2. group' = group BY DEF DeleteColor
<1>3. idol' \in [Idols -> IdolRow \cup {Absent}] BY <1>1 DEF DeleteColor
<1>4. MembersMatch' BY <1>1, <1>2 DEF ArtistsInv, MembersMatch, Exists
<1> QED BY <1>2, <1>3, <1>4 DEF ArtistsInv

LEMMA NextArtists == ArtistsInv /\ [Next]_vars => ArtistsInv'
<1> SUFFICES ASSUME ArtistsInv, [Next]_vars PROVE ArtistsInv' OBVIOUS
<1>1. CASE UNCHANGED artistVars
  BY <1>1 DEF artistVars, ArtistsInv, MembersMatch, Exists
<1>2. CASE SiteStep(SiteNext)
  <2>1. SiteNext BY <1>2 DEF SiteStep
  <2>2. CASE TalentHandlers
    BY <1>1, <2>2, TalentWrites, GroupWritesKeepMembers, IdolWritesKeepMembers, DeleteColorKeepsMembers
  <2>3. CASE ~TalentHandlers BY <1>1, <2>1, <2>3, OtherHandlersKeepArtists
  <2> QED BY <2>2, <2>3
<1>3. CASE ~SiteStep(SiteNext)
  <2>1. UNCHANGED artistVars
    BY <1>3 DEF Next, AccountStep, ContactStep, UploadStep, vars, rowVars, artistVars
  <2> QED BY <1>1, <2>1
<1> QED BY <1>2, <1>3

\* Whatever managers and admins do to companies, groups, idols and colours,
\* an idol is in a group of its own company and a manager's pages agree.
THEOREM IdolsMatchGroups == Spec => []IdolGroupSameCompany
<1>1. Spec => []ArtistsInv BY InitArtists, NextArtists, PTL DEF Spec
<1> QED BY <1>1, PagesFollow, PTL

-----------------------------------------------------------------------------
(***************************************************************************)
(* Cached pages                                                            *)
(***************************************************************************)
\* A reader never holds a page that is merely behind: what overtakes it makes
\* the page late.
CacheInv == CacheTypeOK /\ PagesFollowRows

\* These pages are all that show these tables as they change.
Complete(tables, pages) == \A p \in Pages : tables \cap Shows(p) # {} => p \in pages

\* What each page shows as it changes, of what it reads.
LEMMA RowsShown ==
  /\ Shows("products_list") = {"products", "stock"}
  /\ Shows("store") = {"products", "stock"}
  /\ Shows("product_detail") = {"products", "stock"}
  /\ Shows("events") = {"concerts", "concert_list"}
  /\ Shows("manager_events") = {"concerts", "concert_list"}
  /\ Shows("concert_detail") = {"concerts", "ticket_types", "sold", "campaigns", "performers"}
  /\ Shows("members") = {"idols", "images", "groups", "group_list"}
  /\ Shows("idol_detail") = {"idols", "images", "groups"}
  /\ Shows("groups") = {"groups", "group_list", "idols"}
  /\ Shows("group_detail") = {"idols", "images", "groups"}
  /\ Shows("manager_groups") = {"groups", "group_list"}
  /\ Shows("manager_idols") = {"idols", "images", "groups", "group_list"}
  /\ Shows("manager_idol_form") = {"idols", "images", "groups", "group_list", "colors"}
  /\ Shows("manager_products") = {"products"}
  /\ Shows("manager_product_form") = {"products", "colors"}
  /\ Shows("venues") = {"venues"}
  /\ Shows("idol_colors") = {"colors"}
  /\ Shows("companies") = {"companies"}
<1> USE CacheAssumption DEF Shows, Reads, Pages, ArtistRows, ConcertRows
<1>1. /\ Shows("products_list") = {"products", "stock"}
      /\ Shows("store") = {"products", "stock"}
      /\ Shows("product_detail") = {"products", "stock"}
  BY DEF ProductsListReads, ProductCardReads
<1>2. /\ Shows("events") = {"concerts", "concert_list"}
      /\ Shows("manager_events") = {"concerts", "concert_list"}
      /\ Shows("concert_detail") = {"concerts", "ticket_types", "sold", "campaigns", "performers"}
  BY DEF EventsReads, ConcertDetailReads
<1>3. /\ Shows("members") = {"idols", "images", "groups", "group_list"}
      /\ Shows("idol_detail") = {"idols", "images", "groups"}
      /\ Shows("groups") = {"groups", "group_list", "idols"}
      /\ Shows("group_detail") = {"idols", "images", "groups"}
  BY DEF MembersReads, IdolDetailReads, GroupsReads, GroupDetailReads
<1>4. /\ Shows("manager_groups") = {"groups", "group_list"}
      /\ Shows("manager_idols") = {"idols", "images", "groups", "group_list"}
      /\ Shows("manager_idol_form") = {"idols", "images", "groups", "group_list", "colors"}
  BY DEF ManagerIdolsReads, ManagerIdolFormReads
<1>5. /\ Shows("manager_products") = {"products"}
      /\ Shows("manager_product_form") = {"products", "colors"}
  BY DEF ProductsListReads, ManagerProductsReads, ManagerProductFormReads
<1>6. /\ Shows("venues") = {"venues"}
      /\ Shows("idol_colors") = {"colors"}
      /\ Shows("companies") = {"companies"}
  OBVIOUS
<1> QED BY <1>1, <1>2, <1>3, <1>4, <1>5, <1>6

LEMMA CommitKeepsCache ==
  ASSUME CacheInv, NEW tables, NEW pages, Complete(tables, pages), Commit(tables, pages)
  PROVE  CacheInv'
<1> USE CacheAssumption DEF CacheInv, CacheTypeOK
<1>1. page \in Pages \/ tables \cap Shows(page) = {}
  <2> SUFFICES ASSUME page \notin Pages PROVE Shows(page) = {} OBVIOUS
  <2>1. page = NoPage OBVIOUS
  <2>2. Shows(page) = Reads(page) BY DEF Pages, Shows
  <2> QED BY <2>1, <2>2 DEF Pages, Reads
<1>2. owed' \in 0..MaxOwed /\ owed' >= owed BY DEF Commit
<1>3. copy' \in Freshness \cup {"none"} BY DEF Commit, Ages, Freshness
<1>4. ASSUME NEW r \in Readers PROVE Ages(built[r], tables, "late") \in {"idle", "fresh", "gap", "late"}
  BY DEF Ages, Freshness
<1>5. ASSUME copy' = "behind" PROVE owed' > 0
  <2>1. copy = "behind" \/ tables \cap Shows(page) # {} BY <1>5 DEF Commit, Ages, Freshness
  <2>2. CASE copy = "behind" BY <2>2, <1>2 DEF PagesFollowRows
  <2>3. CASE copy # "behind"
    <3>1. page \in pages BY <1>1, <1>5, <2>1, <2>3 DEF Complete, Commit, Ages, Freshness
    <3> QED BY <3>1 DEF Commit
  <2> QED BY <2>2, <2>3
<1> QED BY <1>2, <1>3, <1>4, <1>5 DEF Commit, PagesFollowRows

\* What the handlers write and delete: every page that shows it.
LEMMA PagesComplete ==
  /\ Complete({"companies"}, {"companies"})
  /\ Complete({"group_list"}, GroupOptionPages \cup {"manager_groups"})
  /\ Complete({"groups"}, GroupPages)
  /\ Complete({"idols", "images"}, IdolPages)
  /\ Complete({"idols"}, IdolPages)
  /\ Complete({"images"}, IdolPages \ {"groups"})
  /\ Complete({"colors"}, ColorPages)
  /\ Complete({}, {})
  /\ Complete({"positions"}, {})
  /\ Complete(ProductTables, AllProductPages)
  /\ Complete({"products"}, AllProductPages)
  /\ Complete({"album_details"}, {})
  /\ Complete({"merch_details"}, {})
  /\ Complete({"categories"}, {})
  /\ Complete({"genres"}, {})
  /\ Complete({"stock"}, ProductPages \cup {"product_detail"})
  /\ Complete({"venues"}, {"venues"})
  /\ Complete({"concert_list"}, EventPages)
  /\ Complete({"concerts"}, EventPages \cup {"concert_detail"})
  /\ Complete({"performers"}, {"concert_detail"})
  /\ Complete({"ticket_types"}, {"concert_detail"})
  /\ Complete({"ticket_types", "campaigns", "entries"}, {"concert_detail"})
  /\ Complete({"campaigns"}, {"concert_detail"})
  /\ Complete({"campaigns", "entries"}, {"concert_detail"})
  /\ Complete({"sold"}, {"concert_detail"})
  /\ Complete({"entries"}, {})
<1> USE RowsShown DEF Complete, Pages
<1>1. /\ Complete({"companies"}, {"companies"})
      /\ Complete({"group_list"}, GroupOptionPages \cup {"manager_groups"})
      /\ Complete({"groups"}, GroupPages)
  BY DEF GroupPages, GroupOptionPages, ArtistPages
<1>2. /\ Complete({"idols", "images"}, IdolPages)
      /\ Complete({"idols"}, IdolPages)
      /\ Complete({"images"}, IdolPages \ {"groups"})
  BY DEF IdolPages, GroupOptionPages, ArtistPages
<1>3. Complete({"colors"}, ColorPages) BY DEF ColorPages, ManagerProductPages
<1>4. Complete({}, {}) /\ Complete({"positions"}, {}) OBVIOUS
<1>5. Complete(ProductTables, AllProductPages) /\ Complete({"products"}, AllProductPages)
  BY DEF ProductTables, AllProductPages, ProductPages, ManagerProductPages
<1>6. /\ Complete({"album_details"}, {}) /\ Complete({"merch_details"}, {})
      /\ Complete({"categories"}, {}) /\ Complete({"genres"}, {}) /\ Complete({"entries"}, {})
  OBVIOUS
<1>7. Complete({"stock"}, ProductPages \cup {"product_detail"}) BY DEF ProductPages
<1>8. /\ Complete({"venues"}, {"venues"}) /\ Complete({"concert_list"}, EventPages)
      /\ Complete({"concerts"}, EventPages \cup {"concert_detail"})
  BY DEF EventPages
<1>9. /\ Complete({"performers"}, {"concert_detail"}) /\ Complete({"ticket_types"}, {"concert_detail"})
      /\ Complete({"ticket_types", "campaigns", "entries"}, {"concert_detail"})
      /\ Complete({"campaigns"}, {"concert_detail"}) /\ Complete({"campaigns", "entries"}, {"concert_detail"})
      /\ Complete({"sold"}, {"concert_detail"})
  OBVIOUS
<1> QED BY <1>1, <1>2, <1>3, <1>4, <1>5, <1>6, <1>7, <1>8, <1>9

\* With the rows of a detail more is written, but no page shows those at once.
LEMMA DetailPagesComplete ==
  /\ \A kind \in Kinds : Complete(ProductTables \cup {DetailTable(kind)}, AllProductPages)
  /\ Complete(ProductTables \cup {"album_details", "merch_details", "genres"}, AllProductPages)
BY RowsShown DEF Complete, Pages, ProductTables, DetailTable, AllProductPages, ProductPages,
  ManagerProductPages

LEMMA TalentHandlersKeepCache == ASSUME CacheInv, TalentHandlers PROVE CacheInv'
<1> USE CommitKeepsCache, PagesComplete DEF Talented
<1>1. ASSUME NEW c, AddNewCompany(c) \/ UpdateExistingCompany(c) \/ DeleteExistingCompany(c) PROVE CacheInv'
  BY <1>1 DEF AddNewCompany, UpdateExistingCompany, DeleteExistingCompany
<1>2. ASSUME NEW who, NEW g, NEW c, AddNewGroup(who, g, c) PROVE CacheInv'
  BY <1>2 DEF AddNewGroup
<1>3. ASSUME NEW who, NEW g,
             UpdateExistingGroup(who, g) \/ DeleteExistingGroup(who, g) \/ ActivateExistingGroup(who, g)
      PROVE  CacheInv'
  BY <1>3 DEF UpdateExistingGroup, DeleteExistingGroup, ActivateExistingGroup
<1>4. ASSUME NEW who, NEW i, NEW c, NEW g, NEW color,
             AddNewIdol(who, i, c, g, color) \/ UpdateExistingIdol(who, i, g, color)
      PROVE  CacheInv'
  BY <1>4 DEF AddNewIdol, UpdateExistingIdol
<1>5. ASSUME NEW who, NEW i,
             DeleteExistingIdol(who, i) \/ ActivateExistingIdol(who, i) \/ UploadIdolImage(who, i)
      PROVE  CacheInv'
  BY <1>5 DEF DeleteExistingIdol, ActivateExistingIdol, UploadIdolImage
<1>6. ASSUME NEW who, NEW i, NEW p, NEW primary,
             \/ AssignPositionToIdol(who, i, p, primary) \/ SetIdolPositionPrimary(who, i, p, primary)
             \/ UnassignPositionFromIdol(who, i, p)
      PROVE  CacheInv'
  BY <1>6 DEF AssignPositionToIdol, SetIdolPositionPrimary, UnassignPositionFromIdol
<1>7. ASSUME NEW color,
             AddNewIdolColor(color) \/ UpdateExistingIdolColor(color) \/ DeleteExistingIdolColor(color)
      PROVE  CacheInv'
  BY <1>7 DEF AddNewIdolColor, UpdateExistingIdolColor, DeleteExistingIdolColor
<1>8. ASSUME NEW p, AddNewPosition(p) \/ UpdateExistingPosition(p) \/ DeleteExistingPosition(p) PROVE CacheInv'
  BY <1>8 DEF AddNewPosition, UpdateExistingPosition, DeleteExistingPosition
<1> QED BY <1>1, <1>2, <1>3, <1>4, <1>5, <1>6, <1>7, <1>8 DEF TalentHandlers

LEMMA MarketplaceHandlersKeepCache == ASSUME CacheInv, MarketplaceHandlers PROVE CacheInv'
<1> USE CommitKeepsCache, PagesComplete, DetailPagesComplete DEF Marketed
<1>1. ASSUME NEW p, NEW cat, AddNewProduct(p, cat) PROVE CacheInv' BY <1>1 DEF AddNewProduct
<1>2. ASSUME NEW ps, NEW cats, AddNewBulkProducts(ps, cats) PROVE CacheInv' BY <1>2 DEF AddNewBulkProducts
<1>3. ASSUME NEW who, NEW p, NEW cat, NEW kind \in Kinds, NEW a,
             AddNewProductWithDetail(who, p, cat, kind, a) \/ UpdateExistingProduct(who, p, cat)
      PROVE  CacheInv'
  BY <1>3 DEF AddNewProductWithDetail, UpdateExistingProduct
<1>4. ASSUME NEW who, NEW p, UploadProductImage(who, p) \/ DeleteExistingProduct(who, p) PROVE CacheInv'
  BY <1>4 DEF UploadProductImage, DeleteExistingProduct
<1>5. ASSUME NEW who, NEW p, NEW a, AddNewAlbumDetail(who, p, a) \/ AddNewMerchDetail(who, p, a) PROVE CacheInv'
  BY <1>5 DEF AddNewAlbumDetail, AddNewMerchDetail, Inserted, cacheVars, CacheInv, CacheTypeOK, PagesFollowRows
<1>6. ASSUME NEW who, NEW p,
             \/ UpdateExistingAlbumDetail(who, p) \/ DeleteExistingAlbumDetail(who, p)
             \/ UpdateExistingMerchDetail(who, p) \/ DeleteExistingMerchDetail(who, p)
      PROVE  CacheInv'
  BY <1>6 DEF UpdateExistingAlbumDetail, DeleteExistingAlbumDetail, UpdateExistingMerchDetail,
    DeleteExistingMerchDetail
<1>7. ASSUME NEW who, NEW p, NEW g, AssignGenreToAlbum(who, p, g) \/ UnassignGenreFromAlbum(who, p, g)
      PROVE  CacheInv'
  BY <1>7 DEF AssignGenreToAlbum, UnassignGenreFromAlbum
<1>8. ASSUME NEW cat, AddNewCategory(cat) \/ UpdateExistingCategory(cat) \/ DeleteExistingCategory(cat)
      PROVE  CacheInv'
  BY <1>8 DEF AddNewCategory, UpdateExistingCategory, DeleteExistingCategory
<1>9. ASSUME NEW g, AddNewGenre(g) \/ DeleteExistingGenre(g) PROVE CacheInv'
  BY <1>9 DEF AddNewGenre, DeleteExistingGenre
<1>10. ASSUME NEW p, OrderPaid(p) \/ OrderCaptured(p) PROVE CacheInv' BY <1>10 DEF OrderPaid, OrderCaptured
<1>11. ASSUME NEW p, NEW kind \in Kinds, CommitNewDetail(p, kind) PROVE CacheInv'
  BY <1>11 DEF CommitNewDetail, DetailTable
<1>12. ASSUME NEW who \in Staff, NEW p \in Products,
              \/ \E cat \in Categories :
                   \/ \E kind \in Kinds, a \in AlbumArtists : AddNewProductWithDetail(who, p, cat, kind, a)
                   \/ UpdateExistingProduct(who, p, cat)
              \/ UploadProductImage(who, p) \/ DeleteExistingProduct(who, p)
              \/ \E a \in AlbumArtists : AddNewAlbumDetail(who, p, a)
              \/ \E a \in MerchArtists : AddNewMerchDetail(who, p, a)
       PROVE  CacheInv'
  <2>1. CASE \E cat \in Categories, kind \in Kinds, a \in AlbumArtists :
               AddNewProductWithDetail(who, p, cat, kind, a)
    BY <1>3, <2>1
  <2>2. CASE \E cat \in Categories : UpdateExistingProduct(who, p, cat) BY <2>2 DEF UpdateExistingProduct
  <2>3. CASE UploadProductImage(who, p) \/ DeleteExistingProduct(who, p) BY <1>4, <2>3
  <2>4. CASE \/ \E a \in AlbumArtists : AddNewAlbumDetail(who, p, a)
             \/ \E a \in MerchArtists : AddNewMerchDetail(who, p, a)
    BY <1>5, <2>4
  <2> QED BY <1>12, <2>1, <2>2, <2>3, <2>4
<1> QED BY <1>1, <1>2, <1>6, <1>7, <1>8, <1>9, <1>10, <1>11, <1>12 DEF MarketplaceHandlers

LEMMA EventHandlersKeepCache == ASSUME CacheInv, EventHandlers PROVE CacheInv'
<1> USE CommitKeepsCache, PagesComplete DEF Staged
<1>1. ASSUME NEW v, AddNewVenue(v) \/ UpdateExistingVenue(v) \/ DeleteExistingVenue(v) PROVE CacheInv'
  BY <1>1 DEF AddNewVenue, UpdateExistingVenue, DeleteExistingVenue
<1>2. ASSUME NEW who, NEW c, NEW company, NEW v, NEW capacity, NEW status,
             \/ AddNewConcert(who, c, company, v, capacity, status)
             \/ UpdateExistingConcert(who, c, v, capacity, status)
      PROVE  CacheInv'
  BY <1>2 DEF AddNewConcert, UpdateExistingConcert
<1>3. ASSUME NEW who, NEW c, NEW a,
             \/ DeleteExistingConcert(who, c) \/ AssignConcertPerformer(who, c, a)
             \/ UnassignConcertPerformer(who, a)
      PROVE  CacheInv'
  BY <1>3 DEF DeleteExistingConcert, AssignConcertPerformer, UnassignConcertPerformer
<1>4. ASSUME NEW who, NEW c, NEW o, NEW n,
             AddNewTicketType(who, c, o, n) \/ UpdateExistingTicketType(who, c, o, n)
      PROVE  CacheInv'
  BY <1>4 DEF AddNewTicketType, UpdateExistingTicketType
<1>5. ASSUME NEW who, NEW c, NEW o,
             \/ DeleteExistingTicketType(who, c, o) \/ AddNewCampaign(who, c, o)
             \/ UpdateExistingCampaign(who, c, o) \/ DeleteExistingCampaign(who, c, o)
      PROVE  CacheInv'
  BY <1>5 DEF DeleteExistingTicketType, AddNewCampaign, UpdateExistingCampaign, DeleteExistingCampaign
<1>6. ASSUME NEW c, NEW o, SoldQuantityMoves(c, o) \/ FanApplies(c, o) PROVE CacheInv'
  BY <1>6 DEF SoldQuantityMoves, FanApplies
<1> QED BY <1>1, <1>2, <1>3, <1>4, <1>5, <1>6 DEF EventHandlers

LEMMA InitCache == Init => CacheInv
BY CacheAssumption DEF Init, CacheInit, CacheInv, CacheTypeOK, PagesFollowRows, Freshness

LEMMA SiteKeepsCache == ASSUME CacheInv, SiteNext PROVE CacheInv'
<1> USE CacheAssumption DEF CacheInv, CacheTypeOK, PagesFollowRows, CacheOnly
<1>1. CASE Handlers
  BY <1>1, TalentHandlersKeepCache, MarketplaceHandlersKeepCache, EventHandlersKeepCache DEF Handlers
<1>2. CASE CacheOnly(Delete) \/ CacheOnly(LoseDelete) \/ CacheOnly(Expire)
  BY <1>2 DEF Delete, LoseDelete, Expire, Freshness
<1>3. ASSUME NEW r \in Readers, CacheOnly(Build(r)) \/ CacheOnly(Store(r)) \/ CacheOnly(Abandon(r))
      PROVE  CacheInv'
  BY <1>3 DEF Build, Store, Abandon, Freshness
<1> QED BY <1>1, <1>2, <1>3 DEF SiteNext

LEMMA NextCache == CacheInv /\ [Next]_vars => CacheInv'
<1> SUFFICES ASSUME CacheInv, [Next]_vars PROVE CacheInv' OBVIOUS
<1>1. CASE SiteStep(SiteNext) BY <1>1, SiteKeepsCache DEF SiteStep
<1>2. CASE ~SiteStep(SiteNext)
  <2>1. UNCHANGED cacheVars BY <1>2 DEF Next, AccountStep, ContactStep, UploadStep, vars, rowVars
  <2> QED BY <2>1 DEF cacheVars, CacheInv, CacheTypeOK, PagesFollowRows
<1> QED BY <1>1, <1>2

\* Whatever page is watched, for any number of readers and handlers at once:
\* a copy that lacks a write its page shows has a delete coming,
\* unless an overtaken reader stored it or a handler died.
THEOREM InvalidationsReachEveryPage == Spec => []PagesFollowRows
<1>1. Spec => []CacheInv BY InitCache, NextCache, PTL DEF Spec
<1> QED BY <1>1, PTL DEF CacheInv

-----------------------------------------------------------------------------
(***************************************************************************)
(* Rows and what they refer to                                             *)
(***************************************************************************)
\* An insert is of a kind of detail that its product does not have yet.
InsertsNew ==
  \A p \in Products :
    /\ Exists(album[p]) => adding[<<p, "album">>] = Absent
    /\ Exists(merch[p]) => adding[<<p, "merch">>] = Absent
    /\ adding[<<p, "merch">>] \in MerchArtists \cup {Absent}

\* Counting what is inserted and not yet committed, a product has details of
\* one kind, unless the two were inserted together.
KindsApart ==
  \A p \in Products \ together :
    (Exists(album[p]) \/ adding[<<p, "album">>] # Absent)
      => merch[p] = Absent /\ adding[<<p, "merch">>] = Absent

TalentInv == ArtistsInv /\ TalentTypeOK /\ TalentRefsExist /\ employer \in [Users -> Companies \cup {None}]
CatalogueInv == ProductsTypeOK /\ CatalogueRefsExist /\ InsertsNew /\ KindsApart
StageInv == ConcertsTypeOK /\ ConcertRefsExist
RowsInv == TalentInv /\ CatalogueInv /\ StageInv

\* Groups and idols are switched off, never deleted.
ArtistsStay ==
  /\ \A g \in Groups : Exists(group[g]) => Exists(group'[g])
  /\ \A i \in Idols : Exists(idol[i]) => Exists(idol'[i])

LEMMA InitRows == Init => RowsInv
<1> SUFFICES ASSUME Init PROVE RowsInv OBVIOUS
<1> USE SeedAssumption DEF Init
<1>1. TalentInv
  <2>1. ArtistsInv BY InitArtists
  <2>2. TalentTypeOK /\ employer \in [Users -> Companies \cup {None}]
    BY DEF TalentTypeOK, PositionLinks, IdentityInit
  <2>3. TalentRefsExist BY <2>2 DEF TalentRefsExist, Exists, GroupRow, IdolRow, IdentityInit, TalentTypeOK
  <2> QED BY <2>1, <2>2, <2>3 DEF TalentInv
<1>2. CatalogueInv
  BY DEF CatalogueInv, ProductsTypeOK, CatalogueRefsExist, InsertsNew, KindsApart, Kinds, Exists
<1>3. StageInv BY DEF StageInv, ConcertsTypeOK, ConcertRefsExist, Exists, ConcertRow
<1> QED BY <1>1, <1>2, <1>3 DEF RowsInv

(***************************************************************************)
(* Talent                                                                  *)
(***************************************************************************)
LEMMA CompanyWritesKeepRows ==
  ASSUME TalentInv, NEW c \in Companies, AddCompany(c) \/ DeleteCompany(c)
  PROVE  TalentInv' /\ ArtistsStay
<1>1. UNCHANGED <<group, idol, colors, positions, held>> BY DEF AddCompany, DeleteCompany
<1>2. TalentTypeOK' BY <1>1 DEF TalentInv, TalentTypeOK, AddCompany, DeleteCompany
<1>3. ArtistsInv' BY <1>1 DEF TalentInv, ArtistsInv, MembersMatch, Exists
<1>4. employer' \in [Users -> Companies \cup {None}] BY DEF TalentInv, AddCompany, DeleteCompany
<1>5. TalentRefsExist'
  <2>1. CASE AddCompany(c) BY <1>1, <2>1 DEF AddCompany, TalentInv, TalentRefsExist, Exists
  <2>2. CASE DeleteCompany(c)
    BY <1>1, <2>2 DEF DeleteCompany, HasArtists, TalentInv, TalentRefsExist, Exists
  <2> QED BY <2>1, <2>2
<1> QED BY <1>1, <1>2, <1>3, <1>4, <1>5 DEF TalentInv, ArtistsStay

LEMMA GroupWritesKeepRows ==
  ASSUME TalentInv, NEW who \in Staff, NEW g \in Groups,
         \/ \E c \in Companies : AddGroup(who, g, c)
         \/ DeleteGroup(who, g) \/ ReactivateGroup(who, g)
  PROVE  TalentInv' /\ ArtistsStay
<1>1. ArtistsInv' BY GroupWritesKeepMembers DEF TalentInv
<1>2. UNCHANGED <<companies, employer, idol, colors, positions, held>>
  BY DEF AddGroup, DeleteGroup, ReactivateGroup
<1>3. ASSUME NEW h \in Groups, Exists(group'[h])
      PROVE  group'[h].company \in companies
  <2>1. CASE Exists(group[h])
    <3>1. group[h].company \in companies BY <2>1 DEF TalentInv, TalentRefsExist
    <3>2. group'[h].company = group[h].company
      BY <2>1 DEF AddGroup, DeleteGroup, ReactivateGroup, TalentInv, ArtistsInv, Exists, GroupRow
    <3> QED BY <3>1, <3>2
  <2>2. CASE ~Exists(group[h])
    BY <1>3, <2>2 DEF AddGroup, DeleteGroup, ReactivateGroup, ManagesGroup, TalentInv, ArtistsInv, Exists
  <2> QED BY <2>1, <2>2
<1>4. \A h \in Groups : Exists(group[h]) => Exists(group'[h])
  <2> SUFFICES ASSUME NEW h \in Groups, group[h] # Absent PROVE group'[h] # Absent BY DEF Exists
  <2>1. group[h] \in GroupRow BY DEF TalentInv, ArtistsInv
  <2>2. CASE h # g BY <2>2 DEF AddGroup, DeleteGroup, ReactivateGroup, TalentInv, ArtistsInv
  <2>3. CASE h = g
    <3>1. PICK on \in BOOLEAN : group'[g] = [group[g] EXCEPT !.active = on]
      BY <2>3 DEF AddGroup, DeleteGroup, ReactivateGroup, TalentInv, ArtistsInv
    <3>2. [group[g] EXCEPT !.active = on] \in GroupRow BY <2>1, <2>3 DEF GroupRow
    <3> QED BY <2>3, <3>1, <3>2, SeedAssumption
  <2> QED BY <2>2, <2>3
<1> QED BY <1>1, <1>2, <1>3, <1>4 DEF TalentInv, TalentTypeOK, ArtistsInv, TalentRefsExist, ArtistsStay, Exists

LEMMA IdolWritesKeepRows ==
  ASSUME TalentInv, NEW who \in Staff, NEW i \in Idols,
         \/ \E g \in Groups \cup {None}, color \in Colors \cup {None} :
              \/ \E c \in Companies : AddIdol(who, i, c, g, color)
              \/ UpdateIdol(who, i, g, color)
         \/ DeleteIdol(who, i) \/ ReactivateIdol(who, i)
  PROVE  TalentInv' /\ ArtistsStay
<1>1. ArtistsInv' BY IdolWritesKeepMembers DEF TalentInv
<1>2. UNCHANGED <<companies, employer, group, colors, positions, held>>
  BY DEF AddIdol, UpdateIdol, DeleteIdol, ReactivateIdol
<1>3. PICK row \in IdolRow : /\ idol' = [idol EXCEPT ![i] = row]
                             /\ row.company \in companies /\ row.color \in colors \cup {None}
  <2>1. CASE \E g \in Groups \cup {None}, color \in Colors \cup {None}, c \in Companies :
               AddIdol(who, i, c, g, color)
    <3>1. PICK g \in Groups \cup {None}, color \in Colors \cup {None}, c \in Companies :
            AddIdol(who, i, c, g, color)
      BY <2>1
    <3>2. [company |-> c, group |-> g, color |-> color, active |-> TRUE] \in IdolRow BY DEF IdolRow
    <3> USE <3>2
    <3> WITNESS [company |-> c, group |-> g, color |-> color, active |-> TRUE] \in IdolRow
    <3> QED BY <3>1 DEF AddIdol, ValidRefs
  <2>2. CASE \E g \in Groups \cup {None}, color \in Colors \cup {None} : UpdateIdol(who, i, g, color)
    <3>1. PICK g \in Groups \cup {None}, color \in Colors \cup {None} : UpdateIdol(who, i, g, color) BY <2>2
    <3>2. idol[i] \in IdolRow BY <3>1 DEF UpdateIdol, ManagesIdol, Exists, TalentInv, ArtistsInv
    <3>3. [idol[i] EXCEPT !.group = g, !.color = color] \in IdolRow BY <3>2 DEF IdolRow
    <3> USE <3>3
    <3> WITNESS [idol[i] EXCEPT !.group = g, !.color = color] \in IdolRow
    <3> QED BY <3>1, <3>2 DEF UpdateIdol, ValidRefs, IdolRow, TalentInv, ArtistsInv
  <2>3. CASE DeleteIdol(who, i) \/ ReactivateIdol(who, i)
    <3>1. idol[i] \in IdolRow /\ Exists(idol[i])
      BY <2>3 DEF DeleteIdol, ReactivateIdol, ManagesIdol, Exists, TalentInv, ArtistsInv
    <3>2. PICK on \in BOOLEAN : idol' = [idol EXCEPT ![i].active = on]
      <4>1. CASE DeleteIdol(who, i) BY <4>1 DEF DeleteIdol
      <4>2. CASE ReactivateIdol(who, i) BY <4>2 DEF ReactivateIdol
      <4> QED BY <2>3, <4>1, <4>2
    <3>3. [idol[i] EXCEPT !.active = on] \in IdolRow BY <3>1 DEF IdolRow
    <3>4. idol[i].company \in companies /\ idol[i].color \in colors \cup {None}
      BY <3>1 DEF TalentInv, TalentRefsExist
    <3> USE <3>3
    <3> WITNESS [idol[i] EXCEPT !.active = on] \in IdolRow
    <3> QED BY <3>1, <3>2, <3>4 DEF IdolRow, TalentInv, ArtistsInv
  <2> QED BY <2>1, <2>2, <2>3
<1>4. idol \in [Idols -> IdolRow \cup {Absent}] /\ row # Absent BY <1>3, SeedAssumption DEF TalentInv, ArtistsInv
<1>5. \A j \in Idols : Exists(idol[j]) => Exists(idol'[j]) BY <1>3, <1>4 DEF Exists
<1>6. TalentRefsExist' BY <1>2, <1>3, <1>4, <1>5 DEF TalentInv, TalentRefsExist, Exists
<1> QED BY <1>1, <1>2, <1>5, <1>6 DEF TalentInv, TalentTypeOK, ArtistsInv, ArtistsStay, Exists

LEMMA ColorWritesKeepRows ==
  ASSUME TalentInv, NEW color \in Colors, AddColor(color) \/ DeleteColor(color)
  PROVE  TalentInv' /\ ArtistsStay
<1>1. UNCHANGED <<companies, employer, group, positions, held>> /\ colors' \subseteq Colors
  BY DEF AddColor, DeleteColor, TalentInv, TalentTypeOK
<1>2. ArtistsInv'
  <2>1. CASE AddColor(color) BY <2>1 DEF AddColor, TalentInv, ArtistsInv, MembersMatch, Exists
  <2>2. CASE DeleteColor(color) BY <2>2, DeleteColorKeepsMembers DEF TalentInv
  <2> QED BY <2>1, <2>2
<1>3. ASSUME NEW i \in Idols, Exists(idol[i])
      PROVE  Exists(idol'[i]) /\ idol'[i].company \in companies /\ idol'[i].color \in colors' \cup {None}
  <2>1. idol[i] \in IdolRow /\ idol[i].company \in companies /\ idol[i].color \in colors \cup {None}
    BY <1>3 DEF TalentInv, ArtistsInv, TalentRefsExist, Exists
  <2>2. CASE AddColor(color) BY <1>3, <2>1, <2>2 DEF AddColor
  <2>3. CASE DeleteColor(color)
    <3>1. CASE idol[i].color = color
      <4>1. idol'[i] = [idol[i] EXCEPT !.color = None] BY <1>3, <2>3, <3>1 DEF DeleteColor
      <4>2. [idol[i] EXCEPT !.color = None] \in IdolRow BY <2>1 DEF IdolRow
      <4> QED BY <2>1, <4>1, <4>2, SeedAssumption DEF IdolRow, Exists
    <3>2. CASE idol[i].color # color BY <1>3, <2>1, <2>3, <3>2 DEF DeleteColor
    <3> QED BY <3>1, <3>2
  <2> QED BY <2>2, <2>3
<1>4. ASSUME NEW i \in Idols, ~Exists(idol[i]) PROVE ~Exists(idol'[i])
  BY <1>4 DEF AddColor, DeleteColor, Exists
<1>5. TalentRefsExist' BY <1>1, <1>3, <1>4 DEF TalentInv, TalentRefsExist, Exists
<1> QED BY <1>1, <1>2, <1>3, <1>5 DEF TalentInv, TalentTypeOK, ArtistsInv, ArtistsStay, Exists

LEMMA PositionWritesKeepRows ==
  ASSUME TalentInv, NEW p \in Positions,
         \/ AddPosition(p) \/ DeletePosition(p)
         \/ \E who \in Staff, i \in Idols :
              \/ \E primary \in BOOLEAN : AssignPosition(who, i, p, primary) \/ SetPrimary(who, i, p, primary)
              \/ RemovePosition(who, i, p)
  PROVE  TalentInv' /\ ArtistsStay
<1>1. UNCHANGED <<companies, employer, group, idol, colors>>
  BY DEF AddPosition, DeletePosition, AssignPosition, SetPrimary, RemovePosition
<1>2. ArtistsInv' /\ ArtistsStay BY <1>1 DEF TalentInv, ArtistsInv, MembersMatch, Exists, ArtistsStay
<1>3. positions' \subseteq Positions /\ held' \in [Idols \X Positions -> PositionLinks]
  BY DEF AddPosition, DeletePosition, AssignPosition, SetPrimary, RemovePosition, TalentInv, TalentTypeOK,
    PositionLinks
<1>4. ASSUME NEW i \in Idols, NEW q \in Positions, held'[<<i, q>>] # "no"
      PROVE  Exists(idol[i]) /\ q \in positions'
  <2>1. CASE AddPosition(p) \/ DeletePosition(p)
    BY <1>4, <2>1 DEF AddPosition, DeletePosition, TalentInv, TalentRefsExist
  <2>2. ASSUME NEW who \in Staff, NEW j \in Idols, NEW primary \in BOOLEAN,
               \/ AssignPosition(who, j, p, primary) \/ SetPrimary(who, j, p, primary)
               \/ RemovePosition(who, j, p)
        PROVE  Exists(idol[i]) /\ q \in positions'
    <3>1. positions' = positions BY <2>2 DEF AssignPosition, SetPrimary, RemovePosition
    <3>2. CASE <<i, q>> = <<j, p>>
      BY <1>4, <2>2, <3>1, <3>2 DEF AssignPosition, SetPrimary, RemovePosition, ManagesIdol, TalentInv,
        TalentRefsExist, TalentTypeOK
    <3>3. CASE <<i, q>> # <<j, p>>
      <4>1. held'[<<i, q>>] = held[<<i, q>>]
        BY <2>2, <3>3 DEF AssignPosition, SetPrimary, RemovePosition, TalentInv, TalentTypeOK
      <4> QED BY <1>4, <3>1, <4>1 DEF TalentInv, TalentRefsExist
    <3> QED BY <3>2, <3>3
  <2> QED BY <2>1, <2>2
<1>5. TalentRefsExist' BY <1>1, <1>4 DEF TalentInv, TalentRefsExist, Exists
<1> QED BY <1>1, <1>2, <1>3, <1>5 DEF TalentInv, TalentTypeOK

LEMMA TalentHandlersKeepTalent ==
  ASSUME TalentInv, TalentHandlers
  PROVE  /\ TalentInv' /\ ArtistsStay
         /\ UNCHANGED <<productVars, concertVars>>
         /\ \A k \in Concerts : Exists(concert[k]) /\ concert[k].company \in companies => concert[k].company \in companies'
<1>1. UNCHANGED <<productVars, concertVars>>
  BY DEF TalentHandlers, Talented, AddNewCompany, UpdateExistingCompany, DeleteExistingCompany, AddNewGroup,
    UpdateExistingGroup, DeleteExistingGroup, ActivateExistingGroup, AddNewIdol, UpdateExistingIdol,
    DeleteExistingIdol, ActivateExistingIdol, UploadIdolImage, AssignPositionToIdol, SetIdolPositionPrimary,
    UnassignPositionFromIdol, AddNewIdolColor, UpdateExistingIdolColor, DeleteExistingIdolColor,
    AddNewPosition, UpdateExistingPosition, DeleteExistingPosition
<1>2. ASSUME UNCHANGED talentVars PROVE TalentInv' /\ ArtistsStay /\ companies' = companies
  BY <1>2 DEF talentVars, TalentInv, ArtistsInv, MembersMatch, TalentTypeOK, TalentRefsExist, ArtistsStay, Exists
<1>3. ASSUME NEW c \in Companies, AddNewCompany(c) \/ UpdateExistingCompany(c) \/ DeleteExistingCompany(c)
      PROVE  /\ TalentInv' /\ ArtistsStay
             /\ \A k \in Concerts : Exists(concert[k]) /\ concert[k].company \in companies
                                     => concert[k].company \in companies'
  BY <1>2, <1>3, CompanyWritesKeepRows DEF AddNewCompany, UpdateExistingCompany, DeleteExistingCompany, Talented,
    UpdateCompany, AddCompany, DeleteCompany
<1>4. ASSUME NEW who \in Staff, NEW g \in Groups,
             \/ \E c \in Companies : AddNewGroup(who, g, c)
             \/ UpdateExistingGroup(who, g) \/ DeleteExistingGroup(who, g) \/ ActivateExistingGroup(who, g)
      PROVE  TalentInv' /\ ArtistsStay /\ companies' = companies
  <2>1. CASE UpdateExistingGroup(who, g) BY <1>2, <2>1 DEF UpdateExistingGroup, Talented, UpdateGroup
  <2>2. CASE ~UpdateExistingGroup(who, g)
    <3>1. \/ \E c \in Companies : AddGroup(who, g, c)
          \/ DeleteGroup(who, g) \/ ReactivateGroup(who, g)
      BY <1>4, <2>2 DEF AddNewGroup, DeleteExistingGroup, ActivateExistingGroup, Talented
    <3>2. companies' = companies BY <3>1 DEF AddGroup, DeleteGroup, ReactivateGroup
    <3> QED BY <3>1, <3>2, GroupWritesKeepRows
  <2> QED BY <2>1, <2>2
<1>5. ASSUME NEW who \in Staff, NEW i \in Idols,
             \/ \E g \in Groups \cup {None}, color \in Colors \cup {None} :
                  \/ \E c \in Companies : AddNewIdol(who, i, c, g, color)
                  \/ UpdateExistingIdol(who, i, g, color)
             \/ DeleteExistingIdol(who, i) \/ ActivateExistingIdol(who, i) \/ UploadIdolImage(who, i)
      PROVE  TalentInv' /\ ArtistsStay /\ companies' = companies
  <2>1. CASE UploadIdolImage(who, i) BY <1>2, <2>1 DEF UploadIdolImage, Talented, SetIdolImage
  <2>2. CASE ~UploadIdolImage(who, i)
    <3>1. \/ \E g \in Groups \cup {None}, color \in Colors \cup {None} :
               \/ \E c \in Companies : AddIdol(who, i, c, g, color)
               \/ UpdateIdol(who, i, g, color)
          \/ DeleteIdol(who, i) \/ ReactivateIdol(who, i)
      BY <1>5, <2>2 DEF AddNewIdol, UpdateExistingIdol, DeleteExistingIdol, ActivateExistingIdol, Talented
    <3>2. companies' = companies BY <3>1 DEF AddIdol, UpdateIdol, DeleteIdol, ReactivateIdol
    <3> QED BY <3>1, <3>2, IdolWritesKeepRows
  <2> QED BY <2>1, <2>2
<1>6. ASSUME NEW color \in Colors,
             AddNewIdolColor(color) \/ UpdateExistingIdolColor(color) \/ DeleteExistingIdolColor(color)
      PROVE  TalentInv' /\ ArtistsStay /\ companies' = companies
  <2>1. CASE UpdateExistingIdolColor(color) BY <1>2, <2>1 DEF UpdateExistingIdolColor, Talented, UpdateColor
  <2>2. CASE ~UpdateExistingIdolColor(color)
    <3>1. AddColor(color) \/ DeleteColor(color)
      BY <1>6, <2>2 DEF AddNewIdolColor, DeleteExistingIdolColor, Talented
    <3>2. companies' = companies BY <3>1 DEF AddColor, DeleteColor
    <3> QED BY <3>1, <3>2, ColorWritesKeepRows
  <2> QED BY <2>1, <2>2
<1>7. ASSUME NEW p \in Positions,
             \/ AddNewPosition(p) \/ UpdateExistingPosition(p) \/ DeleteExistingPosition(p)
             \/ \E who \in Staff, i \in Idols :
                  \/ \E primary \in BOOLEAN :
                       AssignPositionToIdol(who, i, p, primary) \/ SetIdolPositionPrimary(who, i, p, primary)
                  \/ UnassignPositionFromIdol(who, i, p)
      PROVE  TalentInv' /\ ArtistsStay /\ companies' = companies
  <2>1. CASE UpdateExistingPosition(p) BY <1>2, <2>1 DEF UpdateExistingPosition, Talented, UpdatePosition
  <2>2. CASE ~UpdateExistingPosition(p)
    <3>1. \/ AddPosition(p) \/ DeletePosition(p)
          \/ \E who \in Staff, i \in Idols :
               \/ \E primary \in BOOLEAN : AssignPosition(who, i, p, primary) \/ SetPrimary(who, i, p, primary)
               \/ RemovePosition(who, i, p)
      BY <1>7, <2>2 DEF AddNewPosition, DeleteExistingPosition, AssignPositionToIdol, SetIdolPositionPrimary,
        UnassignPositionFromIdol, Talented
    <3>2. companies' = companies
      BY <3>1 DEF AddPosition, DeletePosition, AssignPosition, SetPrimary, RemovePosition
    <3> QED BY <3>1, <3>2, PositionWritesKeepRows
  <2> QED BY <2>1, <2>2
<1> QED BY <1>1, <1>3, <1>4, <1>5, <1>6, <1>7 DEF TalentHandlers

\* Credits and performers keep their artists, concerts their companies.
LEMMA TalentHandlersKeepRows == ASSUME RowsInv, TalentHandlers PROVE RowsInv'
<1>1. /\ TalentInv' /\ ArtistsStay /\ UNCHANGED <<productVars, concertVars>>
      /\ \A k \in Concerts : Exists(concert[k]) /\ concert[k].company \in companies
                              => concert[k].company \in companies'
  BY TalentHandlersKeepTalent DEF RowsInv
<1>2. \A a \in AlbumArtists : ArtistExists(a) => ArtistExists(a)'
  BY <1>1 DEF ArtistsStay, ArtistExists, AlbumArtists, Exists
<1>3. CatalogueInv'
  <2>1. MerchArtists \subseteq AlbumArtists BY DEF MerchArtists
  <2>2. CatalogueRefsExist'
    BY <1>1, <1>2, <2>1 DEF productVars, inserts, RowsInv, CatalogueInv, CatalogueRefsExist, ProductsTypeOK, Exists
  <2> QED BY <1>1, <2>2 DEF productVars, inserts, RowsInv, CatalogueInv, ProductsTypeOK, InsertsNew, KindsApart, Exists
<1>4. StageInv'
  <2>1. \A link \in performers : link.artist \in AlbumArtists
    BY DEF RowsInv, StageInv, ConcertsTypeOK, Performers
  <2> QED BY <1>1, <1>2, <2>1 DEF concertVars, RowsInv, StageInv, ConcertsTypeOK, ConcertRefsExist, Exists
<1> QED BY <1>1, <1>3, <1>4 DEF RowsInv

(***************************************************************************)
(* The catalogue                                                           *)
(***************************************************************************)
LEMMA ProductWritesKeepCatalogue ==
  ASSUME CatalogueInv, UNCHANGED <<group, idol>>, NEW who, NEW p \in Products, NEW cat \in Categories,
         \/ AddProduct(p, cat) \/ UpdateProduct(who, p, cat) \/ DeleteProduct(who, p) \/ PutInCart(p)
         \/ \E ps \in SUBSET Products : \E cats \in [ps -> Categories] : AddBulkProducts(ps, cats)
  PROVE  CatalogueInv'
<1> USE SeedAssumption DEF CatalogueInv, ProductsTypeOK, CatalogueRefsExist, InsertsNew, KindsApart, Exists,
      ArtistExists, Kinds, inserts
<1>1. CASE AddProduct(p, cat) BY <1>1 DEF AddProduct
<1>2. CASE UpdateProduct(who, p, cat) BY <1>2 DEF UpdateProduct, ManagesProduct
<1>3. CASE DeleteProduct(who, p)
  <2>1. adding[<<p, "album">>] = Absent /\ adding[<<p, "merch">>] = Absent
    <3>1. "album" \in Kinds /\ "merch" \in Kinds OBVIOUS
    <3> QED BY ONLY <1>3, <3>1 DEF DeleteProduct
  <2>2. ProductsTypeOK' BY <1>3 DEF DeleteProduct
  <2>3. CatalogueRefsExist' BY SMTT(60), <1>3, <2>1 DEF DeleteProduct
  <2>4. InsertsNew' BY <1>3 DEF DeleteProduct
  <2>5. KindsApart' BY <1>3, <2>1 DEF DeleteProduct
  <2> QED BY <2>2, <2>3, <2>4, <2>5
<1>4. CASE PutInCart(p) BY <1>4 DEF PutInCart
<1>5. ASSUME NEW ps \in SUBSET Products, NEW cats \in [ps -> Categories], AddBulkProducts(ps, cats)
      PROVE  CatalogueInv'
  BY <1>5 DEF AddBulkProducts
<1> QED BY <1>1, <1>2, <1>3, <1>4, <1>5

LEMMA DetailWritesKeepCatalogue ==
  ASSUME CatalogueInv, UNCHANGED <<group, idol>>, NEW who, NEW p \in Products, NEW a \in AlbumArtists,
         \/ \E cat \in Categories, kind \in Kinds : AddProductWithDetail(who, p, cat, kind, a)
         \/ DeleteAlbumDetail(who, p) \/ DeleteMerchDetail(who, p)
  PROVE  CatalogueInv'
<1> USE SeedAssumption DEF CatalogueInv, ProductsTypeOK, CatalogueRefsExist, InsertsNew, KindsApart, Exists,
      ArtistExists, CanCredit, Kinds, inserts
<1>1. ASSUME NEW cat \in Categories, AddProductWithDetail(who, p, cat, "album", a) PROVE CatalogueInv'
  <2>1. /\ album[p] = Absent /\ merch[p] = Absent
        /\ adding[<<p, "album">>] = Absent /\ adding[<<p, "merch">>] = Absent
    BY <1>1 DEF AddProductWithDetail
  <2>2. ProductsTypeOK' BY <1>1 DEF AddProductWithDetail
  <2>3. CatalogueRefsExist' BY <1>1 DEF AddProductWithDetail
  <2>4. InsertsNew' BY <1>1, <2>1 DEF AddProductWithDetail
  <2>5. KindsApart' BY <1>1, <2>1 DEF AddProductWithDetail
  <2> QED BY <2>2, <2>3, <2>4, <2>5
<1>2. ASSUME NEW cat \in Categories, AddProductWithDetail(who, p, cat, "merch", a) PROVE CatalogueInv'
  <2>1. /\ album[p] = Absent /\ merch[p] = Absent
        /\ adding[<<p, "album">>] = Absent /\ adding[<<p, "merch">>] = Absent
    BY <1>2 DEF AddProductWithDetail
  <2>2. ProductsTypeOK' BY <1>2 DEF AddProductWithDetail
  <2>3. CatalogueRefsExist' BY <1>2 DEF AddProductWithDetail
  <2>4. InsertsNew'
    <3>1. merch' = [merch EXCEPT ![p] = a] /\ album' = album /\ adding' = adding
      BY <1>2 DEF AddProductWithDetail
    <3> QED BY <2>1, <3>1
  <2>5. KindsApart' BY <1>2, <2>1 DEF AddProductWithDetail
  <2> QED BY <2>2, <2>3, <2>4, <2>5
<1>3. CASE DeleteAlbumDetail(who, p) BY <1>3 DEF DeleteAlbumDetail, ManagesDetail
<1>4. CASE DeleteMerchDetail(who, p) BY <1>4 DEF DeleteMerchDetail, ManagesDetail
<1>5. Kinds = {"album", "merch"} OBVIOUS
<1> QED BY ONLY <1>1, <1>2, <1>3, <1>4, <1>5,
      \/ \E cat \in Categories, kind \in Kinds : AddProductWithDetail(who, p, cat, kind, a)
      \/ DeleteAlbumDetail(who, p) \/ DeleteMerchDetail(who, p)

\* What a trigger misses is the insert of the other kind that is in flight,
\* and then the two are inserted together.
LEMMA InsertsKeepCatalogue ==
  ASSUME CatalogueInv, UNCHANGED <<group, idol>>, NEW who, NEW p \in Products, NEW a \in AlbumArtists,
         \/ AddAlbumDetail(who, p, a)
         \/ a \in MerchArtists /\ AddMerchDetail(who, p, a)
  PROVE  CatalogueInv'
<1> USE SeedAssumption DEF CatalogueInv, ProductsTypeOK, CatalogueRefsExist, InsertsNew, KindsApart, Exists,
      ArtistExists, CanCredit, Kinds, InsertDetail, Other, ExclusiveKind
<1>1. CASE AddAlbumDetail(who, p, a)
  <2> DEFINE pk == <<p, "album">>
  <2>1. pk \in Products \X Kinds OBVIOUS
  <2>2. /\ adding' = [adding EXCEPT ![pk] = a]
        /\ together' = IF adding[<<p, "merch">>] # Absent THEN together \cup {p} ELSE together
        /\ UNCHANGED <<categories, product, album, merch, genres, tagged, ordered>>
        /\ Exists(product[p]) /\ ArtistExists(a) /\ album[p] = Absent /\ merch[p] = Absent
    BY <1>1 DEF AddAlbumDetail
  <2>3. ProductsTypeOK' BY <2>2
  <2>4. CatalogueRefsExist' BY <2>1, <2>2
  <2>5. InsertsNew' BY <2>2
  <2>6. KindsApart' BY <2>2
  <2> QED BY <2>3, <2>4, <2>5, <2>6
<1>2. CASE a \in MerchArtists /\ AddMerchDetail(who, p, a)
  <2> DEFINE pk == <<p, "merch">>
  <2>1. pk \in Products \X Kinds OBVIOUS
  <2>2. /\ adding' = [adding EXCEPT ![pk] = a]
        /\ together' = IF adding[<<p, "album">>] # Absent THEN together \cup {p} ELSE together
        /\ UNCHANGED <<categories, product, album, merch, genres, tagged, ordered>>
        /\ Exists(product[p]) /\ ArtistExists(a) /\ album[p] = Absent /\ merch[p] = Absent
    BY <1>2 DEF AddMerchDetail
  <2>3. ProductsTypeOK' BY <2>2
  <2>4. CatalogueRefsExist' BY <2>1, <2>2
  <2>5. InsertsNew' BY <1>2, <2>1, <2>2
  <2>6. KindsApart' BY <2>2
  <2> QED BY <2>3, <2>4, <2>5, <2>6
<1> QED BY <1>1, <1>2

LEMMA CommitsKeepCatalogue ==
  ASSUME CatalogueInv, UNCHANGED <<group, idol>>, NEW p \in Products, NEW kind \in Kinds, CommitDetail(p, kind)
  PROVE  CatalogueInv'
<1> USE SeedAssumption DEF CatalogueInv, ProductsTypeOK, CatalogueRefsExist, InsertsNew, KindsApart, Exists,
      ArtistExists, Kinds, CommitDetail
<1>1. CASE kind = "album"
  <2>1. <<p, "album">> \in Products \X Kinds /\ adding[<<p, "album">>] # Absent BY <1>1
  <2>2. /\ album' = [album EXCEPT ![p] = adding[<<p, "album">>]]
        /\ adding' = [adding EXCEPT ![<<p, "album">>] = Absent]
        /\ UNCHANGED <<categories, product, merch, genres, tagged, together, ordered>>
    BY <1>1
  <2>3. ProductsTypeOK' BY <2>1, <2>2
  <2>4. ASSUME NEW q \in Products
        PROVE  /\ album'[q] # Absent => Exists(product[q]) /\ ArtistExists(album'[q])
               /\ album[q] # Absent => album'[q] # Absent
    <3>1. CASE q = p
      <4>1. album'[q] = adding[<<p, "album">>] BY <2>2, <3>1
      <4>2. Exists(product[p]) /\ ArtistExists(adding[<<p, "album">>]) BY <2>1
      <4> QED BY <2>1, <3>1, <4>1, <4>2
    <3>2. CASE q # p BY <2>2, <3>2
    <3> QED BY <3>1, <3>2
  <2>5. ASSUME NEW q \in Products, NEW l \in Kinds
        PROVE  adding'[<<q, l>>] = IF q = p /\ l = "album" THEN Absent ELSE adding[<<q, l>>]
    BY <2>2
  <2>6. CatalogueRefsExist'
    <3>1. /\ \A q \in Products : Exists(product'[q]) => product'[q] \in categories'
          /\ \A q \in Products : Exists(album'[q]) => Exists(product'[q]) /\ ArtistExists(album[q])'
          /\ \A t \in tagged' : Exists(album'[t[1]]) /\ t[2] \in genres'
          /\ \A q \in ordered' : Exists(product'[q])
      BY <2>2, <2>4
    <3>2. \A q \in Products : Exists(merch'[q]) => Exists(product'[q]) /\ ArtistExists(merch[q])' BY <2>2
    <3>3. \A q \in Products, l \in Kinds :
            adding'[<<q, l>>] # Absent => Exists(product'[q]) /\ ArtistExists(adding[<<q, l>>])'
      <4> SUFFICES ASSUME NEW q \in Products, NEW l \in Kinds, adding'[<<q, l>>] # Absent
                   PROVE  Exists(product'[q]) /\ ArtistExists(adding[<<q, l>>])'
        OBVIOUS
      <4>1. adding'[<<q, l>>] = adding[<<q, l>>] BY <2>5
      <4>2. Exists(product[q]) /\ ArtistExists(adding[<<q, l>>]) BY <4>1
      <4> QED BY ONLY <2>2, <4>1, <4>2, UNCHANGED <<group, idol>> DEF ArtistExists, Exists
    <3> QED BY ONLY <3>1, <3>2, <3>3 DEF CatalogueRefsExist
  <2>7. InsertsNew' BY <2>2, <2>5
  <2>8. KindsApart' BY <2>1, <2>2
  <2> QED BY <2>3, <2>6, <2>7, <2>8
<1>2. CASE kind = "merch"
  <2>1. /\ <<p, "merch">> \in Products \X Kinds /\ adding[<<p, "merch">>] # Absent
        /\ adding[<<p, "merch">>] \in MerchArtists
    BY <1>2
  <2>2. /\ merch' = [merch EXCEPT ![p] = adding[<<p, "merch">>]]
        /\ adding' = [adding EXCEPT ![<<p, "merch">>] = Absent]
        /\ UNCHANGED <<categories, product, album, genres, tagged, together, ordered>>
    BY <1>2
  <2>3. ProductsTypeOK' BY <2>1, <2>2
  <2>4. ASSUME NEW q \in Products
        PROVE  /\ merch'[q] # Absent => Exists(product[q]) /\ ArtistExists(merch'[q])
               /\ merch[q] # Absent => merch'[q] # Absent
    BY <2>1, <2>2
  <2>5. ASSUME NEW q \in Products, NEW l \in Kinds
        PROVE  adding'[<<q, l>>] = IF q = p /\ l = "merch" THEN Absent ELSE adding[<<q, l>>]
    BY <2>2
  <2>6. CatalogueRefsExist'
    <3>1. /\ \A q \in Products : Exists(product'[q]) => product'[q] \in categories'
          /\ \A q \in Products : Exists(merch'[q]) => Exists(product'[q]) /\ ArtistExists(merch[q])'
          /\ \A t \in tagged' : Exists(album'[t[1]]) /\ t[2] \in genres'
          /\ \A q \in ordered' : Exists(product'[q])
      BY <2>2, <2>4
    <3>2. \A q \in Products : Exists(album'[q]) => Exists(product'[q]) /\ ArtistExists(album[q])' BY <2>2
    <3>3. \A q \in Products, l \in Kinds :
            adding'[<<q, l>>] # Absent => Exists(product'[q]) /\ ArtistExists(adding[<<q, l>>])'
      <4> SUFFICES ASSUME NEW q \in Products, NEW l \in Kinds, adding'[<<q, l>>] # Absent
                   PROVE  Exists(product'[q]) /\ ArtistExists(adding[<<q, l>>])'
        OBVIOUS
      <4>1. adding'[<<q, l>>] = adding[<<q, l>>] BY <2>5
      <4>2. Exists(product[q]) /\ ArtistExists(adding[<<q, l>>])
        BY ONLY <4>1, adding'[<<q, l>>] # Absent, q \in Products, l \in Kinds, CatalogueInv
           DEF CatalogueInv, CatalogueRefsExist
      <4> QED BY ONLY <2>2, <4>1, <4>2, UNCHANGED <<group, idol>> DEF ArtistExists, Exists
    <3> QED BY ONLY <3>1, <3>2, <3>3 DEF CatalogueRefsExist
  <2>7. InsertsNew' BY <2>2, <2>5
  <2>8. KindsApart' BY <2>1, <2>2
  <2> QED BY <2>3, <2>6, <2>7, <2>8
<1> QED BY <1>1, <1>2

LEMMA LookupWritesKeepCatalogue ==
  ASSUME CatalogueInv, UNCHANGED <<group, idol>>, NEW who,
         \/ \E cat \in Categories : AddCategory(cat) \/ DeleteCategory(cat)
         \/ \E g \in Genres : AddGenre(g) \/ DeleteGenre(g)
         \/ \E p \in Products, g \in Genres : AssignGenre(who, p, g) \/ RemoveGenre(who, p, g)
  PROVE  CatalogueInv'
<1> USE SeedAssumption DEF CatalogueInv, ProductsTypeOK, CatalogueRefsExist, InsertsNew, KindsApart, Exists,
      ArtistExists, Kinds, inserts
<1>1. CASE \E cat \in Categories : AddCategory(cat) \/ DeleteCategory(cat)
  BY <1>1 DEF AddCategory, DeleteCategory
<1>2. CASE \E g \in Genres : AddGenre(g) \/ DeleteGenre(g) BY <1>2 DEF AddGenre, DeleteGenre
<1>3. CASE \E p \in Products, g \in Genres : AssignGenre(who, p, g) \/ RemoveGenre(who, p, g)
  BY <1>3 DEF AssignGenre, RemoveGenre, ManagesDetail
<1> QED BY <1>1, <1>2, <1>3

LEMMA MarketplaceHandlersKeepRows == ASSUME RowsInv, MarketplaceHandlers PROVE RowsInv'
<1> USE DEF Marketed
<1>1. UNCHANGED <<talentVars, concertVars>>
  BY DEF MarketplaceHandlers, AddNewProduct, AddNewBulkProducts, AddNewProductWithDetail,
    UpdateExistingProduct, UploadProductImage, DeleteExistingProduct, AddNewAlbumDetail,
    UpdateExistingAlbumDetail, DeleteExistingAlbumDetail, AddNewMerchDetail, UpdateExistingMerchDetail,
    DeleteExistingMerchDetail, AddNewCategory, UpdateExistingCategory, DeleteExistingCategory, AddNewGenre,
    DeleteExistingGenre, AssignGenreToAlbum, UnassignGenreFromAlbum, OrderPaid, OrderCaptured,
    Inserted, CommitNewDetail
<1>2. UNCHANGED <<group, idol>> /\ CatalogueInv BY <1>1 DEF talentVars, RowsInv
<1>3. TalentInv' /\ StageInv'
  BY <1>1 DEF RowsInv, talentVars, concertVars, TalentInv, ArtistsInv, MembersMatch, TalentTypeOK,
    TalentRefsExist, StageInv, ConcertsTypeOK, ConcertRefsExist, ArtistExists, Exists
<1>4. ASSUME UNCHANGED productVars PROVE CatalogueInv'
  BY <1>2, <1>4 DEF productVars, inserts, CatalogueInv, ProductsTypeOK, CatalogueRefsExist, InsertsNew,
    KindsApart, ArtistExists, Exists
<1>5. ASSUME NEW p \in Products, NEW cat \in Categories, AddNewProduct(p, cat) PROVE CatalogueInv'
  BY <1>2, <1>5, ProductWritesKeepCatalogue DEF AddNewProduct
<1>6. ASSUME NEW ps \in SUBSET Products, NEW cats \in [ps -> Categories], AddNewBulkProducts(ps, cats)
      PROVE  CatalogueInv'
  <2>1. AddBulkProducts(ps, cats) BY <1>6 DEF AddNewBulkProducts
  <2>2. PICK p \in Products : p \in ps BY <2>1 DEF AddBulkProducts
  <2>3. cats[p] \in Categories BY <2>2
  <2> QED BY <1>2, <2>1, <2>2, <2>3, ProductWritesKeepCatalogue
<1>7. ASSUME NEW who \in Staff, NEW p \in Products, NEW cat \in Categories,
             \/ \E kind \in Kinds, a \in AlbumArtists :
                  AddNewProductWithDetail(who, p, cat, kind, a)
             \/ UpdateExistingProduct(who, p, cat)
      PROVE  CatalogueInv'
  BY <1>2, <1>7, ProductWritesKeepCatalogue, DetailWritesKeepCatalogue DEF AddNewProductWithDetail,
    UpdateExistingProduct
<1>8. ASSUME NEW who \in Staff, NEW p \in Products, UploadProductImage(who, p) \/ DeleteExistingProduct(who, p)
      PROVE  CatalogueInv'
  <2>1. CASE UploadProductImage(who, p) BY <1>4, <2>1 DEF UploadProductImage, SetProductImage
  <2>2. CASE DeleteExistingProduct(who, p)
    <3>1. DeleteProduct(who, p) /\ product[p] \in Categories
      BY <1>2, <2>2 DEF DeleteExistingProduct, DeleteProduct, ManagesProduct, Exists, CatalogueInv, ProductsTypeOK
    <3> QED BY <1>2, <3>1, ProductWritesKeepCatalogue
  <2> QED BY <1>8, <2>1, <2>2
<1>9. ASSUME NEW who \in Staff, NEW p \in Products,
             \/ \E a \in AlbumArtists : AddNewAlbumDetail(who, p, a)
             \/ \E a \in MerchArtists : AddNewMerchDetail(who, p, a)
      PROVE  CatalogueInv'
  <2>1. CASE \E a \in AlbumArtists : AddNewAlbumDetail(who, p, a)
    BY <1>2, <2>1, InsertsKeepCatalogue DEF AddNewAlbumDetail, Inserted
  <2>2. CASE \E a \in MerchArtists : AddNewMerchDetail(who, p, a)
    <3>1. PICK a \in MerchArtists : AddMerchDetail(who, p, a) BY <2>2 DEF AddNewMerchDetail, Inserted
    <3>2. a \in AlbumArtists BY DEF MerchArtists
    <3> QED BY <1>2, <3>1, <3>2, InsertsKeepCatalogue
  <2> QED BY <1>9, <2>1, <2>2
<1>10. ASSUME NEW who \in Staff, NEW p \in Products,
              UpdateExistingAlbumDetail(who, p) \/ UpdateExistingMerchDetail(who, p)
       PROVE  CatalogueInv'
  BY <1>4, <1>10 DEF UpdateExistingAlbumDetail, UpdateExistingMerchDetail, UpdateAlbumDetail, UpdateMerchDetail
<1>11. ASSUME NEW who \in Staff, NEW p \in Products, DeleteExistingAlbumDetail(who, p) PROVE CatalogueInv'
  <2>1. DeleteAlbumDetail(who, p) /\ album[p] \in AlbumArtists
    BY <1>2, <1>11 DEF DeleteExistingAlbumDetail, DeleteAlbumDetail, ManagesDetail, Exists, CatalogueInv,
      ProductsTypeOK
  <2> QED BY <1>2, <2>1, DetailWritesKeepCatalogue
<1>12. ASSUME NEW who \in Staff, NEW p \in Products, DeleteExistingMerchDetail(who, p) PROVE CatalogueInv'
  <2>1. DeleteMerchDetail(who, p) /\ merch[p] \in AlbumArtists
    BY <1>2, <1>12 DEF DeleteExistingMerchDetail, DeleteMerchDetail, ManagesDetail, Exists, CatalogueInv,
      ProductsTypeOK, MerchArtists
  <2> QED BY <1>2, <2>1, DetailWritesKeepCatalogue
<1>13. ASSUME NEW who \in Staff, NEW p \in Products, NEW g \in Genres,
              AssignGenreToAlbum(who, p, g) \/ UnassignGenreFromAlbum(who, p, g)
       PROVE  CatalogueInv'
  BY <1>2, <1>13, LookupWritesKeepCatalogue DEF AssignGenreToAlbum, UnassignGenreFromAlbum
<1>14. ASSUME NEW cat \in Categories,
              AddNewCategory(cat) \/ UpdateExistingCategory(cat) \/ DeleteExistingCategory(cat)
       PROVE  CatalogueInv'
  BY <1>2, <1>4, <1>14, LookupWritesKeepCatalogue DEF AddNewCategory, UpdateExistingCategory,
    DeleteExistingCategory, UpdateCategory
<1>15. ASSUME NEW g \in Genres, AddNewGenre(g) \/ DeleteExistingGenre(g) PROVE CatalogueInv'
  BY <1>2, <1>15, LookupWritesKeepCatalogue DEF AddNewGenre, DeleteExistingGenre
<1>16. ASSUME NEW p \in Products, OrderPaid(p) \/ OrderCaptured(p) PROVE CatalogueInv'
  <2>1. CASE OrderPaid(p)
    <3>1. PutInCart(p) /\ product[p] \in Categories
      BY <1>2, <2>1 DEF OrderPaid, PutInCart, Exists, CatalogueInv, ProductsTypeOK
    <3> QED BY <1>2, <3>1, ProductWritesKeepCatalogue
  <2>2. CASE OrderCaptured(p) BY <1>4, <2>2 DEF OrderCaptured
  <2> QED BY <1>16, <2>1, <2>2
<1>17. ASSUME NEW p \in Products, NEW kind \in Kinds, CommitNewDetail(p, kind) PROVE CatalogueInv'
  BY <1>2, <1>17, CommitsKeepCatalogue DEF CommitNewDetail
<1>18. CatalogueInv'
  <2>1. ASSUME NEW who \in Staff, NEW p \in Products,
               \/ \E cat \in Categories :
                    \/ \E kind \in Kinds, a \in AlbumArtists :
                         AddNewProductWithDetail(who, p, cat, kind, a)
                    \/ UpdateExistingProduct(who, p, cat)
               \/ UploadProductImage(who, p) \/ DeleteExistingProduct(who, p)
        PROVE  CatalogueInv'
    BY <1>7, <1>8, <2>1
  <2>2. ASSUME NEW who \in Staff, NEW p \in Products,
               \/ \E a \in AlbumArtists : AddNewAlbumDetail(who, p, a)
               \/ UpdateExistingAlbumDetail(who, p) \/ DeleteExistingAlbumDetail(who, p)
               \/ \E a \in MerchArtists : AddNewMerchDetail(who, p, a)
               \/ UpdateExistingMerchDetail(who, p) \/ DeleteExistingMerchDetail(who, p)
               \/ \E g \in Genres : AssignGenreToAlbum(who, p, g) \/ UnassignGenreFromAlbum(who, p, g)
        PROVE  CatalogueInv'
    BY <1>9, <1>10, <1>11, <1>12, <1>13, <2>2
  <2> QED BY <1>5, <1>6, <1>14, <1>15, <1>16, <1>17, <2>1, <2>2 DEF MarketplaceHandlers
<1> QED BY <1>3, <1>18 DEF RowsInv

(***************************************************************************)
(* Concerts                                                                *)
(***************************************************************************)
LEMMA ConcertWritesKeepStage ==
  ASSUME StageInv, UNCHANGED <<companies, group, idol>>, NEW who, NEW c \in Concerts, NEW v \in Venues,
         \/ AddVenue(v) \/ DeleteVenue(v) \/ DeleteConcert(who, c)
         \/ \E capacity \in Capacities, status \in Statuses :
              \/ \E company \in Companies : AddConcert(who, c, company, v, capacity, status)
              \/ UpdateConcert(who, c, v, capacity, status)
  PROVE  StageInv'
<1> USE SeedAssumption DEF StageInv, ConcertRefsExist, ConcertsTypeOK, Exists, ArtistExists
<1>1. CASE AddVenue(v) \/ DeleteVenue(v) BY <1>1 DEF AddVenue, DeleteVenue
<1>2. ASSUME NEW row \in ConcertRow, concert' = [concert EXCEPT ![c] = row], row.company \in companies,
             row.venue \in venues, UNCHANGED <<venues, performers, ticketType, campaigns>>
      PROVE  StageInv'
  BY <1>2
<1>3. ASSUME NEW capacity \in Capacities, NEW status \in Statuses, NEW company \in Companies,
             AddConcert(who, c, company, v, capacity, status)
      PROVE  StageInv'
  <2>1. [company |-> company, venue |-> v, status |-> status, capacity |-> capacity] \in ConcertRow
    BY DEF ConcertRow
  <2> QED BY <1>2, <1>3, <2>1 DEF AddConcert
<1>4. ASSUME NEW capacity \in Capacities, NEW status \in Statuses, UpdateConcert(who, c, v, capacity, status)
      PROVE  StageInv'
  <2> DEFINE row == [concert[c] EXCEPT !.venue = v, !.capacity = capacity, !.status = status]
  <2>1. concert[c] \in ConcertRow /\ concert[c].company \in companies BY <1>4 DEF UpdateConcert, ManagesConcert
  <2>2. row \in ConcertRow /\ row.company = concert[c].company /\ row.venue = v BY <2>1 DEF ConcertRow
  <2>3. concert' = [concert EXCEPT ![c] = row] BY <1>4, <2>1 DEF UpdateConcert, ConcertRow
  <2> HIDE DEF row
  <2> QED BY <1>2, <1>4, <2>1, <2>2, <2>3 DEF UpdateConcert
<1>5. CASE DeleteConcert(who, c)
  <2> DEFINE row == [concert[c] EXCEPT !.status = "cancelled"]
  <2>1. /\ concert[c] \in ConcertRow
        /\ concert[c].company \in companies /\ concert[c].venue \in venues
    BY <1>5 DEF DeleteConcert, ManagesConcert
  <2>2. row \in ConcertRow /\ row.company = concert[c].company /\ row.venue = concert[c].venue
    BY <2>1 DEF ConcertRow, Statuses
  <2>3. concert' = [concert EXCEPT ![c] = row] BY <1>5 DEF DeleteConcert
  <2> HIDE DEF row
  <2> QED BY <1>2, <1>5, <2>1, <2>2, <2>3 DEF DeleteConcert
<1> QED BY <1>1, <1>3, <1>4, <1>5

LEMMA OfferWritesKeepStage ==
  ASSUME StageInv, UNCHANGED <<companies, group, idol>>, NEW who, NEW c \in Concerts, NEW o \in Offers,
         \/ \E n \in TotalQuantities : AddTicketType(who, c, o, n) \/ UpdateTicketType(who, c, o, n)
         \/ DeleteTicketType(who, c, o) \/ SellTicket(c, o)
         \/ AddCampaign(who, c, o) \/ DeleteCampaign(who, c, o)
  PROVE  StageInv'
<1> USE SeedAssumption DEF StageInv, ConcertRefsExist, ConcertsTypeOK, Exists, ArtistExists
<1>1. ASSUME NEW row \in TicketTypeRow, ticketType' = [ticketType EXCEPT ![<<c, o>>] = row],
             Exists(concert[c]), UNCHANGED <<venues, concert, performers, campaigns>>
      PROVE  StageInv'
  <2>1. row # Absent BY SeedAssumption
  <2> QED BY <1>1, <2>1
<1>2. ASSUME NEW n \in TotalQuantities, AddTicketType(who, c, o, n) PROVE StageInv'
  <2>1. [total |-> n, sold |-> 0] \in TicketTypeRow BY DEF TicketTypeRow
  <2> QED BY <1>1, <1>2, <2>1 DEF AddTicketType, ManagesConcert
<1>3. ASSUME NEW n \in TotalQuantities, UpdateTicketType(who, c, o, n) PROVE StageInv'
  <2>1. ticketType[<<c, o>>] \in TicketTypeRow BY <1>3 DEF UpdateTicketType, ManagesTicketType
  <2>2. [ticketType[<<c, o>>] EXCEPT !.total = n] \in TicketTypeRow BY <2>1 DEF TicketTypeRow
  <2> QED BY <1>1, <1>3, <2>2 DEF UpdateTicketType, ManagesTicketType, ManagesConcert
<1>4. CASE SellTicket(c, o)
  <2>1. ticketType[<<c, o>>] \in TicketTypeRow BY <1>4 DEF SellTicket
  <2>2. ticketType[<<c, o>>].sold + 1 \in Nat BY <2>1 DEF TicketTypeRow
  <2>3. [ticketType[<<c, o>>] EXCEPT !.sold = @ + 1] \in TicketTypeRow BY <2>1, <2>2 DEF TicketTypeRow
  <2> QED BY <1>1, <1>4, <2>3 DEF SellTicket
<1>5. CASE DeleteTicketType(who, c, o) BY <1>5 DEF DeleteTicketType
<1>6. CASE AddCampaign(who, c, o)
  <2>1. <<c, o>> \in Concerts \X Offers /\ ticketType[<<c, o>>] # Absent
    BY <1>6 DEF AddCampaign, ManagesTicketType
  <2>2. campaigns' = campaigns \cup {<<c, o>>} /\ UNCHANGED <<venues, concert, performers, ticketType>>
    BY <1>6 DEF AddCampaign
  <2>3. campaigns' \subseteq Concerts \X Offers BY <2>1, <2>2
  <2>4. \A co \in campaigns' : ticketType[co] # Absent BY <2>1, <2>2
  <2> QED BY <2>2, <2>3, <2>4
<1>7. CASE DeleteCampaign(who, c, o) BY <1>7 DEF DeleteCampaign
<1> QED BY <1>2, <1>3, <1>4, <1>5, <1>6, <1>7

LEMMA PerformerWritesKeepStage ==
  ASSUME StageInv, UNCHANGED <<companies, group, idol>>, NEW who,
         \/ \E c \in Concerts, a \in Performers : AssignPerformer(who, c, a)
         \/ \E link \in performers : RemovePerformer(who, link)
  PROVE  StageInv'
BY DEF StageInv, ConcertRefsExist, ConcertsTypeOK, Exists, ArtistExists, AssignPerformer, RemovePerformer,
  ManagesConcert

LEMMA EventHandlersKeepRows == ASSUME RowsInv, EventHandlers PROVE RowsInv'
<1> USE DEF Staged
<1>1. UNCHANGED <<talentVars, productVars>> BY EventsKeepOthers
<1>2. UNCHANGED <<companies, group, idol>> /\ StageInv BY <1>1 DEF talentVars, RowsInv
<1>3. TalentInv' /\ CatalogueInv'
  BY <1>1 DEF RowsInv, talentVars, productVars, inserts, TalentInv, ArtistsInv, MembersMatch, TalentTypeOK,
    TalentRefsExist, CatalogueInv, ProductsTypeOK, CatalogueRefsExist, InsertsNew, KindsApart, ArtistExists, Exists
<1>4. ASSUME UNCHANGED concertVars PROVE StageInv'
  BY <1>2, <1>4 DEF concertVars, StageInv, ConcertsTypeOK, ConcertRefsExist, ArtistExists, Exists
<1>5. ASSUME NEW v \in Venues, AddNewVenue(v) \/ UpdateExistingVenue(v) \/ DeleteExistingVenue(v) PROVE StageInv'
  <2>1. CASE UpdateExistingVenue(v) BY <1>4, <2>1 DEF UpdateExistingVenue, UpdateVenue
  <2>2. CASE AddNewVenue(v) \/ DeleteExistingVenue(v)
    <3>1. AddVenue(v) \/ DeleteVenue(v) BY <2>2 DEF AddNewVenue, DeleteExistingVenue
    <3>2. UNCHANGED <<concert, performers, ticketType, campaigns>> BY <3>1 DEF AddVenue, DeleteVenue
    <3> QED
      BY <1>2, <3>1, <3>2 DEF AddVenue, DeleteVenue, StageInv, ConcertsTypeOK, ConcertRefsExist, ArtistExists,
        Exists
  <2> QED BY <1>5, <2>1, <2>2
<1>6. ASSUME NEW who \in Staff, NEW c \in Concerts, NEW v \in Venues,
             \E capacity \in Capacities, status \in Statuses :
               \/ \E company \in Companies : AddNewConcert(who, c, company, v, capacity, status)
               \/ UpdateExistingConcert(who, c, v, capacity, status)
      PROVE  StageInv'
  BY <1>2, <1>6, ConcertWritesKeepStage DEF AddNewConcert, UpdateExistingConcert
<1>7. ASSUME NEW who \in Staff, NEW c \in Concerts, DeleteExistingConcert(who, c) PROVE StageInv'
  <2>1. DeleteConcert(who, c) BY <1>7 DEF DeleteExistingConcert
  <2>2. concert[c] \in ConcertRow BY <1>2, <2>1 DEF DeleteConcert, ManagesConcert, Exists, StageInv, ConcertsTypeOK
  <2>3. concert[c].venue \in Venues BY <2>2 DEF ConcertRow
  <2> QED BY <1>2, <2>1, <2>3, ConcertWritesKeepStage
<1>8. ASSUME NEW who \in Staff, NEW c \in Concerts, NEW a \in Performers, AssignConcertPerformer(who, c, a)
      PROVE  StageInv'
  BY <1>2, <1>8, PerformerWritesKeepStage DEF AssignConcertPerformer
<1>9. ASSUME NEW who \in Staff, NEW link \in performers, UnassignConcertPerformer(who, link) PROVE StageInv'
  BY <1>2, <1>9, PerformerWritesKeepStage DEF UnassignConcertPerformer
<1>10. ASSUME NEW who \in Staff, NEW c \in Concerts, NEW o \in Offers,
              \/ \E n \in TotalQuantities : AddNewTicketType(who, c, o, n) \/ UpdateExistingTicketType(who, c, o, n)
              \/ DeleteExistingTicketType(who, c, o)
              \/ AddNewCampaign(who, c, o) \/ DeleteExistingCampaign(who, c, o)
       PROVE  StageInv'
  BY <1>2, <1>10, OfferWritesKeepStage DEF AddNewTicketType, UpdateExistingTicketType, DeleteExistingTicketType,
    AddNewCampaign, DeleteExistingCampaign
<1>11. ASSUME NEW who \in Staff, NEW c \in Concerts, NEW o \in Offers, UpdateExistingCampaign(who, c, o)
       PROVE  StageInv'
  BY <1>4, <1>11 DEF UpdateExistingCampaign, UpdateCampaign
<1>12. ASSUME NEW c \in Concerts, NEW o \in Offers, SoldQuantityMoves(c, o) \/ FanApplies(c, o) PROVE StageInv'
  BY <1>2, <1>4, <1>12, OfferWritesKeepStage DEF SoldQuantityMoves, FanApplies
<1>13. StageInv' BY <1>5, <1>6, <1>7, <1>8, <1>9, <1>10, <1>11, <1>12 DEF EventHandlers
<1> QED BY <1>3, <1>13 DEF RowsInv

\* Of the rows the other parts only write who works where.
LEMMA AccountsKeepRows ==
  ASSUME RowsInv, UNCHANGED rowVars,
         \A u \in Users : employer'[u] \in companies \cup {None, employer[u]},
         employer' \in [Users -> Companies \cup {None}]
  PROVE  RowsInv'
<1>1. UNCHANGED <<companies, group, idol, colors, positions, held, productVars, concertVars>> BY DEF rowVars
<1>2. TalentInv'
  BY <1>1 DEF RowsInv, TalentInv, ArtistsInv, MembersMatch, TalentTypeOK, TalentRefsExist, Exists
<1>3. CatalogueInv'
  BY <1>1 DEF RowsInv, productVars, inserts, CatalogueInv, ProductsTypeOK, CatalogueRefsExist, InsertsNew,
    KindsApart, ArtistExists, Exists
<1>4. StageInv'
  BY <1>1 DEF RowsInv, concertVars, StageInv, ConcertsTypeOK, ConcertRefsExist, ArtistExists, Exists
<1> QED BY <1>2, <1>3, <1>4 DEF RowsInv

LEMMA NextRows == RowsInv /\ [Next]_vars => RowsInv'
<1> SUFFICES ASSUME RowsInv, [Next]_vars PROVE RowsInv' OBVIOUS
<1>1. employer \in [Users -> Companies \cup {None}] /\ companies \subseteq Companies
  BY DEF RowsInv, TalentInv, TalentTypeOK
<1>2. ASSUME UNCHANGED <<rowVars, employer>> PROVE RowsInv' BY <1>1, <1>2, AccountsKeepRows
<1>3. CASE SiteStep(SiteNext)
  <2>1. SiteNext BY <1>3 DEF SiteStep
  <2>2. CASE Handlers
    BY <2>2, TalentHandlersKeepRows, MarketplaceHandlersKeepRows, EventHandlersKeepRows DEF Handlers
  <2>3. CASE ~Handlers
    <3>1. UNCHANGED <<talentVars, productVars, concertVars>> BY <2>1, <2>3 DEF SiteNext, CacheOnly
    <3> QED
      BY <3>1 DEF RowsInv, talentVars, productVars, inserts, concertVars, TalentInv, ArtistsInv, MembersMatch,
        TalentTypeOK, TalentRefsExist, CatalogueInv, ProductsTypeOK, CatalogueRefsExist, InsertsNew, KindsApart, StageInv,
        ConcertsTypeOK, ConcertRefsExist, ArtistExists, Exists
  <2> QED BY <2>2, <2>3
<1>4. ASSUME AccountNext, UNCHANGED rowVars PROVE RowsInv'
  <2>1. PICK w \in Users : \/ CreateUser(w) \/ PromoteAdmin(w) \/ DeleteUserAndNotices(w)
                           \/ \E c \in companies : CreateManager(w, c)
    BY <1>4 DEF AccountNext
  <2>2. \/ UNCHANGED employer
        \/ \E c \in companies \cup {None} : employer' = [employer EXCEPT ![w] = c]
    BY <2>1 DEF CreateUser, PromoteAdmin, CreateManager, DeleteUserAndNotices, DeleteUser
  <2> QED BY <1>1, <1>2, <1>4, <2>2, AccountsKeepRows
<1>5. ASSUME NEW u \in Users, DeleteUserAndNotices(u), UNCHANGED rowVars PROVE RowsInv'
  BY <1>1, <1>5, AccountsKeepRows DEF DeleteUserAndNotices, DeleteUser
<1>6. CASE ~SiteStep(SiteNext)
  <2>1. UNCHANGED rowVars BY <1>6 DEF Next, AccountStep, ContactStep, UploadStep, vars, rowVars
  <2>2. CASE AccountNext BY <1>4, <2>1, <2>2 DEF AccountNext
  <2>3. CASE \E u \in Users : DeleteUserAndNotices(u) BY <1>5, <2>1, <2>3
  <2>4. CASE UNCHANGED employer BY <1>2, <2>1, <2>4
  <2>5. SessionNext => UNCHANGED employer
    BY DEF SessionNext, Login, SetPassword, Refresh, Begin, Issue, StartUpdate, EndUpdate, FinishReset, RollBack,
      Logout, TokenExpires, CleanupExpiredTokens, userVars
  <2>6. ResetLinkNext \/ VerificationNext => UNCHANGED employer
    BY DEF ResetLinkNext, VerificationNext, SendLink, LinkExpires, VerifyEmail, ChangePassword, identityVars, userVars
  <2>7. NoticeNext => UNCHANGED employer
    BY DEF NoticeNext, ScheduleDraw, TaskSteps, SendTask, TakeTask, DrawCommits, DrawRefused, ClearPage,
      TellCompletion, TellFailure, TaskNotSent, DrawRaises, TaskIsLost, MarkAsRead, MarkAllAsRead, identityVars
  <2> QED
    BY <1>6, <2>2, <2>3, <2>4, <2>5, <2>6, <2>7 DEF Next, AccountStep, ContactStep, UploadStep, Sessions,
      Notices, Verifications, accountVars, vars, identityVars
<1> QED BY <1>3, <1>6

\* With one kind of detail the order in which the two are tried does not
\* matter, and what is in a cart or an order is still in the catalogue.
LEMMA RowsDecideCompanies == RowsInv => ResolversAgree
<1> SUFFICES ASSUME RowsInv PROVE ResolversAgree OBVIOUS
<1> DEFINE plain == Products \ together
<1>1. \A p \in plain : ProductCompany(p) = ProductCompanyInList(p)
  BY DEF RowsInv, CatalogueInv, KindsApart, ProductCompany, ProductCompanyInList, Exists
<1>2. ASSUME NEW m \in Managers, NEW p \in plain, employer[m] # None
      PROVE  p \in ProductsShownTo(m) <=> ManagesProduct(m, p)
  BY <1>1, <1>2 DEF ProductsShownTo, ManagesProduct, InScope
<1>3. ASSUME NEW m \in Managers, employer[m] # None
      PROVE  /\ ProductsShownTo(m) \cap plain = {p \in plain : ManagesProduct(m, p)}
             /\ \A items \in SUBSET (ordered \cap plain) :
                  /\ MayShip(m, items) <=> ItemsShownTo(m, items) # {}
                  /\ ItemsShownTo(m, items) = {p \in items : MaySeeSales(m, p)}
  <2>1. ProductsShownTo(m) \cap plain = {p \in plain : ManagesProduct(m, p)} BY <1>2, <1>3
  <2>2. ASSUME NEW items \in SUBSET (ordered \cap plain)
        PROVE  /\ MayShip(m, items) <=> ItemsShownTo(m, items) # {}
               /\ ItemsShownTo(m, items) = {p \in items : MaySeeSales(m, p)}
    <3>1. \A p \in items : p \in plain /\ Exists(product[p])
      BY <2>2 DEF RowsInv, CatalogueInv, ProductsTypeOK, CatalogueRefsExist
    <3>2. ItemsShownTo(m, items) = {p \in items : MaySeeSales(m, p)}
      BY <1>2, <1>3, <3>1 DEF ItemsShownTo, MaySeeSales
    <3>3. \A p \in items : p \in ItemsShownTo(m, items) <=> ProductCompanyInList(p) \in {None, employer[m]}
      BY <1>3, <3>1 DEF ItemsShownTo, ProductsShownTo
    <3>4. ItemsShownTo(m, items) \subseteq items BY DEF ItemsShownTo
    <3> QED BY <3>2, <3>3, <3>4 DEF MayShip
  <2> QED BY <2>1, <2>2
<1> QED BY <1>1, <1>3 DEF ResolversAgree

\* Whatever staff do to products, details and artists, at once or one after
\* another, the two ways to find a product's company agree, and so do what a
\* manager is shown and may do, but for products that are left with two
\* details inserted together.
THEOREM CompaniesOfProductsAgree == Spec => []ResolversAgree
<1>1. Spec => []RowsInv BY InitRows, NextRows, PTL DEF Spec
<1> QED BY <1>1, RowsDecideCompanies, PTL

\* No edit or deletion leaves a row that refers to one that is gone.
THEOREM ReferencesHold == Spec => []RefsExist
<1>1. Spec => []RowsInv BY InitRows, NextRows, PTL DEF Spec
<1>2. RowsInv => RefsExist BY DEF RowsInv, TalentInv, CatalogueInv, StageInv, RefsExist
<1> QED BY <1>1, <1>2, PTL
=============================================================================
