-------------------------------- MODULE Site --------------------------------
(***************************************************************************)
(* The routers of talent, catalogue and concerts: who may call what, the   *)
(* service behind it, and the cached pages the handler deletes after the   *)
(* commit.  Rows and cache meet here.                                      *)
(***************************************************************************)
EXTENDS Concerts, ReadCache

CONSTANTS
  MaxPageWrites,   \* bound on the writes of a behaviour that watches a page
  MaxRowWrites     \* bound on those of one that watches the rows only

VARIABLE writes    \* writes so far

siteVars == <<talentVars, productVars, concertVars, cacheVars, writes>>

MayWrite == writes < IF page = NoPage THEN MaxRowWrites ELSE MaxPageWrites
CountWrite == MayWrite /\ writes' = writes + 1

Talented(op, tables, pages) ==
  CountWrite /\ Commit(tables, pages) /\ op /\ UNCHANGED <<productVars, concertVars>>
Marketed(op, tables, pages) ==
  CountWrite /\ Commit(tables, pages) /\ op /\ UNCHANGED <<talentVars, concertVars>>
Staged(op, tables, pages) ==
  CountWrite /\ Commit(tables, pages) /\ op /\ UNCHANGED <<talentVars, productVars>>

-----------------------------------------------------------------------------
(***************************************************************************)
(* router/talent                                                           *)
(***************************************************************************)
AddNewCompany(c) == Talented(AddCompany(c), {"companies"}, {"companies"})
UpdateExistingCompany(c) == Talented(UpdateCompany(c), {"companies"}, {"companies"})
DeleteExistingCompany(c) ==
  /\ \A k \in Concerts : Exists(concert[k]) => concert[k].company # c
  /\ Talented(DeleteCompany(c), {"companies"}, {"companies"})

AddNewGroup(who, g, c) ==
  Talented(AddGroup(who, g, c), {"group_list"}, GroupOptionPages \cup {"manager_groups"})
GroupPages == GroupOptionPages \cup ArtistPages \cup {"manager_groups"}
UpdateExistingGroup(who, g) == Talented(UpdateGroup(who, g), {"groups"}, GroupPages)
DeleteExistingGroup(who, g) == Talented(DeleteGroup(who, g), {"groups"}, GroupPages)
ActivateExistingGroup(who, g) == Talented(ReactivateGroup(who, g), {"groups"}, GroupPages)

\* mutant: the counts of members on the page of groups are forgotten
IdolPagesOnly == (GroupOptionPages \cup ArtistPages) \ {"groups"}
IdolPages == GroupOptionPages \cup ArtistPages
AddNewIdol(who, i, c, g, color) == Talented(AddIdol(who, i, c, g, color), {"idols", "images"}, IdolPages)
UpdateExistingIdol(who, i, g, color) ==
  Talented(UpdateIdol(who, i, g, color), {"idols", "images"}, IdolPages)
DeleteExistingIdol(who, i) == Talented(DeleteIdol(who, i), {"idols"}, IdolPages)
ActivateExistingIdol(who, i) == Talented(ReactivateIdol(who, i), {"idols"}, IdolPages)
UploadIdolImage(who, i) == Talented(SetIdolImage(who, i), {"images"}, IdolPages \ {"groups"})

\* colours and positions are shared by the companies: only admins delete them
ColorPages == {"idol_colors", "manager_idol_form"} \cup ManagerProductPages
AddNewIdolColor(color) == Talented(AddColor(color), {"colors"}, ColorPages)
UpdateExistingIdolColor(color) == Talented(UpdateColor(color), {"colors"}, ColorPages)
DeleteExistingIdolColor(color) == Talented(DeleteColor(color), {"colors"}, ColorPages)
AddNewPosition(p) == Talented(AddPosition(p), {}, {})
UpdateExistingPosition(p) == Talented(UpdatePosition(p), {"positions"}, {})
DeleteExistingPosition(p) == Talented(DeletePosition(p), {}, {})
AssignPositionToIdol(who, i, p, primary) == Talented(AssignPosition(who, i, p, primary), {"positions"}, {})
SetIdolPositionPrimary(who, i, p, primary) == Talented(SetPrimary(who, i, p, primary), {"positions"}, {})
UnassignPositionFromIdol(who, i, p) == Talented(RemovePosition(who, i, p), {"positions"}, {})

TalentHandlers ==
  \/ \E c \in Companies : AddNewCompany(c) \/ UpdateExistingCompany(c) \/ DeleteExistingCompany(c)
  \/ \E who \in Staff, g \in Groups :
       \/ \E c \in Companies : AddNewGroup(who, g, c)
       \/ UpdateExistingGroup(who, g) \/ DeleteExistingGroup(who, g) \/ ActivateExistingGroup(who, g)
  \/ \E who \in Staff, i \in Idols :
       \/ \E g \in Groups \cup {None}, color \in Colors \cup {None} :
            \/ \E c \in Companies : AddNewIdol(who, i, c, g, color)
            \/ UpdateExistingIdol(who, i, g, color)
       \/ DeleteExistingIdol(who, i) \/ ActivateExistingIdol(who, i) \/ UploadIdolImage(who, i)
       \/ \E p \in Positions :
            \/ \E primary \in BOOLEAN :
                 AssignPositionToIdol(who, i, p, primary) \/ SetIdolPositionPrimary(who, i, p, primary)
            \/ UnassignPositionFromIdol(who, i, p)
  \/ \E color \in Colors :
       AddNewIdolColor(color) \/ UpdateExistingIdolColor(color) \/ DeleteExistingIdolColor(color)
  \/ \E p \in Positions :
       AddNewPosition(p) \/ UpdateExistingPosition(p) \/ DeleteExistingPosition(p)

-----------------------------------------------------------------------------
(***************************************************************************)
(* router/marketplace                                                      *)
(***************************************************************************)
ProductTables == {"products", "stock"}
DetailTable(kind) == IF kind = "album" THEN "album_details" ELSE "merch_details"

AddNewProduct(p, cat) == Marketed(AddProduct(p, cat), ProductTables, AllProductPages)
AddNewBulkProducts(ps, cats) == Marketed(AddBulkProducts(ps, cats), ProductTables, AllProductPages)
AddNewProductWithDetail(who, p, cat, kind, a) ==
  Marketed(AddProductWithDetail(who, p, cat, kind, a), ProductTables \cup {DetailTable(kind)}, AllProductPages)
UpdateExistingProduct(who, p, cat) == Marketed(UpdateProduct(who, p, cat), ProductTables, AllProductPages)
UploadProductImage(who, p) == Marketed(SetProductImage(who, p), {"products"}, AllProductPages)
DeleteExistingProduct(who, p) ==
  Marketed(DeleteProduct(who, p), ProductTables \cup {"album_details", "merch_details", "genres"}, AllProductPages)

Inserted(op, table) ==
  /\ CountWrite /\ Matters({table}, {}) /\ op
  /\ UNCHANGED <<talentVars, concertVars, cacheVars>>
AddNewAlbumDetail(who, p, a) == Inserted(AddAlbumDetail(who, p, a), "album_details")
AddNewMerchDetail(who, p, a) == Inserted(AddMerchDetail(who, p, a), "merch_details")
CommitNewDetail(p, kind) ==
  Commit({DetailTable(kind)}, {}) /\ CommitDetail(p, kind) /\ UNCHANGED <<talentVars, concertVars, writes>>
UpdateExistingAlbumDetail(who, p) == Marketed(UpdateAlbumDetail(who, p), {"album_details"}, {})
DeleteExistingAlbumDetail(who, p) == Marketed(DeleteAlbumDetail(who, p), {"album_details"}, {})
UpdateExistingMerchDetail(who, p) == Marketed(UpdateMerchDetail(who, p), {"merch_details"}, {})
DeleteExistingMerchDetail(who, p) == Marketed(DeleteMerchDetail(who, p), {"merch_details"}, {})

AddNewCategory(cat) == Marketed(AddCategory(cat), {"categories"}, {})
UpdateExistingCategory(cat) == Marketed(UpdateCategory(cat), {"categories"}, {})
DeleteExistingCategory(cat) == Marketed(DeleteCategory(cat), {"categories"}, {})
AddNewGenre(g) == Marketed(AddGenre(g), {}, {})
DeleteExistingGenre(g) == Marketed(DeleteGenre(g), {}, {})
AssignGenreToAlbum(who, p, g) == Marketed(AssignGenre(who, p, g), {"genres"}, {})
UnassignGenreFromAlbum(who, p, g) == Marketed(RemoveGenre(who, p, g), {"genres"}, {})

\* an order paid at checkout, and one paid by a PayPal capture
OrderPaid(p) == Marketed(PutInCart(p), {"stock"}, ProductPages \cup {"product_detail"})
OrderCaptured(p) == p \in ordered /\ Marketed(UNCHANGED productVars, {"stock"}, ProductPages \cup {"product_detail"})

MarketplaceHandlers ==
  \/ \E p \in Products, cat \in Categories : AddNewProduct(p, cat)
  \/ \E ps \in SUBSET Products : \E cats \in [ps -> Categories] : AddNewBulkProducts(ps, cats)
  \/ \E who \in Staff, p \in Products :
       \/ \E cat \in Categories :
            \/ \E kind \in Kinds, a \in AlbumArtists : AddNewProductWithDetail(who, p, cat, kind, a)
            \/ UpdateExistingProduct(who, p, cat)
       \/ UploadProductImage(who, p) \/ DeleteExistingProduct(who, p)
       \/ \E a \in AlbumArtists : AddNewAlbumDetail(who, p, a)
       \/ UpdateExistingAlbumDetail(who, p) \/ DeleteExistingAlbumDetail(who, p)
       \/ \E a \in MerchArtists : AddNewMerchDetail(who, p, a)
       \/ UpdateExistingMerchDetail(who, p) \/ DeleteExistingMerchDetail(who, p)
       \/ \E g \in Genres : AssignGenreToAlbum(who, p, g) \/ UnassignGenreFromAlbum(who, p, g)
  \/ \E cat \in Categories :
       AddNewCategory(cat) \/ UpdateExistingCategory(cat) \/ DeleteExistingCategory(cat)
  \/ \E g \in Genres : AddNewGenre(g) \/ DeleteExistingGenre(g)
  \/ \E p \in Products : OrderPaid(p) \/ OrderCaptured(p)
  \/ \E p \in Products, kind \in Kinds : CommitNewDetail(p, kind)

-----------------------------------------------------------------------------
(***************************************************************************)
(* router/events                                                           *)
(***************************************************************************)
EventPages == {"events", "manager_events"}

AddNewVenue(v) == Staged(AddVenue(v), {"venues"}, {"venues"})
UpdateExistingVenue(v) == Staged(UpdateVenue(v), {"venues"}, {"venues"})
DeleteExistingVenue(v) == Staged(DeleteVenue(v), {"venues"}, {"venues"})

AddNewConcert(who, c, company, v, capacity, status) ==
  Staged(AddConcert(who, c, company, v, capacity, status), {"concert_list"}, EventPages)
UpdateExistingConcert(who, c, v, capacity, status) ==
  Staged(UpdateConcert(who, c, v, capacity, status), {"concerts"}, EventPages \cup {"concert_detail"})
DeleteExistingConcert(who, c) ==
  Staged(DeleteConcert(who, c), {"concerts"}, EventPages \cup {"concert_detail"})
AssignConcertPerformer(who, c, a) == Staged(AssignPerformer(who, c, a), {"performers"}, {"concert_detail"})
UnassignConcertPerformer(who, link) == Staged(RemovePerformer(who, link), {"performers"}, {"concert_detail"})

AddNewTicketType(who, c, o, n) == Staged(AddTicketType(who, c, o, n), {"ticket_types"}, {"concert_detail"})
UpdateExistingTicketType(who, c, o, n) ==
  Staged(UpdateTicketType(who, c, o, n), {"ticket_types"}, {"concert_detail"})
DeleteExistingTicketType(who, c, o) ==
  Staged(DeleteTicketType(who, c, o), {"ticket_types", "campaigns", "entries"}, {"concert_detail"})
AddNewCampaign(who, c, o) == Staged(AddCampaign(who, c, o), {"campaigns"}, {"concert_detail"})
UpdateExistingCampaign(who, c, o) == Staged(UpdateCampaign(who, c, o), {"campaigns"}, {"concert_detail"})
DeleteExistingCampaign(who, c, o) ==
  Staged(DeleteCampaign(who, c, o), {"campaigns", "entries"}, {"concert_detail"})

\* sold_quantity moves: a checkout, a capture, a draw or an expiry; and a
\* fan applies to a lottery, which entry_count shows
SoldQuantityMoves(c, o) == Staged(SellTicket(c, o), {"sold"}, {"concert_detail"})
FanApplies(c, o) == <<c, o>> \in campaigns /\ Staged(UNCHANGED concertVars, {"entries"}, {})

EventHandlers ==
  \/ \E v \in Venues : AddNewVenue(v) \/ UpdateExistingVenue(v) \/ DeleteExistingVenue(v)
  \/ \E who \in Staff, c \in Concerts :
       \/ \E v \in Venues, capacity \in Capacities, status \in Statuses :
            \/ \E company \in Companies : AddNewConcert(who, c, company, v, capacity, status)
            \/ UpdateExistingConcert(who, c, v, capacity, status)
       \/ DeleteExistingConcert(who, c)
       \/ \E a \in Performers : AssignConcertPerformer(who, c, a)
       \/ \E o \in Offers :
            \/ \E n \in TotalQuantities : AddNewTicketType(who, c, o, n) \/ UpdateExistingTicketType(who, c, o, n)
            \/ DeleteExistingTicketType(who, c, o)
            \/ AddNewCampaign(who, c, o) \/ UpdateExistingCampaign(who, c, o) \/ DeleteExistingCampaign(who, c, o)
  \/ \E who \in Staff, link \in performers : UnassignConcertPerformer(who, link)
  \/ \E c \in Concerts, o \in Offers : SoldQuantityMoves(c, o) \/ FanApplies(c, o)

Handlers == TalentHandlers \/ MarketplaceHandlers \/ EventHandlers

CacheOnly(step) == step /\ UNCHANGED <<talentVars, productVars, concertVars, writes>>

SiteNext ==
  \/ Handlers
  \/ CacheOnly(Delete)
  \/ CacheOnly(LoseDelete)
  \/ CacheOnly(Expire)
  \/ \E r \in Readers : CacheOnly(Build(r)) \/ CacheOnly(Store(r)) \/ CacheOnly(Abandon(r))

-----------------------------------------------------------------------------
\* No row refers to a deleted row: what a delete handler does not check, the
\* foreign keys and the unit of work must refuse, null or cascade.
RefsExist == TalentRefsExist /\ CatalogueRefsExist /\ ConcertRefsExist

\* Once nothing is written any more, whatever was lost, overtaken or not
\* wired before, the page served is current at last and stays so.
EventuallyCurrent == <>[](copy \in {"none", "fresh"})
=============================================================================
