------------------------------ MODULE Products ------------------------------
(***************************************************************************)
(* The catalogue (services/marketplace): categories, products, the album   *)
(* or merch details that say whose product it is, and genres of albums.    *)
(* Prices, texts and quantities are left out; Orders has the stock.        *)
(***************************************************************************)
EXTENDS Talent

CONSTANTS Products, Categories, Genres

VARIABLES
  categories,   \* rows of categories
  product,      \* products: the category, or Absent
  album,        \* album_details: the artist credited, or Absent
  merch,        \* merch_details: the artist credited, or Absent
  genres,       \* rows of genres
  tagged,       \* album_genres
  adding,       \* detail rows inserted and not yet committed, by product and kind
  together,     \* products whose two details were inserted together: history
  ordered       \* products in a cart or in an order

inserts == <<adding, together>>
productVars == <<categories, product, album, merch, genres, tagged, inserts, ordered>>

Kinds == {"album", "merch"}
Other(kind) == IF kind = "album" THEN "merch" ELSE "album"

\* idol_id and group_id of a detail row; an album may credit both
\* (chk_album_details_artist), merch exactly one (chk_merch_details_owner)
AlbumArtists == [idol : Idols \cup {None}, group : Groups \cup {None}]
                  \ {[idol |-> None, group |-> None]}
MerchArtists == {a \in AlbumArtists : a.idol = None \/ a.group = None}

\* the row that decides the company, scope and activity of a credit: the
\* idol if there is one
Credited(a) == IF a.idol # None THEN idol[a.idol] ELSE group[a.group]
ArtistExists(a) == /\ a.idol # None => Exists(idol[a.idol])
                   /\ a.group # None => Exists(group[a.group])
CompanyOf(a) == Credited(a).company

\* what a new detail row must satisfy in every service that adds one; the
\* existence of a second credit is left to its foreign key
CanCredit(who, a) ==
  /\ ArtistExists(a)
  /\ Credited(a).active
  /\ InScope(who, CompanyOf(a))

\* mutant: the trigger on this table is missing
AnyKind(p, other) == TRUE

\* fn_enforce_single_product_detail_kind, on either table: it sees the rows
\* that are committed
ExclusiveKind(p, other) == other[p] = Absent

\* _resolve_product_company_id: the album's artist first
ProductCompany(p) ==
  IF Exists(album[p]) THEN CompanyOf(album[p])
  ELSE IF Exists(merch[p]) THEN CompanyOf(merch[p]) ELSE None

\* resolve_product_company_ids, for lists of products: of an album and a
\* merch row the later in the list wins
ProductCompanyInList(p) ==
  IF Exists(merch[p]) THEN CompanyOf(merch[p])
  ELSE IF Exists(album[p]) THEN CompanyOf(album[p]) ELSE None

\* products that name no artist belong to nobody, and any manager may edit them
ManagesProduct(who, p) ==
  /\ Exists(product[p])
  /\ ProductCompany(p) # None => InScope(who, ProductCompany(p))

\* the products a manager's pages list; one without a company is given the
\* list of the admins, whose company_id is NULL too
ProductsShownTo(m) ==
  {p \in Products : /\ Exists(product[p])
                    /\ employer[m] = None \/ ProductCompanyInList(p) \in {None, employer[m]}}

\* get_manager_orders_page: of an order of these products, those a manager is
\* shown; an order of none of them is not listed
ItemsShownTo(m, items) == items \cap ProductsShownTo(m)

\* the negation of _manager_order_scope_violation
MayShip(who, items) ==
  who \in Managers => \E p \in items : ProductCompanyInList(p) \in {None, employer[who]}

\* get_product_sales_page
MaySeeSales(who, p) == ManagesProduct(who, p)

-----------------------------------------------------------------------------
(***************************************************************************)
(* Products                                                                *)
(***************************************************************************)
AddProduct(p, cat) ==
  /\ product[p] = Absent
  /\ cat \in categories
  /\ product' = [product EXCEPT ![p] = cat]
  /\ UNCHANGED <<categories, album, merch, genres, tagged, inserts, ordered>>

\* all or none, after one query for the categories of all
AddBulkProducts(ps, cats) ==
  /\ ps # {}
  /\ \A p \in ps : product[p] = Absent /\ cats[p] \in categories
  /\ product' = [p \in Products |-> IF p \in ps THEN cats[p] ELSE product[p]]
  /\ UNCHANGED <<categories, album, merch, genres, tagged, inserts, ordered>>

\* the product and its detail in one transaction
AddProductWithDetail(who, p, cat, kind, a) ==
  /\ product[p] = Absent
  /\ cat \in categories
  /\ CanCredit(who, a)
  /\ kind = "merch" => a \in MerchArtists
  /\ product' = [product EXCEPT ![p] = cat]
  /\ IF kind = "album"
     THEN album' = [album EXCEPT ![p] = a] /\ UNCHANGED merch
     ELSE merch' = [merch EXCEPT ![p] = a] /\ UNCHANGED album
  /\ UNCHANGED <<categories, genres, tagged, inserts, ordered>>

UpdateProduct(who, p, cat) ==
  /\ ManagesProduct(who, p)
  /\ cat \in categories
  /\ product' = [product EXCEPT ![p] = cat]
  /\ UNCHANGED <<categories, album, merch, genres, tagged, inserts, ordered>>

SetProductImage(who, p) == ManagesProduct(who, p) /\ UNCHANGED productVars

\* waits for inserts that refer to the product; refused while carts or orders
\* name it, whose product_id cannot be set to NULL; details and tags go with it
DeleteProduct(who, p) ==
  /\ ManagesProduct(who, p)
  /\ \A kind \in Kinds : adding[<<p, kind>>] = Absent
  /\ p \notin ordered
  /\ product' = [product EXCEPT ![p] = Absent]
  /\ album' = [album EXCEPT ![p] = Absent]
  /\ merch' = [merch EXCEPT ![p] = Absent]
  /\ tagged' = {t \in tagged : t[1] # p}
  /\ together' = together \ {p}
  /\ UNCHANGED <<categories, genres, adding, ordered>>

\* a fan puts the product in a cart, from where it gets into orders
PutInCart(p) ==
  /\ Exists(product[p])
  /\ ordered' = ordered \cup {p}
  /\ UNCHANGED <<categories, product, album, merch, genres, tagged, inserts>>

(***************************************************************************)
(* Details                                                                 *)
(***************************************************************************)
\* The row is inserted when all is checked, a second of its kind waiting for
\* the first, and seen by others when it is committed.
InsertDetail(p, kind, a) ==
  /\ adding[<<p, kind>>] = Absent
  /\ adding' = [adding EXCEPT ![<<p, kind>>] = a]
  /\ together' = IF adding[<<p, Other(kind)>>] # Absent THEN together \cup {p} ELSE together
  /\ UNCHANGED <<categories, product, album, merch, genres, tagged, ordered>>

AddAlbumDetail(who, p, a) ==
  /\ Exists(product[p])
  /\ album[p] = Absent
  /\ CanCredit(who, a)
  /\ ExclusiveKind(p, merch)
  /\ InsertDetail(p, "album", a)

AddMerchDetail(who, p, a) ==
  /\ Exists(product[p])
  /\ merch[p] = Absent
  /\ CanCredit(who, a)
  /\ ExclusiveKind(p, album)
  /\ InsertDetail(p, "merch", a)

CommitDetail(p, kind) ==
  /\ adding[<<p, kind>>] # Absent
  /\ IF kind = "album"
     THEN album' = [album EXCEPT ![p] = adding[<<p, kind>>]] /\ UNCHANGED merch
     ELSE merch' = [merch EXCEPT ![p] = adding[<<p, kind>>]] /\ UNCHANGED album
  /\ adding' = [adding EXCEPT ![<<p, kind>>] = Absent]
  /\ UNCHANGED <<categories, product, genres, tagged, together, ordered>>

ManagesDetail(who, detail, p) == Exists(detail[p]) /\ InScope(who, CompanyOf(detail[p]))

\* the artist of a detail never changes
UpdateAlbumDetail(who, p) == ManagesDetail(who, album, p) /\ UNCHANGED productVars

\* refused while genres are tagged
DeleteAlbumDetail(who, p) ==
  /\ ManagesDetail(who, album, p)
  /\ \A t \in tagged : t[1] # p
  /\ album' = [album EXCEPT ![p] = Absent]
  /\ together' = together \ {p}
  /\ UNCHANGED <<categories, product, merch, genres, tagged, adding, ordered>>

UpdateMerchDetail(who, p) == ManagesDetail(who, merch, p) /\ UNCHANGED productVars

DeleteMerchDetail(who, p) ==
  /\ ManagesDetail(who, merch, p)
  /\ merch' = [merch EXCEPT ![p] = Absent]
  /\ together' = together \ {p}
  /\ UNCHANGED <<categories, product, album, genres, tagged, adding, ordered>>

(***************************************************************************)
(* Categories and genres                                                   *)
(***************************************************************************)
AddCategory(cat) ==
  /\ cat \notin categories
  /\ categories' = categories \cup {cat}
  /\ UNCHANGED <<product, album, merch, genres, tagged, inserts, ordered>>

UpdateCategory(cat) == cat \in categories /\ UNCHANGED productVars

DeleteCategory(cat) ==
  /\ cat \in categories
  /\ \A p \in Products : product[p] # cat
  /\ categories' = categories \ {cat}
  /\ UNCHANGED <<product, album, merch, genres, tagged, inserts, ordered>>

AddGenre(g) ==
  /\ g \notin genres
  /\ genres' = genres \cup {g}
  /\ UNCHANGED <<categories, product, album, merch, tagged, inserts, ordered>>

DeleteGenre(g) ==
  /\ g \in genres
  /\ \A t \in tagged : t[2] # g
  /\ genres' = genres \ {g}
  /\ UNCHANGED <<categories, product, album, merch, tagged, inserts, ordered>>

AssignGenre(who, p, g) ==
  /\ ManagesDetail(who, album, p)
  /\ g \in genres
  /\ <<p, g>> \notin tagged
  /\ tagged' = tagged \cup {<<p, g>>}
  /\ UNCHANGED <<categories, product, album, merch, genres, inserts, ordered>>

RemoveGenre(who, p, g) ==
  /\ <<p, g>> \in tagged
  /\ ManagesDetail(who, album, p)
  /\ tagged' = tagged \ {<<p, g>>}
  /\ UNCHANGED <<categories, product, album, merch, genres, inserts, ordered>>

-----------------------------------------------------------------------------
ProductsTypeOK ==
  /\ categories \subseteq Categories
  /\ product \in [Products -> Categories \cup {Absent}]
  /\ album \in [Products -> AlbumArtists \cup {Absent}]
  /\ merch \in [Products -> MerchArtists \cup {Absent}]
  /\ genres \subseteq Genres
  /\ tagged \subseteq Products \X Genres
  /\ adding \in [Products \X Kinds -> AlbumArtists \cup {Absent}]
  /\ together \subseteq Products
  /\ ordered \subseteq Products

\* A product is an album or merch, never both ("rejects the insert at the DB
\* level", docs/database-design.md 1082-1084).  It does not hold of two
\* details inserted together: neither trigger sees the other's row.
OneKind == \A p \in Products : ~(Exists(album[p]) /\ Exists(merch[p]))

\* The two ways the code finds a product's company, one for a single product
\* and one for lists, agree (product_service.py 37-56 and 378-404), unless
\* two details inserted together are both still there: no order of adding,
\* deleting and adding again, and no deletion of the product in between,
\* makes them differ.  So a manager of a company may edit exactly the
\* products the manager's pages list, may ship exactly the orders the orders
\* page lists, and is shown there exactly the items whose sales the manager
\* may see.
ResolversAgree ==
  LET plain == Products \ together
  IN  /\ \A p \in plain : ProductCompany(p) = ProductCompanyInList(p)
      /\ \A m \in {u \in Managers : employer[u] # None} :
           /\ ProductsShownTo(m) \cap plain = {p \in plain : ManagesProduct(m, p)}
           /\ \A items \in SUBSET (ordered \cap plain) :
                /\ MayShip(m, items) <=> ItemsShownTo(m, items) # {}
                /\ ItemsShownTo(m, items) = {p \in items : MaySeeSales(m, p)}

\* No catalogue row refers to a row that was deleted: a product keeps its
\* category, a detail its product and artist, a tag its album and genre,
\* whatever is deleted around them.
CatalogueRefsExist ==
  /\ \A p \in Products : Exists(product[p]) => product[p] \in categories
  /\ \A p \in Products : Exists(album[p]) => Exists(product[p]) /\ ArtistExists(album[p])
  /\ \A p \in Products : Exists(merch[p]) => Exists(product[p]) /\ ArtistExists(merch[p])
  /\ \A p \in Products, kind \in Kinds :
       adding[<<p, kind>>] # Absent => Exists(product[p]) /\ ArtistExists(adding[<<p, kind>>])
  /\ \A t \in tagged : Exists(album[t[1]]) /\ t[2] \in genres
  /\ \A p \in ordered : Exists(product[p])
=============================================================================
