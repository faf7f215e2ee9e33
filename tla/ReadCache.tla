------------------------------ MODULE ReadCache ------------------------------
(***************************************************************************)
(* The cache-aside pages (app/cache): readers that miss build a page from  *)
(* the database and store it for TTL_SECONDS; handlers commit a write and  *)
(* then delete the pages they name, in calls that a crash or an error of   *)
(* Redis may prevent.  One page is watched, any of them; of its contents   *)
(* only which commits they lack is kept.                                   *)
(***************************************************************************)
EXTENDS Integers, FiniteSets

CONSTANTS
  Readers,       \* requests for the page
  MaxOwed,       \* handlers between their commit and their deletes
  NoPage         \* no page is watched

VARIABLES
  page,          \* the page watched; never changes
  copy,          \* the copy in Redis, "none" or a freshness
  built,         \* what a reader that missed has built and not yet stored
  owed           \* handlers that committed a write and have yet to delete the page

cacheVars == <<page, copy, built, owed>>

\* "fresh": lacks no commit.  "gap": lacks commits by handlers that do not
\* delete the page.  "behind": lacks a commit whose handler deletes it.
\* "late": stored by a reader overtaken by a write that deletes the page.
\* "left": a handler committed and failed before it deleted the page.
Freshness == {"fresh", "gap", "behind", "late", "left"}

-----------------------------------------------------------------------------
(***************************************************************************)
(* What the pages are built from                                           *)
(***************************************************************************)
\* The tables a page reads, "stock" being products.quantity, "images" the
\* profile pictures of idols, "sold" ticket_types.sold_quantity, and
\* "group_list" and "concert_list" which groups and concerts there are, for
\* the pages that list them all.
ProductsListReads == {"products", "stock", "categories"}
ProductCardReads ==
  ProductsListReads \cup {"album_details", "merch_details", "genres", "idols", "groups", "group_list", "colors"}
EventsReads == {"concerts", "concert_list", "venues"}
ConcertDetailReads ==
  {"concerts", "venues", "ticket_types", "sold", "campaigns", "entries", "performers",
   "idols", "images", "groups", "colors"}
MembersReads == {"idols", "images", "groups", "group_list", "colors", "positions"}
IdolDetailReads == {"idols", "images", "groups", "colors", "positions"}
GroupsReads == {"groups", "group_list", "idols"}
GroupDetailReads == IdolDetailReads \cup {"concerts", "venues", "performers"} \cup ProductCardReads
ManagerIdolsReads == {"idols", "images", "groups", "group_list", "colors"}
ManagerIdolFormReads == {"idols", "images", "groups", "group_list", "colors"}
ManagerProductFormReads ==
  ProductsListReads \cup {"album_details", "merch_details", "idols", "images", "groups", "group_list", "colors"}
ManagerProductsReads == ProductsListReads \cup {"album_details", "merch_details"}

Reads(p) ==
  CASE p = "products_list" -> ProductsListReads
    [] p \in {"store", "product_detail"} -> ProductCardReads
    [] p \in {"events", "manager_events"} -> EventsReads
    [] p = "concert_detail" -> ConcertDetailReads
    [] p = "members" -> MembersReads
    [] p = "idol_detail" -> IdolDetailReads
    [] p = "groups" -> GroupsReads
    [] p = "group_detail" -> GroupDetailReads
    [] p = "manager_groups" -> {"groups", "group_list"}
    [] p = "manager_idols" -> ManagerIdolsReads
    [] p = "manager_idol_form" -> ManagerIdolFormReads
    [] p = "manager_products" -> ManagerProductsReads
    [] p = "manager_product_form" -> ManagerProductFormReads
    [] p = "venues" -> {"venues"}
    [] p = "idol_colors" -> {"colors"}
    [] p = "companies" -> {"companies"}
    [] p = NoPage -> {}

\* Of those, the rows a page is to show as soon as they change: its own, and
\* those the comments at the deletes in the routers say it embeds.
ArtistRows == {"idols", "images", "groups"}
ConcertRows == {"concerts", "ticket_types", "sold", "campaigns", "performers"}

Shows(p) ==
  CASE p \in {"products_list", "store", "product_detail"} -> {"products", "stock"}
    [] p \in {"events", "manager_events"} -> {"concerts", "concert_list"}
    [] p = "concert_detail" -> ConcertRows
    [] p \in {"members", "manager_idols"} -> ArtistRows \cup {"group_list"}
    [] p \in {"idol_detail", "group_detail"} -> ArtistRows
    [] p = "manager_products" -> {"products"}
    [] p = "manager_product_form" -> {"products", "colors"}
    [] OTHER -> Reads(p)

Pages == {"products_list", "store", "product_detail", "events", "concert_detail", "members",
          "idol_detail", "groups", "group_detail", "venues", "idol_colors", "manager_idols",
          "manager_idol_form", "manager_groups", "manager_events", "manager_products",
          "manager_product_form", "companies"}

ASSUME CacheAssumption == NoPage \notin Pages /\ MaxOwed \in Nat

\* the namespaces handlers delete together
ProductPages == {"products_list", "store"}
ManagerProductPages == {"manager_products", "manager_product_form"}
AllProductPages == ProductPages \cup ManagerProductPages \cup {"product_detail"}
GroupOptionPages == {"members", "groups", "manager_idols", "manager_idol_form"}
ArtistPages == {"idol_detail", "group_detail"}

-----------------------------------------------------------------------------
(***************************************************************************)
(* Handlers that write                                                     *)
(***************************************************************************)
Ages(f, tables, behind) ==
  IF f \notin Freshness THEN f
  ELSE IF tables \cap Shows(page) # {} THEN behind
  ELSE IF f = "fresh" /\ tables \cap Reads(page) # {} THEN "gap" ELSE f

\* Writes that cannot matter to the page are not watched.
Matters(tables, pages) == page # NoPage => page \in pages \/ tables \cap Reads(page) # {}

\* The commit of a handler that writes these tables and is going to delete
\* these pages.
Commit(tables, pages) ==
  /\ Matters(tables, pages)
  /\ page \in pages => owed < MaxOwed
  /\ copy' = Ages(copy, tables, "behind")
  /\ built' = [r \in Readers |-> Ages(built[r], tables, "late")]
  /\ owed' = IF page \in pages THEN owed + 1 ELSE owed
  /\ UNCHANGED page

\* redis_client.delete, of the key or of every key that matches
Delete ==
  /\ owed > 0
  /\ owed' = owed - 1
  /\ copy' = "none"
  /\ UNCHANGED <<page, built>>

\* the process dies, or Redis fails, between the commit and the delete: the
\* request ends in an error, the write stands
LoseDelete ==
  /\ owed > 0
  /\ owed' = owed - 1
  /\ copy' = IF copy = "behind" THEN "left" ELSE copy
  /\ UNCHANGED <<page, built>>

(***************************************************************************)
(* Readers and the clock                                                   *)
(***************************************************************************)
\* redis_client.get misses and the service builds the page
Build(r) ==
  /\ page # NoPage
  /\ copy = "none"
  /\ built[r] = "idle"
  /\ built' = [built EXCEPT ![r] = "fresh"]
  /\ UNCHANGED <<page, copy, owed>>

\* mutant: a page that was not built is stored too
StoreAnyway(r) ==
  /\ copy' = built[r]
  /\ built' = [built EXCEPT ![r] = "idle"]
  /\ UNCHANGED <<page, owed>>

\* redis_client.setex
Store(r) ==
  /\ built[r] # "idle"
  /\ copy' = built[r]
  /\ built' = [built EXCEPT ![r] = "idle"]
  /\ UNCHANGED <<page, owed>>

\* the reader dies, or Redis fails
Abandon(r) ==
  /\ built[r] # "idle"
  /\ built' = [built EXCEPT ![r] = "idle"]
  /\ UNCHANGED <<page, copy, owed>>

\* mutant: set instead of setex
StoredForEver == FALSE /\ UNCHANGED cacheVars

\* TTL_SECONDS after it was stored
Expire ==
  /\ copy # "none"
  /\ copy' = "none"
  /\ UNCHANGED <<page, built, owed>>

CacheInit ==
  /\ page \in Pages \cup {NoPage}
  /\ copy \in IF page = NoPage THEN {"none"} ELSE {"none", "fresh"}
  /\ built = [r \in Readers |-> "idle"]
  /\ owed = 0

-----------------------------------------------------------------------------
CacheTypeOK ==
  /\ page \in Pages \cup {NoPage}
  /\ copy \in Freshness \cup {"none"}
  /\ built \in [Readers -> {"idle", "fresh", "gap", "late"}]
  /\ owed \in 0..MaxOwed

\* Every handler deletes every page that is to show what it wrote: when no
\* delete is due, a copy lacks such a write only if a reader that was
\* overtaken stored it, or its handler died before its deletes
\* (invalidation.py 65 and 84, and the comments of the routers).
PagesFollowRows == copy = "behind" => owed > 0

\* What the documents say, of everything a page shows: "invalidated on
\* writes" (docs/api-spec.md 118), "every write that affects a concert
\* detail" deletes its key (invalidation.py 75).  It does not hold: a page
\* embeds rows of other handlers, who leave it in place.
InvalidationComplete == copy \in {"behind", "gap"} => owed > 0
=============================================================================
