-------------------------------- MODULE Catalog --------------------------------
(***************************************************************************)
(* The catalog: administrators create categories, products with their      *)
(* images and filters, and publications; everyone reads the publications,  *)
(* mostly from a cache in Redis.                                           *)
(*                                                                         *)
(* POST /admin/product writes its images to S3 one by one inside its       *)
(* database transaction, which commits afterwards.  GET /market/catalog    *)
(* reads by separate SELECTs and stores its answer for an hour; nothing    *)
(* invalidates it.  S3, Redis and the unique and foreign keys of the       *)
(* database are modelled from how the code uses them.                      *)
(***************************************************************************)
EXTENDS Naturals

CONSTANTS
  Categories,    \* links of categories
  Products,      \* the requests to create a product, and the product of each
  Titles,        \* titles of filter groups
  Links,         \* the publications that get created, by link
  Readers,       \* requests for the catalog, one after the other each
  Variants,      \* the files of a product: its images in every size
  NoTitle, NoCache

ASSUME CatalogAssumption ==
  /\ Variants \in Nat \ {0}
  /\ NoTitle \notin Titles
  /\ \A C \in SUBSET (Links \X Products) : NoCache # C

VARIABLES
  \* the database
  categories,    \* rows of product_category
  products,      \* rows of product, with their attachments
  groups,        \* title of the filter_group each product request has made
  items,         \* catalog items of each publication, by product
  active,        \* those with is_active
  \* outside
  stored,        \* how many of its files are in S3, for each product
  cache,         \* the catalog in Redis
  \* requests
  pc,            \* where each product request is
  wanted,        \* the filter group it merges
  reading,       \* where each reader is
  listed,        \* publications its first SELECT returned
  content        \* the catalog it has put together

uploads == <<categories, products, groups, stored, pc, wanted>>
reads == <<cache, reading, listed, content>>
vars == <<categories, products, groups, items, active, stored, cache, pc, wanted,
          reading, listed, content>>

Entries == Links \X Products
NoFilters == [group |-> NoTitle, title |-> NoTitle, writes |-> FALSE]
Filters == [group : Products, title : Titles, writes : BOOLEAN]

Init ==
  /\ categories = {} /\ products = {} /\ active = {} /\ cache = NoCache
  /\ groups = [p \in Products |-> NoTitle]
  /\ items = [l \in Links |-> {}]
  /\ stored = [p \in Products |-> 0]
  /\ pc = [p \in Products |-> "idle"]
  /\ wanted = [p \in Products |-> NoFilters]
  /\ reading = [r \in Readers |-> "idle"]
  /\ listed = [r \in Readers |-> {}]
  /\ content = [r \in Readers |-> {}]

-----------------------------------------------------------------------------
(* POST /admin/category and POST /admin/product *)

CreateCategory(c) ==
  /\ categories' = categories \cup {c}
  /\ UNCHANGED <<products, groups, items, active, stored, pc, wanted, reads>>

\* The request is over and its session gone.
End(p, outcome) ==
  /\ pc[p] = "uploading"
  /\ pc' = [pc EXCEPT ![p] = outcome]
  /\ wanted' = [wanted EXCEPT ![p] = NoFilters]

\* The filter groups of the form: none, a new one, or one it names by id, which
\* merge() loads, and overwrites where the form differs from what was loaded.
FilterChoices(p) ==
  {NoFilters}
  \cup {[group |-> p, title |-> t, writes |-> TRUE] : t \in Titles}
  \cup {[group |-> g, title |-> t, writes |-> t # groups[g]] :
          g \in {q \in Products : groups[q] # NoTitle}, t \in Titles}

\* create_product: nothing is flushed.
StartProduct(p) ==
  /\ pc[p] = "idle"
  /\ pc' = [pc EXCEPT ![p] = "uploading"]
  /\ categories # {}
  /\ \E f \in FilterChoices(p) : wanted' = [wanted EXCEPT ![p] = f]
  /\ UNCHANGED <<categories, products, groups, items, active, stored, reads>>

\* get_category_by_link returns None.
CategoryMissing(p) ==
  /\ pc[p] = "idle"
  /\ pc' = [pc EXCEPT ![p] = "failed"]
  /\ categories # Categories
  /\ UNCHANGED <<categories, products, groups, items, active, stored, wanted, reads>>

PutVariant(p) ==
  /\ pc[p] = "uploading" /\ stored[p] < Variants
  /\ stored' = [stored EXCEPT ![p] = @ + 1]
  /\ UNCHANGED <<categories, products, groups, items, active, pc, wanted, reads>>

\* S3UploadFileError, for a file that may be there all the same.
PutFails(p) ==
  /\ End(p, "failed")
  /\ stored[p] < Variants
  /\ stored' \in {stored, [stored EXCEPT ![p] = @ + 1]}
  /\ UNCHANGED <<categories, products, groups, items, active, reads>>

TitleTaken(p) ==
  wanted[p].writes /\ \E g \in Products \ {wanted[p].group} : groups[g] = wanted[p].title

WriteProduct(p) ==
  /\ products' = products \cup {p}
  /\ groups' = IF wanted[p].writes
               THEN [groups EXCEPT ![wanted[p].group] = wanted[p].title] ELSE groups

\* Variant: the uploads are started and not awaited.
CommitBeforeUploads(p) ==
  /\ \E outcome \in {"done", "failed"} : End(p, outcome)
  /\ ~TitleTaken(p)
  /\ WriteProduct(p)
  /\ UNCHANGED <<categories, items, active, stored, reads>>

\* add_attachments_to_product and the commit, whose acknowledgement may be lost.
CommitProduct(p) ==
  /\ stored[p] = Variants
  /\ \E outcome \in {"done", "failed"} : End(p, outcome)
  /\ ~TitleTaken(p)
  /\ WriteProduct(p)
  /\ UNCHANGED <<categories, items, active, stored, reads>>

\* filter_group.title is unique, which only the commit finds out.
CommitConflict(p) ==
  /\ End(p, "failed")
  /\ stored[p] = Variants /\ TitleTaken(p)
  /\ UNCHANGED <<categories, products, groups, items, active, stored, reads>>

\* An image Pillow cannot read, a lost connection, a crash.
FailProduct(p) ==
  /\ End(p, "failed")
  /\ UNCHANGED <<categories, products, groups, items, active, stored, reads>>

-----------------------------------------------------------------------------
(* POST /admin/publication *)

\* Publication and items are committed together; the link is unique and the
\* products are foreign keys.  Items are created active.
Publish(l, S) ==
  /\ items[l] = {} /\ S # {} /\ S \subseteq products
  /\ items' = [items EXCEPT ![l] = S]
  /\ active' = active \cup ({l} \X S)
  /\ UNCHANGED <<uploads, reads>>

\* is_active is reset by hand, or by another program.
Withdraw(e) ==
  /\ e \in active
  /\ active' = active \ {e}
  /\ UNCHANGED <<uploads, items, reads>>

-----------------------------------------------------------------------------
(* GET /market/catalog *)

\* get_publications: the active items of every publication that has one.
CatalogOf(S) == active \cap (S \X Products)
Published == {l \in Links : items[l] # {}}
Current == CatalogOf(Published)

\* A hit changes nothing.  On a miss, or at the client's wish (Cache-Control:
\* no-cache), the publications are read ...
ListPublications(r) ==
  /\ reading[r] = "idle"
  /\ reading' = [reading EXCEPT ![r] = "listed"]
  /\ listed' = [listed EXCEPT ![r] = Published]
  /\ UNCHANGED <<uploads, items, active, cache, content>>

\* ... then their items.
LoadItems(r) ==
  /\ reading[r] = "listed"
  /\ reading' = [reading EXCEPT ![r] = "loaded"]
  /\ content' = [content EXCEPT ![r] = CatalogOf(listed[r])]
  /\ UNCHANGED <<uploads, items, active, cache, listed>>

Forget(r) ==
  /\ reading' = [reading EXCEPT ![r] = "idle"]
  /\ listed' = [listed EXCEPT ![r] = {}]
  /\ content' = [content EXCEPT ![r] = {}]

\* Variant: the publications are stored instead of what is shown of them.
FillListed(r) ==
  /\ reading[r] = "loaded"
  /\ cache' = listed[r]
  /\ Forget(r)
  /\ UNCHANGED <<uploads, items, active>>

\* The answer is stored and sent.
Fill(r) ==
  /\ reading[r] = "loaded"
  /\ cache' = content[r]
  /\ Forget(r)
  /\ UNCHANGED <<uploads, items, active>>

\* Redis does not take it, or the request fails on its way.
FillFails(r) ==
  /\ reading[r] # "idle"
  /\ Forget(r)
  /\ UNCHANGED <<uploads, items, active, cache>>

\* Variant: entries are stored without expire.
ExpireNever == FALSE /\ UNCHANGED vars

\* An hour after the last Fill.
Expire ==
  /\ cache # NoCache
  /\ cache' = NoCache
  /\ UNCHANGED <<uploads, items, active, reading, listed, content>>

-----------------------------------------------------------------------------

Upload(p) ==
  \/ StartProduct(p) \/ CategoryMissing(p) \/ PutVariant(p) \/ PutFails(p)
  \/ CommitProduct(p) \/ CommitConflict(p) \/ FailProduct(p)

Finish(r) == LoadItems(r) \/ Fill(r) \/ FillFails(r)

Next ==
  \/ \E c \in Categories : CreateCategory(c)
  \/ \E p \in Products : Upload(p)
  \/ \E l \in Links, S \in SUBSET Products : Publish(l, S)
  \/ \E e \in Entries : Withdraw(e)
  \/ \E r \in Readers : ListPublications(r) \/ Finish(r)
  \/ Expire

Spec == Init /\ [][Next]_vars

\* A reader that has begun ends, and Redis drops what is too old.  Nobody has to
\* read, to publish or to upload.
FairSpec == Spec /\ WF_vars(Expire) /\ \A r \in Readers : WF_vars(Finish(r))

-----------------------------------------------------------------------------
(* Correctness *)

\* Every variable holds what its table, store or request can hold.
TypeOK ==
  /\ categories \subseteq Categories /\ products \subseteq Products
  /\ groups \in [Products -> Titles \cup {NoTitle}]
  /\ items \in [Links -> SUBSET Products] /\ active \subseteq Entries
  /\ stored \in [Products -> 0..Variants]
  /\ cache \in {NoCache} \cup SUBSET Entries
  /\ pc \in [Products -> {"idle", "uploading", "done", "failed"}]
  /\ wanted \in [Products -> Filters \cup {NoFilters}]
  /\ reading \in [Readers -> {"idle", "listed", "loaded"}]
  /\ listed \in [Readers -> SUBSET Links]
  /\ content \in [Readers -> SUBSET Entries]

\* Every image that the catalog refers to is there in every size, for the
\* products in the database as well as in whatever the cache or a slow request
\* still hands out; files without a product may stay behind, never the reverse.
ImagesInStore ==
  LET served == (UNION {content[r] : r \in Readers})
                \cup (IF cache = NoCache THEN {} ELSE cache)
  IN \A p \in products \cup {e[2] : e \in served} : stored[p] = Variants

\* The cached catalog catches up: once nothing is published or withdrawn any
\* more, what the cache serves is what the tables say, however late the readers
\* are that fill it with what they had read before.
CacheConverges == <>[](cache \in {NoCache, Current})
=============================================================================
