---------------------------- MODULE CatalogProofs ----------------------------
(***************************************************************************)
(* Proofs about Catalog, for any products, files, publications, readers    *)
(* and filter groups.                                                      *)
(*                                                                         *)
(* A product is committed when its last file has been put, and from there  *)
(* on everything that names it has got it from the table: publications,    *)
(* what a reader has loaded of them and what a reader has left in Redis.   *)
(***************************************************************************)
EXTENDS Catalog, TLAPS

\* Nobody deletes a file, so that what is complete stays complete.
Complete(p) == stored[p] = Variants

CommittedInv == \A p \in products : Complete(p)
PublishedInv ==
  /\ \A l \in Links : items[l] \subseteq products
  /\ active \subseteq Links \X products
ServedInv ==
  /\ \A r \in Readers : content[r] \subseteq Links \X products
  /\ cache # NoCache => cache \subseteq Links \X products

IInv == TypeOK /\ CommittedInv /\ PublishedInv /\ ServedInv

\* It holds for an empty shop.
LEMMA InitIInv == Init => IInv
<1> SUFFICES ASSUME Init PROVE IInv
  OBVIOUS
<1>1. TypeOK
  BY CatalogAssumption DEF Init, TypeOK
<1>2. CommittedInv /\ PublishedInv /\ ServedInv
  BY DEF Init, CommittedInv, PublishedInv, ServedInv
<1>3. QED
  BY <1>1, <1>2 DEF IInv

-----------------------------------------------------------------------------
(* Uploads *)

\* What an upload does before its commit keeps it: it puts files, never removes one.
LEMMA UploadingKeeps ==
  ASSUME IInv, NEW p \in Products,
         \/ StartProduct(p) \/ CategoryMissing(p) \/ PutVariant(p) \/ PutFails(p)
         \/ CommitConflict(p) \/ FailProduct(p)
  PROVE  IInv'
<1> USE DEF IInv
<1>1. UNCHANGED <<categories, products, groups, items, active, cache, reading, listed, content>>
  BY DEF StartProduct, CategoryMissing, PutVariant, PutFails, CommitConflict, FailProduct, reads
<1>2. PublishedInv' /\ ServedInv'
  BY <1>1 DEF PublishedInv, ServedInv
<1>3. stored' = stored \/ (stored[p] < Variants /\ stored' = [stored EXCEPT ![p] = @ + 1])
  BY DEF StartProduct, CategoryMissing, PutVariant, PutFails, CommitConflict, FailProduct
<1>4. stored \in [Products -> 0..Variants] /\ Variants \in Nat
  BY CatalogAssumption DEF TypeOK
<1>5. stored' \in [Products -> 0..Variants]
  BY <1>3, <1>4
<1>6. CommittedInv'
  <2> SUFFICES ASSUME NEW q \in products PROVE stored'[q] = Variants
    BY <1>1 DEF CommittedInv, Complete
  <2>1. stored[q] = Variants /\ q \in Products
    BY DEF CommittedInv, Complete, TypeOK
  <2>2. QED
    BY <1>3, <1>4, <2>1
<1>7. pc' \in [Products -> {"idle", "uploading", "done", "failed"}]
  BY DEF TypeOK, StartProduct, CategoryMissing, PutVariant, PutFails, CommitConflict,
     FailProduct, End
<1>8. wanted' \in [Products -> Filters \cup {NoFilters}]
  <2>1. ASSUME NEW f \in FilterChoices(p) PROVE f \in Filters \cup {NoFilters}
    <3>1. CASE f = NoFilters
      BY <3>1
    <3>2. ASSUME NEW t \in Titles, f = [group |-> p, title |-> t, writes |-> TRUE]
          PROVE  f \in Filters
      BY <3>2 DEF Filters
    <3>3. ASSUME NEW t \in Titles, NEW g \in Products,
                 f = [group |-> g, title |-> t, writes |-> t # groups[g]]
          PROVE  f \in Filters
      <4>1. (t # groups[g]) \in BOOLEAN
        OBVIOUS
      <4>2. QED
        BY <3>3, <4>1, Zenon DEF Filters
    <3>4. QED
      BY <3>1, <3>2, <3>3 DEF FilterChoices
  <2>2. QED
    BY <2>1 DEF TypeOK, StartProduct, CategoryMissing, PutVariant, PutFails, CommitConflict,
       FailProduct, End
<1>9. TypeOK'
  BY <1>1, <1>5, <1>7, <1>8 DEF TypeOK
<1>10. QED
  BY <1>2, <1>6, <1>9

\* The commit keeps it: it comes after the last file.
LEMMA CommitKeeps ==
  ASSUME IInv, NEW p \in Products, CommitProduct(p)
  PROVE  IInv'
<1> USE DEF IInv
<1>1. /\ UNCHANGED <<categories, items, active, stored, cache, reading, listed, content>>
      /\ products' = products \cup {p} /\ Complete(p)
  BY DEF CommitProduct, WriteProduct, reads, Complete
<1>2. CommittedInv' /\ PublishedInv' /\ ServedInv'
  BY <1>1 DEF CommittedInv, PublishedInv, ServedInv, Complete
<1>3. groups' \in [Products -> Titles \cup {NoTitle}]
  <2>1. wanted[p] \in Filters \cup {NoFilters}
    BY DEF TypeOK
  <2>2. wanted[p].title \in Titles \cup {NoTitle}
    BY <2>1 DEF Filters, NoFilters
  <2>3. QED
    BY <2>2 DEF CommitProduct, WriteProduct, TypeOK
<1>4. /\ pc' \in [Products -> {"idle", "uploading", "done", "failed"}]
      /\ wanted' \in [Products -> Filters \cup {NoFilters}]
  BY DEF CommitProduct, End, TypeOK
<1>5. TypeOK'
  BY <1>1, <1>3, <1>4 DEF TypeOK
<1>6. QED
  BY <1>2, <1>5

-----------------------------------------------------------------------------
(* Publications and readers *)

\* Categories, publications and their withdrawal keep it.
LEMMA PublishingKeeps ==
  ASSUME IInv,
         \/ \E c \in Categories : CreateCategory(c)
         \/ \E l \in Links, S \in SUBSET Products : Publish(l, S)
         \/ \E e \in Entries : Withdraw(e)
  PROVE  IInv'
<1> USE DEF IInv
<1>1. CASE \E c \in Categories : CreateCategory(c)
  BY <1>1 DEF CreateCategory, reads, TypeOK, CommittedInv, PublishedInv, ServedInv, Complete
<1>2. ASSUME NEW l \in Links, NEW S \in SUBSET Products, Publish(l, S) PROVE IInv'
  <2>1. /\ S \subseteq products /\ items' = [items EXCEPT ![l] = S]
        /\ active' = active \cup ({l} \X S)
        /\ UNCHANGED <<categories, products, groups, stored, pc, wanted,
                       cache, reading, listed, content>>
    BY <1>2 DEF Publish, uploads, reads
  <2>2. CommittedInv' /\ ServedInv'
    BY <2>1 DEF CommittedInv, ServedInv, Complete
  <2>3. items' \in [Links -> SUBSET Products] /\ PublishedInv'
    BY <2>1 DEF PublishedInv, TypeOK
  <2>4. TypeOK'
    BY <2>1, <2>3 DEF TypeOK, Entries
  <2>5. QED
    BY <2>2, <2>3, <2>4
<1>3. CASE \E e \in Entries : Withdraw(e)
  BY <1>3 DEF Withdraw, uploads, reads, TypeOK, CommittedInv, PublishedInv, ServedInv, Complete
<1>4. QED
  BY <1>1, <1>2, <1>3

\* Readers and Redis keep it: they hand on what the tables have shown.
LEMMA ReadingKeeps ==
  ASSUME IInv, (\E r \in Readers : ListPublications(r) \/ Finish(r)) \/ Expire
  PROVE  IInv'
<1> USE DEF IInv
<1>1. UNCHANGED <<categories, products, groups, items, active, stored, pc, wanted>>
  BY DEF ListPublications, Finish, LoadItems, Fill, FillFails, Expire, uploads
<1>2. CommittedInv' /\ PublishedInv'
  BY <1>1 DEF CommittedInv, PublishedInv, Complete
<1>3. CASE Expire
  BY <1>1, <1>2, <1>3 DEF Expire, TypeOK, ServedInv
<1>4. ASSUME NEW r \in Readers, ListPublications(r) PROVE IInv'
  BY <1>1, <1>2, <1>4 DEF ListPublications, TypeOK, ServedInv, Published
<1>5. ASSUME NEW r \in Readers, LoadItems(r) PROVE IInv'
  <2>1. CatalogOf(listed[r]) \subseteq Links \X products
    BY DEF CatalogOf, PublishedInv
  <2>2. CatalogOf(listed[r]) \subseteq Entries
    BY <2>1 DEF Entries, TypeOK
  <2>3. QED
    BY <1>1, <1>2, <1>5, <2>1, <2>2 DEF LoadItems, TypeOK, ServedInv
<1>6. ASSUME NEW r \in Readers, Fill(r) \/ FillFails(r) PROVE IInv'
  BY <1>1, <1>2, <1>6 DEF Fill, FillFails, Forget, TypeOK, ServedInv
<1>7. QED
  BY <1>3, <1>4, <1>5, <1>6 DEF Finish

\* The invariant holds in every state of every behaviour.
THEOREM InvariantHolds == Spec => []IInv
<1>1. Init => IInv
  BY InitIInv
<1>2. IInv /\ [Next]_vars => IInv'
  <2> SUFFICES ASSUME IInv, [Next]_vars PROVE IInv'
    OBVIOUS
  <2>1. CASE UNCHANGED vars
    BY <2>1 DEF vars, IInv, TypeOK, CommittedInv, PublishedInv, ServedInv, Complete
  <2>2. ASSUME NEW p \in Products, Upload(p) PROVE IInv'
    BY <2>2, UploadingKeeps, CommitKeeps DEF Upload
  <2>3. QED
    BY <2>1, <2>2, PublishingKeeps, ReadingKeeps DEF Next
<1>3. QED
  BY <1>1, <1>2, PTL DEF Spec

-----------------------------------------------------------------------------
(* The theorems *)

\* Tables, stores, cache and requests hold only what they can hold.
THEOREM TypeCorrect == Spec => []TypeOK
<1>1. IInv => TypeOK
  BY DEF IInv
<1>2. QED
  BY <1>1, InvariantHolds, PTL

\* Whatever GET /market/catalog serves, from the tables, from a slow request or from
\* Redis, has all of its images in S3, however uploads fail and interleave.
THEOREM NoImageMissing == Spec => []ImagesInStore
<1>1. ASSUME IInv PROVE ImagesInStore
  <2> DEFINE served == (UNION {content[r] : r \in Readers})
                       \cup (IF cache = NoCache THEN {} ELSE cache)
  <2>1. served \subseteq Links \X products
    BY <1>1 DEF IInv, ServedInv
  <2>2. \A p \in products \cup {e[2] : e \in served} : p \in products
    BY <2>1
  <2>3. \A p \in products : stored[p] = Variants
    BY <1>1 DEF IInv, CommittedInv, Complete
  <2>4. QED
    BY <2>2, <2>3 DEF ImagesInStore
<1>2. QED
  BY <1>1, InvariantHolds, PTL
=============================================================================
