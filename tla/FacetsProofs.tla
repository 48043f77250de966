----------------------------- MODULE FacetsProofs -----------------------------
(***************************************************************************)
(* What Facets promises for any number of facets, documents and requests.  *)
(*                                                                         *)
(* The invariant the proofs rest on says, next to NoOrphans itself, that   *)
(* an identity stands for one facet only, and what a request under way may *)
(* still count on: as long as the document it read has the revision it     *)
(* had, and is active, the facet it lies in has the identity in the path.  *)
(***************************************************************************)
EXTENDS Facets, TLAPS

\* A row that was inserted has an identity; a document lies in such a row.
Inserted ==
    /\ \A f \in Facets : Stored(facet[f]) => facet[f].identity \in Identities
    /\ \A d \in Docs : Stored(doc[d]) => doc[d].parent \in Facets /\ Stored(facet[doc[d].parent])

OneNamed == \A f, g \in Facets :
    Stored(facet[f]) /\ Stored(facet[g]) /\ facet[f].identity = facet[g].identity => f = g

OfFacet(r) == At(r) \in {"revision", "count", "update"} =>
    /\ request[r].row \in Facets
    /\ Stored(facet[request[r].row])
    /\ request[r].identity \in Identities

OfReader(r) == At(r) = "find" => request[r].op \in Operations

OfNewDocument(r) == At(r) = "insert" => request[r].row \in Docs /\ request[r].deleted = FALSE

OfDocument(r) == At(r) \in {"recall", "store"} =>
    LET d == request[r].row
    IN  /\ d \in Docs
        /\ Stored(doc[d])
        /\ request[r].revision <= doc[d].revision
        /\ request[r].revision = doc[d].revision /\ Active(doc[d])
              => facet[doc[d].parent].identity = request[r].path

Prepared(r) == OfFacet(r) /\ OfReader(r) /\ OfNewDocument(r) /\ OfDocument(r)

Requested == \A r \in Requests : Prepared(r)

IInv == TypeOK /\ Inserted /\ OneNamed /\ NoOrphans /\ Requested

-----------------------------------------------------------------------------
(* The helpers.                                                            *)

LEMMA IdleTyped == Idle \in RequestRecords
  BY DEF Idle, RequestRecords

\* A request that goes on leaves the others alone.
LEMMA BecomesTyped ==
  ASSUME TypeOK, NEW r \in Requests, NEW f \in RequestRecords, Becomes(r, f)
  PROVE  /\ request' \in [Requests -> RequestRecords]
         /\ request'[r] = f
         /\ \A q \in Requests : q # r => request'[q] = request[q]
  BY DEF TypeOK, Becomes

\* While the rows stay as they are, an invariant of the requests needs a look
\* at the one that moves only.
LEMMA RowsKept ==
  ASSUME IInv, UNCHANGED rows, NEW r \in Requests, NEW f \in RequestRecords, Becomes(r, f),
         Prepared(r)'
  PROVE  IInv'
<1>1. TypeOK'
  BY BecomesTyped DEF IInv, TypeOK, rows
<1>2. Inserted' /\ OneNamed' /\ NoOrphans'
  BY DEF IInv, Inserted, OneNamed, NoOrphans, Stored, Active, rows
<1>3. ASSUME NEW q \in Requests
      PROVE  Prepared(q)'
  <2>1. CASE q = r
    BY <2>1
  <2>2. CASE q # r
    <3>1. request'[q] = request[q]
      BY <2>2, BecomesTyped DEF IInv
    <3> QED
      BY <3>1 DEF IInv, Requested, Prepared, OfFacet, OfReader, OfNewDocument, OfDocument, At, Stored, Active, rows
  <2> QED
    BY <2>1, <2>2
<1> QED
  BY <1>1, <1>2, <1>3 DEF IInv, Requested

LEMMA InitInv == Init => IInv
<1> SUFFICES ASSUME Init PROVE IInv
  OBVIOUS
<1>1. TypeOK
  BY IdleTyped DEF Init, TypeOK, NoFacet, NoDoc
<1>2. Inserted /\ OneNamed /\ NoOrphans
  BY DEF Init, Inserted, OneNamed, NoOrphans, Stored, Active, NoFacet, NoDoc
<1>3. Requested
  BY DEF Init, Requested, Prepared, OfFacet, OfReader, OfNewDocument, OfDocument, At, Idle
<1> QED
  BY <1>1, <1>2, <1>3 DEF IInv

-----------------------------------------------------------------------------
(* The steps that read.                                                    *)

LEMMA PlanInv ==
  ASSUME IInv, NEW r \in Requests, NEW f \in Facets, NEW step \in {"revision", "count", "update"},
         NEW i \in Identities, NEW deleted \in BOOLEAN, Plan(r, f, step, i, deleted)
  PROVE  IInv'
<1> DEFINE next == [Idle EXCEPT !.at = step, !.row = f, !.revision = facet[f].revision,
                      !.path = facet[f].identity, !.identity = i, !.deleted = deleted]
<1>1. next \in RequestRecords
  BY DEF IInv, TypeOK, Inserted, Plan, Idle, RequestRecords
<1>2. Becomes(r, next) /\ UNCHANGED rows /\ Stored(facet[f])
  BY DEF Plan
<1>3. request'[r] = next
  BY <1>1, <1>2, BecomesTyped DEF IInv
<1>4. Prepared(r)'
  BY <1>2, <1>3 DEF Prepared, OfFacet, OfReader, OfNewDocument, OfDocument, At, Idle, Stored, rows
<1> QED
  BY <1>1, <1>2, <1>4, RowsKept

LEMMA ReadFacetInv ==
  ASSUME IInv, NEW r \in Requests, NEW f \in Facets,
         Patch(r, f) \/ Delete(r, f) \/ Restore(r, f) \/ RestoreRevision(r, f)
  PROVE  IInv'
<1>1. CASE Patch(r, f)
  BY <1>1, PlanInv DEF Patch, IInv, TypeOK
<1>2. CASE Delete(r, f)
  BY <1>2, PlanInv DEF Delete, Plan, IInv, Inserted
<1>3. CASE Restore(r, f)
  BY <1>3, PlanInv DEF Restore, Plan, IInv, Inserted
<1>4. CASE RestoreRevision(r, f)
  <2>1. facet[f].identity \in Identities /\ facet[f].deleted \in BOOLEAN
    BY <1>4 DEF RestoreRevision, Plan, IInv, Inserted, TypeOK
  <2> QED
    BY <1>4, <2>1, PlanInv DEF RestoreRevision
<1> QED
  BY <1>1, <1>2, <1>3, <1>4

\* Whichever facet's revision it is, the row to be written stays the one read.
LEMMA GetFacetRevisionInv ==
  ASSUME IInv, NEW r \in Requests, GetFacetRevision(r)
  PROVE  IInv'
<1>1. PICK f \in Named(request[r].path) : \E past \in facetPast[f] :
        /\ At(r) = "revision"
        /\ Becomes(r, [request[r] EXCEPT !.at = "update", !.identity = past.identity,
                         !.deleted = past.deleted])
        /\ UNCHANGED rows
  BY DEF GetFacetRevision
<1>2. PICK past \in facetPast[f] :
        /\ At(r) = "revision"
        /\ Becomes(r, [request[r] EXCEPT !.at = "update", !.identity = past.identity,
                         !.deleted = past.deleted])
        /\ UNCHANGED rows
  BY <1>1
<1> DEFINE next == [request[r] EXCEPT !.at = "update", !.identity = past.identity,
                      !.deleted = past.deleted]
<1>3. past.identity \in Identities /\ past.deleted \in BOOLEAN
  BY DEF Named, IInv, TypeOK, Snapshots
<1>4. next \in RequestRecords
  BY <1>3 DEF IInv, TypeOK, RequestRecords
<1>5. request'[r] = next
  BY <1>2, <1>4, BecomesTyped DEF IInv
<1>6. next.at = "update" /\ next.row = request[r].row /\ next.identity = past.identity
  BY DEF IInv, TypeOK, RequestRecords
<1>7. Prepared(r)'
  BY <1>2, <1>3, <1>5, <1>6 DEF IInv, Requested, Prepared, OfFacet, OfReader, OfNewDocument,
     OfDocument, At, Stored, rows
<1> QED
  BY <1>2, <1>4, <1>7, RowsKept

LEMMA CountInv ==
  ASSUME IInv, NEW r \in Requests, Count(r)
  PROVE  IInv'
<1> DEFINE next == [request[r] EXCEPT !.at = "update"]
<1>1. next \in RequestRecords
  BY DEF IInv, TypeOK, RequestRecords
<1>2. Becomes(r, next) /\ UNCHANGED rows /\ At(r) = "count"
  BY DEF Count, Goto
<1>3. request'[r] = next
  BY <1>1, <1>2, BecomesTyped DEF IInv
<1>4. Prepared(r)'
  BY <1>2, <1>3 DEF IInv, TypeOK, RequestRecords, Requested, Prepared, OfFacet, OfReader, OfNewDocument, OfDocument, At,
     Stored, rows
<1> QED
  BY <1>1, <1>2, <1>4, RowsKept

LEMMA CreateDocumentInv ==
  ASSUME IInv, NEW r \in Requests, NEW d \in Docs, NEW i \in Identities, CreateDocument(r, d, i)
  PROVE  IInv'
<1> DEFINE next == [Idle EXCEPT !.at = "insert", !.row = d, !.path = i]
<1>1. next \in RequestRecords
  BY DEF Idle, RequestRecords
<1>2. Becomes(r, next) /\ UNCHANGED rows
  BY DEF CreateDocument
<1>3. request'[r] = next
  BY <1>1, <1>2, BecomesTyped DEF IInv
<1>4. Prepared(r)'
  BY <1>3 DEF Prepared, OfFacet, OfReader, OfNewDocument, OfDocument, At, Idle
<1> QED
  BY <1>1, <1>2, <1>4, RowsKept

LEMMA BeginInv ==
  ASSUME IInv, NEW r \in Requests, NEW i \in Identities, NEW op \in Operations, Begin(r, i, op)
  PROVE  IInv'
<1> DEFINE next == [Idle EXCEPT !.at = "find", !.op = op, !.path = i]
<1>1. next \in RequestRecords
  BY DEF Idle, RequestRecords
<1>2. Becomes(r, next) /\ UNCHANGED rows
  BY DEF Begin
<1>3. request'[r] = next
  BY <1>1, <1>2, BecomesTyped DEF IInv
<1>4. Prepared(r)'
  BY <1>3 DEF Prepared, OfFacet, OfReader, OfNewDocument, OfDocument, At, Idle
<1> QED
  BY <1>1, <1>2, <1>4, RowsKept

\* The document is read in the facet the path names.
LEMMA GetFacetDocumentInv ==
  ASSUME IInv, NEW r \in Requests, NEW d \in Docs, GetFacetDocument(r, d)
  PROVE  IInv'
<1>1. PICK mark \in Marks(request[r].op, d) :
        Becomes(r, [request[r] EXCEPT
                      !.at = IF request[r].op = "revision" THEN "recall" ELSE "store",
                      !.row = d, !.revision = doc[d].revision, !.deleted = mark])
  BY DEF GetFacetDocument
<1> DEFINE step == IF request[r].op = "revision" THEN "recall" ELSE "store"
           next == [request[r] EXCEPT !.at = step, !.row = d,
                      !.revision = doc[d].revision, !.deleted = mark]
<1>2. Stored(doc[d]) /\ doc[d].parent \in Named(request[r].path) /\ UNCHANGED rows
  BY DEF GetFacetDocument
<1>3. mark \in BOOLEAN /\ request[r].path \in Identities
  <2>1. request[r].op \in Operations
    BY DEF GetFacetDocument, IInv, Requested, Prepared, OfReader
  <2>2. doc[d].deleted \in BOOLEAN
    BY DEF IInv, TypeOK
  <2>3. mark \in BOOLEAN
    BY <1>1, <2>1, <2>2 DEF Marks, Operations
  <2> QED
    BY <1>2, <2>3 DEF Named, IInv, Inserted
<1>4. step \in {"recall", "store"} /\ Becomes(r, next)
  BY <1>1
<1> HIDE DEF step
<1>5. next \in RequestRecords
  <2>1. request[r] \in RequestRecords /\ doc[d].revision \in Nat
    BY DEF IInv, TypeOK
  <2> QED
    BY <1>3, <1>4, <2>1 DEF RequestRecords
<1>6. request'[r] = next
  BY <1>5, <1>4, BecomesTyped DEF IInv
<1>7. /\ next.at = step /\ next.row = d /\ next.revision = doc[d].revision
      /\ next.path = request[r].path
  <2>1. request[r] \in RequestRecords
    BY DEF IInv, TypeOK
  <2> QED
    BY <2>1 DEF RequestRecords
<1> HIDE DEF next
<1>8. Prepared(r)'
  BY <1>2, <1>6, <1>4, <1>7 DEF IInv, TypeOK, Prepared, OfFacet, OfReader, OfNewDocument,
     OfDocument, At, Stored, Named, rows
<1> QED
  BY <1>2, <1>5, <1>8, <1>4, RowsKept

\* Whichever document's revision it is, what is known of the one read stays.
LEMMA GetFacetDocumentRevisionInv ==
  ASSUME IInv, NEW r \in Requests, NEW d \in Docs, GetFacetDocumentRevision(r, d)
  PROVE  IInv'
<1>1. PICK mark \in docPast[d] :
        Becomes(r, [request[r] EXCEPT !.at = "store", !.deleted = mark])
  BY DEF GetFacetDocumentRevision
<1> DEFINE next == [request[r] EXCEPT !.at = "store", !.deleted = mark]
<1>2. At(r) = "recall" /\ UNCHANGED rows
  BY DEF GetFacetDocumentRevision
<1>3. next \in RequestRecords
  BY DEF IInv, TypeOK, RequestRecords
<1>4. request'[r] = next
  BY <1>1, <1>3, BecomesTyped DEF IInv
<1>5. /\ next.at = "store" /\ next.row = request[r].row
      /\ next.revision = request[r].revision /\ next.path = request[r].path
  BY DEF IInv, TypeOK, RequestRecords
<1>6. Prepared(r)'
  BY <1>2, <1>4, <1>5 DEF IInv, Requested, Prepared, OfFacet, OfReader, OfNewDocument, OfDocument,
     At, Stored, Active, rows
<1> QED
  BY <1>1, <1>2, <1>3, <1>6, RowsKept

LEMMA RefusedInv ==
  ASSUME IInv, NEW r \in Requests, Refused(r)
  PROVE  IInv'
<1>1. Becomes(r, Idle) /\ UNCHANGED rows
  BY DEF Refused, Done
<1>2. request'[r] = Idle
  BY <1>1, IdleTyped, BecomesTyped DEF IInv
<1>3. Prepared(r)'
  BY <1>2 DEF Prepared, OfFacet, OfReader, OfNewDocument, OfDocument, At, Idle
<1> QED
  BY <1>1, <1>3, IdleTyped, RowsKept

-----------------------------------------------------------------------------
(* The steps that write facets.                                            *)

\* A facet is inserted: nobody had its identity.
LEMMA CreateInv ==
  ASSUME IInv, NEW r \in Requests, NEW f \in Facets, NEW i \in Identities, Create(r, f, i)
  PROVE  IInv'
<1>1. /\ facet' = [facet EXCEPT ![f] = [identity |-> i, deleted |-> FALSE, revision |-> 1]]
      /\ facetPast' = [facetPast EXCEPT ![f] = {[identity |-> i, deleted |-> FALSE]}]
      /\ UNCHANGED <<doc, docPast, request>>
      /\ ~ Stored(facet[f]) /\ Named(i) = {}
  BY DEF Create
<1>2. TypeOK'
  BY <1>1 DEF IInv, TypeOK, Snapshots
<1>3. Stored(facet'[f]) /\ \A g \in Facets : g # f => facet'[g] = facet[g]
  BY <1>1 DEF IInv, TypeOK, Stored
<1>4. Inserted' /\ NoOrphans'
  BY <1>1, <1>3 DEF IInv, TypeOK, Inserted, NoOrphans, Stored, Active
<1>5. OneNamed'
  BY <1>1, <1>3 DEF IInv, TypeOK, OneNamed, Named, Stored
<1>6. Requested'
  <2> SUFFICES ASSUME NEW q \in Requests PROVE Prepared(q)'
    BY DEF Requested
  <2>1. Prepared(q)
    BY DEF IInv, Requested
  <2> QED
    BY <1>1, <1>3, <2>1 DEF IInv, Inserted, Prepared, OfFacet, OfReader, OfNewDocument, OfDocument,
       At, Stored, Active
<1> QED
  BY <1>2, <1>4, <1>5, <1>6 DEF IInv

\* A facet that has active documents keeps its identity and stays active, because
\* they are counted under the lock.
LEMMA UpdateFacetInv ==
  ASSUME IInv, NEW r \in Requests, UpdateFacet(r)
  PROVE  IInv'
<1> DEFINE f == request[r].row
           i == request[r].identity
           gone == request[r].deleted
<1>1. f \in Facets /\ Stored(facet[f]) /\ i \in Identities /\ gone \in BOOLEAN
  BY DEF UpdateFacet, IInv, TypeOK, RequestRecords, Requested, Prepared, OfFacet
<1>2. /\ facet' = [facet EXCEPT ![f] = [identity |-> i, deleted |-> gone,
                                        revision |-> facet[f].revision + 1]]
      /\ facetPast' = [facetPast EXCEPT ![f] = @ \cup {[identity |-> i, deleted |-> gone]}]
      /\ Becomes(r, Idle) /\ UNCHANGED <<doc, docPast>>
      /\ StillEmpty(r) /\ Named(i) \subseteq {f}
  BY DEF UpdateFacet, Done
<1>3. /\ facet'[f] = [identity |-> i, deleted |-> gone, revision |-> facet[f].revision + 1]
      /\ \A g \in Facets : g # f => facet'[g] = facet[g]
      /\ Stored(facet'[f])
  BY <1>1, <1>2 DEF IInv, TypeOK, Stored
<1>4. TypeOK'
  BY <1>1, <1>2, IdleTyped, BecomesTyped DEF IInv, TypeOK, Snapshots
<1>5. Inserted'
  BY <1>1, <1>2, <1>3 DEF IInv, Inserted, Stored
<1>6. OneNamed'
  BY <1>1, <1>2, <1>3 DEF IInv, OneNamed, Named, Stored
<1>7. NoOrphans'
  BY <1>1, <1>2, <1>3 DEF IInv, NoOrphans, StillEmpty, ActiveDocs, Stored, Active
<1>8. Requested'
  <2> SUFFICES ASSUME NEW q \in Requests PROVE Prepared(q)'
    BY DEF Requested
  <2>1. CASE q = r
    <3>1. request'[q] = Idle
      BY <1>2, <2>1, IdleTyped, BecomesTyped DEF IInv
    <3> QED
      BY <3>1 DEF Prepared, OfFacet, OfReader, OfNewDocument, OfDocument, At, Idle
  <2>2. CASE q # r
    <3>1. request'[q] = request[q] /\ Prepared(q)
      BY <1>2, <2>2, IdleTyped, BecomesTyped DEF IInv, Requested
    <3>2. OfFacet(q)' /\ OfReader(q)' /\ OfNewDocument(q)'
      BY <1>3, <3>1 DEF Prepared, OfFacet, OfReader, OfNewDocument, At, Stored
    <3>3. OfDocument(q)'
      BY <1>1, <1>2, <1>3, <3>1 DEF Prepared, OfDocument, At, StillEmpty, ActiveDocs, Stored, Active
    <3> QED
      BY <3>2, <3>3 DEF Prepared
  <2> QED
    BY <2>1, <2>2
<1> QED
  BY <1>4, <1>5, <1>6, <1>7, <1>8 DEF IInv

LEMMA ReorderInv ==
  ASSUME IInv, NEW r \in Requests, Reorder(r)
  PROVE  IInv'
<1>1. /\ UNCHANGED <<doc, facetPast, docPast, request>>
      /\ DOMAIN facet' = Facets
      /\ \A g \in Facets :
            /\ facet'[g] \in [identity : Identities \cup {None}, deleted : BOOLEAN, revision : Nat]
            /\ facet'[g].identity = facet[g].identity /\ facet'[g].deleted = facet[g].deleted
            /\ Stored(facet'[g]) <=> Stored(facet[g])
  BY DEF Reorder, IInv, TypeOK, Stored, Active
<1>2. TypeOK'
  <2>1. facet' \in [Facets -> [identity : Identities \cup {None}, deleted : BOOLEAN, revision : Nat]]
    BY <1>1 DEF Reorder
  <2> QED
    BY <1>1, <2>1 DEF IInv, TypeOK
<1>3. Inserted' /\ OneNamed' /\ NoOrphans'
  BY <1>1 DEF IInv, Inserted, OneNamed, NoOrphans, Stored, Active
<1>4. Requested'
  BY <1>1 DEF IInv, Inserted, Requested, Prepared, OfFacet, OfReader, OfNewDocument, OfDocument, At,
     Stored, Active
<1> QED
  BY <1>2, <1>3, <1>4 DEF IInv

-----------------------------------------------------------------------------
(* The steps that write documents.                                         *)

\* Whatever writes a document: the parent is one the path names, an active one
\* for an active document.
LEMMA DocumentWritten ==
  ASSUME IInv, NEW r \in Requests, NEW d \in Docs, NEW f \in Parents(r), NEW n \in Nat, n > 0,
         doc[d].revision < n, request[r].deleted \in BOOLEAN,
         doc' = [doc EXCEPT ![d] = [parent |-> f, deleted |-> request[r].deleted, revision |-> n]],
         docPast' = [docPast EXCEPT ![d] = docPast'[d]], docPast'[d] \in SUBSET BOOLEAN,
         Becomes(r, Idle), UNCHANGED <<facet, facetPast>>
  PROVE  IInv'
<1>1. f \in Facets /\ Stored(facet[f]) /\ (~ request[r].deleted => Active(facet[f]))
  BY DEF Parents, ActiveNamed, Named
<1>2. /\ doc'[d] = [parent |-> f, deleted |-> request[r].deleted, revision |-> n]
      /\ \A e \in Docs : e # d => doc'[e] = doc[e]
  BY DEF IInv, TypeOK
<1>3. TypeOK'
  BY <1>1, IdleTyped, BecomesTyped DEF IInv, TypeOK
<1>4. Inserted' /\ OneNamed' /\ NoOrphans'
  BY <1>1, <1>2 DEF IInv, Inserted, OneNamed, NoOrphans, Stored, Active
<1>5. Requested'
  <2> SUFFICES ASSUME NEW q \in Requests PROVE Prepared(q)'
    BY DEF Requested
  <2>1. CASE q = r
    <3>1. request'[q] = Idle
      BY <2>1, IdleTyped, BecomesTyped DEF IInv
    <3> QED
      BY <3>1 DEF Prepared, OfFacet, OfReader, OfNewDocument, OfDocument, At, Idle
  <2>2. CASE q # r
    <3>1. request'[q] = request[q] /\ Prepared(q) /\ request[q].revision \in Nat
      BY <2>2, IdleTyped, BecomesTyped DEF IInv, TypeOK, RequestRecords, Requested
    <3>2. OfFacet(q)' /\ OfReader(q)' /\ OfNewDocument(q)'
      BY <3>1 DEF Prepared, OfFacet, OfReader, OfNewDocument, At, Stored
    <3>3. OfDocument(q)'
      <4>1. CASE request[q].row = d
        BY <1>2, <3>1, <4>1 DEF IInv, TypeOK, Prepared, OfDocument, At, Stored, Active
      <4>2. CASE request[q].row # d
        BY <1>2, <3>1, <4>2 DEF Prepared, OfDocument, At, Stored, Active
      <4> QED
        BY <4>1, <4>2
    <3> QED
      BY <3>2, <3>3 DEF Prepared
  <2> QED
    BY <2>1, <2>2
<1> QED
  BY <1>3, <1>4, <1>5 DEF IInv

LEMMA InsertFacetDocumentInv ==
  ASSUME IInv, NEW r \in Requests, InsertFacetDocument(r)
  PROVE  IInv'
<1> DEFINE d == request[r].row
<1>1. PICK f \in Parents(r) :
        /\ At(r) = "insert" /\ ~ Stored(doc[d])
        /\ doc' = [doc EXCEPT ![d] = [parent |-> f, deleted |-> FALSE, revision |-> 1]]
        /\ docPast' = [docPast EXCEPT ![d] = {FALSE}]
        /\ Becomes(r, Idle) /\ UNCHANGED <<facet, facetPast>>
  BY DEF InsertFacetDocument, Done
<1>2. d \in Docs /\ request[r].deleted = FALSE
  BY <1>1 DEF IInv, Requested, Prepared, OfNewDocument
<1>3. doc[d].revision < 1
  <2>1. doc[d].revision \in Nat
    BY <1>2 DEF IInv, TypeOK
  <2> QED
    BY <1>1, <2>1 DEF Stored
<1>4. docPast'[d] = {FALSE}
  BY <1>1, <1>2 DEF IInv, TypeOK
<1>5. doc' = [doc EXCEPT ![d] = [parent |-> f, deleted |-> request[r].deleted, revision |-> 1]]
  BY <1>1, <1>2
<1>6. docPast' = [docPast EXCEPT ![d] = docPast'[d]] /\ docPast'[d] \in SUBSET BOOLEAN
  BY <1>1, <1>4
<1> DEFINE n == 1
<1>7. /\ request[r].deleted \in BOOLEAN
      /\ n \in Nat /\ n > 0 /\ doc[d].revision < n
  <2>1. request[r].deleted \in BOOLEAN
    BY DEF IInv, TypeOK, RequestRecords
  <2> QED
    BY <1>3, <2>1
<1>8. doc' = [doc EXCEPT ![d] = [parent |-> f, deleted |-> request[r].deleted, revision |-> n]]
  BY <1>5
<1>9. d \in Docs /\ Becomes(r, Idle) /\ UNCHANGED <<facet, facetPast>>
  BY <1>1, <1>2
<1> HIDE DEF n, d
<1> QED
  BY <1>6, <1>7, <1>8, <1>9, DocumentWritten

LEMMA UpdateFacetDocumentInv ==
  ASSUME IInv, NEW r \in Requests, UpdateFacetDocument(r)
  PROVE  IInv'
<1> DEFINE d == request[r].row
<1>1. PICK f \in Parents(r) :
        /\ At(r) = "store"
        /\ doc' = [doc EXCEPT ![d] = [parent |-> f, deleted |-> request[r].deleted,
                                      revision |-> @.revision + 1]]
        /\ docPast' = [docPast EXCEPT ![d] = @ \cup {request[r].deleted}]
        /\ Becomes(r, Idle) /\ UNCHANGED <<facet, facetPast>>
  BY DEF UpdateFacetDocument, Done
<1>2. d \in Docs /\ request[r].deleted \in BOOLEAN
  BY <1>1 DEF IInv, TypeOK, RequestRecords, Requested, Prepared, OfDocument
<1> DEFINE n == doc[d].revision + 1
<1>3. n \in Nat /\ n > 0 /\ doc[d].revision < n
  BY <1>2 DEF IInv, TypeOK
<1>4. docPast'[d] \in SUBSET BOOLEAN /\ docPast' = [docPast EXCEPT ![d] = docPast'[d]]
  BY <1>1, <1>2 DEF IInv, TypeOK
<1>5. doc' = [doc EXCEPT ![d] = [parent |-> f, deleted |-> request[r].deleted, revision |-> n]]
  BY <1>1
<1> HIDE DEF n
<1> QED
  BY <1>1, <1>2, <1>3, <1>4, <1>5, DocumentWritten

-----------------------------------------------------------------------------
(* The theorems.                                                           *)

LEMMA StepInv == IInv /\ [Next]_vars => IInv'
<1> SUFFICES ASSUME IInv, [Next]_vars PROVE IInv'
  OBVIOUS
<1>1. ASSUME NEW r \in Requests, FacetStep(r)
      PROVE  IInv'
  <2>1. CASE \E f \in Facets, i \in Identities : Create(r, f, i)
    BY <2>1, CreateInv
  <2>2. CASE \E f \in Facets :
               Patch(r, f) \/ Delete(r, f) \/ Restore(r, f) \/ RestoreRevision(r, f)
    BY <2>2, ReadFacetInv
  <2>3. CASE Count(r)
    BY <2>3, CountInv
  <2>4. CASE UpdateFacet(r)
    BY <2>4, UpdateFacetInv
  <2>5. CASE Reorder(r)
    BY <2>5, ReorderInv
  <2>6. CASE GetFacetRevision(r)
    BY <2>6, GetFacetRevisionInv
  <2> QED
    BY <1>1, <2>1, <2>2, <2>3, <2>4, <2>5, <2>6 DEF FacetStep
<1>2. ASSUME NEW r \in Requests, DocumentStep(r)
      PROVE  IInv'
  <2>1. CASE \E d \in Docs, i \in Identities : CreateDocument(r, d, i)
    BY <2>1, CreateDocumentInv
  <2>2. CASE \E i \in Identities, op \in Operations : Begin(r, i, op)
    BY <2>2, BeginInv
  <2>3. CASE \E d \in Docs : GetFacetDocument(r, d) \/ GetFacetDocumentRevision(r, d)
    BY <2>3, GetFacetDocumentInv, GetFacetDocumentRevisionInv
  <2>4. CASE InsertFacetDocument(r)
    BY <2>4, InsertFacetDocumentInv
  <2>5. CASE UpdateFacetDocument(r)
    BY <2>5, UpdateFacetDocumentInv
  <2> QED
    BY <1>2, <2>1, <2>2, <2>3, <2>4, <2>5 DEF DocumentStep
<1>3. CASE UNCHANGED vars
  BY <1>3 DEF vars, rows, IInv, TypeOK, Inserted, OneNamed, NoOrphans, Requested, Prepared, OfFacet,
     OfReader, OfNewDocument, OfDocument, At, Stored, Active
<1> QED
  BY <1>1, <1>2, <1>3, RefusedInv DEF Next

LEMMA Invariance == Spec => []IInv
  BY InitInv, StepInv, PTL DEF Spec

\* Every variable keeps its type.
THEOREM TypeCorrect == Spec => []TypeOK
<1>1. IInv => TypeOK
  BY DEF IInv
<1> QED
  BY <1>1, Invariance, PTL

\* No active document is ever left in a deleted facet.
THEOREM NoOrphansEver == Spec => []NoOrphans
<1>1. IInv => NoOrphans
  BY DEF IInv
<1> QED
  BY <1>1, Invariance, PTL

\* One step keeps an active document where it is, and its facet's identity.
StaysPut(d) == Active(doc[d]) /\ Active(doc'[d]) =>
    /\ doc'[d].parent = doc[d].parent
    /\ facet'[doc[d].parent].identity = facet[doc[d].parent].identity

\* A document written by a request that read it is still the one it read, so that
\* the identity in the path means the facet the document lies in.
LEMMA DocumentStepStays ==
  ASSUME IInv, NEW r \in Requests, InsertFacetDocument(r) \/ UpdateFacetDocument(r), NEW d \in Docs
  PROVE  StaysPut(d)
<1> SUFFICES ASSUME Active(doc[d]), Active(doc'[d])
             PROVE  doc'[d].parent = doc[d].parent
  BY DEF StaysPut, InsertFacetDocument, UpdateFacetDocument
<1>1. CASE InsertFacetDocument(r)
  BY <1>1 DEF InsertFacetDocument, IInv, TypeOK, Requested, Prepared, OfNewDocument, Active
<1>2. CASE UpdateFacetDocument(r) /\ request[r].row # d
  BY <1>2 DEF UpdateFacetDocument, IInv, TypeOK
<1>3. CASE UpdateFacetDocument(r) /\ request[r].row = d
  <2>1. PICK f \in Parents(r) :
          /\ At(r) = "store" /\ SameRevision(r)
          /\ doc' = [doc EXCEPT ![d] = [parent |-> f, deleted |-> request[r].deleted,
                                        revision |-> @.revision + 1]]
    BY <1>3 DEF UpdateFacetDocument
  <2>2. facet[doc[d].parent].identity = request[r].path
    BY <1>3, <2>1 DEF SameRevision, IInv, Requested, Prepared, OfDocument
  <2>3. f \in Facets /\ Stored(facet[f]) /\ facet[f].identity = request[r].path
    BY DEF Parents, ActiveNamed, Named
  <2>4. doc[d].parent \in Facets /\ Stored(facet[doc[d].parent])
    BY DEF IInv, Inserted, Active
  <2>5. f = doc[d].parent
    BY <2>2, <2>3, <2>4 DEF IInv, OneNamed
  <2> QED
    BY <2>1, <2>5 DEF IInv, TypeOK
<1> QED
  BY <1>1, <1>2, <1>3

LEMMA StepStaysPut ==
  ASSUME IInv, [Next]_vars, NEW d \in Docs
  PROVE  StaysPut(d)
<1> SUFFICES ASSUME Active(doc[d]), Active(doc'[d]) PROVE StaysPut(d)
  BY DEF StaysPut
<1>1. doc[d].parent \in Facets /\ Stored(facet[doc[d].parent])
  BY DEF IInv, Inserted, Active
<1>2. CASE UNCHANGED rows
  BY <1>2 DEF StaysPut, rows
<1>3. ASSUME NEW r \in Requests, \E f \in Facets, i \in Identities : Create(r, f, i)
      PROVE  StaysPut(d)
  BY <1>1, <1>3 DEF StaysPut, Create, IInv, TypeOK
<1>4. ASSUME NEW r \in Requests, UpdateFacet(r)
      PROVE  StaysPut(d)
  BY <1>1, <1>4 DEF StaysPut, UpdateFacet, StillEmpty, ActiveDocs, IInv, TypeOK
<1>5. ASSUME NEW r \in Requests, Reorder(r)
      PROVE  StaysPut(d)
  BY <1>1, <1>5 DEF StaysPut, Reorder, IInv, TypeOK
<1>6. ASSUME NEW r \in Requests, InsertFacetDocument(r) \/ UpdateFacetDocument(r)
      PROVE  StaysPut(d)
  BY <1>6, DocumentStepStays
<1>7. UNCHANGED rows \/ (\E r \in Requests :
          \/ \E f \in Facets, i \in Identities : Create(r, f, i)
          \/ UpdateFacet(r) \/ Reorder(r) \/ InsertFacetDocument(r) \/ UpdateFacetDocument(r))
  <2>1. ASSUME NEW r \in Requests, FacetStep(r)
        PROVE  UNCHANGED rows \/ (\E f \in Facets, i \in Identities : Create(r, f, i))
               \/ UpdateFacet(r) \/ Reorder(r)
    BY <2>1 DEF FacetStep, Patch, Delete, Restore, RestoreRevision, Plan,
           GetFacetRevision, Count
  <2>2. ASSUME NEW r \in Requests, DocumentStep(r)
        PROVE  UNCHANGED rows \/ InsertFacetDocument(r) \/ UpdateFacetDocument(r)
    BY <2>2 DEF DocumentStep, CreateDocument, Begin, GetFacetDocument,
           GetFacetDocumentRevision
  <2>3. UNCHANGED vars => UNCHANGED rows
    BY DEF vars
  <2> QED
    BY <2>1, <2>2, <2>3 DEF Next, Refused
<1> QED
  BY <1>2, <1>3, <1>4, <1>5, <1>6, <1>7

\* An active document never leaves its facet, nor does the facet change its
\* identity under it.
THEOREM DocumentsStayPutAlways == Spec => DocumentsStayPut
<1>1. IInv /\ [Next]_vars => [\A d \in Docs : Active(doc[d]) /\ Active(doc'[d]) =>
          /\ doc'[d].parent = doc[d].parent
          /\ facet'[doc[d].parent].identity = facet[doc[d].parent].identity]_vars
  BY StepStaysPut DEF StaysPut
<1> QED
  BY <1>1, Invariance, PTL DEF Spec, DocumentsStayPut
==============================================================================
