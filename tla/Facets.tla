-------------------------------- MODULE Facets --------------------------------
(***************************************************************************)
(* The facets of a workspace and the documents nested in them              *)
(* (facets.UseCase over facets_repository.go).                             *)
(*                                                                         *)
(* Every write checks its preconditions on rows it reads first, outside    *)
(* any transaction.  The transaction that follows locks the workspace row  *)
(* before anything else, so that it is one step here, and finds the parent *)
(* of a document again by the identity in the path, which a rename may     *)
(* have given to another facet.                                            *)
(*                                                                         *)
(* A facet is a row with an identity, a tombstone mark and a revision; a   *)
(* document a row with a parent, a mark and a revision.  What is displayed,*)
(* the position and the configuration play no part: a transaction that a   *)
(* unique index, the history or the database refuses is Refused.           *)
(***************************************************************************)
EXTENDS Naturals

CONSTANTS
    Facets,         \* rows of facets, by id
    Docs,           \* rows of facet_documents, by id
    Identities,     \* of facets
    Requests,
    None,           \* no facet, document or identity
    MaxRevision,    \* bound on the revision of a facet
    MaxDocRevision  \* bound on the revision of a document

ASSUME FacetsAssumption == None \notin Facets \cup Docs \cup Identities

VARIABLES
    facet,          \* facets; revision 0: not inserted yet
    doc,            \* facet_documents
    facetPast,      \* facet: the snapshots of its recorded revisions
    docPast,        \* document: the tombstone marks of its recorded revisions
    request         \* see RequestRecords

rows == <<facet, doc, facetPast, docPast>>
vars == <<rows, request>>

NoFacet == [identity |-> None, deleted |-> FALSE, revision |-> 0]
NoDoc   == [parent |-> None, deleted |-> FALSE, revision |-> 0]

Stored(row) == row.revision > 0
Active(row) == Stored(row) /\ ~ row.deleted

\* The rows an identity stands for: at most one, tombstones included.
Named(i) == {f \in Facets : Stored(facet[f]) /\ facet[f].identity = i}

ActiveNamed(i) == {f \in Named(i) : Active(facet[f])}

ActiveDocs(f) == {d \in Docs : Active(doc[d]) /\ doc[d].parent = f}

\* at: the next step; op: the operation; row: the facet or document, as it was
\* read; path: the facet identity in the path; identity, deleted: to be written.
Idle == [at |-> "idle", op |-> "none", row |-> None, revision |-> 0, path |-> None,
         identity |-> None, deleted |-> FALSE]

At(r)         == request[r].at
Becomes(r, f) == request' = [request EXCEPT ![r] = f]
Goto(r, step) == Becomes(r, [request[r] EXCEPT !.at = step])
Done(r)       == Becomes(r, Idle)

\* 404, 409, 412, or an error.
Refused(r) == At(r) # "idle" /\ Done(r) /\ UNCHANGED rows

-----------------------------------------------------------------------------
(* Facets: what is read before the transaction.                            *)

\* InsertFacet; a second facet of that identity, a tombstone too, is a conflict.
Create(r, f, i) ==
    /\ At(r) = "idle"
    /\ ~ Stored(facet[f]) /\ Named(i) = {}
    /\ facet' = [facet EXCEPT ![f] = [identity |-> i, deleted |-> FALSE, revision |-> 1]]
    /\ facetPast' = [facetPast EXCEPT ![f] = {[identity |-> i, deleted |-> FALSE]}]
    /\ UNCHANGED <<doc, docPast, request>>

\* The facet is read and the row to be written is made of it.
Plan(r, f, step, i, deleted) ==
    /\ At(r) = "idle" /\ Stored(facet[f])
    /\ Becomes(r, [Idle EXCEPT !.at = step, !.row = f, !.revision = facet[f].revision,
                     !.path = facet[f].identity, !.identity = i, !.deleted = deleted])
    /\ UNCHANGED rows

Patch(r, f) == \E i \in Identities :
    Plan(r, f, IF i = facet[f].identity THEN "update" ELSE "count", i, facet[f].deleted)

Delete(r, f)  == ~ facet[f].deleted /\ Plan(r, f, "count", facet[f].identity, TRUE)

Restore(r, f) == facet[f].deleted /\ Plan(r, f, "update", facet[f].identity, FALSE)

RestoreRevision(r, f) == Plan(r, f, "revision", facet[f].identity, facet[f].deleted)

\* The facet is looked up a second time by the identity, for its revisions: they
\* may be those of another facet than the one that will be written.
GetFacetRevision(r) == \E f \in Named(request[r].path) : \E past \in facetPast[f] :
    /\ At(r) = "revision"
    /\ Becomes(r, [request[r] EXCEPT !.at = "update", !.identity = past.identity,
                     !.deleted = past.deleted])
    /\ UNCHANGED rows

\* CountActiveFacetDocuments, by identity.
Count(r) ==
    /\ At(r) = "count"
    /\ \A f \in Named(request[r].path) : ActiveDocs(f) = {}
    /\ Goto(r, "update")
    /\ UNCHANGED rows

\* mutant: the documents counted before the transaction are good enough
CountedBefore(r) == TRUE

\* Counted again under the lock, when the facet is renamed or deleted.
StillEmpty(r) ==
    LET f == request[r].row
    IN  \/ request[r].identity = facet[f].identity
           /\ (request[r].deleted => facet[f].deleted)
        \/ ActiveDocs(f) = {}

UpdateFacet(r) ==
    LET f == request[r].row
        next == [identity |-> request[r].identity, deleted |-> request[r].deleted]
    IN  /\ At(r) = "update"
        /\ facet[f].revision = request[r].revision /\ facet[f].revision < MaxRevision
        /\ StillEmpty(r)
        /\ Named(next.identity) \subseteq {f}
        /\ facet' = [facet EXCEPT ![f] = [identity |-> next.identity, deleted |-> next.deleted,
                                          revision |-> @.revision + 1]]
        /\ facetPast' = [facetPast EXCEPT ![f] = @ \cup {next}]
        /\ Done(r)
        /\ UNCHANGED <<doc, docPast>>

\* One transaction, without a read before it: the facets that change their
\* position get a new revision.
Reorder(r) == \E moved \in SUBSET {f \in Facets : Active(facet[f])} :
    /\ At(r) = "idle" /\ moved # {}
    /\ \A f \in moved : facet[f].revision < MaxRevision
    /\ facet' = [f \in Facets |-> IF f \in moved
                                  THEN [facet[f] EXCEPT !.revision = @ + 1] ELSE facet[f]]
    /\ UNCHANGED <<doc, facetPast, docPast, request>>

-----------------------------------------------------------------------------
(* Documents: the facet in the path is read, then the document, and only   *)
(* then the transaction begins.                                            *)

CreateDocument(r, d, i) ==
    /\ At(r) = "idle" /\ ~ Stored(doc[d])
    /\ ActiveNamed(i) # {}
    /\ Becomes(r, [Idle EXCEPT !.at = "insert", !.row = d, !.path = i])
    /\ UNCHANGED rows

\* PatchDocument, RestoreDocument and RestoreDocumentRevision want an active
\* facet, DeleteDocument does not look.
Begin(r, i, op) ==
    /\ At(r) = "idle"
    /\ op # "delete" => ActiveNamed(i) # {}
    /\ Becomes(r, [Idle EXCEPT !.at = "find", !.op = op, !.path = i])
    /\ UNCHANGED rows

\* Which documents an operation goes on with, and the mark each is to get; a
\* restored revision brings its own.
Marks(op, d) ==
    CASE op \in {"patch", "revision"} -> {doc[d].deleted}
      [] op = "delete"  -> IF doc[d].deleted THEN {} ELSE {TRUE}
      [] op = "restore" -> IF doc[d].deleted THEN {FALSE} ELSE {}

GetFacetDocument(r, d) ==
    /\ At(r) = "find"
    /\ Stored(doc[d]) /\ doc[d].parent \in Named(request[r].path)
    /\ \E mark \in Marks(request[r].op, d) :
          Becomes(r, [request[r] EXCEPT
                        !.at = IF request[r].op = "revision" THEN "recall" ELSE "store",
                        !.row = d, !.revision = doc[d].revision, !.deleted = mark])
    /\ UNCHANGED rows

\* Again a second look-up by identities, which another document may have now.
GetFacetDocumentRevision(r, d) ==
    /\ At(r) = "recall"
    /\ Stored(doc[d]) /\ doc[d].parent \in Named(request[r].path)
    /\ \E mark \in docPast[d] :
          Becomes(r, [request[r] EXCEPT !.at = "store", !.deleted = mark])
    /\ UNCHANGED rows

\* Under the lock: a tombstone may have a parent that is one, too.
Parents(r) ==
    IF request[r].deleted THEN Named(request[r].path) ELSE ActiveNamed(request[r].path)

InsertFacetDocument(r) == \E f \in Parents(r) :
    LET d == request[r].row
    IN  /\ At(r) = "insert" /\ ~ Stored(doc[d])
        /\ doc' = [doc EXCEPT ![d] = [parent |-> f, deleted |-> FALSE, revision |-> 1]]
        /\ docPast' = [docPast EXCEPT ![d] = {FALSE}]
        /\ Done(r)
        /\ UNCHANGED <<facet, facetPast>>

\* mutant: the revision is compared before the transaction only
NotCompared(r) == doc[request[r].row].revision < MaxDocRevision

SameRevision(r) ==
    LET now == doc[request[r].row].revision
    IN  now = request[r].revision /\ now < MaxDocRevision

UpdateFacetDocument(r) == \E f \in Parents(r) :
    LET d == request[r].row
    IN  /\ At(r) = "store" /\ SameRevision(r)
        /\ doc' = [doc EXCEPT ![d] = [parent |-> f, deleted |-> request[r].deleted,
                                      revision |-> @.revision + 1]]
        /\ docPast' = [docPast EXCEPT ![d] = @ \cup {request[r].deleted}]
        /\ Done(r)
        /\ UNCHANGED <<facet, facetPast>>

-----------------------------------------------------------------------------
Operations == {"patch", "delete", "restore", "revision"}

FacetStep(r) ==
    \/ \E f \in Facets, i \in Identities : Create(r, f, i)
    \/ \E f \in Facets : Patch(r, f) \/ Delete(r, f) \/ Restore(r, f) \/ RestoreRevision(r, f)
    \/ GetFacetRevision(r) \/ Count(r) \/ UpdateFacet(r) \/ Reorder(r)

DocumentStep(r) ==
    \/ \E d \in Docs, i \in Identities : CreateDocument(r, d, i)
    \/ \E i \in Identities, op \in Operations : Begin(r, i, op)
    \/ \E d \in Docs : GetFacetDocument(r, d) \/ GetFacetDocumentRevision(r, d)
    \/ InsertFacetDocument(r) \/ UpdateFacetDocument(r)

Init ==
    /\ facet = [f \in Facets |-> NoFacet]
    /\ doc = [d \in Docs |-> NoDoc]
    /\ facetPast = [f \in Facets |-> {}]
    /\ docPast = [d \in Docs |-> {}]
    /\ request = [r \in Requests |-> Idle]

Next == \E r \in Requests : FacetStep(r) \/ DocumentStep(r) \/ Refused(r)

Spec == Init /\ [][Next]_vars

-----------------------------------------------------------------------------
(* Properties.                                                             *)

Snapshots == [identity : Identities, deleted : BOOLEAN]

RequestRecords ==
    [at : {"idle", "revision", "count", "update", "find", "recall", "insert", "store"},
     op : Operations \cup {"none"}, row : Facets \cup Docs \cup {None},
     revision : Nat, path : Identities \cup {None}, identity : Identities \cup {None},
     deleted : BOOLEAN]

\* Every variable has its type.
TypeOK ==
    /\ facet \in [Facets -> [identity : Identities \cup {None}, deleted : BOOLEAN, revision : Nat]]
    /\ doc \in [Docs -> [parent : Facets \cup {None}, deleted : BOOLEAN, revision : Nat]]
    /\ facetPast \in [Facets -> SUBSET Snapshots]
    /\ docPast \in [Docs -> SUBSET BOOLEAN]
    /\ request \in [Requests -> RequestRecords]

\* No active document is left in a facet that is deleted, whatever facets and
\* documents are deleted, renamed and restored between the checks of a request
\* and its transaction.
NoOrphans == \A d \in Docs : Active(doc[d]) =>
    doc[d].parent \in Facets /\ Active(facet[doc[d].parent])

\* As long as a document is active it stays in its facet, and the identity it is
\* addressed by does not change: neither a rename nor a write that finds the
\* parent again by an identity that has changed hands moves it.
DocumentsStayPut ==
    [][\A d \in Docs : Active(doc[d]) /\ Active(doc'[d]) =>
          /\ doc'[d].parent = doc[d].parent
          /\ facet'[doc[d].parent].identity = facet[doc[d].parent].identity]_vars
==============================================================================
