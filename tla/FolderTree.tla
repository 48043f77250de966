----------------------------- MODULE FolderTree -----------------------------
(***************************************************************************)
(* The folders of one projection of a workspace (one scope and entity      *)
(* type) as documents.Lifecycle keeps them: created, moved with Patch,     *)
(* deleted and restored by concurrent requests.                            *)
(*                                                                         *)
(* The row is read, the parent is resolved and the cycle is looked for in  *)
(* statements of their own, before the transaction.  The transaction is    *)
(* one step: its row locks keep it whole, and it compares the revision of  *)
(* the one row it was asked to change.                                     *)
(***************************************************************************)
EXTENDS Integers, FiniteSets

CONSTANTS
    Folders,
    Root,           \* the system folder
    Requests,
    Nothing,
    MaxRevision     \* bound of the model

VARIABLES
    parent,         \* folders.parent_id
    state,          \* "absent", "live" or "deleted" (deleted_at)
    revision,       \* folders.revision
    request         \* what every request has read

vars == <<parent, state, revision, request>>

Places == Folders \cup {Root}

Idle == [step |-> "idle", op |-> "none", folder |-> Nothing, parent |-> Nothing, revision |-> 0]

-----------------------------------------------------------------------------
\* ResolveFolder: the root is always there, a deleted folder is not found.
Resolves(p) == p \in {Root} \cup {f \in Folders : state[f] = "live"}

\* The parent chain of f, f included; folders that are deleted are followed too.
Ancestors(f) ==
    LET up[n \in 0 .. Cardinality(Folders)] ==
            IF n = 0 THEN {f}
            ELSE up[n - 1] \cup {parent[g] : g \in up[n - 1] \cap Folders}
    IN  up[Cardinality(Folders)]

FolderWouldCycle(f, p) == f \in Ancestors(p)

Children(f) == {g \in Folders : state[g] = "live" /\ parent[g] = f}

\* The request w reads the row of f; a patch keeps the parent or names another,
\* a restored folder goes below the root.
Read(w, op, f, p) ==
    /\ request[w].step = "idle"
    /\ revision[f] < MaxRevision
    /\ \/ op = "create"  /\ state[f] = "absent"
       \/ op = "patch"   /\ state[f] # "absent" /\ p # f
       \/ op = "delete"  /\ state[f] = "live"    /\ p = parent[f]
       \/ op = "restore" /\ state[f] = "deleted" /\ p = Root
    /\ request' = [request EXCEPT ![w] =
                      [step |-> "read", op |-> op, folder |-> f, parent |-> p,
                       revision |-> revision[f]]]
    /\ UNCHANGED <<parent, state, revision>>

Resolve(w) ==
    LET q == request[w] IN
    /\ q.step = "read" /\ Resolves(q.parent)
    /\ request' = [request EXCEPT ![w].step = IF q.op = "patch" THEN "resolved" ELSE "ready"]
    /\ UNCHANGED <<parent, state, revision>>

LookForCycle(w) ==
    LET q == request[w] IN
    /\ q.step = "resolved" /\ ~FolderWouldCycle(q.folder, q.parent)
    /\ request' = [request EXCEPT ![w].step = "ready"]
    /\ UNCHANGED <<parent, state, revision>>

\* Not found, a cycle, or the request is given up.
Fail(w) ==
    /\ request[w].step # "idle"
    /\ request' = [request EXCEPT ![w] = Idle]
    /\ UNCHANGED <<parent, state, revision>>

Ready(w, op) == request[w].step = "ready" /\ request[w].op = op

Insert(w) ==
    LET q == request[w] IN
    /\ Ready(w, "create") /\ state[q.folder] = "absent"
    /\ state' = [state EXCEPT ![q.folder] = "live"]
    /\ parent' = [parent EXCEPT ![q.folder] = q.parent]
    /\ revision' = [revision EXCEPT ![q.folder] = 1]
    /\ request' = [request EXCEPT ![w] = Idle]

\* Patch and Restore update the one row.
Update(w) ==
    LET q == request[w] IN
    /\ Ready(w, "patch") \/ Ready(w, "restore")
    /\ revision[q.folder] = q.revision
    /\ parent' = [parent EXCEPT ![q.folder] = q.parent]
    /\ revision' = [revision EXCEPT ![q.folder] = @ + 1]
    /\ state' = [state EXCEPT ![q.folder] = IF q.op = "restore" THEN "live" ELSE @]
    /\ request' = [request EXCEPT ![w] = Idle]

\* Delete moves the live content up to the parent that was resolved.
Delete(w) ==
    LET q == request[w] IN
    /\ Ready(w, "delete") /\ revision[q.folder] = q.revision
    /\ parent' = [g \in Folders |-> IF g \in Children(q.folder) THEN q.parent ELSE parent[g]]
    /\ revision' = [g \in Folders |->
                       IF g \in Children(q.folder) \cup {q.folder} THEN revision[g] + 1
                       ELSE revision[g]]
    /\ state' = [state EXCEPT ![q.folder] = "deleted"]
    /\ request' = [request EXCEPT ![w] = Idle]

Init ==
    /\ parent = [f \in Folders |-> Root]
    /\ state = [f \in Folders |-> "absent"]
    /\ revision = [f \in Folders |-> 0]
    /\ request = [w \in Requests |-> Idle]

Next == \E w \in Requests :
    \/ \E f \in Folders, p \in Places : \E op \in {"create", "patch", "delete", "restore"} :
          Read(w, op, f, p)
    \/ Resolve(w) \/ LookForCycle(w) \/ Fail(w)
    \/ Insert(w) \/ Update(w) \/ Delete(w)

Spec == Init /\ [][Next]_vars

-----------------------------------------------------------------------------
\* "docs/Карта доменных связей.md":49: cycles of folders are forbidden.  Every
\* live folder is below the root.
NoFolderCycle == \A f \in Folders : state[f] = "live" => Root \in Ancestors(f)
=============================================================================
