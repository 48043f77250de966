------------------------- MODULE VersionedWorkspace -------------------------
(***************************************************************************)
(* What the history of a workspace promises, without rows, revisions,      *)
(* locks or open transactions: a store whose content changes as a whole.   *)
(* Every change gives the workspace a greater head, and a commit saves the *)
(* content the workspace had at one head, once and for ever.               *)
(*                                                                         *)
(* A commit that squashes is exact only at the head: made at an earlier    *)
(* one, it may hold a row as it was before, if the row changed afterwards. *)
(***************************************************************************)
EXTENDS Naturals

CONSTANTS
    Rows, Bodies,
    Squashes        \* whether commits may squash

VARIABLES
    content,        \* what the rows hold
    now,            \* the head
    published,      \* the content at every head so far
    saved           \* the commits: a head and the content at that head

vars == <<content, now, published, saved>>

\* The content changes, and the change is published under a greater head.
Change ==
    /\ now' \in Nat /\ now' > now
    /\ content' \in [Rows -> Bodies]
    /\ published' = published \cup {[head |-> now', bodies |-> content']}

\* A transaction of documents or of the workspace row.
Edit == Change /\ UNCHANGED saved

\* A restore or an import: the new content is saved with its head.
Replace == Change /\ saved' = saved \cup {[head |-> now', version |-> content']}

Exact(p, version) == version = p.bodies

\* Every row as it was when p was published, or before.
UpTo(p, version) ==
    \A d \in Rows : \E q \in published : q.head <= p.head /\ version[d] = q.bodies[d]

\* commits.Create and CreateFromBuild.  The first conjunct follows from the
\* others; it spares a checker the search for p in steps that save nothing.
Save ==
    /\ saved' # saved
    /\ \E p \in published, version \in [Rows -> Bodies] :
          /\ \A k \in saved : k.head # p.head
          /\ saved' = saved \cup {[head |-> p.head, version |-> version]}
          /\ Exact(p, version) \/ (Squashes /\ p.head < now /\ UpTo(p, version))
    /\ UNCHANGED <<content, now, published>>

Init ==
    /\ content \in [Rows -> Bodies]
    /\ now = 1
    /\ published = {[head |-> now, bodies |-> content]}
    /\ saved = {[head |-> now, version |-> content]}

Next == Edit \/ Replace \/ Save

Spec == Init /\ [][Next]_vars
=============================================================================
