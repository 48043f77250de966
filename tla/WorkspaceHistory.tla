-------------------------- MODULE WorkspaceHistory --------------------------
(***************************************************************************)
(* One workspace of the service: the live rows of its documents, the       *)
(* revision history the history.Recorder appends for every change, and the *)
(* commits that freeze ranges of that history.  Three kinds of request     *)
(* interleave on it, each on a PostgreSQL connection of its own at READ    *)
(* COMMITTED:                                                              *)
(*                                                                         *)
(*   - editors     : documents.Lifecycle (Create, Patch, Delete, Restore,  *)
(*                   MoveDocuments) and workspaces.Patch;                  *)
(*   - admins      : workspace_state.Coordinator (RestoreCommit, Import);  *)
(*   - committers  : commits.Create and releases.CreateFromBuild.          *)
(*                                                                         *)
(* A row is [rev, body]: revision 0 is a row that was never inserted, and  *)
(* the body Gone stands for "not inserted or soft-deleted".  The workspace *)
(* row is a row like the others (it has a revision and a recorded history) *)
(* whose lock also guards the counter head_sequence.                       *)
(***************************************************************************)
EXTENDS Naturals, FiniteSets

CONSTANTS
    Documents,      \* documents of the workspace
    Workspace,      \* the workspaces row
    Values,         \* contents a live row can have
    Gone,           \* the content of a row that is absent or soft-deleted
    Untouched,      \* "this transaction does not write that row"
    Editors, Admins, Committers,
    Nobody,         \* no lock holder
    Policies,       \* the revisionPolicy values requests use
    MaxSequence     \* bound on head_sequence

Rows    == Documents \cup {Workspace}
Bodies  == Values \cup {Gone}
Writers == Editors \cup Admins

ASSUME ConstantsAssumption ==
    /\ Workspace \notin Documents
    /\ Gone \notin Values
    /\ Untouched \notin Bodies
    /\ Editors \cap Admins = {}
    /\ Nobody \notin Writers
    /\ Values # {}
    /\ Policies \subseteq {"preserve", "squash"}
    /\ MaxSequence \in Nat

VARIABLES
    rows,           \* committed live rows: [Rows -> [rev, body]]
    head,           \* committed workspaces.head_sequence
    revisions,      \* committed document_revisions
    commits,        \* workspace_commits, identified by their head_sequence
    locks,          \* row locks: the open transaction that wrote or locked a row
    stage,          \* writer: "idle", "planned" (admin with a plan), "open"
    seen,           \* writer: the revision each row had when it was read
    want,           \* writer: the body each row is to get, or Untouched
    bumps,          \* writer: how often this transaction updated each row
    drawn,          \* writer: sequence numbers drawn in this transaction
    fresh,          \* writer: revisions inserted in this transaction
    plan,           \* admin: [op, expect, target]
    request,        \* committer: [step, head, base, pending]
    past            \* observer: the bodies the workspace had at each head

txVars   == <<stage, seen, want, bumps, drawn, fresh>>
liveVars == <<rows, head, past>>
vars     == <<rows, head, revisions, commits, locks, stage, seen, want, bumps,
              drawn, fresh, plan, request, past>>

-----------------------------------------------------------------------------
(* Reading the history.                                                    *)

BodiesOf(rs)  == [d \in Rows |-> rs[d].body]
LatestHead    == CHOOSE h \in {c.head : c \in commits} :
                     \A c \in commits : c.head <= h

\* mutant: without "committed_in_commit_id IS NULL"
AfterBase(revs, base) == {r \in revs : r.seq > base}

\* PendingRevisions: uncommitted revisions after the base.
Pending(revs, base) == {r \in revs : r.seq > base /\ r.commit = 0}

\* mutant: the oldest revision of the row
FirstOf(revs, d) == CHOOSE r \in revs :
                        r.doc = d /\ \A q \in revs : q.doc = d => r.seq <= q.seq

LastOf(revs, d)  == CHOOSE r \in revs :
                        r.doc = d /\ \A q \in revs : q.doc = d => q.seq <= r.seq

\* mutant: a squash that keeps the first revision of every row
FirstPerRow(revs) == {FirstOf(revs, r.doc) : r \in revs}

LastPerRow(revs) == {LastOf(revs, r.doc) : r \in revs}

\* ExportWorkspace at a head: the last snapshot of every row up to it.
Export(revs, n) ==
    LET known == {r \in revs : r.seq <= n}
    IN  [d \in Rows |-> IF \E r \in known : r.doc = d
                        THEN LastOf(known, d).body ELSE Gone]

Id(r) == <<r.seq, r.squashed>>

-----------------------------------------------------------------------------
(* Transactions of editors and admins.                                     *)

Free(w, d) == locks[d] \in {Nobody, w}
Lock(w, d) == locks' = [locks EXCEPT ![d] = w]

Idle(w) ==
    /\ stage' = [stage EXCEPT ![w] = "idle"]
    /\ seen'  = [seen  EXCEPT ![w] = [d \in Rows |-> 0]]
    /\ want'  = [want  EXCEPT ![w] = [d \in Rows |-> Untouched]]
    /\ bumps' = [bumps EXCEPT ![w] = [d \in Rows |-> 0]]
    /\ drawn' = [drawn EXCEPT ![w] = 0]
    /\ fresh' = [fresh EXCEPT ![w] = {}]
    /\ plan'  = [plan  EXCEPT ![w] = <<>>]
    /\ locks' = [d \in Rows |-> IF locks[d] = w THEN Nobody ELSE locks[d]]

\* The rows a request writes: one document, several documents (a move keeps
\* every one of them live), or the workspace row, which is never deleted.  What
\* a soft-deleted document holds may change while it remains deleted.
Writes(f) ==
    LET D == DOMAIN f
    IN  /\ D # {}
        /\ \A d \in D : f[d] # rows[d].body \/ (f[d] = Gone /\ rows[d].rev > 0)
        /\ Workspace \in D => D = {Workspace} /\ f[Workspace] # Gone
        /\ Cardinality(D) > 1 => \A d \in D : f[d] # Gone /\ rows[d].body # Gone

\* The part of a request before its transaction: read the rows, compare them
\* with the expected revisions, return early when nothing would change.
Load(e, f) ==
    /\ stage[e] = "idle"
    /\ Writes(f)
    /\ stage' = [stage EXCEPT ![e] = "open"]
    /\ seen'  = [seen EXCEPT ![e] = [d \in Rows |->
                    IF d \in DOMAIN f THEN rows[d].rev ELSE 0]]
    /\ want'  = [want EXCEPT ![e] = [d \in Rows |->
                    IF d \in DOMAIN f THEN f[d] ELSE Untouched]]
    /\ UNCHANGED <<liveVars, revisions, commits, locks, bumps, drawn, fresh,
                   plan, request>>

\* mutant: UPDATE without the expected revision
AnyRevision(w, d) == TRUE

\* UPDATE ... WHERE revision = expected.
RevisionMatches(w, d) == rows[d].rev = seen[w][d]

UpdateRow(w, d) ==
    /\ stage[w] = "open"
    /\ want[w][d] # Untouched
    /\ bumps[w][d] = 0
    /\ Free(w, d)
    /\ RevisionMatches(w, d)
    /\ bumps' = [bumps EXCEPT ![w][d] = 1]
    /\ Lock(w, d)
    /\ UNCHANGED <<liveVars, revisions, commits, stage, seen, want, drawn,
                   fresh, plan, request>>

\* MoveFolderContents and ClearStartupComposition: the delete of a live document
\* also updates rows it did not read before, in place and without an expected
\* revision: another folder, or no startup composition, is other content.
Cascade(e, d) ==
    /\ stage[e] = "open"
    /\ \E x \in Documents : want[e][x] = Gone /\ rows[x].body # Gone
    /\ want[e][d] = Untouched
    /\ Free(e, d)
    /\ rows[d].body # Gone
    /\ \E body \in Values : want' = [want EXCEPT ![e][d] = body]
    /\ seen'  = [seen  EXCEPT ![e][d] = rows[d].rev]
    /\ bumps' = [bumps EXCEPT ![e][d] = 1]
    /\ Lock(e, d)
    /\ UNCHANGED <<liveVars, revisions, commits, stage, drawn, fresh, plan, request>>

Recorded(w, d) ==
    \E r \in fresh[w] : r.doc = d /\ r.num = rows[d].rev + bumps[w][d]

\* A restore or an import writes some rows twice: the workspace row (content,
\* then startup composition) and facets (content, then position).
Rewrite(a, d) ==
    /\ stage[a] = "open"
    /\ bumps[a][d] = 1
    /\ Recorded(a, d)
    /\ bumps' = [bumps EXCEPT ![a][d] = 2]
    /\ UNCHANGED <<liveVars, revisions, commits, locks, stage, seen, want, drawn,
                   fresh, plan, request>>

\* NextWorkspaceSequence updates the workspace row, so it waits for its lock.
SequenceFree(w) == Free(w, Workspace)
NextSequence(w) == head + drawn[w] + 1

\* RecordDocument / RecordWorkspace after the update of a row.
Record(w, d) ==
    /\ stage[w] = "open"
    /\ bumps[w][d] > 0
    /\ ~ Recorded(w, d)
    /\ SequenceFree(w)
    /\ NextSequence(w) <= MaxSequence
    /\ drawn' = [drawn EXCEPT ![w] = @ + 1]
    /\ fresh' = [fresh EXCEPT ![w] = @ \cup
            {[doc |-> d, num |-> rows[d].rev + bumps[w][d], seq |-> NextSequence(w),
              basis |-> seen[w][d] + bumps[w][d] - 1, body |-> want[w][d],
              squashed |-> FALSE, commit |-> 0]}]
    /\ Lock(w, Workspace)
    /\ UNCHANGED <<liveVars, revisions, commits, stage, seen, want, bumps, plan,
                   request>>

\* mutant: a path that updates a row and forgets to record it
Updated(w) == \A d \in Rows : want[w][d] # Untouched => bumps[w][d] > 0

Complete(w) ==
    \A d \in Rows : want[w][d] # Untouched => bumps[w][d] > 0 /\ Recorded(w, d)

\* mutant: rows the transaction did not update are overwritten as well
PublishAll(w) ==
    /\ rows' = [d \in Rows |-> [rev |-> rows[d].rev + bumps[w][d], body |-> want[w][d]]]
    /\ head' = head + drawn[w]
    /\ past' = past \cup {[head |-> head', bodies |-> BodiesOf(rows')]}

\* mutant: an UPDATE that leaves the row's revision as it was
PublishSameRevision(w) ==
    /\ rows' = [d \in Rows |->
                   IF bumps[w][d] > 0 THEN [rows[d] EXCEPT !.body = want[w][d]] ELSE rows[d]]
    /\ head' = head + drawn[w]
    /\ past' = past \cup {[head |-> head', bodies |-> BodiesOf(rows')]}

\* COMMIT makes the transaction's row versions visible.
Publish(w) ==
    /\ rows' = [d \in Rows |->
                   IF bumps[w][d] > 0
                   THEN [rev |-> rows[d].rev + bumps[w][d], body |-> want[w][d]]
                   ELSE rows[d]]
    /\ head' = head + drawn[w]
    /\ past' = past \cup {[head |-> head', bodies |-> BodiesOf(rows')]}

CommitEdit(e) ==
    /\ stage[e] = "open"
    /\ Complete(e)
    /\ Publish(e)
    /\ revisions' = revisions \cup fresh[e]
    /\ Idle(e)
    /\ UNCHANGED <<commits, request>>

\* Any error rolls the transaction back: a revision conflict, a lost
\* connection, a cancelled request, the victim of a PostgreSQL deadlock.
Abort(w) ==
    /\ stage[w] # "idle"
    /\ Idle(w)
    /\ UNCHANGED <<liveVars, revisions, commits, request>>

-----------------------------------------------------------------------------
(* Restore and import.                                                     *)

NewPlan(a, op, target) ==
    /\ stage[a] = "idle"
    /\ stage' = [stage EXCEPT ![a] = "planned"]
    /\ plan'  = [plan EXCEPT ![a] = [op |-> op, expect |-> head, target |-> target]]
    /\ UNCHANGED <<liveVars, revisions, commits, locks, seen, want, bumps, drawn,
                   fresh, request>>

\* PlanCommitRestore, then RestoreCommit up to its transaction.
PlanRestore(a) == \E c \in commits : NewPlan(a, "restore", Export(revisions, c.head))

\* PlanImport: the bundle comes from elsewhere.
PlanImport(a) ==
    \E f \in [Rows -> Bodies] : f[Workspace] # Gone /\ NewPlan(a, "import", f)

\* LockWorkspaceSnapshot waits for every writer that drew a sequence number.
SnapshotLockFree(a) == Free(a, Workspace)

\* mutant: live rows that the target lacks are left alone
WriteOnlyTargets(a, d) ==
    plan[a].target[d] # Gone /\ (plan[a].op = "restore" => plan[a].target[d] # rows[d].body)

\* The rows a restore rewrites: those whose live content is not the target's.
\* An import writes the workspace row and every document of the bundle
\* unconditionally, and deletes the live documents the bundle lacks.
MustWrite(a, d) ==
    IF plan[a].op = "restore"
    THEN plan[a].target[d] # rows[d].body
    ELSE plan[a].target[d] # Gone \/ rows[d].body # Gone

BeginAdmin(a) ==
    /\ stage[a] = "planned"
    /\ SnapshotLockFree(a)
    /\ plan[a].expect = head
    /\ plan[a].op = "import" => LatestHead = head
    /\ stage' = [stage EXCEPT ![a] = "open"]
    /\ seen'  = [seen EXCEPT ![a] = [d \in Rows |->
                    IF MustWrite(a, d) THEN rows[d].rev ELSE 0]]
    /\ want'  = [want EXCEPT ![a] = [d \in Rows |->
                    IF MustWrite(a, d) THEN plan[a].target[d] ELSE Untouched]]
    /\ Lock(a, Workspace)
    /\ UNCHANGED <<liveVars, revisions, commits, bumps, drawn, fresh, plan, request>>

\* mutant: a restore commits only what it wrote itself
AdoptOwn(a) == fresh[a]

\* A restore commits every pending revision, an import only its own.
Adopted(a) ==
    IF plan[a].op = "restore"
    THEN Pending(revisions \cup fresh[a], LatestHead)
    ELSE fresh[a]

Committed(r, h) == [r EXCEPT !.commit = h]

Attach(revs, ids, h) ==
    {IF Id(r) \in ids THEN Committed(r, h) ELSE r : r \in revs}

NewCommit(h, base, target) ==
    [head |-> h, base |-> base, version |-> Export(revisions', h), target |-> target]

\* The end of restoreBundle and of Import.
FinishAdmin(a) ==
    /\ stage[a] = "open"
    /\ Complete(a)
    /\ Adopted(a) # {}          \* otherwise nothing_to_restore
    /\ Publish(a)
    /\ revisions' = Attach(revisions \cup fresh[a], {Id(r) : r \in Adopted(a)}, head')
    /\ commits' = commits \cup {NewCommit(head', LatestHead, plan[a].target)}
    /\ Idle(a)
    /\ UNCHANGED request

-----------------------------------------------------------------------------
(* commits.Create and releases.CreateFromBuild.                            *)

NoRequest == [step |-> "idle", head |-> 0, base |-> 0, pending |-> {}]

Answer(c) == request' = [request EXCEPT ![c] = NoRequest]

\* The middleware loads the workspace into the request (Authorize).  The
\* client's expectedHeadSequence is compared with that copy, so a request
\* that goes on has expected = the head read here.
LoadScope(c) ==
    /\ request[c].step = "idle"
    /\ request' = [request EXCEPT ![c] =
                      [step |-> "scoped", head |-> head, base |-> 0, pending |-> {}]]
    /\ UNCHANGED <<liveVars, revisions, commits, locks, txVars, plan>>

ReadLatest(c) ==
    /\ request[c].step = "scoped"
    /\ request' = [request EXCEPT ![c].step = "based", ![c].base = LatestHead]
    /\ UNCHANGED <<liveVars, revisions, commits, locks, txVars, plan>>

ReadPending(c) ==
    LET found == {Id(r) : r \in Pending(revisions, request[c].base)}
    IN  /\ request[c].step = "based"
        /\ IF found = {}
           THEN Answer(c)       \* nothing_to_commit
           ELSE request' = [request EXCEPT ![c].step = "ready", ![c].pending = found]
        /\ UNCHANGED <<liveVars, revisions, commits, locks, txVars, plan>>

\* mutant: the commit is created at the head as it is now
LiveHead(c) == head

\* The head a commit is created with: the one of the request's scope.
CommitHead(c) == request[c].head

\* INSERT INTO workspace_commits takes a KEY SHARE lock on the workspace row,
\* which only a FOR UPDATE lock (restore, import) blocks, and (workspace,
\* head_sequence) is unique.
MayInsertCommit(h) ==
    /\ locks[Workspace] \notin Admins
    /\ \A k \in commits : k.head # h

\* Policy preserve attaches the revisions read before the transaction; the
\* foreign keys of commit_changes require them to exist still.
CommitPreserve(c) ==
    /\ request[c].step = "ready"
    /\ MayInsertCommit(CommitHead(c))
    /\ request[c].pending \subseteq {Id(r) : r \in revisions}
    /\ revisions' = Attach(revisions, request[c].pending, CommitHead(c))
    /\ commits' = commits \cup
          {NewCommit(CommitHead(c), request[c].base, Export(revisions', CommitHead(c)))}
    /\ Answer(c)
    /\ UNCHANGED <<liveVars, locks, txVars, plan>>

Squashed(r) == [r EXCEPT !.squashed = TRUE]

\* SquashPending reads the pending revisions again, replaces those of each row
\* by their last one, and fails while a revision that is being inserted names
\* one of them as its parent.
CommitSquash(c) ==
    LET old  == Pending(revisions, request[c].base)
        kept == {Committed(Squashed(r), CommitHead(c)) : r \in LastPerRow(old)}
    IN  /\ request[c].step = "ready"
        /\ MayInsertCommit(CommitHead(c))
        /\ \A w \in Writers : \A r \in fresh[w] : \A q \in old : r.doc # q.doc
        /\ revisions' = (revisions \ old) \cup kept
        /\ commits' = commits \cup
              {NewCommit(CommitHead(c), request[c].base, Export(revisions', CommitHead(c)))}
        /\ Answer(c)
        /\ UNCHANGED <<liveVars, locks, txVars, plan>>

CommitRequest(c) ==
    \/ "preserve" \in Policies /\ CommitPreserve(c)
    \/ "squash" \in Policies /\ CommitSquash(c)

\* CreateFromBuild locks the workspace, reads it again and only then commits:
\* its statements exclude every other writer and committer.
BuildCommit(c) ==
    LET mine == Pending(revisions, LatestHead)
    IN  /\ request[c].step = "idle"
        /\ locks[Workspace] = Nobody
        /\ LatestHead # head
        /\ mine # {}
        /\ revisions' = Attach(revisions, {Id(r) : r \in mine}, head)
        /\ commits' = commits \cup {NewCommit(head, LatestHead, Export(revisions', head))}
        /\ UNCHANGED <<liveVars, locks, txVars, plan, request>>

\* A request can fail at any point before its transaction commits.
Fail(c) ==
    /\ request[c].step # "idle"
    /\ Answer(c)
    /\ UNCHANGED <<liveVars, revisions, commits, locks, txVars, plan>>

-----------------------------------------------------------------------------
\* workspaces.Create commits the bootstrap revisions of the workspace.
Init ==
    \E v \in Values :
        LET first == [doc |-> Workspace, num |-> 1, seq |-> 1, basis |-> 0,
                      body |-> v, squashed |-> FALSE, commit |-> 1]
            initial == [d \in Rows |-> IF d = Workspace THEN v ELSE Gone]
        IN  /\ rows = [d \in Rows |->
                          [rev |-> IF d = Workspace THEN 1 ELSE 0, body |-> initial[d]]]
            /\ head = 1
            /\ revisions = {first}
            /\ commits = {[head |-> 1, base |-> 0, version |-> initial, target |-> initial]}
            /\ locks = [d \in Rows |-> Nobody]
            /\ stage = [w \in Writers |-> "idle"]
            /\ seen  = [w \in Writers |-> [d \in Rows |-> 0]]
            /\ want  = [w \in Writers |-> [d \in Rows |-> Untouched]]
            /\ bumps = [w \in Writers |-> [d \in Rows |-> 0]]
            /\ drawn = [w \in Writers |-> 0]
            /\ fresh = [w \in Writers |-> {}]
            /\ plan  = [w \in Writers |-> <<>>]
            /\ request = [c \in Committers |-> NoRequest]
            /\ past = {[head |-> 1, bodies |-> initial]}

EditorStep(e) ==
    \/ \E D \in SUBSET Rows : \E f \in [D -> Bodies] : Load(e, f)
    \/ \E d \in Rows : UpdateRow(e, d) \/ Cascade(e, d) \/ Record(e, d)
    \/ CommitEdit(e)
    \/ Abort(e)

AdminStep(a) ==
    \/ PlanRestore(a) \/ PlanImport(a) \/ BeginAdmin(a)
    \/ \E d \in Rows : UpdateRow(a, d) \/ Rewrite(a, d) \/ Record(a, d)
    \/ FinishAdmin(a)
    \/ Abort(a)

CommitterStep(c) ==
    \/ LoadScope(c) \/ ReadLatest(c) \/ ReadPending(c)
    \/ CommitRequest(c)
    \/ BuildCommit(c)
    \/ Fail(c)

Next ==
    \/ \E e \in Editors : EditorStep(e)
    \/ \E a \in Admins : AdminStep(a)
    \/ \E c \in Committers : CommitterStep(c)

Spec == Init /\ [][Next]_vars

-----------------------------------------------------------------------------
(* Properties.                                                             *)

Revision == [doc : Rows, num : Nat, seq : Nat, basis : Nat, body : Bodies,
             squashed : BOOLEAN, commit : Nat]

Commit == [head : Nat, base : Nat, version : [Rows -> Bodies], target : [Rows -> Bodies]]

Row == [rev : Nat, body : Bodies]

Plan == [op : {"restore", "import"}, expect : Nat, target : [Rows -> Bodies]]

Request == [step : {"idle", "scoped", "based", "ready"}, head : Nat, base : Nat,
            pending : SUBSET (Nat \X BOOLEAN)]

\* Every variable has its type.
TypeOK ==
    /\ rows \in [Rows -> Row]
    /\ head \in Nat
    /\ revisions \subseteq Revision
    /\ commits \subseteq Commit
    /\ locks \in [Rows -> Writers \cup {Nobody}]
    /\ stage \in [Writers -> {"idle", "planned", "open"}]
    /\ seen \in [Writers -> [Rows -> Nat]]
    /\ want \in [Writers -> [Rows -> Bodies \cup {Untouched}]]
    /\ bumps \in [Writers -> [Rows -> Nat]]
    /\ drawn \in [Writers -> Nat]
    /\ fresh \in [Writers -> SUBSET Revision]
    /\ plan \in [Writers -> Plan \cup {<<>>}]
    /\ request \in [Committers -> Request]
    /\ past \subseteq [head : Nat, bodies : [Rows -> Bodies]]

\* head_sequence counts the revisions of the workspace: no two revisions have
\* the same sequence number, none lies beyond the head, and the head itself is
\* the number of a revision (Recorder draws it under the workspace row's lock).
SequenceTracksHead ==
    /\ \A r, q \in revisions : r.seq = q.seq => r = q
    /\ \A r \in revisions : r.seq <= head
    /\ \E r \in revisions : r.seq = head

\* The live row of a document is its newest revision, newest both by revision
\* number (what LatestRevision and the parent link use) and by sequence number
\* (what ExportWorkspace uses); a row without history was never inserted.
LiveMatchesHistory ==
    \A d \in Rows :
        \/ /\ rows[d].rev = 0
           /\ rows[d].body = Gone
           /\ \A q \in revisions : q.doc # d
        \/ \E r \in revisions :
              /\ r.doc = d
              /\ r.num = rows[d].rev
              /\ r.body = rows[d].body
              /\ \A q \in revisions : q.doc = d => q.num <= r.num /\ q.seq <= r.seq

\* The history of a row is one line: the revision numbers and the workspace
\* sequence numbers of its revisions order them in the same way.
HistoryIsLinear ==
    \A r, q \in revisions : r.doc = q.doc => (r.num < q.num <=> r.seq < q.seq)

\* Nobody's change is overwritten unread: a revision was made by somebody who
\* had read the revision just before it (UPDATE ... WHERE revision = expected).
NoLostUpdate ==
    \A r \in revisions : r.num = r.basis + 1

\* Every uncommitted revision lies after the newest commit, where Pending,
\* commits.Create and Status look for it: no change is left that no later
\* commit would pick up.
NoStrandedRevision ==
    \A r \in revisions : r.commit = 0 => r.seq > LatestHead

\* Exporting a commit again, for a release, a restore or a comparison, yields
\* what the commit's domain version was computed from.
CommitVersionStable ==
    \A k \in commits : Export(revisions, k.head) = k.version

\* A commit is a state the workspace really was in: its content is what the
\* live rows held when head_sequence had the value of the commit's head.
CommitIsPastState ==
    \A k \in commits : \E p \in past : p.head = k.head /\ p.bodies = k.version

\* A restore or import commit contains exactly what it was asked to bring
\* back, rows that the target lacks included.
AdminCommitsReachTarget ==
    \A k \in commits : k.version = k.target

NothingBefore(w) ==
    stage[w] # "open" => drawn[w] = 0 /\ fresh[w] = {} /\ \A d \in Rows : bumps[w][d] = 0

HoldsRow(w, d) ==
    bumps[w][d] > 0 => locks[d] = w /\ want[w][d] # Untouched /\ seen[w][d] = rows[d].rev

HoldsSequence(w) ==
    drawn[w] > 0 => locks[Workspace] = w /\ \E r \in fresh[w] : r.seq = head + drawn[w]

Continues(w, r) ==
    /\ head < r.seq /\ r.seq <= head + drawn[w]
    /\ rows[r.doc].rev < r.num /\ r.num <= rows[r.doc].rev + bumps[w][r.doc]
    /\ r.num = r.basis + 1
    /\ r.num = rows[r.doc].rev + bumps[w][r.doc] => r.body = want[w][r.doc]

InOrder(revs) ==
    \A r, q \in revs :
        /\ r.seq = q.seq => r = q
        /\ r.doc = q.doc => (r.num < q.num <=> r.seq < q.seq)

Disciplined(w) ==
    /\ NothingBefore(w)
    /\ \A d \in Rows : HoldsRow(w, d)
    /\ HoldsSequence(w)
    /\ \A r \in fresh[w] : Continues(w, r)
    /\ InOrder(fresh[w])

\* What an open transaction holds: the lock of every row it updated and, once
\* it drew a sequence number, of the workspace row; so the rows it updated are
\* still what it read, its numbers follow the head without a gap, and what it
\* recorded last for a row is what the row will hold.
LockDiscipline == \A w \in Writers : Disciplined(w)

\* LockWorkspaceSnapshot: once an admin holds the workspace lock, the rows it
\* read stay what it read until it writes them.
FrozenUnderLock ==
    \A a \in Admins : stage[a] = "open" =>
        \A d \in Rows : want[a][d] # Untouched => rows[d].rev = seen[a][d]

\* Restore and Import leave the workspace clean: whatever was pending when they
\* began is committed with them, and the newest commit is at the head.
AdminLeavesClean ==
    [][\A a \in Admins :
          stage[a] = "open" /\ stage'[a] = "idle" /\ commits' # commits =>
              /\ LatestHead' = head'
              /\ \A r \in revisions' : r.commit # 0]_vars

\* History that a commit has taken is never removed or rewritten: later edits,
\* squashes and restores only add to it.
CommittedHistorySurvives ==
    [][\A r \in revisions : r.commit # 0 =>
          \E q \in revisions' : q.commit # 0 /\ [q EXCEPT !.commit = r.commit] = r]_vars

(* What the documentation says of commits and the code does not ensure.    *)

\* docs/openapi-glossary.yaml:49: a commit holds the revisions after its
\* baseSequence up to its headSequence.
CommitHoldsItsRange ==
    \A k \in commits : \A r \in revisions :
        r.commit = k.head => k.base < r.seq /\ r.seq <= k.head

\* docs/openapi-glossary.yaml:191: the parent of a commit is the previous
\* commit of the workspace (commits are ordered by head_sequence).
ParentIsPreviousCommit ==
    \A k, m \in commits : m.head < k.head => m.head <= k.base

-----------------------------------------------------------------------------
(* The abstract workspace that the history implements.                     *)

\* The commits as a reader finds them: a head and the content exported there.
Saved == {[head |-> k.head, version |-> k.version] : k \in commits}

Versioned == INSTANCE VersionedWorkspace
                 WITH content <- BodiesOf(rows), now <- head, published <- past,
                      saved <- Saved, Squashes <- "squash" \in Policies

\* A transaction's effects appear as one change of the content, at its COMMIT,
\* however its statements interleave with others; a restore or an import is
\* saved with the change it makes; and a commit, at whichever head, saves the
\* content published there (a squash behind the head: rows as they were then
\* or before).
ImplementsVersionedWorkspace == Versioned!Spec
=============================================================================
