# Endge service backend: TLA+ models and proofs

This directory models the concurrent core of the service in TLA+: the history
of a workspace, the cache of release artifacts, the sessions of the mock
generator, the debug bridge, the sessions and grants of its users, facets and
the folder tree. TLC checks the models on small instances, TLAPS proves
theorems about them for every value of their constants. `PROJECT.json` lists
the components, the runs, the source lines behind every definition, the
hazards, the findings and the theorems.

Run a check with `tlc -config History_commits.cfg MCWorkspaceHistory.tla`, a
proof with `tlapm WorkspaceHistoryProofs.tla`.

## 1. The system

The service (Go, PostgreSQL) stores *workspaces*: projects that consist of
documents (queries, compositions, facets, folders, ...). HTTP and MCP handlers
call use cases in `internal/usecase`; the use cases call repositories in
`internal/repo/postgres`. Requests run concurrently, each on a database
connection at READ COMMITTED; what they share is the database and a few
in-memory tables that belong to one use case each.

| Component (`src/internal/...`) | State | Operations | Modelled in |
|---|---|---|---|
| `usecase/documents` Lifecycle | document rows with `revision`, `deleted_at` | Create, Patch, Delete, Restore, MoveDocuments | WorkspaceHistory, FolderTree |
| `usecase/history` Recorder | `document_revisions`, `workspaces.head_sequence` | RecordDocument, RecordWorkspace | WorkspaceHistory |
| `usecase/commits` | `workspace_commits`, `commit_changes` | Create (preserve, squash), Status, plan | WorkspaceHistory |
| `usecase/workspace_state` Coordinator | all of the above | RestoreCommit, Import, RestoreRevision, Export | WorkspaceHistory |
| `usecase/workspaces` | `workspaces`, memberships | Create, Patch, Authorize, Delete, Restore; memberships | WorkspaceHistory (partly), AccessGrants |
| `usecase/releases` | `releases` | CreateFromBuild, queries | WorkspaceHistory (its commit) |
| `repo/postgres` transaction manager | open transactions, row locks | Within | WorkspaceHistory |
| `usecase/release_artifacts` Reader | LRU, in-flight loads | Read | ReleaseCache |
| `usecase/mock_data` | public sessions, reserved places, leases | Create, Get, Update, KeepAlive, Subscribe, Stop, reap, Close | MockSessions |
| `usecase/bridge`, `platform/bridge` | sockets, participants, debug sessions, commands | Join, Check, Handle, Leave, Sweep, Serve | Bridge |
| folders in `usecase/documents` | `folders.parent_id` | the lifecycle operations on folders | FolderTree |
| `auth` SessionManager, `middleware` | `configurator_auth_sessions` | Complete, Resolve, refresh, Revoke, Cleanup | ExternalAccess |
| `usecase/access_control`, external mode | `external_access_states`, grants | resolveExternalActor | ExternalAccess, NewestToken |
| `usecase/access_control`, local mode | `service_users`, `access_grants`, `workspace_memberships` | bootstrap, Put, Bulk, Delete, memberships | AccessGrants |
| `usecase/facets` | `facets`, `facet_documents` | Create, Patch, Delete, Restore, RestoreRevision, Reorder | Facets |
| `usecase/access_tokens` | hashed tokens | issue, revoke, look up | not modelled |
| `usecase/integrations`, `backups`, `ai_*`, `build_profiles`, `backend_connections` | single rows | CRUD with an expected revision | not modelled |
| `usecase/portable`, `domain/domainversion`, `configuration` | none | conversion, hashing | not modelled |
| HTTP, MCP, bootstrap, config, generated code | none | transport, wiring | not modelled |

How they interact. Every change of a document calls the Recorder in the same
transaction; the Recorder draws the next number of `head_sequence`, which
takes the lock of the workspace row. Commits, builds, restores and imports
read the history that others append to. Releases are cut from a commit and
read through the artifact cache. Before any handler runs, the middleware
resolves the cookie session, refreshing it if need be, and then the current
user, whose grants decide what the request may do. The bridge and the mock sessions use the
database only through authorization, but hold locks, goroutines and timers of
their own.

### What is hard

* **Interleaving of transactions.** Requests read rows, compare and decide
  before their transaction starts; the rows may be different when it runs.
  Sequence numbers are drawn under a lock and become visible in another order
  than they are drawn. A squash deletes revisions that others are about to
  name as a parent.
* **Lock handover.** `bridge.UseCase.Check`, `mock_data.UseCase.Create` and
  `release_artifacts.Reader` release their mutex while the database, the
  generator or a load answers, and apply the answer to whatever the table has
  become.
* **Two systems.** The refresh token in a session row and the one the identity
  provider accepts are changed by different transactions; roles arrive in
  tokens, in whatever order their holders use them.
* **Failure.** Rollback at any statement, a load that hangs, a generator that
  does not confirm, a socket that closes during an operation on its session, a
  provider that rotates a token and whose answer is lost, a process that dies.
* **Time.** Leases, deadlines, tickers and their race with late answers.
* **Liveness.** Waiters of a shared load, subscribers of an ended session,
  requests to a device that never answers, a shutdown that must drain.

### What makes each component correct

* *History*: no update is lost; the live row is the newest revision by both
  orders; sequence numbers are unique and gapless up to the head; every
  uncommitted revision will be seen by the next commit; what a commit froze
  never changes; a restore really brings the target back and leaves nothing
  pending.
* *Artifact cache*: an answer is the version asked for, whatever was stored
  meanwhile; one load per key; exact byte accounting; eviction of the least
  recently used, only as far as needed; every read ends.
* *Mock sessions*: the limits hold over creations and cleanups in flight;
  places come back exactly once; no upstream session is forgotten; expired
  sessions end, streams hear of it, Close drains.
* *Bridge*: exactly one result per request; nothing outlives a participant; a
  client in one session at a time; no answer to a controller that lost its
  access; everybody knows who is there.
* *Sessions and external access*: no refresh token is spent twice; a logout
  ends the login at the provider; the stored grants are those of the newest
  token anybody was served with.
* *Grants*: one administrator at most is made for being the first; the last
  one stays; a grant and its membership agree.
* *Facets*: no active document in a deleted facet; an active document stays
  where it is, under the identity it is addressed by.
* *Folder tree*: the documents say that cycles are forbidden (see findings).

## 2. Modules

Components share no state at the level of these models except the database
rows of the history, so each module stands alone. Two are compositions:
`WorkspaceHistory` of documents, recorder, commits, restore/import and builds,
which meet in one set of tables, and `ExternalAccess` of the session manager,
the two middlewares, the login callback and the access use case, which meet in
the session row and the user's row. Both implement an abstract specification:
`WorkspaceHistory` the `VersionedWorkspace`, `ExternalAccess` the
`NewestToken`.

| Module | Models | Checked by | Proved in |
|---|---|---|---|
| `WorkspaceHistory` | rows, history and commits of one workspace | `history_*` | `WorkspaceHistoryProofs` |
| `VersionedWorkspace` | what the history promises: content that changes as a whole, commits that save it | as a property of `history_restore` | |
| `ReleaseCache` | `release_artifacts.Reader` | `cache` | `ReleaseCacheProofs` |
| `MockSessions` | `mock_data.UseCase` | `mock_*` | `MockSessionsProofs` |
| `Bridge` | `bridge.UseCase` and `platform/bridge.Connections` | `bridge` | `BridgeProofs` |
| `NewestToken` | what external access promises: a register of the newest token | as a property of `access_external` | |
| `ExternalAccess` | cookie sessions, refresh, external grants of one user | `access_external` | `ExternalAccessProofs` |
| `AccessGrants` | local grants, bootstrap, memberships | `access_grants` | `AccessGrantsProofs` |
| `Facets` | facets and the documents in them | `facets` | `FacetsProofs` |
| `FolderTree` | parent links of folders | `tree_cycle` | |
| `SumTheorems` | facts about sums, for the counters of `MockSessions` and `ReleaseCache` | | itself |
| `MC...` | symmetry and function-valued constants for TLC | | |

In every module a step is one critical section, one statement that takes a
lock, or one transaction's COMMIT; calls to the outside (database,
authorization, generator) lie between two steps. Names ending in "mutant:"
comments are alternatives of the operator below them that a plausible bug
would produce; no action uses them.

### WorkspaceHistory

State: `rows` (live rows, with revision), `head`, `revisions`, `commits` are
the committed tables; `locks` the row locks; `stage`, `seen`, `want`, `bumps`,
`drawn`, `fresh` an open transaction of an editor or an admin (what it read,
will write, has updated, drawn and inserted; invisible to others until
COMMIT); `plan` what a restore or import decided before its transaction;
`request` a commit request between its reads; `past` an observer.

* Editor = `documents.Lifecycle` or `workspaces.Patch`: `Load` (reads and
  early returns before the transaction), `UpdateRow` (`UPDATE ... WHERE
  revision = expected`), `Cascade` (rows the delete of a live document changes
  in place: they get another folder, or the workspace no startup composition),
  `Record` (sequence number and revision), `CommitEdit`, `Abort`.
* Admin = `workspace_state.Coordinator`: `PlanRestore`/`PlanImport`,
  `BeginAdmin` (workspace lock, head check), the same row steps, `Rewrite` (a
  second update of one row), `FinishAdmin` (adopts pending revisions and
  commits).
* Committer = `commits.Create`: `LoadScope` (the middleware), `ReadLatest`,
  `ReadPending`, `CommitPreserve`/`CommitSquash`; `BuildCommit` is
  `releases.CreateFromBuild`.

Abstractions. A body stands for a document's content; "absent" and
"soft-deleted" are one body `Gone`. A patch of a soft-deleted document is a
change from `Gone` to `Gone` with a revision of its own. An export shows
neither an absent nor a soft-deleted document, with two exceptions: deleted
facets and facet documents are exported with a mark
(`releases_repository.go:124` and `:148`), and the model does not tell such an
export from one without them (see the observations in section 4). A domain
version is the exported content itself, so two contents have the same version
exactly if they are equal; integrations are part of neither (they are
excluded in `domainversion/domain_version.go:33`). The soft-delete flag of the
workspace row is left out. PostgreSQL's deadlock victim, a lost connection, a
conflict and a cancelled request all end in `Abort`. Renaming an identity
takes stronger locks than the model's; it makes fewer interleavings possible.

`VersionedWorkspace` knows no rows, revisions, locks or transactions: the
content changes as a whole and gets a greater head (`Edit`), a restore or an
import is saved with its change (`Replace`), and a commit saves what was
published at one head (`Save`). The refinement maps its content to the bodies
of `rows`, `now` to `head`, `published` to `past`, and `saved` to the commits
with their exports. `Save` is exact unless the commit squashes behind the
head: `SquashPending` reads the pending revisions again inside its
transaction and may fold a row into a revision after the head of the commit,
so that the export at that head holds the row as it was before.

### ReleaseCache

State: `lru`, `bytes`, `inflight` (under `Reader.mu`), the flights (`load`,
`result`) named by the request that registered them, the requests, `stored`
(the row of every release; `Tamper` changes it, against which the checksum in
the key protects), `config`. A request reads once; a retry is another
request. `recent` is an observer: the keys in the order of their last use.

### MockSessions

State: `create` (where a Create request is), `listed` and `pending` (under
`UseCase.mu`), `cancelled`, `finished`, `stopping`, `expired`, `subscribed`
per session, one call per client, the two reapers (`ticker` and the last sweep
of `Close`). `Finish` is `finish()`: cancel, unlist, reserve a place for the
cleanup and start it are one step, since the only observer in between is the
stream that `cancelled` ends. If the gateway fails a Create after the
generator made the session, the backend cannot know of it; the generator's own
timeout ends it. The byte budget of subscribers and the stateless
Capabilities and Generate are not modelled.

### Bridge

State: `socket` and `access` (the world), `peers`, `role`, `sessions`,
`commands` (under `UseCase.mu`), `reader` and `writer`, the two goroutines of
a connection, `shown` (what a configurator was last told); observers
`accepted`, `results`, `entitled`, `leaked`. Every configurator message passes
`Receive` - `Checked` - one operation; a client's response passes
`Respond` - `AskController` - `ControllerChecked` or `ControllerLeaves`,
`ControllerCloses` - one `Response`. Expiry is part of every operation, as in
the code (`ExpireAndEnd`).

Left out: the limits (64 participants per workspace, 256 sockets, message
rates and sizes; a message refused by them is `Break` or `Refuse`), the five
seconds between session requests, several workspaces and the second name a
workspace may be addressed by. A socket that left the registry is not
distinguished from a closed one. A configurator that sends one of the five
message types of a client (`usecase.go:162`) is only refused here; in the code
the controller of the session it names is checked first, as it is for every
response of the client, and may have to leave.

### ExternalAccess and NewestToken

State: `issued` and `valid` (the provider: tokens in the order of issue, and
the refresh token a login accepts), `row` and `lock`
(`configurator_auth_sessions`), `applied` and `userLock` (the watermark in
`external_access_states` with the grants it stands for, and the lock of the
user's row), `actor` (where a request or a login callback is), `logout` (the
refresh token `Revoke` returned); observers `told`, `ended`, `trouble`.

* A request is `Begin` (cookie) or `BeginBearer` - `Lock` - `Refreshed`,
  `RefreshRefused` or `RefreshFails` - `Store`, `StoreFails` or `RevokeRow`
  (one transaction of `resolveWithRefresh`, the call to the provider inside) -
  `Prepare` - `Serve`, `FindStale` or `FindAmbiguous` (the transaction of
  `resolveExternalActor`). `FindStale` sends a cookie request once through the
  refresh again, as `current_user.go` does.
* A callback is `Complete` - `CallbackReads` and then the same steps; when it
  fails, `Undo` takes the session back.
* `FallDue`, `Expire`, `Cleanup` are time; `Logout` and `TellProvider` the two
  halves of a logout; `Crash` loses what is in memory and rolls back.

`NewestToken` knows no sessions, locks, retries or failures: tokens are
published, and an actor is answered once, in one step that compares with and
sets the register. The refinement maps `current` to `applied` and the answer
of an actor to the token it was served with. Abstractions: the provider
rotates refresh tokens (one that does not is a special case without
`RefreshRefused`); one number stands for an access token and the refresh token
that came with it; the mapping of claims to grants and the configuration
version, constant in a running process, are the token's role. A callback that
fails before it stores a row leaves nothing behind and is not an action.

### AccessGrants

State: `users`, `grants`, `members` are the committed tables; `boot`,
`grantLock`, `memberLock` the advisory bootstrap lock and the row locks;
`request` a request and its transaction. A statement that writes takes the
lock of its row, or of the key it inserts; the writes themselves appear at
COMMIT, all together. A delete that finds no committed row does not wait, as
under READ COMMITTED. Statement orders are the code's: `UpsertAccessGrant`
writes the grant and then the membership, `DeleteAccessGrant` and
`DeleteMembership` the other way round. `Fail` is a failing statement, and the
victim PostgreSQL picks when two wait for each other. `id` says whether the
grant `Delete` read by its id is still the same row. Permissions are checked
by `Administered`, which asks for somebody who may administer the scope; which
of them sends the request makes no difference to the tables. The installation
has never had external access, so that `HasExternalAccessHistory` and
`invalidateExternalAccess` find nothing. Searches, lists and disabled users
are left out.

### Facets

State: `facet` and `doc`, the rows; `facetPast` and `docPast`, what a restored
revision may bring back; `request`. Preconditions are read in one step each
(`Plan`, `Count`, `CreateDocument`, `Begin`, `GetFacetDocument`). A restored
revision is looked up by a second read with the same identities
(`GetFacetRevision`, `GetFacetDocumentRevision`), which may find another row
than the first and revisions of that row. A facet is not written then, since it
has a new revision; a deleted document may be. The transaction locks the
workspace row first and is one step (`UpdateFacet`, `InsertFacetDocument`,
`UpdateFacetDocument`, `Reorder`). Positions, texts and configurations are left
out; a write that the unique index on positions or the history refuses is
`Refused`.

### FolderTree

State: `parent`, `state`, `revision` of folders, and what each request has
read. A request reads the row, resolves the parent, looks for a cycle, then
runs its transaction as one step, which compares the revision of the one row
it changes. Documents in folders are not modelled. The recursive ancestor
query (`UNION ALL`) would not end on a cycle; the model's `Ancestors` does.

## 3. Runs

| Run | Instance | Distinct states | Question |
|---|---|---|---|
| `history_commits` | 2 documents, 2 editors, 2 committers, both policies, head <= 3 | 113 k | Do concurrent edits, deletes, moves, commits and squashes keep the history and lose nothing pending? |
| `history_restore` | 2 documents, 1 editor, 1 admin, 1 committer, both policies, head <= 4 | 630 k | Do restore and import reach their target among editors and commits? Refinement of `VersionedWorkspace` |
| `history_range` | 1 document, 1 editor, 1 committer | violation | Does a commit hold the revisions up to its head? |
| `history_parent` | 1 document, 1 editor, 2 committers | violation | Is the parent the previous commit? |
| `cache` | 2 releases x 2 checksums, 2 requests, 3 configurations | 27 k | Keys, bytes, eviction, answers; does every read end? |
| `mock_admission` | 3 creations for 3 owners (2 actors), 2 places, 1 per actor | 54 k | Limits and reservations |
| `mock_progress` | 2 creations, 1 owner, 1 client | 133 k | Shutdown, reaping, streams |
| `bridge` | 1 configurator, 1 client, 1 session, 2 commands | 45 k | One result per request, revocation, presence; answered; cut off |
| `access_external` | 1 session, 2 requests, 2 roles, 3 tokens | 531 k | Refresh, logout, newest token; refinement of `NewestToken` |
| `access_grants` | 2 users (1 with the old role), 1 workspace, 2 requests | 156 k | Bootstrap, last administrator, memberships |
| `facets` | 2 facets, 1 document, 2 identities, 2 requests, revisions <= 3 and 4 | 673 k | Do documents stay in active facets? |
| `tree_cycle` | 2 folders, 2 requests, revision <= 3 | violation | Can a cycle arise? |

The counts are after symmetry reduction. The type invariants of
`MockSessions` and `Facets` are proved and not run.

Why the bounds are enough to meet the interesting cases. `MaxSequence = 3`
leaves two changes after the bootstrap revision, which two editors make to one
document, to two, or as one transaction of two rows that overlaps another;
two committers overlap on them. A lost update needs two editors and one
document, a stranded revision one change on either side of a commit. Restore
writes the documents and the workspace row, so the order of locks and the
double rewrite occur. The two history runs that pass have one live content
besides `Gone`: TLC sees rows inserted, deleted, restored and updated by a
cascade or an import, several of them in one transaction, but no live row that
changes from one content to another, a move of several documents least of all.
A second content multiplies the states of `history_commits` by 26 (2.9 million,
all of them good); these changes are left to the theorems, which hold for any
set of values. In the cache an artifact of one release and one of
another exceed one limit and meet the other exactly; one insert replaces a stale version,
another one evicts, and one request leads while the other joins or reads
another version. An insert that does both needs a third request and is left to
the theorems, as are caches of more than two releases. Three creations exceed two places, and
two owners of one actor exceed one place per actor. In the bridge one command
waits and one exceeds `MaxPending`; what only two configurators can do to each
other, or an old session's response to a newer one, is left to the theorems,
which hold for any number of them. Three tokens give the session its first, a
refresh of it and the token of a bearer client, in any order and in one second
or two; two requests and the callback contend for the row and for the user.
Two people at two requests are the bootstrap race, two administrators that
remove each other, and an assignment against a removal of one key; the old
platform role gives the second administrator. There is one workspace: the
grants of several do not share a key, and the theorems hold for any set of
them. Two facets can swap their
identities between two looks of another request; revision 3 allows a rename
and a delete of each, or a delete and a restore.

`CHECK_DEADLOCK FALSE` appears where the model really ends: requests,
sessions, names and tokens are finite, and folders reach `MaxRevision`. The
other runs check for deadlock: a lock wait always ends, since an open
transaction may abort.

### Fairness

Stated per module as `Fairness`, weak fairness only:

* `ReleaseCache`: goroutines run; `artifactLoadTimeout` ends a load. The
  database need not answer, clients need not cancel.
* `MockSessions`: goroutines run, the ticker ticks until Close, gateway calls
  end (they carry timeouts), `context.AfterFunc` fires. No client has to call,
  no stream has to end by itself, no lease has to run out, nobody has to call
  Close.
* `Bridge`: goroutines run, the writer's ticker and the sweeper tick, the
  deadlines of requests that wait and of commands pass. Nobody has to send,
  access checks may come out either way, an active session need not expire.

The history, the grants, the sessions and the facets have no liveness
property: every wait in them is a PostgreSQL lock wait, whose end is
PostgreSQL's affair, and no call has to be answered.

## 4. Findings

* `history_range`: `commits.Create` checks and uses the head its middleware
  read, but collects the pending revisions later; a revision recorded in
  between belongs to a commit whose head lies before it, against
  `docs/openapi-glossary.yaml:49`. The content of that commit, exported at its
  head, does not contain it.
* `history_parent`: the latest commit is read before the transaction and not
  checked again; two overlapping commits get the same parent, against
  `docs/openapi-glossary.yaml:191`.
* `tree_cycle`: the cycle check runs before the transaction; two requests that
  move two folders under each other both succeed, against
  `docs/Карта доменных связей.md:49`. With one request at a time the property
  holds.

None of these breaks the invariants the other runs check:
`NoStrandedRevision` and `CommitVersionStable` hold in spite of the first two.

Observations met while modelling that no run states:

* A membership may remain without a grant: `DeleteMembership` finds no
  membership yet, the first `Put` of that key commits, and the second
  statement of `DeleteMembership` then deletes the grant alone.
  `GrantsHaveMembers` therefore has one direction only: no grant without its
  membership.
* Deleting a facet that is not the last leaves a gap in the positions. An
  export carries it, and an import of that export is refused with
  `facet_positions_invalid` (`workspace_state/support.go:590`).
* `docs/Карта доменных связей.md:31` and `:82` say that deleting a facet
  soft-deletes its documents, the latter in one batch; the code refuses the deletion while there are active ones
  (`facets/usecase.go:205`), which is what makes `NoOrphans` hold.
* A deleted document is found again by the identity of its facet. When that
  identity has passed to another facet, a restored revision lands in the other
  one; `DocumentsStayPut` speaks of active documents only.
* Deleted facets stay in an export. A restore of a commit that is older than a
  facet deletes the facet (`restore_apply.go:231`), so that the new commit
  exports its mark and has another domain version than the commit restored. An
  import adds these marks to its target first (`import.go:573`).
  `AdminCommitsReachTarget` takes a marked facet for an absent one.
* A refresh that succeeded at the provider and could not be stored leaves a
  spent token in the row; the next refresh of that session fails and revokes
  it. `trouble` collects these sessions, and `RevokedForCause` says there are
  no others.

## 5. Proofs

TLAPS checks every leaf of the eight proof modules. The theorems hold for every
value of the constants that satisfies the named assumption of the module
(`ConstantsAssumption`, `CacheAssumption`, `MockAssumption`,
`BridgeAssumption`, `AccessAssumption`, `GrantsAssumption`, `FacetsAssumption`): any number of
documents, requests, sessions, participants, tokens and facets. `MaxSequence`,
`MaxPending`, `MaxTokens`, `MaxRevision` and `MaxDocRevision` only guard
actions; the theorems hold for every value of them.

| Theorem | States |
|---|---|
| `WorkspaceHistoryProofs!` `TypeCorrect`, `SequenceCorrect`, `LiveCorrect`, `LinearCorrect`, `NoLostUpdateCorrect`, `DisciplineCorrect` | `TypeOK`, `SequenceTracksHead`, `LiveMatchesHistory`, `HistoryIsLinear`, `NoLostUpdate`, `LockDiscipline` |
| `WorkspaceHistoryProofs!FrozenCorrect` | `FrozenUnderLock` |
| `WorkspaceHistoryProofs!` `StrandedCorrect`, `VersionCorrect`, `HeadCommitIsLive` | `NoStrandedRevision`, `CommitVersionStable`; a commit at the head holds what the live rows hold |
| `WorkspaceHistoryProofs!` `SurvivesCorrect`, `AdminsLeaveClean` | `CommittedHistorySurvives`, `AdminLeavesClean`, action properties |
| `WorkspaceHistoryProofs!` `TargetReached`, `RestoreBringsBack` | `AdminCommitsReachTarget`; a restore leaves the live rows as a commit has them |
| `WorkspaceHistoryProofs!PastCorrect` | `CommitIsPastState`, if no commit squashes |
| `WorkspaceHistoryProofs!VersionedWorkspaceImplemented` | `ImplementsVersionedWorkspace`: the refinement of `VersionedWorkspace`, for both policies |
| `MockSessionsProofs!` `TypeCorrect`, `ReservationsCorrect`, `CloseCorrect`, `ForgottenCorrect` | `TypeOK`, `ReservationsAreExact`, `CloseLeavesNothing`, `NothingIsForgotten` |
| `MockSessionsProofs!AdmissionCorrect` | `AdmissionHolds`: no more sessions upstream than configured, in all and per actor |
| `ReleaseCacheProofs!` `OneLoadCorrect`, `WaitersCorrect` | `OneLoadPerKey`; `WaitersGetTheirVersion`: what a waiter gets is the version it asked for |
| `ReleaseCacheProofs!` `CacheTypeCorrect`, `BytesCorrect`, `ConsistencyCorrect`, `AnswersCorrect` | `TypeOK`, `BytesAreExact`, `CacheIsConsistent`, `AnswerIsWhatWasAsked` |
| `ReleaseCacheProofs!` `OrderOfUseCorrect`, `EvictionCorrect` | `KeepsMostRecent`: the cache holds the releases used last, in that order; `EvictsOnlyOverLimit`, an action property |
| `BridgeProofs!` `TypeCorrect`, `ResultsCorrect`, `SessionsCorrect`, `PresenceCorrect` | `TypeOK`, `OneResultPerRequest`, `SessionsAreHeld`, `PresenceIsCurrent` |
| `BridgeProofs!RevocationCorrect` | `NothingAfterRevocation` |
| `ExternalAccessProofs!` `TypeCorrect`, `SessionsRevokedForCause`, `LogoutsEndLogins`, `NewestTokenAlwaysWins` | `TypeOK`, `RevokedForCause`, `LogoutEndsLogin`, `NewestTokenWins` |
| `ExternalAccessProofs!RegisterImplemented` | `ImplementsRegister`: the refinement of `NewestToken` |
| `AccessGrantsProofs!` `TypeCorrect`, `LastAdminStaysAlways`, `OneBootstrapAdminEver`, `GrantsKeepMembers` | `TypeOK`; `LastAdminStays`, an action property; `OneBootstrapAdmin`, `GrantsHaveMembers` |
| `FacetsProofs!` `TypeCorrect`, `NoOrphansEver`, `DocumentsStayPutAlways` | `TypeOK`, `NoOrphans`, `DocumentsStayPut`, an action property |

Each module proves one `Invariance` theorem first: `Init` establishes the
inductive invariant and every action preserves it, one lemma per action or
group of actions. Why each invariant is what it is:

* **History.** `LiveMatchesHistory` says of the committed tables what also
  depends on transactions that are still open. `LockDiscipline` is the missing
  part: a transaction that has changed a row, or drawn a number, holds the
  lock that covers it, what it read under that lock is still true, and its
  numbers follow the head without a gap. With it, COMMIT publishes exactly
  what keeps rows, revisions and head together. `Frozen` adds that an admin
  past its first lock still holds the workspace row, from which
  `FrozenUnderLock` follows.
* **Commits.** `NoStrandedRevision` needs to know what a request will do that
  has read its base and its pending revisions and not yet written. `Bases`
  (the base is at most the newest commit) and `Reads` (a request that is ready
  knows every uncommitted revision up to its head) say that: whichever of two
  overlapping commits comes second, all it passes over is committed already or
  in its own set. `CommitVersionStable` follows because every later append,
  attach or squash lies behind the newest commit, where no earlier export
  looks.
* **Restores and imports.** `AdminCommitsReachTarget` follows from what an admin
  at work wants of each row (`AdminWants`: the target's body, or nothing where
  the row has it already), from `Frozen`, and from `ExportIsLive`: at the head
  the history exports what the rows hold. `RestoresCommit` adds that the target
  of a planned restore is the content of some commit, and stays it because
  `CommitVersionStable` holds.
* **The refinement of `VersionedWorkspace`.** `CommitEdit` is an `Edit`,
  `FinishAdmin` a `Replace` (or a `Save`, if the pending content was its target
  already and it wrote nothing), `CommitPreserve`, `CommitSquash` and
  `BuildCommit` are a `Save`; every other step stutters, and so does a
  transaction that wrote nothing. `PastInv` gives the published head a commit
  saves: every head a request carries was published, and without squashes still
  exports what was published then. For a squash behind the head, `OriginInv`
  says that every revision was first published under a head at which its row
  held its body; so whatever revision is left for a row is one the row showed at
  that head or before.
* **Mock sessions.** `Counted` ties every reserved place to the goroutine that
  will return it; `Lifecycle` and `Shutting` say which part of its life a
  session may be in while Create or Close is under way. `AdmissionHolds`
  compares sums with cardinalities: the places reserved by the owners of an
  actor add up to the number of its creations and cleanups under way
  (`PendingCounts`), and whatever is upstream is listed, being created or being
  cleaned up (`UpstreamIsHeld`); so the sum that `Admits` compares with the
  limit bounds the sessions upstream.
* **Release cache.** `Registered` and `Roles` say which request leads which
  registered flight, `ResultIsWanted` what the waiters of a flight want.
  `CacheInv` adds the cache: the bytes are the sum of the sizes, the entries are
  of different releases and of no registered flight (`StoreInv`), and their keys
  are the first of the keys in the order of their last use (`UsesInv`). A step
  leaves the cache alone, moves an entry to the front, or inserts one, which
  drops the other versions of its release and cuts the list behind the longest
  part that fits; each of the three is described by positions (`Picks`,
  `Fronted`) instead of by the operators on sequences that produce it.
* **Bridge.** `Books` relates sessions, commands, accepted requests and
  results. Every action changes them by one of six steps (remove and answer,
  add a session or a command, answer at once, activate, become late); a lemma
  treats each step once. `NothingAfterRevocation` needs what a reader's
  remembered names still mean after each unlock: an answer "editor" dates from
  after the message came in, and once a controller was refused the session the
  message is about is over and cannot come back under the same id.

* **Sessions and external access.** `RevokedForCause` speaks of revoked rows
  only; that a refresh never presents a spent token follows from `Locked` (who
  refreshes holds the row's lock, has read the token in it, and nobody revokes
  the row meanwhile) and `Kept` (unless the session had trouble, the token the
  provider accepts is in the row, or with the lock's holder who is about to
  store it). `LoggedOut` says that what a logout carries away stays valid until
  it is told, since nobody can refresh any more. `NewestTokenWins` needs
  `Watching`: who decides about a token holds the user's lock and has seen what
  is applied. With it `Serve` is exactly one `Answer` of `NewestToken`,
  `Complete`, `Refreshed` and `IssueBearer` are a `Publish`, and every other
  step a stutter.
* **Local access.** `Guard` says what the bootstrap lock protects. Whoever is
  about to remove a Platform Admin holds it and there is a second one; nobody
  else can remove that one before the lock is free, and assignments, which do
  not take the lock, only add admins (`AdminsGrow`). Whoever was admitted as the
  first user holds it until the grant is committed, and until then nobody is
  crowned (`First`); afterwards there is an admin for ever (`Crown`), so nobody
  is first again. `Shape` says what a request carries at each step: without it
  nothing relates the rows a COMMIT changes to the key the guard speaks of.
* **Facets.** `NoOrphans` is inductive together with the uniqueness of
  identities (`OneNamed`) and what each request has read. For
  `DocumentsStayPut` the point is `OfDocument`: if the document's revision is
  still the one read and the document is active, its facet still has the
  identity of the path. A rename of that facet is refused while the document is
  active, and whatever deletes and restores the document in between gives it a
  new revision, so the lookup by identity finds the same facet.

Only model-checked are the liveness properties (`EveryReadEnds`,
`ExpiredIsReaped`, `StreamsEnd`, `CloseDrains`, `RequestsAreAnswered`,
`RevokedIsCutOff`): liveness under fairness needs ENABLED, which the prover
does not support. Every safety and action property that a run checks is also
proved. The properties under "Findings" are false, so there is nothing to prove
about them.

What the proofs need about data. The modules with theorems have no RECURSIVE
operator: the folds and sums of the community modules are recursive functions.
The induction theorems of the library take a predicate as a parameter, which
the installed back ends cannot instantiate; for predicates that are sets,
`SumTheorems` derives induction over the numbers and over the subsets of a
finite set from the existence of least elements, and with it what sums do when
an index is added, removed, renamed or classified. That bodies, heads and
recency lists have greatest elements follows in the same way
(`BoundedMaximum`).

## 6. Not modelled, and why

* Generated code (`openapi.gen.go`, protobuf, sqlc: about 30,000 of the 68,000
  lines), transport (HTTP handlers and DTOs, MCP tools, the server of the
  bridge's sockets besides its goroutines), wiring, configuration and
  observability: no state of their own. They are nearly two thirds of the code.
* Pure conversions (`portable`, `domainversion`, `configuration`, the
  validation in `workspace_state/support.go`): functions of one document,
  better tested than model-checked; the models take their result as a value.
* Row-at-a-time CRUD (`integrations`, `backups`, `ai_catalog`,
  `build_profiles`, `backend_connections`, `access_tokens`): the optimistic
  update they use is the one of `UpdateRow`, and nothing is shared between
  requests beyond the row.
* `ai_assistant`: a call to a service outside.
* Within modelled components: what each module section above leaves out.

## 7. Plan

Done: eight modules of the system, two abstract specifications and their
refinements, every safety property of a run proved. Next, by weight:

1. Positions of facets, with the gap a deletion leaves, and the check an import
   makes of them.
2. `FolderTree` with documents: a document put into a folder that is deleted
   at the same time.
3. Authors of revisions in `WorkspaceHistory`, for the ownership check of a
   squash (`commits/create.go:41`).
4. An abstract specification of `Bridge`: requests that are answered once, by a
   table that changes in one step.
