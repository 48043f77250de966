---------------------------- MODULE AccessGrants ----------------------------
(***************************************************************************)
(* Local access management: the grants of access_control.UseCase, the      *)
(* bootstrap of the first Platform Admin, the members of                   *)
(* workspaces.UseCase, and the rows they share in PostgreSQL.              *)
(*                                                                         *)
(* Transactions are READ COMMITTED: a statement sees what is committed     *)
(* when it runs, a row that is written stays locked until the transaction  *)
(* ends, and who wants it waits.  A write is applied when its transaction  *)
(* commits; until then only the lock shows.                                *)
(***************************************************************************)
EXTENDS Naturals, FiniteSets, Sequences

CONSTANTS
    Users,          \* people, active from their first request on
    Legacy,         \* those whose identity claims the old platform admin role
    Listed,         \* the active workspaces, in the order they are listed
    Platform,       \* the scope of a Platform Admin
    Roles,          \* of a workspace; "admin" is the one of the platform
    Requests,
    Nobody          \* no lock holder

Workspaces == {Listed[i] : i \in DOMAIN Listed}

Scopes  == Workspaces \cup {Platform}
Keys    == Users \X Scopes
Members == Users \X Workspaces

ASSUME GrantsAssumption ==
    /\ Legacy \subseteq Users
    /\ Listed \in Seq(Workspaces)
    /\ Platform \notin Workspaces
    /\ "admin" \in Roles /\ "none" \notin Roles
    /\ Nobody \notin Requests

VARIABLES
    users,          \* service_users
    grants,         \* access_grants: user and scope -> role
    members,        \* workspace_memberships: user and workspace -> role
    boot,           \* holder of the advisory bootstrap lock
    grantLock,      \* locks on rows, and keys, of access_grants
    memberLock,     \* the same for workspace_memberships
    request,        \* see RequestRecords
    crowned         \* observer: users made Platform Admin as the first user

tables == <<users, grants, members>>
locks  == <<boot, grantLock, memberLock>>
vars   == <<tables, locks, request, crowned>>

Granted(k) == grants[k] # "none"

Admins == {u \in users : Granted(<<u, Platform>>)}

\* at: the next step; keys: what is left to do, one row after the other; role:
\* the role to give; id: whether the grant it read by id is still there ("live")
\* or was deleted since ("gone"), "none" when it goes by user and scope; wrote,
\* dropped: the grants and memberships the transaction has locked; first: admitted
\* as the first user of the installation.
Idle == [at |-> "idle", keys |-> <<>>, role |-> "none", id |-> "none",
         wrote |-> {}, dropped |-> {}, first |-> FALSE]

At(r)  == request[r].at
Key(r) == Head(request[r].keys)

Becomes(r, f) == request' = [request EXCEPT ![r] = f]
Goto(r, step) == Becomes(r, [request[r] EXCEPT !.at = step])

\* The locks a transaction leaves behind when it ends.
Released(lock, r) == [k \in DOMAIN lock |-> IF lock[k] = r THEN Nobody ELSE lock[k]]

Unlock(r) ==
    /\ boot' = IF boot = r THEN Nobody ELSE boot
    /\ grantLock' = Released(grantLock, r)
    /\ memberLock' = Released(memberLock, r)

End(r) == Becomes(r, Idle) /\ Unlock(r)

\* mutant: the bootstrap lock belongs to the connection, not to the transaction
KeepsBoot(r) ==
    /\ Becomes(r, Idle)
    /\ UNCHANGED <<tables, locks, crowned>>

Rollback(r) == End(r) /\ UNCHANGED <<tables, crowned>>

Take(lock, k, r) == [lock EXCEPT ![k] = r]

Free(lock, k, r) == lock[k] \in {Nobody, r}

\* requireWorkspaceAdmin and the check of actor.PlatformAdmin, both made before
\* the request waits for anything: somebody may administer the scope.
Administered(s) ==
    \/ Admins # {}
    \/ s # Platform /\ \E u \in users : grants[<<u, s>>] = "admin"

-----------------------------------------------------------------------------
(* ResolveCurrentActor in local mode.                                      *)

\* Whether there is a Platform Admin is read before any transaction.
Resolve(r, u) ==
    /\ At(r) = "idle"
    /\ Becomes(r, [Idle EXCEPT !.keys = << <<u, Platform>> >>, !.role = "admin",
                     !.at = IF Admins # {} /\ u \notin Legacy THEN "join" ELSE "bootstrap"])
    /\ UNCHANGED <<tables, locks, crowned>>

Join(r) ==
    /\ At(r) = "join"
    /\ users' = users \cup {Key(r)[1]}
    /\ Becomes(r, Idle)
    /\ UNCHANGED <<grants, members, locks, crowned>>

\* mutant: nobody waits for the bootstrap lock
BootOpen == TRUE

BootFree == boot = Nobody

LockBootstrap(r) ==
    /\ At(r) = "bootstrap" /\ BootFree
    /\ boot' = r
    /\ Goto(r, "admit")
    /\ UNCHANGED <<tables, grantLock, memberLock, crowned>>

\* The user is the only one, itself not yet committed, and nobody is an admin.
IsFirst(u) == Admins = {} /\ users \subseteq {u}

\* Counted under the lock: does the user become Platform Admin?
Admit(r) ==
    LET k == Key(r)
    IN  /\ At(r) = "admit"
        /\ Becomes(r, [request[r] EXCEPT
                         !.first = IsFirst(k[1]),
                         !.at = IF ~ Granted(k) /\ (k[1] \in Legacy \/ IsFirst(k[1]))
                                THEN "upsert" ELSE "enter"])
        /\ UNCHANGED <<tables, locks, crowned>>

\* The user, admin already or not to become one, is committed.
Enter(r) ==
    /\ At(r) = "enter"
    /\ users' = users \cup {Key(r)[1]}
    /\ End(r)
    /\ UNCHANGED <<grants, members, crowned>>

-----------------------------------------------------------------------------
(* Put, Bulk and PutMembership: for each workspace the grant row, then the *)
(* membership row.                                                         *)

Assign(r, ks, role) ==
    /\ At(r) = "idle"
    /\ ks # <<>> /\ \A i \in DOMAIN ks : ks[i][1] \in users /\ Administered(ks[i][2])
    /\ Becomes(r, [Idle EXCEPT !.at = "upsert", !.keys = ks, !.role = role])
    /\ UNCHANGED <<tables, locks, crowned>>

Put(r, u, s) == \E role \in Roles :
    /\ s = Platform => role = "admin"
    /\ Assign(r, << <<u, s>> >>, role)

\* The chosen workspaces, which may be all, in one transaction and in the order
\* they are listed.
Bulk(r, u) == \E role \in Roles, n \in DOMAIN Listed : \E place \in [1 .. n -> DOMAIN Listed] :
    /\ Admins # {}
    /\ \A i, j \in 1 .. n : i < j => place[i] < place[j]
    /\ Assign(r, [i \in 1 .. n |-> <<u, Listed[place[i]]>>], role)

\* What follows the statements for one key.
Advance(r, f) ==
    LET rest == Tail(f.keys)
    IN  Becomes(r, [f EXCEPT !.keys = IF rest = <<>> THEN f.keys ELSE rest,
                             !.at = IF rest = <<>> THEN "commit" ELSE "upsert"])

UpsertGrant(r) ==
    LET k == Key(r)
        f == [request[r] EXCEPT !.wrote = @ \cup {k}]
    IN  /\ At(r) = "upsert"
        /\ Free(grantLock, k, r)
        /\ grantLock' = Take(grantLock, k, r)
        /\ IF k[2] = Platform THEN Advance(r, f) ELSE Becomes(r, [f EXCEPT !.at = "member"])
        /\ UNCHANGED <<tables, boot, memberLock, crowned>>

UpsertMember(r) ==
    LET k == Key(r)
    IN  /\ At(r) = "member"
        /\ Free(memberLock, k, r)
        /\ memberLock' = Take(memberLock, k, r)
        /\ Advance(r, request[r])
        /\ UNCHANGED <<tables, boot, grantLock, crowned>>

Commit(r) ==
    LET wrote == request[r].wrote
    IN  /\ At(r) = "commit"
        /\ grants' = [k \in Keys |-> IF k \in wrote THEN request[r].role ELSE grants[k]]
        /\ members' = [k \in Members |-> IF k \in wrote THEN request[r].role ELSE members[k]]
        /\ users' = users \cup {k[1] : k \in wrote}
        /\ crowned' = IF request[r].first THEN crowned \cup {k[1] : k \in wrote} ELSE crowned
        /\ End(r)

-----------------------------------------------------------------------------
(* Delete and DeleteMembership: the membership row, then the grant row.    *)

\* Delete reads the grant to learn its scope.
Delete(r, k) ==
    /\ At(r) = "idle"
    /\ Granted(k) /\ Administered(k[2])
    /\ Becomes(r, [Idle EXCEPT !.keys = <<k>>, !.id = "live",
                              !.at = IF k[2] = Platform THEN "lock" ELSE "find"])
    /\ UNCHANGED <<tables, locks, crowned>>

DeleteMembership(r, k) ==
    /\ At(r) = "idle"
    /\ k \in Members /\ Administered(k[2])
    /\ Becomes(r, [Idle EXCEPT !.keys = <<k>>, !.at = "drop"])
    /\ UNCHANGED <<tables, locks, crowned>>

\* CountPlatformAdmins, under the lock.
OthersRemain == Cardinality(Admins) > 1

LockPlatform(r) ==
    /\ At(r) = "lock" /\ BootFree
    /\ boot' = r
    /\ Goto(r, "count")
    /\ UNCHANGED <<tables, grantLock, memberLock, crowned>>

Count(r) ==
    /\ At(r) = "count"
    /\ IF OthersRemain THEN Goto(r, "find") /\ UNCHANGED <<tables, locks, crowned>> ELSE Rollback(r)

\* DeleteAccessGrant reads the grant again, which may be gone; one with the
\* same key may have come since, under another id.
Find(r) ==
    /\ At(r) = "find"
    /\ IF request[r].id = "gone"
       THEN Rollback(r)
       ELSE Goto(r, IF Key(r)[2] = Platform THEN "take" ELSE "drop") /\ UNCHANGED <<tables, locks, crowned>>

\* A row that is not there, or not committed yet, is not waited for.
DropMember(r) ==
    LET k == Key(r)
    IN  /\ At(r) = "drop"
        /\ IF members[k] = "none"
           THEN Goto(r, "take") /\ UNCHANGED memberLock
           ELSE /\ Free(memberLock, k, r)
                /\ memberLock' = Take(memberLock, k, r)
                /\ Becomes(r, [request[r] EXCEPT !.at = "take", !.dropped = {k}])
        /\ UNCHANGED <<tables, boot, grantLock, crowned>>

\* mutant: a delete that finds no row is good enough
KeepGoing(r) == Becomes(r, [request[r] EXCEPT !.at = "erase"]) /\ UNCHANGED <<tables, locks, crowned>>

NotFound(r) == Rollback(r)

TakeGrant(r) ==
    LET k == Key(r)
    IN  /\ At(r) = "take"
        /\ IF Granted(k) /\ request[r].id # "gone"
           THEN /\ Free(grantLock, k, r)
                /\ grantLock' = Take(grantLock, k, r)
                /\ Becomes(r, [request[r] EXCEPT !.at = "erase", !.wrote = {k}])
                /\ UNCHANGED <<tables, boot, memberLock, crowned>>
           ELSE NotFound(r)

\* Who has read one of these grants by its id will not find it again.
Forget(r) ==
    request' = [q \in Requests |->
        IF q = r THEN Idle
        ELSE IF request[q].id = "live" /\ Key(q) \in request[r].wrote
        THEN [request[q] EXCEPT !.id = "gone"]
        ELSE request[q]]

Erase(r) ==
    LET wrote == request[r].wrote
    IN  /\ At(r) = "erase"
        /\ grants' = [k \in Keys |-> IF k \in wrote THEN "none" ELSE grants[k]]
        /\ members' = [k \in Members |-> IF k \in request[r].dropped THEN "none" ELSE members[k]]
        /\ Forget(r) /\ Unlock(r)
        /\ UNCHANGED <<users, crowned>>

-----------------------------------------------------------------------------
(* Any statement may fail: assignments lock the grant before the           *)
(* membership, removals the other way round, and of two that wait for each *)
(* other PostgreSQL ends one.                                              *)

Fail(r) == At(r) \notin {"idle", "join"} /\ Rollback(r)

-----------------------------------------------------------------------------
Step(r) ==
    \/ Join(r) \/ LockBootstrap(r) \/ Admit(r) \/ Enter(r)
    \/ UpsertGrant(r) \/ UpsertMember(r) \/ Commit(r)
    \/ LockPlatform(r) \/ Count(r) \/ Find(r)
    \/ DropMember(r) \/ TakeGrant(r) \/ Erase(r)

Begin(r) ==
    \/ \E u \in Users : Resolve(r, u) \/ Bulk(r, u)
    \/ \E u \in Users, s \in Scopes : Put(r, u, s)
    \/ \E k \in Keys : Delete(r, k)
    \/ \E k \in Members : DeleteMembership(r, k)

Init ==
    /\ users = {}
    /\ grants = [k \in Keys |-> "none"]
    /\ members = [k \in Members |-> "none"]
    /\ boot = Nobody
    /\ grantLock = [k \in Keys |-> Nobody]
    /\ memberLock = [k \in Members |-> Nobody]
    /\ request = [r \in Requests |-> Idle]
    /\ crowned = {}

Next == \E r \in Requests : Begin(r) \/ Step(r) \/ Fail(r)

Spec == Init /\ [][Next]_vars

-----------------------------------------------------------------------------
(* Properties.                                                             *)

RequestRecords ==
    [at : {"idle", "join", "bootstrap", "admit", "enter", "upsert", "member", "commit",
           "lock", "count", "find", "drop", "take", "erase"},
     keys : Seq(Keys), role : Roles \cup {"none"}, id : {"none", "live", "gone"},
     wrote : SUBSET Keys, dropped : SUBSET Members, first : BOOLEAN]

\* Every variable has its type, and a lock is held by a request under way that
\* wrote the row.
TypeOK ==
    /\ users \subseteq Users /\ crowned \subseteq users
    /\ grants \in [Keys -> Roles \cup {"none"}]
    /\ members \in [Members -> Roles \cup {"none"}]
    /\ request \in [Requests -> RequestRecords]
    /\ boot = Nobody \/ At(boot) \in {"admit", "enter", "upsert", "commit", "count", "find", "take", "erase"}
    /\ \A k \in Keys : grantLock[k] = Nobody \/ k \in request[grantLock[k]].wrote
    /\ \A k \in Members : memberLock[k] = Nobody \/ At(memberLock[k]) # "idle"

\* The installation never loses its last Platform Admin, even when the admins
\* remove each other at the same time.
LastAdminStays == [][Admins # {} => Admins' # {}]_vars

\* However many people come first at once, the bootstrap makes at most one of
\* them Platform Admin for being the first.
OneBootstrapAdmin == Cardinality(crowned) <= 1

\* workspace_memberships is a projection of the grants: every workspace grant
\* has its membership, with the same role, however assignments and removals of
\* the same user interleave.  (The converse does not hold: see the README.)
GrantsHaveMembers == \A k \in Members : Granted(k) => members[k] = grants[k]
=============================================================================
