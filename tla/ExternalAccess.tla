--------------------------- MODULE ExternalAccess ---------------------------
(***************************************************************************)
(* One user whose roles come from the identity provider: the cookie        *)
(* sessions auth.SessionManager keeps for the user's browsers, their       *)
(* refresh at the provider, and the preparation of the current user        *)
(* (access_control.resolveExternalActor), which maps the roles of an       *)
(* access token to the stored grants before a request may go on.           *)
(*                                                                         *)
(* Requests and login callbacks run concurrently, each on PostgreSQL       *)
(* connections of its own; a callback is named by the session it creates.  *)
(* A token is named by its place in the order of issue.  The provider      *)
(* rotates refresh tokens: the answer to a refresh brings an access token  *)
(* and the refresh token that belongs to it, and ends the one before, so   *)
(* that one number stands for both.  Issue times have the resolution of a  *)
(* second: several tokens may share one.                                   *)
(***************************************************************************)
EXTENDS Naturals, Sequences

CONSTANTS
    Sessions,       \* cookie sessions, and the callbacks that create them
    Requests,       \* requests to protected routes
    Roles,          \* what the provider may say of the user
    Bearer,         \* via: an access token in the header, no cookie
    Nobody,         \* no lock holder
    MaxTokens       \* bound on the tokens the provider issues

Actors == Sessions \cup Requests
Tokens == 1 .. MaxTokens

ASSUME AccessAssumption ==
    /\ Sessions \cap Requests = {}
    /\ Bearer \notin Sessions
    /\ Nobody \notin Actors
    /\ Roles # {}
    /\ MaxTokens \in Nat

VARIABLES
    issued,         \* provider: the access tokens so far
    valid,          \* provider: the refresh token a login accepts, or 0
    row,            \* configurator_auth_sessions
    lock,           \* row locks on it
    applied,        \* external_access_states and access_grants of the user
    userLock,       \* the lock on the user's service_users row
    actor,          \* a request or callback: see ActorRecords
    logout,         \* session: the token a logout carries to the provider
    told,           \* observer: sessions whose logout reached the provider
    ended,          \* observer: sessions that were logged out
    trouble         \* observer: sessions with a refresh that failed half-way

providerVars == <<issued, valid>>
observers    == <<told, ended, trouble>>
vars == <<providerVars, row, lock, applied, userLock, actor, logout, observers>>

Iat(t)    == issued[t].iat
RoleOf(t) == issued[t].role

\* at: the next step; via: the session whose cookie is used; token: the token
\* held; stale: the one refused as stale, or 0; seen: applied, as read.
Fresh(a) == [at |-> "new", via |-> IF a \in Sessions THEN a ELSE Bearer,
             token |-> 0, stale |-> 0, seen |-> 0]

At(a)    == actor[a].at
Via(a)   == actor[a].via
Token(a) == actor[a].token
Seen(a)  == actor[a].seen

NoRow == [status |-> "none", token |-> 0, due |-> FALSE]

-----------------------------------------------------------------------------
(* The provider.                                                           *)

LastIat == IF issued = <<>> THEN 0 ELSE Iat(Len(issued))

\* The next token, of this second or of the one after, with the roles of the day.
Issue(to) ==
    /\ Len(issued) < MaxTokens
    /\ \E iat \in {LastIat, LastIat + 1}, role \in Roles :
          issued' = Append(issued, [iat |-> iat, role |-> role, to |-> to])

\* A client that uses the API without a cookie obtains a token of its own.
IssueBearer ==
    /\ Issue(Bearer)
    /\ UNCHANGED <<valid, row, lock, applied, userLock, actor, logout, observers>>

-----------------------------------------------------------------------------
(* The session row.                                                        *)

\* sessionSelect: not revoked, not expired.
Live(s) == row[s].status = "live"

\* The rows Revoke and refresh update: not revoked.
Unrevoked(s) == row[s].status \in {"live", "expired"}

\* mutant: the refresh does not lock the row it read
NoRowLock(s) == TRUE

RowFree(s) == lock[s] = Nobody

Unlock(a) == lock' = [lock EXCEPT ![Via(a)] = Nobody]

Becomes(a, f)  == actor' = [actor EXCEPT ![a] = f]
Goto(a, step)  == Becomes(a, [actor[a] EXCEPT !.at = step])

\* A callback that fails takes its session back, a request is answered 401 or 403.
Refused(a) ==
    [Fresh(a) EXCEPT !.at = IF a \in Sessions THEN "undo" ELSE "denied"]

Refuse(a) == Becomes(a, Refused(a))

\* Resolve, without a lock.
Read(a, s) ==
    Becomes(a, IF Live(s)
               THEN [actor[a] EXCEPT !.at = IF row[s].due THEN "wait" ELSE "apply",
                                     !.via = s, !.token = row[s].token]
               ELSE Refused(a))

\* Complete: the code is exchanged for the first tokens and the row is stored;
\* the callback goes on as a request of the new session.
Complete(s) ==
    /\ At(s) = "new"
    /\ Issue(s)
    /\ valid' = [valid EXCEPT ![s] = Len(issued')]
    /\ row' = [row EXCEPT ![s] = [status |-> "live", token |-> Len(issued'), due |-> FALSE]]
    /\ Goto(s, "read")
    /\ UNCHANGED <<lock, applied, userLock, logout, observers>>

CallbackReads(s) ==
    /\ At(s) = "read"
    /\ Read(s, s)
    /\ UNCHANGED <<providerVars, row, lock, applied, userLock, logout, observers>>

\* The browser has the cookie as soon as the callback succeeded.
Begin(r, s) ==
    /\ At(r) = "new" /\ At(s) = "served"
    /\ Read(r, s)
    /\ UNCHANGED <<providerVars, row, lock, applied, userLock, logout, observers>>

BeginBearer(r, t) ==
    /\ At(r) = "new"
    /\ t \in DOMAIN issued /\ issued[t].to = Bearer
    /\ Becomes(r, [actor[r] EXCEPT !.at = "apply", !.token = t])
    /\ UNCHANGED <<providerVars, row, lock, applied, userLock, logout, observers>>

\* The identity or the access token is about to expire.
FallDue(s) ==
    /\ Unrevoked(s) /\ ~ row[s].due
    /\ row' = [row EXCEPT ![s].due = TRUE]
    /\ UNCHANGED <<providerVars, lock, applied, userLock, actor, logout, observers>>

\* SESSION_TTL passes.
Expire(s) ==
    /\ Live(s)
    /\ row' = [row EXCEPT ![s].status = "expired"]
    /\ UNCHANGED <<providerVars, lock, applied, userLock, actor, logout, observers>>

Cleanup(s) ==
    /\ row[s].status \in {"expired", "revoked"} /\ lock[s] = Nobody
    /\ row' = [row EXCEPT ![s] = NoRow]
    /\ UNCHANGED <<providerVars, lock, applied, userLock, actor, logout, observers>>

-----------------------------------------------------------------------------
(* resolveWithRefresh: one transaction that holds the row lock, the call   *)
(* to the provider included.                                               *)

\* Another request may have refreshed the session while this one waited.
MustRefresh(a) == row[Via(a)].due \/ row[Via(a)].token = actor[a].stale

Lock(a) ==
    LET s == Via(a)
        locked == [actor[a] EXCEPT !.token = row[s].token]
    IN  /\ At(a) = "wait" /\ RowFree(s)
        /\ IF Live(s) /\ MustRefresh(a)
           THEN Becomes(a, [locked EXCEPT !.at = "refresh"]) /\ lock' = [lock EXCEPT ![s] = a]
           ELSE Becomes(a, IF Live(s) THEN [locked EXCEPT !.at = "apply"] ELSE Refused(a))
                /\ UNCHANGED lock
        /\ UNCHANGED <<providerVars, row, applied, userLock, logout, observers>>

Refreshed(a) ==
    LET s == Via(a)
    IN  /\ At(a) = "refresh"
        /\ Token(a) = valid[s]
        /\ Issue(s)
        /\ valid' = [valid EXCEPT ![s] = Len(issued')]
        /\ Becomes(a, [actor[a] EXCEPT !.at = "store", !.token = Len(issued')])
        /\ UNCHANGED <<row, lock, applied, userLock, logout, observers>>

\* The provider refuses a refresh token it does not know any more.
RefreshRefused(a) ==
    /\ At(a) = "refresh"
    /\ Token(a) # valid[Via(a)]
    /\ Goto(a, "revoke")
    /\ UNCHANGED <<providerVars, row, lock, applied, userLock, logout, observers>>

\* The call fails, or its answer is lost or not accepted: then the provider has
\* rotated the token all the same.
RefreshFails(a) ==
    /\ At(a) = "refresh"
    /\ valid' \in {valid, [valid EXCEPT ![Via(a)] = 0]}
    /\ Goto(a, "revoke")
    /\ trouble' = trouble \cup {Via(a)}
    /\ UNCHANGED <<issued, row, lock, applied, userLock, logout, told, ended>>

Store(a) ==
    LET s == Via(a)
    IN  /\ At(a) = "store"
        /\ row' = IF Unrevoked(s)
                  THEN [row EXCEPT ![s].token = Token(a), ![s].due = FALSE] ELSE row
        /\ Unlock(a)
        /\ Goto(a, "apply")
        /\ UNCHANGED <<providerVars, applied, userLock, logout, observers>>

\* The update or its COMMIT fails: the row keeps a token that is spent.
StoreFails(a) ==
    /\ At(a) = "store"
    /\ Unlock(a)
    /\ Refuse(a)
    /\ trouble' = trouble \cup {Via(a)}
    /\ UNCHANGED <<providerVars, row, applied, userLock, logout, told, ended>>

\* The failed refresh revokes the session, unless that fails as well (the
\* request was cancelled).
RevokeRow(a) ==
    /\ At(a) = "revoke"
    /\ row' \in {row, [row EXCEPT ![Via(a)].status = "revoked"]}
    /\ Unlock(a)
    /\ Refuse(a)
    /\ UNCHANGED <<providerVars, applied, userLock, logout, observers>>

-----------------------------------------------------------------------------
(* resolveExternalActor: one transaction that holds the user's row.        *)

\* mutant: the watermark is read before the user's row is locked
NoUserLock == TRUE

UserFree == userLock = Nobody

Prepare(a) ==
    /\ At(a) = "apply" /\ UserFree
    /\ userLock' = a
    /\ Becomes(a, [actor[a] EXCEPT !.at = "decide", !.seen = applied])
    /\ UNCHANGED <<providerVars, row, lock, applied, logout, observers>>

\* The token has expired, a workspace is unknown or inactive, the database fails.
PrepareFails(a) ==
    /\ At(a) = "apply"
    /\ Refuse(a)
    /\ UNCHANGED <<providerVars, row, lock, applied, userLock, logout, observers>>

Stale(a) == Seen(a) # 0 /\ Iat(Token(a)) < Iat(Seen(a))

SameSecond(a) == Seen(a) # 0 /\ Iat(Token(a)) = Iat(Seen(a))

\* mutant: tokens of one second may disagree
NeverAmbiguous(a) == FALSE

Ambiguous(a) == SameSecond(a) /\ RoleOf(Token(a)) # RoleOf(Seen(a))

Decides(a) == At(a) = "decide" /\ userLock' = Nobody

\* mutant: a bearer token is refreshed as well
RetriesBearer(a) == a \in Requests /\ actor[a].stale = 0

\* The middleware refreshes a cookie session once and tries again.
Retries(a) == a \in Requests /\ Via(a) # Bearer /\ actor[a].stale = 0

FindStale(a) ==
    /\ Decides(a) /\ Stale(a)
    /\ Becomes(a, IF Retries(a)
                  THEN [actor[a] EXCEPT !.at = "wait", !.stale = Token(a), !.seen = 0]
                  ELSE Refused(a))
    /\ UNCHANGED <<providerVars, row, lock, applied, logout, observers>>

FindAmbiguous(a) ==
    /\ Decides(a) /\ Ambiguous(a)
    /\ Refuse(a)
    /\ UNCHANGED <<providerVars, row, lock, applied, logout, observers>>

\* ReplaceExternalAccess, unless the same assignments are stored already.
Serve(a) ==
    /\ Decides(a) /\ ~ Stale(a) /\ ~ Ambiguous(a)
    /\ applied' = IF SameSecond(a) THEN applied ELSE Token(a)
    /\ Becomes(a, [Fresh(a) EXCEPT !.at = "served", !.token = Token(a)])
    /\ UNCHANGED <<providerVars, row, lock, logout, observers>>

-----------------------------------------------------------------------------
(* Logout, and the callback that takes its session back.                   *)

\* Revoke returns the refresh token the row had when its lock was free.
Revoke(s) ==
    /\ RowFree(s)
    /\ IF Unrevoked(s)
       THEN /\ row' = [row EXCEPT ![s].status = "revoked"]
            /\ logout' = [logout EXCEPT ![s] = row[s].token]
            /\ ended' = ended \cup {s}
       ELSE UNCHANGED <<row, logout, ended>>
    /\ UNCHANGED <<providerVars, lock, applied, userLock, told, trouble>>

Undo(s) ==
    /\ At(s) = "undo"
    /\ Revoke(s)
    /\ Goto(s, "denied")

Logout(s) ==
    /\ At(s) = "served" /\ Unrevoked(s)
    /\ Revoke(s)
    /\ UNCHANGED actor

\* adapter.Logout: the provider ends the login this token belongs to.
TellProvider(s) ==
    /\ logout[s] # 0
    /\ valid' = [valid EXCEPT ![s] = IF @ = logout[s] THEN 0 ELSE @]
    /\ logout' = [logout EXCEPT ![s] = 0]
    /\ told' = told \cup {s}
    /\ UNCHANGED <<issued, row, lock, applied, userLock, actor, ended, trouble>>

-----------------------------------------------------------------------------
InFlight == {a \in Actors : At(a) \notin {"new", "served", "denied"}}

\* The process dies: requests are lost, their transactions roll back.
Crash ==
    /\ InFlight # {}
    /\ actor' = [a \in Actors |->
                    IF a \in InFlight THEN [Fresh(a) EXCEPT !.at = "denied"] ELSE actor[a]]
    /\ lock' = [s \in Sessions |-> Nobody]
    /\ userLock' = Nobody
    /\ logout' = [s \in Sessions |-> 0]
    /\ trouble' = trouble \cup {Via(a) : a \in {b \in Actors : At(b) = "store"}}
    /\ UNCHANGED <<providerVars, row, applied, told, ended>>

Init ==
    /\ issued = <<>>
    /\ valid = [s \in Sessions |-> 0]
    /\ row = [s \in Sessions |-> NoRow]
    /\ lock = [s \in Sessions |-> Nobody]
    /\ applied = 0
    /\ userLock = Nobody
    /\ actor = [a \in Actors |-> Fresh(a)]
    /\ logout = [s \in Sessions |-> 0]
    /\ told = {} /\ ended = {} /\ trouble = {}

\* A step of an actor that has begun.
ActorStep(a) ==
    \/ Lock(a) \/ Refreshed(a) \/ RefreshRefused(a) \/ RefreshFails(a)
    \/ Store(a) \/ StoreFails(a) \/ RevokeRow(a)
    \/ Prepare(a) \/ PrepareFails(a)
    \/ FindStale(a) \/ FindAmbiguous(a) \/ Serve(a)

CallbackStep(s) == CallbackReads(s) \/ Undo(s)

Next ==
    \/ IssueBearer
    \/ \E a \in Actors : ActorStep(a)
    \/ \E r \in Requests, s \in Sessions : Begin(r, s)
    \/ \E r \in Requests, t \in Tokens : BeginBearer(r, t)
    \/ \E s \in Sessions :
          \/ Complete(s) \/ CallbackStep(s)
          \/ FallDue(s) \/ Expire(s) \/ Cleanup(s)
          \/ Logout(s) \/ TellProvider(s)
    \/ Crash

Spec == Init /\ [][Next]_vars

-----------------------------------------------------------------------------
(* Properties.                                                             *)

Steps == {"new", "read", "wait", "refresh", "store", "revoke", "apply", "decide",
          "undo", "served", "denied"}

Issued == 0 .. Len(issued)

ActorRecords == [at : Steps, via : Sessions \cup {Bearer},
                 token : Issued, stale : Issued, seen : Issued]

\* The steps of resolveWithRefresh.
Refreshing == {"wait", "refresh", "store", "revoke"}

\* Every variable has its type, what is named has been issued, and only a cookie
\* session is ever refreshed.
TypeOK ==
    /\ issued \in Seq([iat : Nat, role : Roles, to : Sessions \cup {Bearer}])
    /\ Len(issued) <= MaxTokens
    /\ valid \in [Sessions -> Issued]
    /\ row \in [Sessions -> [status : {"none", "live", "expired", "revoked"},
                             token : Issued, due : BOOLEAN]]
    /\ lock \in [Sessions -> Actors \cup {Nobody}]
    /\ applied \in Issued
    /\ userLock \in Actors \cup {Nobody}
    /\ actor \in [Actors -> ActorRecords]
    /\ \A a \in Actors : At(a) \in Refreshing => Via(a) \in Sessions
    /\ logout \in [Sessions -> Issued]
    /\ told \subseteq Sessions /\ ended \subseteq Sessions /\ trouble \subseteq Sessions

\* Requests of one browser never spend its refresh token twice: a session is
\* revoked only because it was logged out or because the provider or the
\* database failed in the middle of a refresh.
RevokedForCause ==
    \A s \in Sessions : row[s].status = "revoked" => s \in ended \cup trouble

\* A logout that reached the provider ended the login there, although requests
\* of the session were rotating its refresh token at the same time.
LogoutEndsLogin ==
    \A s \in told \ trouble : valid[s] = 0

\* The stored grants are those of the newest token any request was served with,
\* in whatever order tokens of different sessions and clients were delivered;
\* of the tokens of one second only those that agree are served.
NewestTokenWins ==
    \A a \in Actors : At(a) = "served" =>
        /\ applied # 0
        /\ \/ Iat(Token(a)) < Iat(applied)
           \/ Iat(Token(a)) = Iat(applied) /\ RoleOf(Token(a)) = RoleOf(applied)

\* The same promise as an abstract specification: requests that wait for locks,
\* refresh, retry, fail and die behave like a register that each of them
\* reads and writes in one step.
Outcome == [a \in Actors |-> IF At(a) = "served" THEN Token(a) ELSE 0]

Register == INSTANCE NewestToken
                WITH Clients <- Sessions \cup {Bearer},
                     current <- applied, outcome <- Outcome

ImplementsRegister == Register!Spec
=============================================================================
