---------------------------- MODULE MockSessions ----------------------------
(***************************************************************************)
(* mock_data.UseCase: streaming sessions of the mock generator.  The       *)
(* backend keeps a public session per upstream session, admits a bounded   *)
(* number of them in all and per actor, ends them when their lease runs    *)
(* out, and stops the upstream session in a goroutine of its own while the *)
(* place it took stays reserved.                                           *)
(*                                                                         *)
(* A session is named by the Create request that makes it.  Clients call   *)
(* Get, KeepAlive, Stop and Subscribe on any session they own, one call at *)
(* a time; every critical section (UseCase.mu or session.mu) is one step,  *)
(* every gateway call lies between two steps.                              *)
(***************************************************************************)
EXTENDS Integers, FiniteSets, Functions

CONSTANTS
    Creates,        \* Create requests, and the sessions they make
    Clients,        \* callers of the other operations
    Owners,         \* MockOwner: actor and workspace
    Owner,          \* [Creates -> Owners]
    Actor,          \* [Owners -> actor]: MockOwner.ActorID
    Nothing,        \* no session
    MaxSessions,    \* Config.Sessions
    MaxPerOwner     \* Config.PerOwner

Reapers == {"ticker", "close"}

ASSUME MockAssumption ==
    /\ Nothing \notin Creates
    /\ Owner \in [Creates -> Owners]
    /\ MaxSessions \in Nat /\ MaxPerOwner \in Nat

VARIABLES
    create,         \* Create: where the request is
    listed,         \* UseCase.sessions
    pending,        \* UseCase.pending
    cancelled,      \* sessions whose context is done
    finished,       \* sessions whose once has run
    stopping,       \* sessions whose upstream Stop is running
    expired,        \* sessions whose lease has run out
    subscribed,     \* session.subscribed
    client,         \* client: [step, session]
    sweep,          \* reaper: the sessions it still looks at
    doomed,         \* reaper: the session it is about to finish
    shutdown        \* Close: "no", "cancelled", "swept"

sessionVars == <<listed, pending, cancelled, finished, stopping>>
leaseVars   == <<expired, subscribed>>
reaperVars  == <<sweep, doomed>>
vars == <<create, sessionVars, leaseVars, client, reaperVars, shutdown>>

-----------------------------------------------------------------------------
(* Admission and the end of a session.                                     *)

\* The keys of UseCase.pending: an entry that falls to zero is deleted.
Holders == {o \in Owners : pending[o] # 0}

TotalPending == SumFunctionOnSet(pending, Holders)
PendingOf(a) == SumFunctionOnSet(pending, {o \in Holders : Actor[o] = a})

\* mutant: creations and cleanups that are under way are not counted
AdmitsListed(c) ==
    /\ Cardinality(listed) < MaxSessions
    /\ Cardinality({s \in listed : Actor[Owner[s]] = Actor[Owner[c]]}) < MaxPerOwner

Admits(c) ==
    LET a == Actor[Owner[c]]
    IN  /\ Cardinality(listed) + TotalPending < MaxSessions
        /\ Cardinality({s \in listed : Actor[Owner[s]] = a}) + PendingOf(a) < MaxPerOwner

Reserve(o) == [pending EXCEPT ![o] = @ + 1]

Return(o) == [pending EXCEPT ![o] = @ - 1]

\* mutant: the place is free as soon as the session is unlisted
FreeAtOnce(s) == pending

KeepReserved(s) == Reserve(Owner[s])

Finish(s) ==
    IF s \in finished
    THEN UNCHANGED sessionVars
    ELSE /\ finished'  = finished \cup {s}
         /\ cancelled' = cancelled \cup {s}
         /\ listed'    = listed \ {s}
         /\ pending'   = KeepReserved(s)
         /\ stopping'  = stopping \cup {s}

\* The cleanup goroutine: Stop answered, failed, or WriteTimeout passed.
StopEnds(s) ==
    /\ s \in stopping
    /\ stopping' = stopping \ {s}
    /\ pending'  = Return(Owner[s])
    /\ UNCHANGED <<create, listed, cancelled, finished, leaseVars, client,
                   reaperVars, shutdown>>

-----------------------------------------------------------------------------
(* Create.                                                                 *)

Admit(c) ==
    /\ create[c] = "new"
    /\ shutdown = "no"
    /\ Admits(c)
    /\ create'  = [create EXCEPT ![c] = "calling"]
    /\ pending' = Reserve(Owner[c])
    /\ UNCHANGED <<listed, cancelled, finished, stopping, leaseVars, client,
                   reaperVars, shutdown>>

\* stream.limit_exceeded, or the backend is shutting down.
Refuse(c) ==
    /\ create[c] = "new"
    /\ ~ Admits(c) \/ shutdown # "no"
    /\ create' = [create EXCEPT ![c] = "refused"]
    /\ UNCHANGED <<sessionVars, leaseVars, client, reaperVars, shutdown>>

GatewayAnswers(c) ==
    /\ create[c] = "calling"
    /\ \E outcome \in {"answered", "failed"} : create' = [create EXCEPT ![c] = outcome]
    /\ UNCHANGED <<sessionVars, leaseVars, client, reaperVars, shutdown>>

\* mutant: the session is listed although the backend is shutting down
AlwaysOpen == TRUE

Open == shutdown = "no"

\* A session's context is a child of the use case's: it is done from the start
\* when the use case was closed.
BornCancelled(c) == IF shutdown = "no" THEN cancelled ELSE cancelled \cup {c}

List(c) ==
    /\ create[c] = "answered"
    /\ Open
    /\ create'    = [create EXCEPT ![c] = "listed"]
    /\ listed'    = listed \cup {c}
    /\ cancelled' = BornCancelled(c)
    /\ UNCHANGED <<pending, finished, stopping, leaseVars, client, reaperVars, shutdown>>

\* mutant: the upstream session of a cancelled Create is left to itself
Forget(c) == UNCHANGED sessionVars

Discard(c) == Finish(c)

\* The client went away, or Close ran: the session is never listed.
Orphan(c) ==
    /\ create[c] = "answered"
    /\ create' = [create EXCEPT ![c] = "orphaned"]
    /\ Discard(c)
    /\ UNCHANGED <<leaseVars, client, reaperVars, shutdown>>

\* The deferred return of the reservation.
CreateReturns(c) ==
    /\ create[c] \in {"failed", "listed", "orphaned"}
    /\ create'  = [create EXCEPT ![c] =
                      CASE @ = "failed" -> "refused" [] @ = "listed" -> "served"
                        [] @ = "orphaned" -> "dropped"]
    /\ pending' = Return(Owner[c])
    /\ UNCHANGED <<listed, cancelled, finished, stopping, leaseVars, client,
                   reaperVars, shutdown>>

-----------------------------------------------------------------------------
(* Operations on a session.                                                *)

Idle == [step |-> "idle", session |-> Nothing]

Becomes(k, step) == client' = [client EXCEPT ![k].step = step]
Ends(k)          == client' = [client EXCEPT ![k] = Idle]

Dead(s) == s \in cancelled \/ s \in expired

\* find: a dead session is finished, in a later step.
Find(k, s) ==
    /\ client[k].step = "idle"
    /\ s \in listed
    /\ client' = [client EXCEPT ![k] =
                     [step |-> IF Dead(s) THEN "ending" ELSE "found", session |-> s]]
    /\ UNCHANGED <<create, sessionVars, leaseVars, reaperVars, shutdown>>

\* finish: an expired session, Stop, a Get that upstream answers with 404, a
\* failed subscription, the end of a stream.
EndSession(k) ==
    /\ client[k].step \in {"ending", "found"}
    /\ Finish(client[k].session)
    /\ Ends(k)
    /\ UNCHANGED <<create, leaseVars, reaperVars, shutdown>>

\* Get and Update otherwise, and every operation that upstream fails.
Leave(k) ==
    /\ client[k].step = "found"
    /\ Ends(k)
    /\ UNCHANGED <<create, sessionVars, leaseVars, reaperVars, shutdown>>

\* KeepAlive after the gateway's answer.
Renew(k) ==
    LET s == client[k].session
    IN  /\ client[k].step = "found"
        /\ IF Dead(s) \/ s \notin subscribed
           THEN /\ Becomes(k, "ending")
                /\ UNCHANGED expired
           ELSE /\ Ends(k)
                /\ expired' = expired \ {s}
        /\ UNCHANGED <<create, sessionVars, subscribed, reaperVars, shutdown>>

HasSubscriber(s) == s \in subscribed

Subscribe(k) ==
    LET s == client[k].session
    IN  /\ client[k].step = "found"
        /\ ~ HasSubscriber(s)
        /\ ~ Dead(s)
        /\ Becomes(k, "dialing")
        /\ subscribed' = subscribed \cup {s}
        /\ UNCHANGED <<create, sessionVars, expired, reaperVars, shutdown>>

\* The gateway accepts the subscription: the lease starts anew, whatever
\* became of the session meanwhile.
Stream(k) ==
    /\ client[k].step = "dialing"
    /\ Becomes(k, "streaming")
    /\ expired' = expired \ {client[k].session}
    /\ UNCHANGED <<create, sessionVars, subscribed, reaperVars, shutdown>>

\* mutant: a stream does not hear of the end of its session
NeverTold(k) == FALSE

\* context.AfterFunc: the end of the session cancels the subscription.
Told(k) == client[k].session \in cancelled

\* The subscription failed, or the stream ends and is closed: because the
\* client or upstream ended it, or because the session was cancelled.
StreamBreaks(k) ==
    /\ client[k].step \in {"dialing", "streaming"}
    /\ Becomes(k, "ending")
    /\ UNCHANGED <<create, sessionVars, leaseVars, reaperVars, shutdown>>

StreamCancelled(k) ==
    /\ client[k].step \in {"dialing", "streaming"}
    /\ Told(k)
    /\ Becomes(k, "ending")
    /\ UNCHANGED <<create, sessionVars, leaseVars, reaperVars, shutdown>>

-----------------------------------------------------------------------------
(* Time, the reaper and Close.                                             *)

LeaseEnds(s) ==
    /\ s \in listed \ expired
    /\ expired' = expired \cup {s}
    /\ UNCHANGED <<create, sessionVars, subscribed, client, reaperVars, shutdown>>

\* mutant: the reaper passes over sessions that nobody subscribed to
SubscribedOnly == listed \cap subscribed

Collected == listed

\* reap copies the sessions under the lock.
Sweep(r) ==
    /\ sweep[r] = {} /\ doomed[r] = Nothing
    /\ \/ r = "ticker" /\ Collected # {} /\ UNCHANGED shutdown
       \/ r = "close" /\ shutdown = "cancelled" /\ shutdown' = "sweeping"
    /\ sweep' = [sweep EXCEPT ![r] = Collected]
    /\ UNCHANGED <<create, sessionVars, leaseVars, client, doomed>>

\* Under session.mu: an expired session is cancelled, so that nobody renews it.
Inspect(r, s) ==
    /\ s \in sweep[r] /\ doomed[r] = Nothing
    /\ sweep' = [sweep EXCEPT ![r] = @ \ {s}]
    /\ doomed' = [doomed EXCEPT ![r] = IF Dead(s) THEN s ELSE Nothing]
    /\ cancelled' = IF s \in expired THEN cancelled \cup {s} ELSE cancelled
    /\ UNCHANGED <<create, listed, pending, finished, stopping, leaseVars, client, shutdown>>

Reap(r) ==
    /\ doomed[r] # Nothing
    /\ Finish(doomed[r])
    /\ doomed' = [doomed EXCEPT ![r] = Nothing]
    /\ UNCHANGED <<create, leaseVars, client, sweep, shutdown>>

\* Close cancels the use case's context and with it every session's.
Close ==
    /\ shutdown = "no"
    /\ shutdown' = "cancelled"
    /\ cancelled' = cancelled \cup listed
    /\ UNCHANGED <<create, listed, pending, finished, stopping, leaseVars, client, reaperVars>>

CloseReturns ==
    /\ shutdown = "sweeping"
    /\ sweep["close"] = {} /\ doomed["close"] = Nothing
    /\ shutdown' = "closed"
    /\ UNCHANGED <<create, sessionVars, leaseVars, client, reaperVars>>

-----------------------------------------------------------------------------
Init ==
    /\ create = [c \in Creates |-> "new"]
    /\ listed = {}
    /\ pending = [o \in Owners |-> 0]
    /\ cancelled = {}
    /\ finished = {}
    /\ stopping = {}
    /\ expired = {}
    /\ subscribed = {}
    /\ client = [k \in Clients |-> Idle]
    /\ sweep = [r \in Reapers |-> {}]
    /\ doomed = [r \in Reapers |-> Nothing]
    /\ shutdown = "no"

CreateStep(c) ==
    Admit(c) \/ Refuse(c) \/ GatewayAnswers(c) \/ List(c) \/ Orphan(c) \/ CreateReturns(c)

ClientStep(k) ==
    \/ \E s \in Creates : Find(k, s)
    \/ EndSession(k) \/ Leave(k) \/ Renew(k)
    \/ Subscribe(k) \/ Stream(k) \/ StreamBreaks(k) \/ StreamCancelled(k)

ReaperStep(r) == Sweep(r) \/ (\E s \in Creates : Inspect(r, s)) \/ Reap(r)

Next ==
    \/ \E c \in Creates : CreateStep(c) \/ StopEnds(c) \/ LeaseEnds(c)
    \/ \E k \in Clients : ClientStep(k)
    \/ \E r \in Reapers : ReaperStep(r)
    \/ Close \/ CloseReturns

\* The ticker ticks until Close (and maybe once more), gateway calls are bounded
\* by timeouts, a goroutine that can run runs.  Nothing obliges a client to
\* call, a stream to end by itself, a lease to run out or the backend to close.
Fairness ==
    /\ \A c \in Creates :
          /\ WF_vars(GatewayAnswers(c)) /\ WF_vars(List(c) \/ Orphan(c))
          /\ WF_vars(CreateReturns(c)) /\ WF_vars(StopEnds(c))
    /\ \A k \in Clients :
          /\ WF_vars(client[k].step = "ending" /\ EndSession(k))
          /\ WF_vars(client[k].step = "dialing" /\ (Stream(k) \/ StreamBreaks(k)))
          /\ WF_vars(StreamCancelled(k))
    /\ WF_vars(shutdown = "no" /\ Sweep("ticker"))
    /\ WF_vars(Sweep("close")) /\ WF_vars(CloseReturns)
    /\ \A r \in Reapers : WF_vars((\E s \in Creates : Inspect(r, s)) \/ Reap(r))

Spec     == Init /\ [][Next]_vars
FairSpec == Spec /\ Fairness

-----------------------------------------------------------------------------
(* Properties.                                                             *)

\* Every variable has its type.
TypeOK ==
    /\ create \in [Creates -> {"new", "refused", "calling", "failed", "answered",
                             "listed", "orphaned", "served", "dropped"}]
    /\ listed \subseteq Creates
    /\ pending \in [Owners -> Nat]
    /\ cancelled \subseteq Creates
    /\ finished \subseteq Creates
    /\ stopping \subseteq Creates
    /\ expired \subseteq Creates
    /\ subscribed \subseteq Creates
    /\ client \in [Clients -> [step : {"idle", "found", "ending", "dialing", "streaming"},
                               session : Creates \cup {Nothing}]]
    /\ sweep \in [Reapers -> SUBSET Creates]
    /\ doomed \in [Reapers -> Creates \cup {Nothing}]
    /\ shutdown \in {"no", "cancelled", "sweeping", "closed"}

Upstream == {c \in Creates : create[c] \in {"calling", "answered"}} \cup listed \cup stopping

\* Upstream never has more sessions of this backend than Config allows, in all
\* and per actor, those being created and those being stopped included.
AdmissionHolds ==
    /\ Cardinality(Upstream) <= MaxSessions
    /\ \A o \in Owners :
          Cardinality({c \in Upstream : Actor[Owner[c]] = Actor[o]}) <= MaxPerOwner

\* The Create calls and the cleanups under way that hold a place of o.
Calls(o) == {c \in Creates : Owner[c] = o
               /\ create[c] \in {"calling", "failed", "answered", "listed", "orphaned"}}

Cleanups(o) == {s \in stopping : Owner[s] = o}

Reserving(o) == Cardinality(Calls(o)) + Cardinality(Cleanups(o))

\* The reservations are exactly the Create calls and the cleanups under way:
\* no path returns one twice or forgets to.
ReservationsAreExact == \A o \in Owners : pending[o] = Reserving(o)

\* When Close returns no session is left, not even one whose Create was under
\* way when the sessions were collected.
CloseLeavesNothing == shutdown = "closed" => listed = {}

\* No upstream session is forgotten: one whose Create was answered is listed,
\* or it was finished, which starts its Stop.
NothingIsForgotten ==
    \A c \in Creates :
        create[c] \in {"listed", "served", "orphaned", "dropped"} =>
            c \in listed \/ c \in finished

\* A session whose lease ran out is ended unless it is renewed, even if no
\* request ever looks at it again.
ExpiredIsReaped ==
    \A s \in Creates : s \in listed \cap expired ~> s \notin listed \/ s \notin expired

\* The end of a session ends its stream.
StreamsEnd ==
    \A k \in Clients :
        client[k].step = "streaming" /\ client[k].session \in cancelled
            ~> client[k].step = "idle"

\* Every place taken for a creation or a cleanup is given back.
PlacesReturn == \A o \in Owners : pending[o] > 0 ~> pending[o] = 0

\* After Close every session ends, is stopped upstream, and none comes back.
CloseDrains == shutdown = "cancelled" ~> [](listed = {} /\ stopping = {})
=============================================================================
