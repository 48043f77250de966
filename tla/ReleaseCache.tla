---------------------------- MODULE ReleaseCache ----------------------------
(***************************************************************************)
(* release_artifacts.Reader: release artifacts are read through a bounded  *)
(* LRU shared by all requests of the process.  Concurrent misses of one    *)
(* key share one load (a flight), which runs in a goroutine of its own,    *)
(* detached from the request that started it and bounded by a timeout.     *)
(*                                                                         *)
(* An artifact is identified by its release (workspace and id) and its     *)
(* checksum; the same pair is the key of the cache.  A flight is named by  *)
(* the request that registered it.  Every request is read once: a retry is *)
(* another request.                                                        *)
(***************************************************************************)
EXTENDS Integers, Sequences, FiniteSetsExt, Functions

CONSTANTS
    Releases, Checksums,
    Requests,
    Nobody,         \* no flight
    None, Failed, Cancelled,    \* answers other than an artifact
    Size,           \* [Releases \X Checksums -> Nat]: len(artifact.Data)
    Configs         \* the cache configurations checked

Artifacts == Releases \X Checksums

ASSUME CacheAssumption ==
    /\ Artifacts # {}
    /\ Nobody \notin Requests
    /\ {None, Failed, Cancelled} \cap Artifacts = {}
    /\ Cardinality({None, Failed, Cancelled}) = 3
    /\ Size \in [Artifacts -> Nat]
    /\ Configs \subseteq [enabled : BOOLEAN, maxBytes : Nat, maxItemBytes : Nat]

VARIABLES
    config,         \* ReleaseArtifactCacheConfig, fixed at start
    stored,         \* the checksum each release row has in the database
    phase,          \* request: where its Read is
    wanted,         \* request: the key it reads
    joined,         \* request: the flight it waits for
    answer,         \* request: an artifact, Failed, Cancelled or None
    load,           \* flight: "none", "registered", "running", "closing", "closed"
    result,         \* flight: an artifact, Failed or None
    inflight,       \* Reader.inflight
    lru,            \* cacheItems.lru, the most recently used entry first
    bytes,          \* cacheItems.bytes
    recent          \* observer: the keys used so far, the last use first

requestVars == <<phase, wanted, joined, answer>>
flightVars  == <<load, result>>
cacheVars   == <<lru, bytes, recent>>
vars == <<config, stored, requestVars, flightVars, inflight, cacheVars>>

-----------------------------------------------------------------------------
(* The cache, always under Reader.mu.                                      *)

Release(k)    == k[1]
Positions(k)  == {i \in DOMAIN lru : lru[i].key = k}
Without(s, i) == SubSeq(s, 1, i - 1) \o SubSeq(s, i + 1, Len(s))

\* The elements of s at the positions in I, in their order.
At(s, I) ==
    LET upto[n \in 0 .. Len(s)] ==
            IF n = 0 THEN <<>>
            ELSE IF n \in I THEN Append(upto[n - 1], s[n]) ELSE upto[n - 1]
    IN  upto[Len(s)]

MoveToFront(i) == <<lru[i]>> \o Without(lru, i)

\* Another version of a release takes the place of the old one.
Used(k) == recent' = <<k>> \o At(recent, {i \in DOMAIN recent : Release(recent[i]) # Release(k)})

Sizes(s, I) == SumFunctionOnSet([i \in DOMAIN s |-> Size[s[i].artifact]], I)

\* mutant: an artifact of any size is stored
StoreAny(a) == TRUE

CanStore(a) == Size[a] <= config.maxItemBytes /\ Size[a] <= config.maxBytes

\* mutant: entries of the same release are kept
NoStale(k) == {}

\* removeStaleVersions: entries of the same release with another checksum.
Stale(k) == {i \in DOMAIN lru : Release(lru[i].key) = Release(k) /\ lru[i].key # k}

FreshEntries(k) == At(lru, DOMAIN lru \ Stale(k))

\* mutant: removing a stale version gives its bytes back twice
BytesTwice(k) == bytes - 2 * Sizes(lru, Stale(k))

BytesWithoutStale(k) == bytes - Sizes(lru, Stale(k))

\* mutant: entries are removed until the rest is below the limit
EvictAtLimit(s, b) ==
    LET n == Max({m \in 0 .. Len(s) : m = 0 \/ b - Sizes(s, m + 1 .. Len(s)) < config.maxBytes})
    IN  SubSeq(s, 1, n)

\* insert: entries are removed from the back until the rest fits.
Evict(s, b) ==
    LET n == Max({m \in 0 .. Len(s) : b - Sizes(s, m + 1 .. Len(s)) <= config.maxBytes})
    IN  SubSeq(s, 1, n)

Insert(k, a) ==
    LET all  == <<[key |-> k, artifact |-> a]>> \o FreshEntries(k)
        b    == BytesWithoutStale(k) + Size[a]
        kept == Evict(all, b)
    IN  /\ lru' = kept
        /\ bytes' = b - (Sizes(all, DOMAIN all) - Sizes(kept, DOMAIN kept))
        /\ Used(k)

-----------------------------------------------------------------------------
(* Requests.                                                               *)

\* A use case resolved the release's metadata and calls Read.
Ask(q, r) ==
    /\ phase[q] = "new"
    /\ phase'  = [phase EXCEPT ![q] = "asked"]
    /\ wanted' = [wanted EXCEPT ![q] = <<r, stored[r]>>]
    /\ UNCHANGED <<config, stored, joined, answer, flightVars, inflight, cacheVars>>

Reply(q, a) ==
    /\ phase'  = [phase EXCEPT ![q] = "done"]
    /\ answer' = [answer EXCEPT ![q] = a]

Hit(q) ==
    /\ phase[q] = "asked" /\ config.enabled
    /\ \E i \in Positions(wanted[q]) :
          /\ lru' = MoveToFront(i)
          /\ Used(wanted[q])
          /\ Reply(q, lru[i].artifact)
    /\ UNCHANGED <<config, stored, wanted, joined, flightVars, inflight, bytes>>

Miss(q) == phase[q] = "asked" /\ config.enabled /\ Positions(wanted[q]) = {}

\* mutant: a miss never looks for a flight of its key
NeverFlying(k) == FALSE

Flying(k) == inflight[k] # Nobody

Join(q) ==
    /\ Miss(q)
    /\ Flying(wanted[q])
    /\ phase'  = [phase EXCEPT ![q] = "waiting"]
    /\ joined' = [joined EXCEPT ![q] = inflight[wanted[q]]]
    /\ UNCHANGED <<config, stored, wanted, answer, flightVars, inflight, cacheVars>>

Register(q) ==
    /\ Miss(q)
    /\ ~ Flying(wanted[q])
    /\ phase'    = [phase EXCEPT ![q] = "leading"]
    /\ joined'   = [joined EXCEPT ![q] = q]
    /\ inflight' = [inflight EXCEPT ![wanted[q]] = q]
    /\ load'     = [load EXCEPT ![q] = "registered"]
    /\ UNCHANGED <<config, stored, wanted, answer, result, cacheVars>>

\* startFlight, after the lock was released.
StartFlight(q) ==
    /\ phase[q] = "leading"
    /\ phase' = [phase EXCEPT ![q] = "waiting"]
    /\ load'  = [load EXCEPT ![q] = "running"]
    /\ UNCHANGED <<config, stored, wanted, joined, answer, result, inflight, cacheVars>>

\* waitForFlight, case <-flight.done.
Receive(q) ==
    /\ phase[q] = "waiting"
    /\ load[joined[q]] = "closed"
    /\ Reply(q, result[joined[q]])
    /\ UNCHANGED <<config, stored, wanted, joined, flightVars, inflight, cacheVars>>

\* waitForFlight, case <-ctx.Done(); without the cache the load itself ends.
Cancel(q) ==
    /\ phase[q] = "waiting" \/ (phase[q] = "asked" /\ ~ config.enabled)
    /\ Reply(q, Cancelled)
    /\ UNCHANGED <<config, stored, wanted, joined, flightVars, inflight, cacheVars>>

-----------------------------------------------------------------------------
(* Loads.                                                                  *)

\* mutant: the loaded row is not compared with the release
AnyRow(k, a) == TRUE

\* validateLoadedArtifact.
Valid(k, a) == a = k /\ Size[a] > 0

\* load: one row of releases, then its validation.
Loaded(k) ==
    LET a == <<Release(k), stored[Release(k)]>>
    IN  IF Valid(k, a) THEN a ELSE Failed

\* loadWithoutCache: in the request's own context, without a timeout.
ReadDirect(q) ==
    /\ phase[q] = "asked" /\ ~ config.enabled
    /\ \/ Reply(q, Loaded(wanted[q]))
       \/ Reply(q, Failed)
    /\ UNCHANGED <<config, stored, wanted, joined, flightVars, inflight, cacheVars>>

LoadEnds(f, a) ==
    /\ load[f] = "running"
    /\ load'   = [load EXCEPT ![f] = "closing"]
    /\ result' = [result EXCEPT ![f] = a]
    /\ UNCHANGED <<config, stored, requestVars, inflight, cacheVars>>

Fetch(f) == LoadEnds(f, Loaded(wanted[f]))

\* mutant: the load runs without a deadline
NoDeadline(f) == FALSE

Deadline(f) == load[f] = "running"

\* The database fails, or loadTimeout ends a load that hangs.
TimeOut(f) == Deadline(f) /\ LoadEnds(f, Failed)

RemoveFlight(f) == [inflight EXCEPT ![wanted[f]] = Nobody]

\* The end of runFlight, under the lock.
CloseFlight(f) ==
    /\ load[f] = "closing"
    /\ IF result[f] # Failed /\ CanStore(result[f])
       THEN Insert(wanted[f], result[f])
       ELSE UNCHANGED cacheVars
    /\ load'     = [load EXCEPT ![f] = "closed"]
    /\ inflight' = RemoveFlight(f)
    /\ UNCHANGED <<config, stored, requestVars, result>>

\* Releases are immutable; the checksum in the key is the defence against a
\* row that changes all the same.
Tamper(r) ==
    /\ \E c \in Checksums \ {stored[r]} : stored' = [stored EXCEPT ![r] = c]
    /\ UNCHANGED <<config, requestVars, flightVars, inflight, cacheVars>>

-----------------------------------------------------------------------------
Init ==
    /\ config \in Configs
    /\ stored \in [Releases -> Checksums]
    /\ phase  = [q \in Requests |-> "new"]
    /\ wanted = [q \in Requests |-> CHOOSE k \in Artifacts : TRUE]
    /\ joined = [q \in Requests |-> Nobody]
    /\ answer = [q \in Requests |-> None]
    /\ load   = [q \in Requests |-> "none"]
    /\ result = [q \in Requests |-> None]
    /\ inflight = [k \in Artifacts |-> Nobody]
    /\ lru = <<>>
    /\ bytes = 0
    /\ recent = <<>>

RequestStep(q) ==
    \/ \E r \in Releases : Ask(q, r)
    \/ Hit(q) \/ Join(q) \/ Register(q) \/ StartFlight(q)
    \/ Receive(q) \/ Cancel(q) \/ ReadDirect(q)

FlightStep(f) == Fetch(f) \/ TimeOut(f) \/ CloseFlight(f)

Next ==
    \/ \E q \in Requests : RequestStep(q) \/ FlightStep(q)
    \/ \E r \in Releases : Tamper(r)

\* Goroutines run, a load's context expires after loadTimeout; nothing obliges
\* the database to answer, a client to ask or to cancel.
Fairness ==
    \A q \in Requests :
        /\ WF_vars(Hit(q) \/ Join(q) \/ Register(q))
        /\ WF_vars(StartFlight(q))
        /\ WF_vars(Receive(q))
        /\ WF_vars(TimeOut(q))
        /\ WF_vars(CloseFlight(q))

Spec     == Init /\ [][Next]_vars
FairSpec == Spec /\ Fairness

-----------------------------------------------------------------------------
(* Properties.                                                             *)

\* Every variable has its type.
TypeOK ==
    /\ config \in Configs
    /\ stored \in [Releases -> Checksums]
    /\ phase \in [Requests -> {"new", "asked", "leading", "waiting", "done"}]
    /\ wanted \in [Requests -> Artifacts]
    /\ joined \in [Requests -> Requests \cup {Nobody}]
    /\ answer \in [Requests -> Artifacts \cup {None, Failed, Cancelled}]
    /\ load \in [Requests -> {"none", "registered", "running", "closing", "closed"}]
    /\ result \in [Requests -> Artifacts \cup {None, Failed}]
    /\ inflight \in [Artifacts -> Requests \cup {Nobody}]
    /\ lru \in Seq([key : Artifacts, artifact : Artifacts])
    /\ bytes \in Nat
    /\ recent \in Seq(Artifacts)

\* The byte counter that ends the eviction loop is exact: it is the size of
\* what is cached, and what is cached fits the configured limits.
BytesAreExact ==
    /\ bytes = Sizes(lru, DOMAIN lru)
    /\ bytes <= config.maxBytes
    /\ \A i \in DOMAIN lru : Size[lru[i].artifact] <= config.maxItemBytes

\* A key is cached at most once, only under one checksum of its release, and
\* never while a flight for it is registered.
CacheIsConsistent ==
    /\ \A i, j \in DOMAIN lru : Release(lru[i].key) = Release(lru[j].key) => i = j
    /\ \A i \in DOMAIN lru : inflight[lru[i].key] = Nobody

\* Concurrent misses share one load: a key is loaded by at most one flight at
\* a time, and that is the flight later misses find.
OneLoadPerKey ==
    \A f \in Requests :
        load[f] \in {"registered", "running", "closing"} => inflight[wanted[f]] = f

\* Whatever is answered from the cache, a flight or the database is the
\* artifact with the checksum of the release the caller resolved.
AnswerIsWhatWasAsked ==
    \A q \in Requests : answer[q] \in Artifacts => answer[q] = wanted[q]

\* The cache holds what was used last, in the order of use, whatever order the
\* loads ended in: a hit counts as a use, and nothing evicted was used after
\* something that was kept.
KeepsMostRecent ==
    /\ Len(lru) <= Len(recent)
    /\ \A i \in DOMAIN lru : lru[i].key = recent[i]

\* Eviction stops as soon as the rest fits: with the last entry it removed the
\* cache would have exceeded MaxBytes.
EvictsOnlyOverLimit ==
    [][LET gone == {i \in DOMAIN lru : /\ Release(lru[i].key) # Release(recent'[1])
                                       /\ \A j \in DOMAIN lru' : lru'[j] # lru[i]}
       IN  gone # {} => bytes' + Size[lru[Min(gone)].artifact] > config.maxBytes]_vars

\* Every Read through the cache ends, although the database may hang and the
\* request that started the load may be cancelled.
EveryReadEnds ==
    \A q \in Requests : phase[q] = "asked" /\ config.enabled ~> phase[q] = "done"

\* A flight does not stay registered: after it, a retry can load again.
FlightsEnd ==
    \A f \in Requests : inflight[wanted[f]] = f ~> inflight[wanted[f]] # f
=============================================================================
