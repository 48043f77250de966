------------------------- MODULE ReleaseCacheProofs -------------------------
(***************************************************************************)
(* Theorems about ReleaseCache, for any number of releases, requests and   *)
(* versions, any sizes and any configuration.                              *)
(*                                                                         *)
(* The flights: a flight is registered under the key it loads from the     *)
(* miss that made it until its result is stored, both under Reader.mu, so  *)
(* a second flight of the key would have had to find no flight where the   *)
(* first still was.                                                        *)
(*                                                                         *)
(* The cache: a step leaves it alone, moves an entry to the front (a hit), *)
(* or puts a new one in front and cuts the list (the end of a load).  In   *)
(* the last two the entries of other releases keep their order, so what is *)
(* cached stays a prefix of the keys in the order of their last use, and   *)
(* what eviction removed first is what follows the last entry it kept.     *)
(* The lemmas about lists say which elements At returns; those about sizes *)
(* rest on the sums of SumTheorems.                                        *)
(***************************************************************************)
EXTENDS ReleaseCache, SumTheorems, SequenceTheorems

UnderWay == {"registered", "running", "closing"}

\* The types of what a flight depends on.
FlightTypes ==
    /\ stored \in [Releases -> Checksums]
    /\ phase \in [Requests -> {"new", "asked", "leading", "waiting", "done"}]
    /\ wanted \in [Requests -> Artifacts]
    /\ joined \in [Requests -> Requests \cup {Nobody}]
    /\ load \in [Requests -> {"none", "registered", "running", "closing", "closed"}]
    /\ result \in [Requests -> Artifacts \cup {None, Failed}]
    /\ inflight \in [Artifacts -> Requests \cup {Nobody}]

\* A registered flight is under way and loads the key it is registered under.
Registered ==
    \A k \in Artifacts : inflight[k] # Nobody =>
        wanted[inflight[k]] = k /\ load[inflight[k]] \in UnderWay

\* Where a request that leads or joins a flight stands to it.
Roles ==
    \A q \in Requests :
        /\ phase[q] \in {"new", "asked"} => load[q] = "none"
        /\ phase[q] = "leading" <=> load[q] = "registered"
        /\ phase[q] = "leading" => joined[q] = q
        /\ phase[q] = "waiting" =>
              /\ joined[q] \in Requests
              /\ wanted[joined[q]] = wanted[q]
              /\ load[joined[q]] # "none"

\* What a flight loaded is the artifact that was asked for.
ResultIsWanted ==
    \A f \in Requests : result[f] \in Artifacts =>
        result[f] = wanted[f] /\ load[f] \in {"closing", "closed"}

\* The inductive invariant.
Inv == FlightTypes /\ Registered /\ OneLoadPerKey /\ Roles /\ ResultIsWanted

-----------------------------------------------------------------------------
LEMMA InitInv == Init => Inv
<1> SUFFICES ASSUME Init PROVE Inv
  OBVIOUS
<1>1. (CHOOSE k \in Artifacts : TRUE) \in Artifacts
  BY CacheAssumption
<1>2. FlightTypes
  BY <1>1 DEF Init, FlightTypes
<1>3. Registered /\ OneLoadPerKey /\ Roles
  BY DEF Init, Registered, OneLoadPerKey, Roles
<1>4. ResultIsWanted
  BY CacheAssumption DEF Init, ResultIsWanted
<1> QED BY <1>2, <1>3, <1>4 DEF Inv

\* A request asks: no flight is named by it yet.
LEMMA AskStep ==
    ASSUME Inv, NEW q \in Requests, NEW r \in Releases, Ask(q, r)
    PROVE  Inv'
<1>1. /\ phase[q] = "new" /\ load[q] = "none"
      /\ phase' = [phase EXCEPT ![q] = "asked"]
      /\ wanted' = [wanted EXCEPT ![q] = <<r, stored[r]>>]
      /\ UNCHANGED <<stored, joined, load, result, inflight>>
  BY DEF Ask, Inv, Roles, flightVars
<1>2. <<r, stored[r]>> \in Artifacts
  BY DEF Inv, FlightTypes, Artifacts
<1>3. FlightTypes'
  BY <1>1, <1>2 DEF Inv, FlightTypes
<1>4. \A k \in Artifacts : inflight[k] # q
  <2>1. q # Nobody
    BY CacheAssumption
  <2> QED BY <1>1, <2>1 DEF Inv, Registered, UnderWay
<1>5. Registered'
  <2> SUFFICES ASSUME NEW k \in Artifacts, inflight[k] # Nobody
               PROVE  wanted'[inflight[k]] = k /\ load[inflight[k]] \in UnderWay
    BY <1>1 DEF Registered
  <2>1. wanted[inflight[k]] = k /\ load[inflight[k]] \in UnderWay /\ inflight[k] # q
        /\ inflight[k] \in Requests
    BY <1>4 DEF Inv, Registered, FlightTypes
  <2> QED BY <1>1, <2>1 DEF Inv, FlightTypes
<1>6. OneLoadPerKey'
  BY <1>1 DEF Inv, OneLoadPerKey, FlightTypes
<1>7. Roles'
  <2> SUFFICES ASSUME NEW p \in Requests
               PROVE  /\ phase'[p] \in {"new", "asked"} => load[p] = "none"
                      /\ phase'[p] = "leading" <=> load[p] = "registered"
                      /\ phase'[p] = "leading" => joined[p] = p
                      /\ phase'[p] = "waiting" =>
                            /\ joined[p] \in Requests
                            /\ wanted'[joined[p]] = wanted'[p]
                            /\ load[joined[p]] # "none"
    BY <1>1 DEF Roles
  <2>1. CASE p = q
    BY <1>1, <2>1 DEF Inv, FlightTypes
  <2>2. CASE p # q
    BY <1>1, <2>2 DEF Inv, FlightTypes, Roles
  <2> QED BY <2>1, <2>2
<1>8. ResultIsWanted'
  BY <1>1 DEF Inv, ResultIsWanted, FlightTypes
<1> QED BY <1>3, <1>5, <1>6, <1>7, <1>8 DEF Inv

\* A request ends, or it waits for a flight that loads its key.
LEMMA PhaseStep ==
    ASSUME Inv, NEW q \in Requests, NEW f \in Requests \cup {Nobody},
           NEW step \in {"waiting", "done"},
           phase[q] \in {"asked", "waiting"},
           phase' = [phase EXCEPT ![q] = step], joined' = [joined EXCEPT ![q] = f],
           step = "waiting" => f \in Requests /\ wanted[f] = wanted[q] /\ load[f] # "none",
           UNCHANGED <<stored, wanted, load, result, inflight>>
    PROVE  Inv'
<1>1. FlightTypes'
  BY DEF Inv, FlightTypes
<1>2. Registered' /\ OneLoadPerKey' /\ ResultIsWanted'
  BY DEF Inv, Registered, OneLoadPerKey, ResultIsWanted
<1>3. Roles'
  <2> SUFFICES ASSUME NEW p \in Requests
               PROVE  /\ phase'[p] \in {"new", "asked"} => load[p] = "none"
                      /\ phase'[p] = "leading" <=> load[p] = "registered"
                      /\ phase'[p] = "leading" => joined'[p] = p
                      /\ phase'[p] = "waiting" =>
                            /\ joined'[p] \in Requests
                            /\ wanted[joined'[p]] = wanted[p]
                            /\ load[joined'[p]] # "none"
    BY DEF Roles
  <2>1. CASE p = q
    BY <2>1 DEF Inv, FlightTypes, Roles
  <2>2. CASE p # q
    BY <2>2 DEF Inv, FlightTypes, Roles
  <2> QED BY <2>1, <2>2
<1> QED BY <1>1, <1>2, <1>3 DEF Inv

\* Hit, Join, Receive, Cancel and ReadDirect.
LEMMA WaitOrEndStep ==
    ASSUME Inv, NEW q \in Requests,
           Hit(q) \/ Join(q) \/ Receive(q) \/ Cancel(q) \/ ReadDirect(q)
    PROVE  Inv'
<1>1. CASE Join(q)
  <2>1. /\ phase[q] = "asked" /\ inflight[wanted[q]] # Nobody
        /\ phase' = [phase EXCEPT ![q] = "waiting"]
        /\ joined' = [joined EXCEPT ![q] = inflight[wanted[q]]]
        /\ UNCHANGED <<stored, wanted, load, result, inflight>>
    BY <1>1 DEF Join, Miss, Flying, flightVars
  <2>2. wanted[q] \in Artifacts /\ inflight[wanted[q]] \in Requests
    BY <2>1 DEF Inv, FlightTypes
  <2>3. wanted[inflight[wanted[q]]] = wanted[q] /\ load[inflight[wanted[q]]] # "none"
    BY <2>1, <2>2 DEF Inv, Registered, UnderWay
  <2> QED BY <2>1, <2>2, <2>3, PhaseStep
<1>2. CASE Hit(q) \/ Receive(q) \/ Cancel(q) \/ ReadDirect(q)
  <2>1. /\ phase[q] \in {"asked", "waiting"}
        /\ phase' = [phase EXCEPT ![q] = "done"]
        /\ UNCHANGED <<stored, wanted, joined, load, result, inflight>>
    BY <1>2 DEF Hit, Receive, Cancel, ReadDirect, Reply, flightVars
  <2>2. joined[q] \in Requests \cup {Nobody} /\ joined' = [joined EXCEPT ![q] = joined[q]]
    BY <2>1 DEF Inv, FlightTypes
  <2> QED BY <2>1, <2>2, PhaseStep
<1> QED BY <1>1, <1>2

\* A miss that finds no flight registers one of its own.
LEMMA RegisterStep ==
    ASSUME Inv, NEW q \in Requests, Register(q)
    PROVE  Inv'
<1>1. /\ phase[q] = "asked" /\ load[q] = "none" /\ inflight[wanted[q]] = Nobody
      /\ phase' = [phase EXCEPT ![q] = "leading"] /\ joined' = [joined EXCEPT ![q] = q]
      /\ inflight' = [inflight EXCEPT ![wanted[q]] = q]
      /\ load' = [load EXCEPT ![q] = "registered"]
      /\ UNCHANGED <<stored, wanted, result>>
  BY DEF Register, Miss, Flying, Inv, Roles
<1>2. wanted[q] \in Artifacts /\ q # Nobody
  BY CacheAssumption DEF Inv, FlightTypes
<1>3. FlightTypes'
  BY <1>1, <1>2 DEF Inv, FlightTypes
<1>4. Registered'
  <2> SUFFICES ASSUME NEW k \in Artifacts, inflight'[k] # Nobody
               PROVE  wanted[inflight'[k]] = k /\ load'[inflight'[k]] \in UnderWay
    BY <1>1 DEF Registered
  <2>1. CASE k = wanted[q]
    BY <1>1, <1>2, <2>1 DEF Inv, FlightTypes, UnderWay
  <2>2. CASE k # wanted[q]
    <3>1. inflight'[k] = inflight[k] /\ inflight[k] \in Requests
      BY <1>1, <2>2 DEF Inv, FlightTypes
    <3>2. wanted[inflight[k]] = k /\ load[inflight[k]] \in UnderWay
      BY <3>1, <2>2 DEF Inv, Registered
    <3>3. inflight[k] # q
      BY <3>2, <1>1 DEF UnderWay
    <3> QED BY <1>1, <3>1, <3>2, <3>3 DEF Inv, FlightTypes
  <2> QED BY <2>1, <2>2
<1>5. OneLoadPerKey'
  <2> SUFFICES ASSUME NEW f \in Requests, load'[f] \in {"registered", "running", "closing"}
               PROVE  inflight'[wanted[f]] = f
    BY <1>1 DEF OneLoadPerKey
  <2>1. CASE f = q
    BY <1>1, <1>2, <2>1 DEF Inv, FlightTypes
  <2>2. CASE f # q
    <3>1. load[f] \in {"registered", "running", "closing"} /\ wanted[f] \in Artifacts
      BY <1>1, <2>2 DEF Inv, FlightTypes
    <3>2. inflight[wanted[f]] = f
      BY <3>1 DEF Inv, OneLoadPerKey
    <3>3. wanted[f] # wanted[q]
      BY <1>1, <3>2, CacheAssumption
    <3> QED BY <1>1, <3>1, <3>2, <3>3 DEF Inv, FlightTypes
  <2> QED BY <2>1, <2>2
<1>6. Roles'
  <2> SUFFICES ASSUME NEW p \in Requests
               PROVE  /\ phase'[p] \in {"new", "asked"} => load'[p] = "none"
                      /\ phase'[p] = "leading" <=> load'[p] = "registered"
                      /\ phase'[p] = "leading" => joined'[p] = p
                      /\ phase'[p] = "waiting" =>
                            /\ joined'[p] \in Requests
                            /\ wanted[joined'[p]] = wanted[p]
                            /\ load'[joined'[p]] # "none"
    BY <1>1 DEF Roles
  <2>1. CASE p = q
    BY <1>1, <2>1 DEF Inv, FlightTypes
  <2>2. CASE p # q
    BY <1>1, <2>2 DEF Inv, FlightTypes, Roles
  <2> QED BY <2>1, <2>2
<1>7. ResultIsWanted'
  BY <1>1 DEF Inv, FlightTypes, ResultIsWanted
<1> QED BY <1>3, <1>4, <1>5, <1>6, <1>7 DEF Inv

\* A flight goes on under the key it is registered under.
LEMMA FlightGoesOn ==
    ASSUME Inv, NEW f \in Requests, StartFlight(f) \/ Fetch(f) \/ TimeOut(f)
    PROVE  Inv'
<1>1. /\ load[f] \in {"registered", "running"} /\ UNCHANGED <<stored, wanted, joined, inflight>>
      /\ \/ /\ phase[f] = "leading" /\ phase' = [phase EXCEPT ![f] = "waiting"]
            /\ load' = [load EXCEPT ![f] = "running"] /\ result' = result
         \/ /\ load[f] = "running" /\ phase' = phase
            /\ load' = [load EXCEPT ![f] = "closing"]
            /\ \E a \in {wanted[f], Failed} : result' = [result EXCEPT ![f] = a]
  BY DEF StartFlight, Fetch, TimeOut, LoadEnds, Loaded, Valid, requestVars, Inv, Roles
<1>2. wanted[f] \in Artifacts
  BY DEF Inv, FlightTypes
<1>3. FlightTypes'
  BY <1>1, <1>2 DEF Inv, FlightTypes
<1>4. \A g \in Requests : load'[g] \in UnderWay <=> load[g] \in UnderWay
  BY <1>1 DEF UnderWay, Inv, FlightTypes
<1>5. Registered' /\ OneLoadPerKey'
  BY <1>1, <1>4 DEF Inv, FlightTypes, Registered, OneLoadPerKey, UnderWay
<1>6. Roles'
  <2> SUFFICES ASSUME NEW p \in Requests
               PROVE  /\ phase'[p] \in {"new", "asked"} => load'[p] = "none"
                      /\ phase'[p] = "leading" <=> load'[p] = "registered"
                      /\ phase'[p] = "leading" => joined[p] = p
                      /\ phase'[p] = "waiting" =>
                            /\ joined[p] \in Requests
                            /\ wanted[joined[p]] = wanted[p]
                            /\ load'[joined[p]] # "none"
    BY <1>1 DEF Roles
  <2>1. \A g \in Requests : load[g] # "none" => load'[g] # "none"
    BY <1>1 DEF Inv, FlightTypes
  <2>2. CASE p = f
    BY <1>1, <2>1, <2>2 DEF Inv, FlightTypes, Roles
  <2>3. CASE p # f
    BY <1>1, <2>1, <2>3 DEF Inv, FlightTypes, Roles
  <2> QED BY <2>2, <2>3
<1>7. ResultIsWanted'
  BY <1>1, CacheAssumption DEF Inv, FlightTypes, ResultIsWanted
<1> QED BY <1>3, <1>5, <1>6, <1>7 DEF Inv

\* A flight ends and leaves its key to the next one.
LEMMA CloseFlightStep ==
    ASSUME Inv, NEW f \in Requests, CloseFlight(f)
    PROVE  Inv'
<1>1. /\ load[f] = "closing" /\ load' = [load EXCEPT ![f] = "closed"]
      /\ inflight' = [inflight EXCEPT ![wanted[f]] = Nobody]
      /\ UNCHANGED <<stored, phase, wanted, joined, result>>
  BY DEF CloseFlight, RemoveFlight, requestVars
<1>2. wanted[f] \in Artifacts /\ inflight[wanted[f]] = f
  BY <1>1 DEF Inv, FlightTypes, OneLoadPerKey
<1>3. FlightTypes'
  BY <1>1 DEF Inv, FlightTypes
<1>4. Registered'
  <2> SUFFICES ASSUME NEW k \in Artifacts, inflight'[k] # Nobody
               PROVE  wanted[inflight'[k]] = k /\ load'[inflight'[k]] \in UnderWay
    BY <1>1 DEF Registered
  <2>1. k # wanted[f] /\ inflight'[k] = inflight[k] /\ inflight[k] \in Requests
    BY <1>1, <1>2 DEF Inv, FlightTypes
  <2>2. wanted[inflight[k]] = k /\ load[inflight[k]] \in UnderWay
    BY <2>1 DEF Inv, Registered
  <2>3. inflight[k] # f
    BY <2>1, <2>2
  <2> QED BY <1>1, <2>1, <2>2, <2>3 DEF Inv, FlightTypes
<1>5. OneLoadPerKey'
  <2> SUFFICES ASSUME NEW g \in Requests, load'[g] \in {"registered", "running", "closing"}
               PROVE  inflight'[wanted[g]] = g
    BY <1>1 DEF OneLoadPerKey
  <2>1. g # f /\ load[g] \in {"registered", "running", "closing"} /\ wanted[g] \in Artifacts
    BY <1>1 DEF Inv, FlightTypes
  <2>2. inflight[wanted[g]] = g
    BY <2>1 DEF Inv, OneLoadPerKey
  <2>3. wanted[g] # wanted[f]
    BY <1>2, <2>1, <2>2
  <2> QED BY <1>1, <2>1, <2>2, <2>3 DEF Inv, FlightTypes
<1>6. Roles' /\ ResultIsWanted'
  BY <1>1 DEF Inv, FlightTypes, Roles, ResultIsWanted
<1> QED BY <1>3, <1>4, <1>5, <1>6 DEF Inv

LEMMA NextInv == Inv /\ [Next]_vars => Inv'
<1> SUFFICES ASSUME Inv, [Next]_vars PROVE Inv'
  OBVIOUS
<1>1. ASSUME UNCHANGED <<phase, wanted, joined, load, result, inflight>>,
             stored' \in [Releases -> Checksums]
      PROVE  Inv'
  BY <1>1 DEF Inv, FlightTypes, Registered, OneLoadPerKey, Roles, ResultIsWanted
<1>2. CASE UNCHANGED vars
  BY <1>1, <1>2 DEF vars, requestVars, flightVars, Inv, FlightTypes
<1>3. ASSUME NEW q \in Requests, RequestStep(q) \/ FlightStep(q) PROVE Inv'
  BY <1>3, AskStep, WaitOrEndStep, RegisterStep, FlightGoesOn, CloseFlightStep
     DEF RequestStep, FlightStep
<1>4. ASSUME NEW r \in Releases, Tamper(r) PROVE Inv'
  <2>1. stored' \in [Releases -> Checksums]
    BY <1>4 DEF Tamper, Inv, FlightTypes
  <2> QED BY <1>1, <1>4, <2>1 DEF Tamper, requestVars, flightVars
<1> QED BY <1>2, <1>3, <1>4 DEF Next

-----------------------------------------------------------------------------
(* Lists.                                                                  *)

\* The elements of t are those of s at the positions in I, in their order.
Picks(t, s, I, p) ==
    /\ p \in [1 .. Len(t) -> I]
    /\ \A i, j \in 1 .. Len(t) : i < j => p[i] < p[j]
    /\ \A i \in I : \E j \in 1 .. Len(t) : p[j] = i
    /\ \A j \in 1 .. Len(t) : t[j] = s[p[j]]

Selects(t, s, I) == \E p : Picks(t, s, I, p)

LEMMA PicksNothing ==
    ASSUME NEW s PROVE Selects(<<>>, s, {})
<1>1. Picks(<<>>, s, {}, [j \in {} |-> 0])
  BY DEF Picks
<1> QED BY <1>1 DEF Selects

LEMMA PicksOneMore ==
    ASSUME NEW X, NEW s \in Seq(X), NEW t \in Seq(X), NEW n \in Nat, n + 1 \in 1 .. Len(s),
           NEW I \in SUBSET (1 .. n), Selects(t, s, I)
    PROVE  Selects(Append(t, s[n + 1]), s, I \cup {n + 1})
<1> PICK p : Picks(t, s, I, p)
  BY DEF Selects
<1> DEFINE u == Append(t, s[n + 1])
           q == [j \in 1 .. Len(t) + 1 |-> IF j = Len(t) + 1 THEN n + 1 ELSE p[j]]
<1>1. s[n + 1] \in X /\ Len(t) \in Nat
  BY LenProperties
<1>2. /\ Len(u) = Len(t) + 1 /\ u[Len(t) + 1] = s[n + 1]
      /\ \A j \in 1 .. Len(t) : u[j] = t[j]
  BY <1>1, AppendProperties
<1>3. /\ p \in [1 .. Len(t) -> I]
      /\ \A i, j \in 1 .. Len(t) : i < j => p[i] < p[j]
      /\ \A i \in I : \E j \in 1 .. Len(t) : p[j] = i
      /\ \A j \in 1 .. Len(t) : t[j] = s[p[j]]
  BY DEF Picks
<1>4. /\ \A j \in 1 .. Len(t) : q[j] = p[j] /\ j \in 1 .. Len(t) + 1 /\ j # Len(t) + 1
      /\ q[Len(t) + 1] = n + 1 /\ Len(t) + 1 \in 1 .. Len(t) + 1
      /\ \A j \in 1 .. Len(t) + 1 : j \in 1 .. Len(t) \/ j = Len(t) + 1
      /\ q = [j \in 1 .. Len(t) + 1 |-> q[j]]
  BY <1>1
<1> HIDE DEF u, q
<1>5. q \in [1 .. Len(u) -> I \cup {n + 1}]
  BY <1>1, <1>2, <1>3, <1>4
<1>6. ASSUME NEW i \in 1 .. Len(u), NEW j \in 1 .. Len(u), i < j PROVE q[i] < q[j]
  <2>1. i \in 1 .. Len(t)
    BY <1>1, <1>2, <1>6
  <2>2. CASE j \in 1 .. Len(t)
    BY <1>3, <1>4, <1>6, <2>1, <2>2
  <2>3. CASE j = Len(t) + 1
    <3>1. p[i] \in 1 .. n
      BY <1>3, <2>1
    <3>2. q[j] = n + 1 /\ q[i] = p[i]
      BY <1>4, <2>1, <2>3
    <3>3. p[i] < n + 1
      BY <3>1
    <3> QED BY <3>2, <3>3
  <2> QED BY <1>2, <1>4, <2>2, <2>3
<1>7. \A i \in I \cup {n + 1} : \E j \in 1 .. Len(u) : q[j] = i
  BY <1>2, <1>3, <1>4
<1>8. \A j \in 1 .. Len(u) : u[j] = s[q[j]]
  BY <1>2, <1>3, <1>4
<1>9. Picks(u, s, I \cup {n + 1}, q)
  BY <1>5, <1>6, <1>7, <1>8 DEF Picks
<1> QED BY <1>9 DEF u, Selects

\* f is the recursive function of At.
IsUpto(f, s, I) ==
    f = [n \in 0 .. Len(s) |->
            IF n = 0 THEN <<>>
            ELSE IF n \in I THEN Append(f[n - 1], s[n]) ELSE f[n - 1]]

LEMMA UptoExists ==
    ASSUME NEW X, NEW s \in Seq(X), NEW I
    PROVE  \E f : IsUpto(f, s, I)
<1> DEFINE Value(f, n) == IF n = 0 THEN <<>>
                          ELSE IF n \in I THEN Append(f[n - 1], s[n]) ELSE f[n - 1]
           N == {n \in Nat :
                    \E f : f = [m \in 0 .. n |-> f[m]] /\ \A m \in 0 .. n : f[m] = Value(f, m)}
<1>1. 0 \in N
  <2> DEFINE f == [m \in 0 .. 0 |-> <<>>]
  <2>1. f = [m \in 0 .. 0 |-> f[m]] /\ \A m \in 0 .. 0 : f[m] = Value(f, m)
    OBVIOUS
  <2> QED BY <2>1
<1>2. ASSUME NEW n \in N PROVE n + 1 \in N
  <2>1. PICK f : f = [m \in 0 .. n |-> f[m]] /\ \A m \in 0 .. n : f[m] = Value(f, m)
    OBVIOUS
  <2> DEFINE g == [m \in 0 .. n + 1 |-> IF m = n + 1 THEN Value(f, n + 1) ELSE f[m]]
  <2>2. n \in Nat
    OBVIOUS
  <2>3. g = [m \in 0 .. n + 1 |-> g[m]]
    OBVIOUS
  <2>4. \A m \in 0 .. n : g[m] = f[m]
    BY <2>2
  <2>5. g[n + 1] = Value(f, n + 1)
    BY <2>2
  <2> HIDE DEF g
  <2>6. ASSUME NEW m \in 0 .. n + 1 PROVE g[m] = Value(g, m)
    <3>1. CASE m = n + 1
      <4>1. m # 0 /\ m - 1 = n /\ g[n] = f[n]
        BY <2>2, <2>4, <3>1
      <4> QED BY <2>5, <3>1, <4>1
    <3>2. CASE m \in 0 .. n
      <4>1. m = 0 \/ g[m - 1] = f[m - 1]
        BY <2>2, <2>4, <3>2
      <4> QED BY <2>1, <2>4, <3>2, <4>1
    <3> QED BY <2>2, <3>1, <3>2
  <2>7. n + 1 \in Nat
    BY <2>2
  <2> HIDE DEF Value
  <2> QED BY <2>3, <2>6, <2>7
<1>3. N \in SUBSET Nat /\ Len(s) \in Nat
  BY LenProperties
<1>4. Len(s) \in N
  <2> HIDE DEF N
  <2> QED BY <1>1, <1>2, <1>3, NaturalInduction
<1>5. PICK f : f = [m \in 0 .. Len(s) |-> f[m]] /\ \A m \in 0 .. Len(s) : f[m] = Value(f, m)
  BY <1>4
<1>6. f = [m \in 0 .. Len(s) |-> Value(f, m)]
  BY <1>5
<1> QED BY <1>6 DEF IsUpto

LEMMA AtIsChosen ==
    ASSUME NEW s, NEW I, \E f : IsUpto(f, s, I)
    PROVE  \E f : IsUpto(f, s, I) /\ At(s, I) = f[Len(s)]
<1> DEFINE g == CHOOSE f : IsUpto(f, s, I)
<1>1. IsUpto(g, s, I)
  OBVIOUS
<1>2. g = CHOOSE f : f = [n \in 0 .. Len(s) |->
            IF n = 0 THEN <<>>
            ELSE IF n \in I THEN Append(f[n - 1], s[n]) ELSE f[n - 1]]
  BY DEF IsUpto
<1> HIDE DEF g
<1>3. At(s, I) = g[Len(s)]
  BY <1>2 DEF At
<1> QED BY <1>1, <1>3

\* What At does.
LEMMA AtPicks ==
    ASSUME NEW X, NEW s \in Seq(X), NEW I \in SUBSET (1 .. Len(s))
    PROVE  At(s, I) \in Seq(X) /\ Selects(At(s, I), s, I)
<1>1. PICK f : IsUpto(f, s, I) /\ At(s, I) = f[Len(s)]
  BY UptoExists, AtIsChosen
<1>2. Len(s) \in Nat
  BY LenProperties
<1>3. \A n \in 0 .. Len(s) :
        f[n] = IF n = 0 THEN <<>> ELSE IF n \in I THEN Append(f[n - 1], s[n]) ELSE f[n - 1]
  BY <1>1, Zenon DEF IsUpto
<1> DEFINE N == {n \in Nat : n <= Len(s) =>
                    f[n] \in Seq(X) /\ Selects(f[n], s, I \cap (1 .. n))}
<1>4. 0 \in N
  <2>1. f[0] = <<>>
    BY <1>2, <1>3
  <2>2. I \cap (1 .. 0) = {}
    OBVIOUS
  <2>3. Selects(f[0], s, I \cap (1 .. 0))
    BY <2>1, <2>2, PicksNothing, Zenon
  <2>4. f[0] \in Seq(X)
    BY <2>1
  <2> QED BY <2>3, <2>4
<1>5. ASSUME NEW n \in N PROVE n + 1 \in N
  <2> SUFFICES ASSUME n + 1 <= Len(s)
               PROVE  f[n + 1] \in Seq(X) /\ Selects(f[n + 1], s, I \cap (1 .. n + 1))
    OBVIOUS
  <2>1. n \in Nat /\ n <= Len(s)
    BY <1>2
  <2>2. f[n] \in Seq(X) /\ Selects(f[n], s, I \cap (1 .. n))
    BY <2>1
  <2> HIDE DEF N
  <2>3. f[n + 1] = IF n + 1 \in I THEN Append(f[n], s[n + 1]) ELSE f[n]
    <3>1. n + 1 \in 0 .. Len(s) /\ n + 1 # 0 /\ (n + 1) - 1 = n
      BY <1>2, <2>1
    <3> QED BY <1>3, <3>1
  <2>4. n + 1 \in 1 .. Len(s)
    BY <1>2, <2>1
  <2>5. CASE n + 1 \in I
    <3>1. I \cap (1 .. n + 1) = (I \cap (1 .. n)) \cup {n + 1}
      BY <2>1, <2>5
    <3>2. I \cap (1 .. n) \in SUBSET (1 .. n)
      OBVIOUS
    <3>3. Selects(Append(f[n], s[n + 1]), s, (I \cap (1 .. n)) \cup {n + 1})
      BY <2>1, <2>2, <2>4, <3>2, PicksOneMore
    <3>4. s[n + 1] \in X
      BY <2>4
    <3>5. Append(f[n], s[n + 1]) \in Seq(X)
      BY <2>2, <3>4, AppendProperties
    <3>6. f[n + 1] = Append(f[n], s[n + 1])
      BY <2>3, <2>5
    <3> QED BY <3>1, <3>3, <3>5, <3>6, Zenon
  <2>6. CASE n + 1 \notin I
    <3>1. I \cap (1 .. n + 1) = I \cap (1 .. n)
      BY <2>1, <2>6
    <3>2. f[n + 1] = f[n]
      BY <2>3, <2>6
    <3> QED BY <2>2, <3>1, <3>2, Zenon
  <2> QED BY <2>5, <2>6
<1>6. N \in SUBSET Nat
  OBVIOUS
<1>7. Len(s) \in N
  <2> HIDE DEF N
  <2> QED BY <1>2, <1>4, <1>5, <1>6, NaturalInduction
<1>8. I \cap (1 .. Len(s)) = I
  OBVIOUS
<1>9. f[Len(s)] \in Seq(X) /\ Selects(f[Len(s)], s, I \cap (1 .. Len(s)))
  BY <1>2, <1>7
<1> QED BY <1>1, <1>8, <1>9, Zenon

-----------------------------------------------------------------------------
(* Sizes.                                                                  *)

Entries == [key : Artifacts, artifact : Artifacts]

\* The summands of Sizes.
SizeIn(s) == [i \in DOMAIN s |-> Size[s[i].artifact]]

LEMMA SizeInNat ==
    ASSUME NEW s \in Seq(Entries)
    PROVE  /\ DOMAIN s = 1 .. Len(s) /\ Len(s) \in Nat
           /\ \A i \in 1 .. Len(s) : /\ s[i] \in Entries
                                     /\ SizeIn(s)[i] = Size[s[i].artifact]
                                     /\ SizeIn(s)[i] \in Nat
           /\ \A I : Sizes(s, I) = SumFunctionOnSet(SizeIn(s), I)
<1>1. DOMAIN s = 1 .. Len(s) /\ Len(s) \in Nat /\ \A i \in 1 .. Len(s) : s[i] \in Entries
  BY LenProperties, ElementOfSeq
<1>2. \A i \in 1 .. Len(s) : SizeIn(s)[i] = Size[s[i].artifact]
  BY <1>1 DEF SizeIn
<1>3. \A i \in 1 .. Len(s) : Size[s[i].artifact] \in Nat
  BY <1>1, CacheAssumption DEF Entries
<1>4. \A I : Sizes(s, I) = SumFunctionOnSet(SizeIn(s), I)
  BY Zenon DEF Sizes, SizeIn
<1> QED BY <1>1, <1>2, <1>3, <1>4

LEMMA PositionsFinite ==
    ASSUME NEW n \in Nat, NEW I \in SUBSET (1 .. n) PROVE IsFiniteSet(I)
<1>1. IsFiniteSet(1 .. n)
  BY FS_Interval
<1> QED BY <1>1, FS_Subset

LEMMA SizesNat ==
    ASSUME NEW s \in Seq(Entries), NEW I \in SUBSET (1 .. Len(s))
    PROVE  Sizes(s, I) \in Nat
<1>1. IsFiniteSet(I) /\ \A i \in I : SizeIn(s)[i] \in Nat
  BY SizeInNat, PositionsFinite
<1>2. SumFunctionOnSet(SizeIn(s), I) \in Nat
  BY <1>1, SumNatural
<1> QED BY <1>2, SizeInNat

\* K falls into I and J.
Parts(s, K, I, J) ==
    s \in Seq(Entries) /\ I \cup J \subseteq 1 .. Len(s) /\ I \cap J = {} /\ K = I \cup J

LEMMA SizesSplit ==
    ASSUME NEW s, NEW K, NEW I, NEW J, Parts(s, K, I, J)
    PROVE  Sizes(s, K) = Sizes(s, I) + Sizes(s, J)
<1> USE DEF Parts
<1>1. IsFiniteSet(I) /\ IsFiniteSet(J)
  BY SizeInNat, PositionsFinite
<1>2. \A i \in I \cup J : SizeIn(s)[i] \in Int
  BY SizeInNat
<1>3. SumFunctionOnSet(SizeIn(s), I \cup J)
        = SumFunctionOnSet(SizeIn(s), I) + SumFunctionOnSet(SizeIn(s), J)
  BY <1>1, <1>2, SumUnion
<1>4. /\ Sizes(s, I) = SumFunctionOnSet(SizeIn(s), I)
      /\ Sizes(s, J) = SumFunctionOnSet(SizeIn(s), J)
      /\ Sizes(s, K) = SumFunctionOnSet(SizeIn(s), K)
  BY SizeInNat
<1> QED BY <1>3, <1>4, Zenon

LEMMA SizesOne ==
    ASSUME NEW s \in Seq(Entries), NEW i \in 1 .. Len(s)
    PROVE  Sizes(s, {i}) = Size[s[i].artifact] /\ Size[s[i].artifact] \in Nat
<1>1. SizeIn(s)[i] = Size[s[i].artifact] /\ SizeIn(s)[i] \in Nat
  BY SizeInNat
<1>2. SizeIn(s)[i] \in Int
  BY <1>1
<1>3. SumFunctionOnSet(SizeIn(s), {i}) = SizeIn(s)[i]
  BY <1>2, SumOne, Zenon
<1>4. Sizes(s, {i}) = SumFunctionOnSet(SizeIn(s), {i})
  BY SizeInNat
<1> QED BY <1>1, <1>3, <1>4

\* The same entries in other places.
Moves(s, J, t, I, p) ==
    /\ s \in Seq(Entries) /\ t \in Seq(Entries) /\ I \subseteq 1 .. Len(t)
    /\ \A i, j \in I : p[i] = p[j] => i = j
    /\ \A i \in I : p[i] \in 1 .. Len(s) /\ t[i] = s[p[i]]
    /\ J = Image(p, I)

LEMMA SizesMoved ==
    ASSUME NEW s, NEW J, NEW t, NEW I, NEW p, Moves(s, J, t, I, p)
    PROVE  Sizes(t, I) = Sizes(s, J)
<1> USE DEF Moves
<1>1. IsFiniteSet(I)
  BY SizeInNat, PositionsFinite
<1>2. \A i \in I : SizeIn(t)[i] = SizeIn(s)[p[i]] /\ SizeIn(t)[i] \in Int
  <2> SUFFICES ASSUME NEW i \in I
               PROVE  SizeIn(t)[i] = SizeIn(s)[p[i]] /\ SizeIn(t)[i] \in Int
    OBVIOUS
  <2>1. SizeIn(t)[i] = Size[t[i].artifact] /\ SizeIn(t)[i] \in Nat
    BY SizeInNat
  <2>2. SizeIn(s)[p[i]] = Size[s[p[i]].artifact]
    BY SizeInNat
  <2> QED BY <2>1, <2>2
<1>3. SumFunctionOnSet(SizeIn(t), I) = SumFunctionOnSet(SizeIn(s), Image(p, I))
  BY <1>1, <1>2, SumReindex
<1>4. Sizes(t, I) = SumFunctionOnSet(SizeIn(t), I) /\ Sizes(s, J) = SumFunctionOnSet(SizeIn(s), J)
  BY SizeInNat
<1> QED BY <1>3, <1>4, Zenon

LEMMA SizesPicked ==
    ASSUME NEW s \in Seq(Entries), NEW t \in Seq(Entries), NEW I \in SUBSET (1 .. Len(s)),
           NEW p, Picks(t, s, I, p)
    PROVE  Sizes(t, 1 .. Len(t)) = Sizes(s, I)
<1>1. \A i, j \in 1 .. Len(t) : p[i] = p[j] => i = j
  <2>1. Len(t) \in Nat
    BY LenProperties
  <2>2. \A i, j \in 1 .. Len(t) : i < j => p[i] < p[j]
    BY DEF Picks
  <2>4. \A i \in 1 .. Len(t) : p[i] \in 1 .. Len(s)
    BY DEF Picks
  <2>3. \A i \in 1 .. Len(t) : p[i] \in Int
    BY <2>4
  <2> QED BY <2>1, <2>2, <2>3
<1>2. \A i \in 1 .. Len(t) : p[i] \in 1 .. Len(s) /\ t[i] = s[p[i]]
  BY DEF Picks
<1>3. I = Image(p, 1 .. Len(t))
  BY DEF Picks, Image
<1>4. Moves(s, I, t, 1 .. Len(t), p)
  BY <1>1, <1>2, <1>3 DEF Moves
<1> QED BY <1>4, SizesMoved

\* A prefix.
LEMMA SizesPrefix ==
    ASSUME NEW s \in Seq(Entries), NEW n \in 0 .. Len(s)
    PROVE  /\ SubSeq(s, 1, n) \in Seq(Entries) /\ Len(SubSeq(s, 1, n)) = n
           /\ \A i \in 1 .. n : SubSeq(s, 1, n)[i] = s[i]
           /\ Sizes(SubSeq(s, 1, n), 1 .. n) = Sizes(s, 1 .. n)
<1> DEFINE t == SubSeq(s, 1, n)
           p == [i \in 1 .. n |-> i]
<1>1. t \in Seq(Entries) /\ Len(t) = n /\ \A i \in 1 .. n : t[i] = s[i]
  BY LenProperties, SubSeqProperties
<1> HIDE DEF t
<1>2. \A i \in 1 .. n : p[i] = i
  OBVIOUS
<1>3. 1 .. n = Image(p, 1 .. n)
  BY DEF Image
<1> HIDE DEF p
<1>4. Sizes(t, 1 .. n) = Sizes(s, 1 .. n)
  <2>1. \A i \in 1 .. n : p[i] \in 1 .. Len(s) /\ t[i] = s[p[i]]
    BY <1>1, <1>2, LenProperties
  <2>2. Moves(s, 1 .. n, t, 1 .. n, p)
    BY <1>1, <1>2, <1>3, <2>1 DEF Moves
  <2> QED BY <2>2, SizesMoved
<1> QED BY <1>1, <1>4 DEF t

\* An entry in front.
InFront(t, e, s) == s \in Seq(Entries) /\ e \in Entries /\ t = <<e>> \o s

LEMMA SizesInFront ==
    ASSUME NEW t, NEW e, NEW s, InFront(t, e, s)
    PROVE  /\ t \in Seq(Entries) /\ Len(t) = Len(s) + 1 /\ t[1] = e
           /\ \A i \in 1 .. Len(s) : t[i + 1] = s[i]
           /\ Sizes(t, 1 .. Len(t)) = Size[e.artifact] + Sizes(s, 1 .. Len(s))
<1>1. Len(s) \in Nat /\ s \in Seq(Entries)
  BY LenProperties DEF InFront
<1>2. t \in Seq(Entries) /\ Len(t) = Len(s) + 1 /\ t[1] = e
      /\ \A i \in 1 .. Len(s) : t[i + 1] = s[i]
  BY <1>1, ConcatProperties DEF InFront
<1> DEFINE p == [i \in 2 .. Len(t) |-> i - 1]
<1>3. /\ \A i \in 2 .. Len(t) : p[i] = i - 1
      /\ 1 .. Len(s) = Image(p, 2 .. Len(t))
  <2>1. \A i \in 2 .. Len(t) : p[i] = i - 1
    OBVIOUS
  <2> HIDE DEF p
  <2>2. ASSUME NEW j \in 1 .. Len(s) PROVE \E i \in 2 .. Len(t) : p[i] = j
    <3>1. j + 1 \in 2 .. Len(t) /\ (j + 1) - 1 = j
      BY <1>1, <1>2
    <3>2. p[j + 1] = j
      BY <2>1, <3>1
    <3> QED BY <3>1, <3>2
  <2>3. \A i \in 2 .. Len(t) : p[i] \in 1 .. Len(s)
    BY <1>1, <1>2, <2>1
  <2> QED BY <2>1, <2>2, <2>3 DEF Image
<1> HIDE DEF p
<1>4. Sizes(t, 2 .. Len(t)) = Sizes(s, 1 .. Len(s))
  <2>1. \A i \in 2 .. Len(t) : p[i] \in 1 .. Len(s) /\ t[i] = s[p[i]]
    <3> SUFFICES ASSUME NEW i \in 2 .. Len(t) PROVE p[i] \in 1 .. Len(s) /\ t[i] = s[p[i]]
      OBVIOUS
    <3>1. i - 1 \in 1 .. Len(s) /\ (i - 1) + 1 = i
      BY <1>1, <1>2
    <3>2. t[(i - 1) + 1] = s[i - 1]
      BY <1>2, <3>1
    <3> QED BY <1>3, <3>1, <3>2
  <2>2. \A i, j \in 2 .. Len(t) : p[i] = p[j] => i = j
    BY <1>1, <1>2, <1>3
  <2>3. 2 .. Len(t) \subseteq 1 .. Len(t)
    BY <1>1, <1>2
  <2>4. Moves(s, 1 .. Len(s), t, 2 .. Len(t), p)
    BY <1>1, <1>2, <1>3, <2>1, <2>2, <2>3 DEF Moves
  <2> QED BY <2>4, SizesMoved
<1>5. Sizes(t, {1}) = Size[e.artifact]
  <2>1. 1 \in 1 .. Len(t)
    BY <1>1, <1>2
  <2> QED BY <1>2, <2>1, SizesOne
<1>6. Sizes(t, 1 .. Len(t)) = Sizes(t, {1}) + Sizes(t, 2 .. Len(t))
  <2> DEFINE I == {1}
  <2>1. Parts(t, 1 .. Len(t), I, 2 .. Len(t))
    BY <1>1, <1>2 DEF Parts
  <2> HIDE DEF I
  <2>2. Sizes(t, 1 .. Len(t)) = Sizes(t, I) + Sizes(t, 2 .. Len(t))
    BY <2>1, SizesSplit
  <2> QED BY <2>2 DEF I
<1> QED BY <1>2, <1>4, <1>5, <1>6

-----------------------------------------------------------------------------
(* Insertion and eviction.                                                 *)

LEMMA MaxOfPositions ==
    ASSUME NEW L \in Nat, NEW M \in SUBSET (0 .. L), 0 \in M
    PROVE  Max(M) \in M /\ \A m \in M : m <= Max(M)
<1> DEFINE N == {n \in Nat : \A K \in SUBSET (0 .. n) :
                    0 \in K => \E x \in K : \A y \in K : x >= y}
<1>1. 0 \in N
  <2>1. \A K \in SUBSET (0 .. 0) : 0 \in K => \A y \in K : 0 >= y
    OBVIOUS
  <2> QED BY <2>1
<1>2. ASSUME NEW n \in N PROVE n + 1 \in N
  <2> SUFFICES ASSUME NEW K \in SUBSET (0 .. n + 1), 0 \in K
               PROVE  \E x \in K : \A y \in K : x >= y
    OBVIOUS
  <2>1. n \in Nat
    OBVIOUS
  <2>2. CASE n + 1 \in K
    BY <2>1, <2>2
  <2>3. CASE n + 1 \notin K
    <3>1. K \in SUBSET (0 .. n)
      BY <2>1, <2>3
    <3> QED BY <3>1
  <2> QED BY <2>2, <2>3
<1>3. N \in SUBSET Nat
  OBVIOUS
<1>4. L \in N
  <2> HIDE DEF N
  <2> QED BY <1>1, <1>2, <1>3, NaturalInduction
<1>5. \E x \in M : \A y \in M : x >= y
  BY <1>4
<1>6. Max(M) \in M /\ \A y \in M : Max(M) >= y
  BY <1>5 DEF Max
<1>7. \A m \in M : m \in Int
  OBVIOUS
<1> QED BY <1>6, <1>7

\* The longest prefix that fits is kept.
LEMMA EvictKeeps ==
    ASSUME NEW s \in Seq(Entries), NEW b, b = Sizes(s, 1 .. Len(s)), config.maxBytes \in Nat
    PROVE  \E n \in 0 .. Len(s) :
              /\ Evict(s, b) = SubSeq(s, 1, n)
              /\ Sizes(s, 1 .. n) <= config.maxBytes
              /\ n < Len(s) => Sizes(s, 1 .. n + 1) > config.maxBytes
<1> DEFINE M == {m \in 0 .. Len(s) : b - Sizes(s, m + 1 .. Len(s)) <= config.maxBytes}
           n == Max(M)
<1>1. Len(s) \in Nat
  BY LenProperties
<1>2. ASSUME NEW m \in 0 .. Len(s)
      PROVE  b - Sizes(s, m + 1 .. Len(s)) = Sizes(s, 1 .. m) /\ Sizes(s, 1 .. m) \in Nat
  <2>1. Parts(s, 1 .. Len(s), 1 .. m, m + 1 .. Len(s))
    BY <1>1 DEF Parts
  <2>2. Sizes(s, 1 .. Len(s)) = Sizes(s, 1 .. m) + Sizes(s, m + 1 .. Len(s))
    BY <2>1, SizesSplit
  <2>3. 1 .. m \in SUBSET (1 .. Len(s)) /\ m + 1 .. Len(s) \in SUBSET (1 .. Len(s))
    BY <1>1
  <2>4. Sizes(s, 1 .. m) \in Nat
    BY <2>3, SizesNat
  <2>5. Sizes(s, m + 1 .. Len(s)) \in Nat
    BY <2>3, SizesNat
  <2> QED BY <2>2, <2>4, <2>5
<1>3. Sizes(s, 1 .. 0) = 0
  <2>1. 1 .. 0 = {}
    OBVIOUS
  <2>2. Sizes(s, {}) = 0
    BY SizeInNat, SumEmpty
  <2> QED BY <2>1, <2>2, Zenon
<1>4. 0 \in M
  <2>1. 0 \in 0 .. Len(s)
    BY <1>1
  <2>2. b - Sizes(s, 0 + 1 .. Len(s)) <= config.maxBytes
    BY <1>2, <1>3, <2>1
  <2> QED BY <2>1, <2>2
<1>5. n \in M /\ \A m \in M : m <= n
  <2>1. M \in SUBSET (0 .. Len(s))
    OBVIOUS
  <2> HIDE DEF M
  <2> QED BY <1>1, <1>4, <2>1, MaxOfPositions
<1>6. Evict(s, b) = SubSeq(s, 1, n)
  BY Zenon DEF Evict
<1> HIDE DEF n
<1>7. n \in 0 .. Len(s) /\ Sizes(s, 1 .. n) <= config.maxBytes
  BY <1>2, <1>5
<1>8. ASSUME n < Len(s) PROVE Sizes(s, 1 .. n + 1) > config.maxBytes
  <2>1. n + 1 \in 0 .. Len(s)
    BY <1>1, <1>7, <1>8
  <2>2. n + 1 \notin M
    BY <1>1, <1>5, <1>7
  <2>3. ~ (b - Sizes(s, (n + 1) + 1 .. Len(s)) <= config.maxBytes)
    BY <2>1, <2>2
  <2>4. b - Sizes(s, (n + 1) + 1 .. Len(s)) = Sizes(s, 1 .. n + 1) /\ Sizes(s, 1 .. n + 1) \in Nat
    BY <1>2, <2>1
  <2> QED BY <2>3, <2>4
<1> QED BY <1>6, <1>7, <1>8

\* What is cached.
StoreInv ==
    /\ config \in Configs
    /\ lru \in Seq(Entries)
    /\ \A i \in 1 .. Len(lru) : lru[i].artifact = lru[i].key
    /\ BytesAreExact
    /\ CacheIsConsistent

\* After the insertion of k: k in front of the n first of the fresh entries t,
\* which were at the positions p.
Inserted(k, t, p, n) ==
    /\ t \in Seq(Entries) /\ Picks(t, lru, DOMAIN lru \ Stale(k), p)
    /\ n \in 0 .. Len(t)
    /\ lru' \in Seq(Entries) /\ Len(lru') = n + 1
    /\ lru'[1] = [key |-> k, artifact |-> k]
    /\ \A j \in 1 .. n : lru'[j + 1] = t[j]
    /\ bytes' = Sizes(lru', 1 .. Len(lru')) /\ bytes' <= config.maxBytes
    /\ n < Len(t) => bytes' + Size[t[n + 1].artifact] > config.maxBytes

LEMMA InsertFacts ==
    ASSUME StoreInv, NEW k \in Artifacts, CanStore(k), Insert(k, k)
    PROVE  \E t, p, n : Inserted(k, t, p, n)
<1> DEFINE I == DOMAIN lru \ Stale(k)
           e == [key |-> k, artifact |-> k]
           t == FreshEntries(k)
           all == <<e>> \o t
           b == BytesWithoutStale(k) + Size[k]
<1>1. /\ lru \in Seq(Entries) /\ Len(lru) \in Nat /\ DOMAIN lru = 1 .. Len(lru)
      /\ bytes = Sizes(lru, 1 .. Len(lru)) /\ config.maxBytes \in Nat /\ Size[k] \in Nat
      /\ Size[k] <= config.maxBytes
  BY SizeInNat, CacheAssumption DEF StoreInv, BytesAreExact, CanStore
<1>2. I \in SUBSET (1 .. Len(lru)) /\ Stale(k) \in SUBSET (1 .. Len(lru))
      /\ Parts(lru, 1 .. Len(lru), I, Stale(k))
  BY <1>1 DEF Stale, Parts
<1>3. t = At(lru, I)
  BY DEF FreshEntries
<1>4. /\ lru' = Evict(all, b)
      /\ bytes' = b - (Sizes(all, DOMAIN all) - Sizes(lru', DOMAIN lru'))
  BY DEF Insert
<1>5. e \in Entries /\ e.artifact = k
  BY DEF Entries
<1>6. b = bytes - Sizes(lru, Stale(k)) + Size[k]
  BY DEF BytesWithoutStale
<1> HIDE DEF I, t, e, b
<1>7. t \in Seq(Entries) /\ Selects(t, lru, I)
  BY <1>1, <1>2, <1>3, AtPicks
<1>8. PICK p : Picks(t, lru, I, p)
  BY <1>7 DEF Selects
<1>9. Sizes(t, 1 .. Len(t)) = Sizes(lru, I)
  BY <1>1, <1>2, <1>7, <1>8, SizesPicked
<1>10. bytes = Sizes(lru, I) + Sizes(lru, Stale(k))
  BY <1>1, <1>2, SizesSplit
<1>11. Sizes(lru, I) \in Nat /\ Sizes(lru, Stale(k)) \in Nat
  <2>1. Sizes(lru, I) \in Nat
    BY <1>1, <1>2, SizesNat
  <2>2. Sizes(lru, Stale(k)) \in Nat
    BY <1>1, <1>2, SizesNat
  <2> QED BY <2>1, <2>2
<1>12. /\ all \in Seq(Entries) /\ Len(all) = Len(t) + 1 /\ all[1] = e
       /\ \A i \in 1 .. Len(t) : all[i + 1] = t[i]
       /\ Sizes(all, 1 .. Len(all)) = Size[k] + Sizes(t, 1 .. Len(t))
  <2>1. InFront(all, e, t)
    BY <1>5, <1>7 DEF InFront
  <2> HIDE DEF all
  <2>2. /\ all \in Seq(Entries) /\ Len(all) = Len(t) + 1 /\ all[1] = e
        /\ \A i \in 1 .. Len(t) : all[i + 1] = t[i]
        /\ Sizes(all, 1 .. Len(all)) = Size[e.artifact] + Sizes(t, 1 .. Len(t))
    BY <2>1, SizesInFront
  <2> QED BY <1>5, <2>2
<1> HIDE DEF all
<1>13. b = Sizes(all, 1 .. Len(all))
  BY <1>1, <1>6, <1>9, <1>10, <1>11, <1>12
<1>14. PICK m \in 0 .. Len(all) :
         /\ Evict(all, b) = SubSeq(all, 1, m)
         /\ Sizes(all, 1 .. m) <= config.maxBytes
         /\ m < Len(all) => Sizes(all, 1 .. m + 1) > config.maxBytes
  BY <1>1, <1>12, <1>13, EvictKeeps
<1>15. Len(t) \in Nat /\ Len(all) \in Nat
  BY <1>7, <1>12, LenProperties
<1>16. m # 0
  <2>1. 1 \in 1 .. Len(all)
    BY <1>12, <1>15
  <2>2. Sizes(all, {1}) = Size[all[1].artifact]
    BY <1>12, <2>1, SizesOne
  <2>3. 1 .. 1 = {1}
    OBVIOUS
  <2>4. Sizes(all, 1 .. 1) = Size[k]
    BY <1>5, <1>12, <2>2, <2>3, Zenon
  <2>5. Sizes(all, 1 .. 1) <= config.maxBytes
    BY <1>1, <2>4
  <2>6. CASE m = 0
    <3>1. Sizes(all, 1 .. 0 + 1) > config.maxBytes
      BY <1>12, <1>14, <1>15, <2>6
    <3> QED BY <1>1, <2>4, <2>5, <3>1
  <2> QED BY <2>6
<1>17. /\ lru' \in Seq(Entries) /\ Len(lru') = m /\ \A i \in 1 .. m : lru'[i] = all[i]
       /\ Sizes(lru', 1 .. m) = Sizes(all, 1 .. m)
  BY <1>4, <1>12, <1>14, SizesPrefix
<1>18. bytes' = Sizes(lru', 1 .. Len(lru'))
  <2>1. DOMAIN all = 1 .. Len(all) /\ DOMAIN lru' = 1 .. Len(lru')
    BY <1>12, <1>17, LenProperties
  <2>2. Sizes(all, 1 .. Len(all)) \in Nat
    <3>1. 1 .. Len(all) \in SUBSET (1 .. Len(all))
      OBVIOUS
    <3> QED BY <1>12, <3>1, SizesNat
  <2>3. Sizes(lru', 1 .. Len(lru')) \in Nat
    <3>1. 1 .. Len(lru') \in SUBSET (1 .. Len(lru'))
      OBVIOUS
    <3> QED BY <1>17, <3>1, SizesNat
  <2>4. bytes' = b - (Sizes(all, 1 .. Len(all)) - Sizes(lru', 1 .. Len(lru')))
    BY <1>4, <2>1, Zenon
  <2> QED BY <1>13, <2>2, <2>3, <2>4
<1>19. bytes' = Sizes(all, 1 .. m)
  BY <1>17, <1>18, Zenon
<1>20. ASSUME m - 1 < Len(t) PROVE bytes' + Size[t[m].artifact] > config.maxBytes
  <2>1. m < Len(all) /\ m \in 1 .. Len(t) /\ m + 1 \in 1 .. Len(all)
    BY <1>12, <1>15, <1>16, <1>20
  <2>2. Parts(all, 1 .. m + 1, 1 .. m, {m + 1})
    BY <1>12, <1>15, <2>1 DEF Parts
  <2> DEFINE J == {m + 1}
  <2>3. Sizes(all, J) = Size[all[m + 1].artifact]
    BY <1>12, <2>1, SizesOne
  <2>4. Parts(all, 1 .. m + 1, 1 .. m, J)
    BY <2>2
  <2> HIDE DEF J
  <2>5. Sizes(all, 1 .. m + 1) = Sizes(all, 1 .. m) + Sizes(all, J)
    BY <2>4, SizesSplit
  <2>6. all[m + 1] = t[m]
    BY <1>12, <2>1
  <2>7. Sizes(all, 1 .. m + 1) > config.maxBytes
    BY <1>14, <2>1
  <2> QED BY <1>19, <2>3, <2>5, <2>6, <2>7
<1>21. Inserted(k, t, p, m - 1)
  <2>1. m - 1 \in 0 .. Len(t) /\ (m - 1) + 1 = m
    BY <1>12, <1>15, <1>16
  <2>2. lru'[1] = [key |-> k, artifact |-> k]
    BY <1>12, <1>16, <1>17 DEF e
  <2>3. \A j \in 1 .. m - 1 : lru'[j + 1] = t[j]
    BY <1>12, <1>15, <1>17
  <2>4. bytes' <= config.maxBytes
    BY <1>14, <1>19
  <2>5. Picks(t, lru, DOMAIN lru \ Stale(k), p)
    BY <1>8 DEF I
  <2> QED BY <1>7, <1>17, <1>18, <1>20, <2>1, <2>2, <2>3, <2>4, <2>5 DEF Inserted
<1> QED BY <1>21
-----------------------------------------------------------------------------
(* The order of use.                                                       *)

\* The cached entries of other releases.
Others(k) == {i \in 1 .. Len(lru) : Release(lru[i].key) # Release(k)}

\* The entry of k in front of the n first of the others, t, which were at the
\* positions p.
Fronted(k, t, p, n) ==
    /\ t \in Seq(Entries) /\ Picks(t, lru, Others(k), p)
    /\ n \in 0 .. Len(t)
    /\ lru' \in Seq(Entries) /\ Len(lru') = n + 1
    /\ lru'[1] = [key |-> k, artifact |-> k]
    /\ \A j \in 1 .. n : lru'[j + 1] = t[j]

LEMMA InsertFronts ==
    ASSUME StoreInv, NEW k \in Artifacts, \A i \in 1 .. Len(lru) : lru[i].key # k,
           NEW t, NEW p, NEW n, Inserted(k, t, p, n)
    PROVE  Fronted(k, t, p, n)
<1>1. DOMAIN lru = 1 .. Len(lru)
  BY SizeInNat DEF StoreInv
<1>2. DOMAIN lru \ Stale(k) = Others(k)
  BY <1>1 DEF Stale, Others
<1>3. Picks(t, lru, Others(k), p)
  BY <1>2, Zenon DEF Inserted
<1> QED BY <1>3 DEF Inserted, Fronted

LEMMA WithoutPicks ==
    ASSUME NEW X, NEW s \in Seq(X), NEW i \in 1 .. Len(s)
    PROVE  /\ Without(s, i) \in Seq(X) /\ Len(Without(s, i)) = Len(s) - 1
           /\ Selects(Without(s, i), s, {j \in 1 .. Len(s) : j # i})
<1> DEFINE a == SubSeq(s, 1, i - 1)
           b == SubSeq(s, i + 1, Len(s))
           t == a \o b
           p == [j \in 1 .. Len(s) - 1 |-> IF j < i THEN j ELSE j + 1]
           I == {j \in 1 .. Len(s) : j # i}
<1>1. Len(s) \in Nat
  BY LenProperties
<1>2. /\ a \in Seq(X) /\ Len(a) = i - 1 /\ \A j \in 1 .. i - 1 : a[j] = s[j]
  <2>1. \A j \in 1 .. i - 1 : s[j] \in X
    BY <1>1
  <2> QED BY <1>1, <2>1, SubSeqProperties
<1>3. /\ b \in Seq(X) /\ Len(b) = Len(s) - i
      /\ \A j \in 1 .. Len(s) - i : b[j] = s[i + j]
  <2>1. \A j \in i + 1 .. Len(s) : s[j] \in X
    BY <1>1
  <2> QED BY <1>1, <2>1, SubSeqProperties
<1> HIDE DEF a, b
<1>4. t = a \o b
  OBVIOUS
<1> HIDE DEF t
<1>5. /\ t \in Seq(X) /\ Len(t) = Len(s) - 1
      /\ \A j \in 1 .. Len(t) : t[j] = IF j <= Len(a) THEN a[j] ELSE b[j - Len(a)]
  <2>1. /\ t \in Seq(X) /\ Len(t) = Len(a) + Len(b)
        /\ \A j \in 1 .. Len(a) + Len(b) : t[j] = IF j <= Len(a) THEN a[j] ELSE b[j - Len(a)]
    BY <1>2, <1>3, <1>4, ConcatProperties
  <2> QED BY <1>1, <1>2, <1>3, <2>1
<1>6. \A j \in 1 .. Len(t) : t[j] = s[p[j]]
  <2> SUFFICES ASSUME NEW j \in 1 .. Len(t) PROVE t[j] = s[p[j]]
    OBVIOUS
  <2>1. CASE j < i
    BY <1>1, <1>2, <1>5, <2>1
  <2>2. CASE ~ (j < i)
    <3>1. j - Len(a) \in 1 .. Len(s) - i /\ i + (j - Len(a)) = j + 1
      BY <1>1, <1>2, <1>5, <2>2
    <3>2. b[j - Len(a)] = s[i + (j - Len(a))]
      BY <1>3, <3>1
    <3>3. t[j] = b[j - Len(a)]
      BY <1>1, <1>2, <1>5, <2>2
    <3> QED BY <1>1, <1>5, <2>2, <3>1, <3>2, <3>3
  <2> QED BY <2>1, <2>2
<1>7. p \in [1 .. Len(t) -> I] /\ \A j, m \in 1 .. Len(t) : j < m => p[j] < p[m]
  BY <1>1, <1>5
<1>8. \A m \in I : \E j \in 1 .. Len(t) : p[j] = m
  <2> SUFFICES ASSUME NEW m \in I PROVE \E j \in 1 .. Len(t) : p[j] = m
    OBVIOUS
  <2>1. CASE m < i
    <3>1. m \in 1 .. Len(t) /\ p[m] = m
      BY <1>1, <1>5, <2>1
    <3> QED BY <3>1
  <2>2. CASE ~ (m < i)
    <3>1. m - 1 \in 1 .. Len(t) /\ p[m - 1] = m
      BY <1>1, <1>5, <2>2
    <3> QED BY <3>1
  <2> QED BY <2>1, <2>2
<1> HIDE DEF p, I
<1>9. Picks(t, s, I, p)
  BY <1>6, <1>7, <1>8 DEF Picks
<1>10. Without(s, i) = t
  BY DEF Without, t, a, b
<1> QED BY <1>5, <1>9, <1>10 DEF Selects, I

\* A hit: the others all stay, and so do the bytes.
LEMMA MoveToFrontFacts ==
    ASSUME StoreInv, NEW k \in Artifacts, NEW i \in 1 .. Len(lru), lru[i].key = k,
           lru' = MoveToFront(i)
    PROVE  /\ \E t, p : Fronted(k, t, p, Len(t))
           /\ Sizes(lru', 1 .. Len(lru')) = Sizes(lru, 1 .. Len(lru))
<1> DEFINE t == Without(lru, i)
           I == {j \in 1 .. Len(lru) : j # i}
           e == lru[i]
<1>1. /\ lru \in Seq(Entries) /\ Len(lru) \in Nat /\ e \in Entries
      /\ \A j \in 1 .. Len(lru) : lru[j] \in Entries /\ lru[j].artifact = lru[j].key
      /\ DOMAIN lru = 1 .. Len(lru)
  BY SizeInNat DEF StoreInv
<1>2. I = Others(k)
  BY <1>1 DEF Others, StoreInv, CacheIsConsistent
<1>3. t \in Seq(Entries) /\ Selects(t, lru, I)
  BY <1>1, WithoutPicks
<1>4. e = [key |-> k, artifact |-> k]
  BY <1>1 DEF Entries
<1>5. InFront(lru', e, t)
  BY <1>1, <1>3 DEF InFront, MoveToFront
<1>6. I \in SUBSET (1 .. Len(lru))
  OBVIOUS
<1>7. Parts(lru, 1 .. Len(lru), I, {i})
  BY <1>1 DEF Parts
<1> DEFINE J == {i}
<1>8. Parts(lru, 1 .. Len(lru), I, J)
  BY <1>7
<1>9. Sizes(lru, J) = Size[e.artifact]
  BY <1>1, SizesOne
<1> HIDE DEF t, I, J
<1>10. PICK p : Picks(t, lru, I, p)
  BY <1>3 DEF Selects
<1>11. /\ lru' \in Seq(Entries) /\ Len(lru') = Len(t) + 1 /\ lru'[1] = e
       /\ \A j \in 1 .. Len(t) : lru'[j + 1] = t[j]
       /\ Sizes(lru', 1 .. Len(lru')) = Size[e.artifact] + Sizes(t, 1 .. Len(t))
  <2> HIDE DEF e
  <2> QED BY <1>5, SizesInFront
<1>12. Sizes(t, 1 .. Len(t)) = Sizes(lru, I)
  BY <1>1, <1>3, <1>6, <1>10, SizesPicked
<1>13. Sizes(lru, 1 .. Len(lru)) = Sizes(lru, I) + Sizes(lru, J)
  BY <1>8, SizesSplit
<1>14. Sizes(lru, I) \in Nat /\ Size[e.artifact] \in Nat
  BY <1>1, <1>6, SizesNat, SizesOne
<1>15. Fronted(k, t, p, Len(t))
  <2>1. Len(t) \in 0 .. Len(t)
    BY <1>3, LenProperties
  <2>2. Picks(t, lru, Others(k), p)
    BY <1>2, <1>10, Zenon
  <2> QED BY <1>3, <1>4, <1>11, <2>1, <2>2 DEF Fronted
<1> QED BY <1>9, <1>11, <1>12, <1>13, <1>14, <1>15

\* What is in front of one key keeps the store in order.
LEMMA FrontedStore ==
    ASSUME StoreInv, NEW k \in Artifacts, Size[k] <= config.maxItemBytes,
           NEW t, NEW p, NEW n, Fronted(k, t, p, n)
    PROVE  /\ \A i \in 1 .. Len(lru') : lru'[i].artifact = lru'[i].key
           /\ \A i \in 1 .. Len(lru') : Size[lru'[i].artifact] <= config.maxItemBytes
           /\ \A i, j \in 1 .. Len(lru') :
                 Release(lru'[i].key) = Release(lru'[j].key) => i = j
           /\ \A i \in 1 .. Len(lru') :
                 lru'[i].key = k \/ \E j \in 1 .. Len(lru) : lru'[i].key = lru[j].key
<1>1. /\ lru \in Seq(Entries) /\ Len(lru) \in Nat /\ DOMAIN lru = 1 .. Len(lru)
      /\ \A j \in 1 .. Len(lru) : /\ lru[j].artifact = lru[j].key
                                  /\ Size[lru[j].artifact] <= config.maxItemBytes
      /\ \A i, j \in 1 .. Len(lru) : Release(lru[i].key) = Release(lru[j].key) => i = j
  BY SizeInNat DEF StoreInv, BytesAreExact, CacheIsConsistent
<1>2. /\ n \in Nat /\ n <= Len(t) /\ Len(lru') = n + 1 /\ Len(t) \in Nat
      /\ lru'[1] = [key |-> k, artifact |-> k]
      /\ \A j \in 1 .. n : lru'[j + 1] = t[j]
      /\ \A j \in 1 .. Len(t) : /\ t[j] = lru[p[j]] /\ p[j] \in 1 .. Len(lru)
                                /\ Release(lru[p[j]].key) # Release(k)
      /\ \A i, j \in 1 .. Len(t) : i < j => p[i] < p[j]
  <2>1. Len(t) \in Nat
    BY LenProperties DEF Fronted
  <2> QED BY <2>1 DEF Fronted, Picks, Others
<1>3. lru'[1].key = k /\ lru'[1].artifact = k
  BY <1>2
<1>4. ASSUME NEW i \in 1 .. Len(lru'), i # 1
      PROVE  /\ i - 1 \in 1 .. Len(t) /\ p[i - 1] \in 1 .. Len(lru)
             /\ lru'[i] = lru[p[i - 1]] /\ Release(lru[p[i - 1]].key) # Release(k)
  <2>1. i - 1 \in 1 .. n /\ (i - 1) + 1 = i /\ i - 1 \in 1 .. Len(t)
    BY <1>2, <1>4
  <2>2. lru'[(i - 1) + 1] = t[i - 1]
    BY <1>2, <2>1
  <2> QED BY <1>2, <2>1, <2>2
<1>5. \A i \in 1 .. Len(lru') : /\ lru'[i].artifact = lru'[i].key
                                /\ Size[lru'[i].artifact] <= config.maxItemBytes
                                /\ \/ lru'[i].key = k
                                   \/ \E j \in 1 .. Len(lru) : lru'[i].key = lru[j].key
  <2> SUFFICES ASSUME NEW i \in 1 .. Len(lru')
               PROVE  /\ lru'[i].artifact = lru'[i].key
                      /\ Size[lru'[i].artifact] <= config.maxItemBytes
                      /\ lru'[i].key = k \/ \E j \in 1 .. Len(lru) : lru'[i].key = lru[j].key
    OBVIOUS
  <2>1. CASE i = 1
    BY <1>3, <2>1
  <2>2. CASE i # 1
    BY <1>1, <1>4, <2>2
  <2> QED BY <2>1, <2>2
<1>6. \A i, j \in 1 .. Len(t) : p[i] = p[j] => i = j
  <2>1. \A i \in 1 .. Len(t) : p[i] \in Int
    BY <1>2
  <2> QED BY <1>2, <2>1
<1>7. ASSUME NEW i \in 1 .. Len(lru'), NEW j \in 1 .. Len(lru'),
             Release(lru'[i].key) = Release(lru'[j].key)
      PROVE  i = j
  <2>1. CASE i = 1 /\ j # 1
    BY <1>3, <1>4, <1>7, <2>1
  <2>2. CASE i # 1 /\ j = 1
    BY <1>3, <1>4, <1>7, <2>2
  <2>3. CASE i # 1 /\ j # 1
    <3>1. p[i - 1] = p[j - 1]
      BY <1>1, <1>4, <1>7, <2>3
    <3>2. i - 1 \in 1 .. Len(t) /\ j - 1 \in 1 .. Len(t)
      BY <1>4, <2>3
    <3>3. i - 1 = j - 1
      BY <1>6, <3>1, <3>2
    <3>4. i \in Int /\ j \in Int
      BY <1>2
    <3> QED BY <3>3, <3>4
  <2> QED BY <2>1, <2>2, <2>3
<1> QED BY <1>5, <1>7
-----------------------------------------------------------------------------
(* The keys used.                                                          *)

\* The uses of other releases.
OtherUses(k) == {i \in 1 .. Len(recent) : Release(recent[i]) # Release(k)}

\* The last use is in front of the others, u, which were at the positions q.
UseFronted(k, u, q) ==
    /\ u \in Seq(Artifacts) /\ Picks(u, recent, OtherUses(k), q)
    /\ recent' \in Seq(Artifacts) /\ Len(recent') = Len(u) + 1
    /\ recent'[1] = k
    /\ \A j \in 1 .. Len(u) : recent'[j + 1] = u[j]

LEMMA UsedFronts ==
    ASSUME recent \in Seq(Artifacts), NEW k \in Artifacts, Used(k)
    PROVE  \E u, q : UseFronted(k, u, q)
<1> DEFINE I == {i \in DOMAIN recent : Release(recent[i]) # Release(k)}
           u == At(recent, I)
           r == recent'
<1>1. DOMAIN recent = 1 .. Len(recent) /\ Len(recent) \in Nat
  BY LenProperties
<1>2. I = OtherUses(k) /\ I \in SUBSET (1 .. Len(recent))
  BY <1>1 DEF OtherUses
<1>3. r = <<k>> \o u
  BY DEF Used
<1> HIDE DEF I, u, r
<1>4. At(recent, I) \in Seq(Artifacts) /\ Selects(At(recent, I), recent, I)
  BY <1>1, <1>2, AtPicks
<1>5. u \in Seq(Artifacts) /\ Selects(u, recent, I)
  BY <1>4 DEF u
<1>6. PICK q : Picks(u, recent, I, q)
  BY <1>5 DEF Selects
<1>7. Len(u) \in Nat
  BY <1>5, LenProperties
<1>8. /\ r \in Seq(Artifacts) /\ Len(r) = Len(u) + 1 /\ r[1] = k
      /\ \A j \in 1 .. Len(u) : r[j + 1] = u[j]
  BY <1>3, <1>5, <1>7, ConcatProperties
<1>9. Picks(u, recent, OtherUses(k), q)
  BY <1>2, <1>6, Zenon
<1> QED BY <1>5, <1>8, <1>9 DEF UseFronted, r

\* p lists the numbers of I in order, n of them.
Enumerates(p, n, I) ==
    /\ n \in Nat /\ I \subseteq Nat
    /\ \A j \in 1 .. n : p[j] \in I
    /\ \A i, j \in 1 .. n : i < j => p[i] < p[j]
    /\ \A i \in I : \E j \in 1 .. n : p[j] = i

\* I is what J has up to L.
UpTo(I, J, L) == L \in Nat /\ I = {i \in J : i <= L}

\* Two enumerations that have the same members below a bound agree there.
LEMMA SamePlaces ==
    ASSUME NEW I, NEW J, NEW L, NEW n, NEW m, NEW p, NEW q,
           Enumerates(p, n, I), Enumerates(q, m, J), UpTo(I, J, L)
    PROVE  \A j \in 1 .. n : j \in 1 .. m /\ p[j] = q[j]
<1>1. /\ n \in Nat /\ m \in Nat /\ L \in Nat /\ I \subseteq Nat /\ J \subseteq Nat
      /\ \A j \in 1 .. n : p[j] \in I
      /\ \A j \in 1 .. m : q[j] \in J
      /\ \A i, j \in 1 .. n : i < j => p[i] < p[j]
      /\ \A i, j \in 1 .. m : i < j => q[i] < q[j]
      /\ \A i \in I : \E j \in 1 .. n : p[j] = i
      /\ \A i \in J : \E j \in 1 .. m : q[j] = i
      /\ \A i \in J : i <= L => i \in I
      /\ \A i \in I : i \in J /\ i <= L
  BY DEF Enumerates, UpTo
<1>2. \A i \in I : i \in Nat
  BY <1>1
<1>3. \A i \in J : i \in Nat
  BY <1>1
<1> DEFINE N == {x \in Nat : \A j \in 1 .. n : j <= x => j \in 1 .. m /\ p[j] = q[j]}
<1>4. 0 \in N
  OBVIOUS
<1>5. ASSUME NEW x \in N PROVE x + 1 \in N
  <2> SUFFICES ASSUME x + 1 \in 1 .. n PROVE x + 1 \in 1 .. m /\ p[x + 1] = q[x + 1]
    BY <1>1
  <2> DEFINE y == x + 1
  <2>1. /\ y \in 1 .. n /\ y \in Nat
        /\ \A j \in 1 .. n : j < y => j \in 1 .. m /\ p[j] = q[j]
    BY <1>1
  <2> HIDE DEF y, N
  <2>2. p[y] \in I /\ p[y] \in J /\ p[y] \in Nat
    BY <1>1, <1>2, <2>1
  <2>3. PICK j \in 1 .. m : q[j] = p[y]
    BY <1>1, <2>2
  <2>4. ~ (j < y)
    <3> SUFFICES ASSUME j < y PROVE FALSE
      OBVIOUS
    <3>1. j \in 1 .. n
      BY <1>1, <2>1
    <3>2. p[j] = q[j] /\ p[j] < p[y]
      BY <1>1, <2>1, <3>1
    <3> QED BY <2>2, <2>3, <3>2
  <2>5. y \in 1 .. m
    BY <1>1, <2>1, <2>4
  <2>6. q[y] \in J /\ q[y] \in Nat
    BY <1>1, <1>3, <2>5
  <2>7. q[y] <= p[y]
    <3>1. j = y \/ q[y] < q[j]
      BY <1>1, <2>1, <2>4, <2>5
    <3> QED BY <2>2, <2>3, <2>6, <3>1
  <2>8. q[y] \in I
    <3>1. p[y] <= L
      BY <1>1, <2>2
    <3>2. q[y] <= L
      BY <1>1, <2>2, <2>6, <2>7, <3>1
    <3> QED BY <1>1, <2>6, <3>2
  <2>9. PICK i \in 1 .. n : p[i] = q[y]
    BY <1>1, <2>8
  <2>10. ~ (i < y)
    <3> SUFFICES ASSUME i < y PROVE FALSE
      OBVIOUS
    <3>1. i \in 1 .. m /\ p[i] = q[i]
      BY <2>1
    <3>2. q[i] < q[y]
      BY <1>1, <2>5, <3>1
    <3> QED BY <2>6, <2>9, <3>1, <3>2
  <2>11. p[y] <= q[y]
    <3>1. i = y \/ p[y] < p[i]
      BY <1>1, <2>1, <2>10
    <3> QED BY <2>2, <2>6, <2>9, <3>1
  <2>12. p[y] = q[y]
    BY <2>2, <2>6, <2>7, <2>11
  <2> QED BY <2>5, <2>12 DEF y
<1>6. N \in SUBSET Nat
  OBVIOUS
<1>7. n \in N
  <2> HIDE DEF N
  <2> QED BY <1>4, <1>5, <1>6, <1>1, NaturalInduction
<1> QED BY <1>7, <1>1

\* Every release was used last under one key, and the cache is a prefix of the
\* uses.
UsesInv ==
    /\ recent \in Seq(Artifacts)
    /\ \A i, j \in 1 .. Len(recent) : Release(recent[i]) = Release(recent[j]) => i = j
    /\ KeepsMostRecent

LEMMA UsesStep ==
    ASSUME StoreInv, UsesInv, NEW k \in Artifacts, NEW t, NEW p, NEW n,
           Fronted(k, t, p, n), Used(k)
    PROVE  UsesInv' /\ recent'[1] = k
<1>1. PICK u, q : UseFronted(k, u, q)
  BY UsedFronts DEF UsesInv
<1>2. /\ lru \in Seq(Entries) /\ Len(lru) \in Nat /\ DOMAIN lru = 1 .. Len(lru)
      /\ recent \in Seq(Artifacts) /\ Len(recent) \in Nat
      /\ Len(lru) <= Len(recent) /\ \A i \in 1 .. Len(lru) : lru[i].key = recent[i]
      /\ \A i, j \in 1 .. Len(recent) : Release(recent[i]) = Release(recent[j]) => i = j
  BY SizeInNat, LenProperties DEF StoreInv, UsesInv, KeepsMostRecent
<1>3. /\ n \in Nat /\ n <= Len(t) /\ Len(t) \in Nat
      /\ lru' \in Seq(Entries) /\ Len(lru') = n + 1
      /\ lru'[1] = [key |-> k, artifact |-> k]
      /\ \A j \in 1 .. n : lru'[j + 1] = t[j]
      /\ \A j \in 1 .. Len(t) : p[j] \in Others(k) /\ t[j] = lru[p[j]]
      /\ \A i, j \in 1 .. Len(t) : i < j => p[i] < p[j]
      /\ \A i \in Others(k) : \E j \in 1 .. Len(t) : p[j] = i
  <2>1. Len(t) \in Nat
    BY LenProperties DEF Fronted
  <2> QED BY <2>1 DEF Fronted, Picks
<1>4. /\ Len(u) \in Nat /\ recent' \in Seq(Artifacts) /\ Len(recent') = Len(u) + 1
      /\ recent'[1] = k
      /\ \A j \in 1 .. Len(u) : recent'[j + 1] = u[j]
      /\ \A j \in 1 .. Len(u) : q[j] \in OtherUses(k) /\ u[j] = recent[q[j]]
      /\ \A i, j \in 1 .. Len(u) : i < j => q[i] < q[j]
      /\ \A i \in OtherUses(k) : \E j \in 1 .. Len(u) : q[j] = i
  <2>1. Len(u) \in Nat
    BY <1>1, LenProperties DEF UseFronted
  <2> QED BY <1>1, <2>1 DEF UseFronted, Picks
<1>5. UpTo(Others(k), OtherUses(k), Len(lru))
  BY <1>2 DEF Others, OtherUses, UpTo
<1>6. OtherUses(k) \subseteq Nat /\ Others(k) \subseteq Nat
  BY DEF OtherUses, Others
<1>7. \A j \in 1 .. Len(t) : j \in 1 .. Len(u) /\ p[j] = q[j]
  <2>1. Enumerates(p, Len(t), Others(k))
    BY <1>3, <1>6 DEF Enumerates
  <2>2. Enumerates(q, Len(u), OtherUses(k))
    BY <1>4, <1>6 DEF Enumerates
  <2> QED BY <1>5, <2>1, <2>2, SamePlaces
<1>8. Len(lru') <= Len(recent')
  <2>1. Len(t) = 0 \/ Len(t) \in 1 .. Len(t)
    BY <1>3
  <2>2. Len(t) <= Len(u)
    BY <1>3, <1>4, <1>7, <2>1
  <2> QED BY <1>3, <1>4, <2>2
<1>9. ASSUME NEW i \in 1 .. Len(lru') PROVE lru'[i].key = recent'[i]
  <2>1. CASE i = 1
    BY <1>3, <1>4, <2>1
  <2>2. CASE i # 1
    <3> DEFINE j == i - 1
    <3>1. j \in 1 .. n /\ j + 1 = i /\ j \in 1 .. Len(t)
      BY <1>3, <2>2
    <3> HIDE DEF j
    <3>2. lru'[i] = lru[p[j]] /\ p[j] \in Others(k) /\ j \in 1 .. Len(u) /\ p[j] = q[j]
      BY <1>3, <1>7, <3>1
    <3>3. recent'[i] = recent[q[j]]
      BY <1>4, <3>1, <3>2
    <3>4. lru[p[j]].key = recent[p[j]]
      BY <1>2, <3>2 DEF Others
    <3> QED BY <3>2, <3>3, <3>4
  <2> QED BY <2>1, <2>2
<1>10. ASSUME NEW i \in 1 .. Len(recent'), i # 1
       PROVE  /\ i - 1 \in 1 .. Len(u) /\ q[i - 1] \in 1 .. Len(recent)
              /\ recent'[i] = recent[q[i - 1]] /\ Release(recent'[i]) # Release(k)
  <2> DEFINE j == i - 1
  <2>1. j \in 1 .. Len(u) /\ j + 1 = i
    BY <1>4, <1>10
  <2> HIDE DEF j
  <2>2. recent'[i] = recent[q[j]] /\ q[j] \in OtherUses(k)
    BY <1>4, <2>1
  <2>3. q[j] \in 1 .. Len(recent) /\ Release(recent[q[j]]) # Release(k)
    BY <2>2 DEF OtherUses
  <2> QED BY <2>1, <2>2, <2>3 DEF j
<1>11. \A i, j \in 1 .. Len(u) : q[i] = q[j] => i = j
  <2>1. \A i \in 1 .. Len(u) : q[i] \in Int
    BY <1>4, <1>6
  <2> QED BY <1>4, <2>1
<1>12. ASSUME NEW i \in 1 .. Len(recent'), NEW j \in 1 .. Len(recent'),
              Release(recent'[i]) = Release(recent'[j])
       PROVE  i = j
  <2>1. CASE i = 1 /\ j # 1
    BY <1>4, <1>10, <1>12, <2>1
  <2>2. CASE i # 1 /\ j = 1
    BY <1>4, <1>10, <1>12, <2>2
  <2>3. CASE i # 1 /\ j # 1
    <3>1. q[i - 1] = q[j - 1]
      <4>1. q[i - 1] \in 1 .. Len(recent) /\ recent'[i] = recent[q[i - 1]]
        BY <1>10, <2>3
      <4>2. q[j - 1] \in 1 .. Len(recent) /\ recent'[j] = recent[q[j - 1]]
        BY <1>10, <2>3
      <4>3. Release(recent[q[i - 1]]) = Release(recent[q[j - 1]])
        BY <1>12, <4>1, <4>2
      <4> QED BY <1>2, <4>1, <4>2, <4>3
    <3>2. i - 1 \in 1 .. Len(u) /\ j - 1 \in 1 .. Len(u)
      BY <1>10, <2>3
    <3>3. i - 1 = j - 1
      BY <1>11, <3>1, <3>2
    <3>4. i \in Int /\ j \in Int
      BY <1>4
    <3> QED BY <3>3, <3>4
  <2> QED BY <2>1, <2>2, <2>3
<1>13. KeepsMostRecent'
  <2>1. DOMAIN lru' = 1 .. Len(lru')
    BY <1>3, LenProperties
  <2> QED BY <1>8, <1>9, <2>1 DEF KeepsMostRecent
<1> QED BY <1>4, <1>12, <1>13 DEF UsesInv
-----------------------------------------------------------------------------
(* The cache through a step.                                               *)

\* A load that ended has a result.
Ended == \A f \in Requests : load[f] \in {"closing", "closed"} => result[f] # None

\* An artifact is answered once, at the end, and it is the wanted one.
AnswerInv ==
    /\ answer \in [Requests -> Artifacts \cup {None, Failed, Cancelled}]
    /\ \A q \in Requests : answer[q] \in Artifacts => phase[q] = "done" /\ answer[q] = wanted[q]

\* The inductive invariant of the cache; the one of the flights is Inv.
CacheInv == StoreInv /\ UsesInv /\ Ended /\ AnswerInv

\* The steps that leave the cache alone.
CacheKept ==
    /\ UNCHANGED <<config, cacheVars>>
    /\ \A i \in 1 .. Len(lru) : inflight'[lru[i].key] = Nobody

\* A hit.
HitCache(k) ==
    /\ UNCHANGED <<config, bytes, inflight>> /\ Used(k)
    /\ \E i \in 1 .. Len(lru) : lru[i].key = k /\ lru' = MoveToFront(i)

\* The end of a load whose artifact is stored.
StoreInCache(k) ==
    /\ config' = config /\ CanStore(k) /\ Insert(k, k)
    /\ inflight[k] # Nobody /\ inflight' = [inflight EXCEPT ![k] = Nobody]

LEMMA OtherAnswers == None # Failed /\ {None, Failed, Cancelled} \cap Artifacts = {}
<1> SUFFICES ASSUME None = Failed PROVE FALSE
  BY CacheAssumption
<1> DEFINE S == {None}
<1>1. IsFiniteSet(S) /\ Cardinality(S) = 1
  BY FS_Singleton
<1>2. {None, Failed, Cancelled} = S \cup {Cancelled}
  OBVIOUS
<1> HIDE DEF S
<1>3. Cardinality(S \cup {Cancelled}) \in {1, 2}
  BY <1>1, FS_AddElement
<1>4. Cardinality({None, Failed, Cancelled}) = 3
  BY CacheAssumption
<1>5. Cardinality(S \cup {Cancelled}) = 3
  BY <1>2, <1>4, Zenon
<1> QED BY <1>3, <1>5

LEMMA InitCache == Init => CacheInv
<1> SUFFICES ASSUME Init PROVE CacheInv
  OBVIOUS
<1>1. /\ config \in Configs /\ lru = <<>> /\ bytes = 0 /\ recent = <<>>
      /\ answer = [q \in Requests |-> None] /\ load = [q \in Requests |-> "none"]
  BY DEF Init
<1>2. config.maxBytes \in Nat
  BY <1>1, CacheAssumption
<1>3. lru \in Seq(Entries) /\ Len(lru) = 0 /\ DOMAIN lru = {}
  BY <1>1
<1>4. Sizes(lru, DOMAIN lru) = 0
  <2>1. Sizes(lru, {}) = SumFunctionOnSet(SizeIn(lru), {})
    BY <1>3, SizeInNat
  <2> QED BY <1>3, <2>1, SumEmpty, Zenon
<1>5. StoreInv
  BY <1>1, <1>2, <1>3, <1>4 DEF StoreInv, BytesAreExact, CacheIsConsistent
<1>6. UsesInv
  <2>1. recent \in Seq(Artifacts) /\ Len(recent) = 0
    BY <1>1
  <2> QED BY <1>3, <2>1 DEF UsesInv, KeepsMostRecent
<1>7. Ended /\ AnswerInv
  BY <1>1, OtherAnswers DEF Ended, AnswerInv
<1> QED BY <1>5, <1>6, <1>7 DEF CacheInv

\* Every step is one of the three.
LEMMA CacheSteps ==
    ASSUME Inv, CacheInv, [Next]_vars
    PROVE  CacheKept \/ \E k \in Artifacts : HitCache(k) \/ StoreInCache(k)
<1>1. /\ DOMAIN lru = 1 .. Len(lru) /\ \A i \in 1 .. Len(lru) : inflight[lru[i].key] = Nobody
      /\ \A i \in 1 .. Len(lru) : lru[i].key \in Artifacts
  BY SizeInNat DEF CacheInv, StoreInv, CacheIsConsistent, Entries
<1>2. ASSUME UNCHANGED <<config, inflight, cacheVars>> PROVE CacheKept
  BY <1>1, <1>2 DEF CacheKept
<1>3. ASSUME NEW q \in Requests, Hit(q) PROVE HitCache(wanted[q]) /\ wanted[q] \in Artifacts
  BY <1>1, <1>3 DEF Hit, HitCache, Positions, Inv, FlightTypes
<1>4. ASSUME NEW q \in Requests, Register(q) PROVE CacheKept
  <2>1. /\ UNCHANGED <<config, cacheVars>> /\ inflight' = [inflight EXCEPT ![wanted[q]] = q]
        /\ \A i \in 1 .. Len(lru) : lru[i].key # wanted[q]
    BY <1>1, <1>4 DEF Register, Miss, Positions
  <2>2. \A i \in 1 .. Len(lru) : inflight'[lru[i].key] = inflight[lru[i].key]
    BY <1>1, <2>1 DEF Inv, FlightTypes
  <2> QED BY <1>1, <2>1, <2>2 DEF CacheKept
<1>5. ASSUME NEW f \in Requests, CloseFlight(f)
      PROVE  CacheKept \/ (StoreInCache(wanted[f]) /\ wanted[f] \in Artifacts)
  <2>1. /\ load[f] = "closing" /\ config' = config
        /\ inflight' = [inflight EXCEPT ![wanted[f]] = Nobody]
        /\ \/ result[f] # Failed /\ CanStore(result[f]) /\ Insert(wanted[f], result[f])
           \/ UNCHANGED cacheVars
    BY <1>5 DEF CloseFlight, RemoveFlight
  <2>2. wanted[f] \in Artifacts /\ inflight[wanted[f]] = f /\ f # Nobody
    BY <2>1, CacheAssumption DEF Inv, FlightTypes, OneLoadPerKey
  <2>3. CASE UNCHANGED cacheVars
    <3>1. \A i \in 1 .. Len(lru) : inflight'[lru[i].key] = Nobody
      BY <1>1, <2>1 DEF Inv, FlightTypes
    <3> QED BY <2>1, <2>3, <3>1 DEF CacheKept
  <2>4. CASE result[f] # Failed /\ CanStore(result[f]) /\ Insert(wanted[f], result[f])
    <3>1. result[f] # None
      BY <2>1 DEF CacheInv, Ended
    <3>2. result[f] = wanted[f]
      BY <2>4, <3>1 DEF Inv, FlightTypes, ResultIsWanted
    <3> QED BY <2>1, <2>2, <2>4, <3>2 DEF StoreInCache
  <2> QED BY <2>1, <2>3, <2>4
<1>6. CASE UNCHANGED vars
  BY <1>2, <1>6 DEF vars
<1>7. ASSUME NEW q \in Requests, RequestStep(q) \/ FlightStep(q)
      PROVE  CacheKept \/ \E k \in Artifacts : HitCache(k) \/ StoreInCache(k)
  <2>1. CASE Hit(q)
    BY <1>3, <2>1
  <2>2. CASE Register(q)
    BY <1>4, <2>2
  <2>3. CASE CloseFlight(q)
    BY <1>5, <2>3
  <2>4. CASE \/ \E r \in Releases : Ask(q, r)
             \/ Join(q) \/ StartFlight(q) \/ Receive(q) \/ Cancel(q) \/ ReadDirect(q)
             \/ Fetch(q) \/ TimeOut(q)
    <3>1. UNCHANGED <<config, inflight, cacheVars>>
      BY <2>4 DEF Ask, Join, StartFlight, Receive, Cancel, ReadDirect, Fetch, TimeOut, LoadEnds
    <3> QED BY <1>2, <3>1
  <2> QED BY <1>7, <2>1, <2>2, <2>3, <2>4 DEF RequestStep, FlightStep
<1>8. ASSUME NEW r \in Releases, Tamper(r) PROVE CacheKept
  BY <1>2, <1>8 DEF Tamper
<1> QED BY <1>6, <1>7, <1>8 DEF Next

\* A stored artifact has no entry yet: its flight is registered.
LEMMA StoreFacts ==
    ASSUME CacheInv, NEW k \in Artifacts, StoreInCache(k)
    PROVE  \E t, p, n : Inserted(k, t, p, n) /\ Fronted(k, t, p, n)
<1>1. \A i \in 1 .. Len(lru) : lru[i].key # k
  BY SizeInNat DEF CacheInv, StoreInv, CacheIsConsistent, StoreInCache
<1>2. PICK t, p, n : Inserted(k, t, p, n)
  BY InsertFacts DEF CacheInv, StoreInCache
<1>3. Fronted(k, t, p, n)
  BY <1>1, <1>2, InsertFronts DEF CacheInv
<1> QED BY <1>2, <1>3

LEMMA StoreStep ==
    ASSUME Inv, CacheInv, [Next]_vars
    PROVE  StoreInv' /\ UsesInv'
<1>1. CASE CacheKept
  <2>1. UNCHANGED <<config, lru, bytes, recent>>
    BY <1>1 DEF CacheKept, cacheVars
  <2>2. CacheIsConsistent'
    BY <1>1, <2>1, SizeInNat DEF CacheKept, CacheInv, StoreInv, CacheIsConsistent
  <2>3. BytesAreExact'
    BY <2>1 DEF CacheInv, StoreInv, BytesAreExact, Sizes
  <2> QED BY <2>1, <2>2, <2>3 DEF CacheInv, StoreInv, UsesInv, KeepsMostRecent
<1>2. ASSUME NEW k \in Artifacts, HitCache(k) PROVE StoreInv' /\ UsesInv'
  <2>1. PICK i \in 1 .. Len(lru) : lru[i].key = k /\ lru' = MoveToFront(i)
    BY <1>2 DEF HitCache
  <2>2. PICK t, p : Fronted(k, t, p, Len(t))
    BY <2>1, MoveToFrontFacts DEF CacheInv
  <2>3. Sizes(lru', 1 .. Len(lru')) = Sizes(lru, 1 .. Len(lru))
    BY <2>1, MoveToFrontFacts DEF CacheInv
  <2>4. /\ DOMAIN lru = 1 .. Len(lru) /\ DOMAIN lru' = 1 .. Len(lru') /\ lru' \in Seq(Entries)
        /\ \A j \in 1 .. Len(lru) : inflight[lru[j].key] = Nobody
    BY <2>2, SizeInNat, LenProperties DEF CacheInv, StoreInv, Fronted, CacheIsConsistent
  <2>5. Size[k] <= config.maxItemBytes
    BY <2>1, <2>4 DEF CacheInv, StoreInv, BytesAreExact
  <2>6. /\ \A j \in 1 .. Len(lru') : lru'[j].artifact = lru'[j].key
        /\ \A j \in 1 .. Len(lru') : Size[lru'[j].artifact] <= config.maxItemBytes
        /\ \A j, m \in 1 .. Len(lru') : Release(lru'[j].key) = Release(lru'[m].key) => j = m
        /\ \A j \in 1 .. Len(lru') :
              lru'[j].key = k \/ \E m \in 1 .. Len(lru) : lru'[j].key = lru[m].key
    BY <2>2, <2>5, FrontedStore DEF CacheInv
  <2>7. UNCHANGED <<config, bytes, inflight>> /\ Used(k)
    BY <1>2 DEF HitCache
  <2>8. \A j \in 1 .. Len(lru') : inflight'[lru'[j].key] = Nobody
    BY <2>1, <2>4, <2>6, <2>7
  <2>9. bytes = Sizes(lru, 1 .. Len(lru)) /\ bytes <= config.maxBytes
    BY <2>4 DEF CacheInv, StoreInv, BytesAreExact
  <2>10. bytes' = Sizes(lru', DOMAIN lru')
    BY <2>3, <2>4, <2>7, <2>9, Zenon
  <2>11. BytesAreExact'
    BY <2>4, <2>6, <2>7, <2>9, <2>10 DEF BytesAreExact, Sizes
  <2>12. CacheIsConsistent'
    BY <2>4, <2>6, <2>8 DEF CacheIsConsistent
  <2>13. UsesInv'
    BY <2>2, <2>7, UsesStep DEF CacheInv
  <2> QED BY <2>4, <2>6, <2>7, <2>11, <2>12, <2>13 DEF CacheInv, StoreInv
<1>3. ASSUME NEW k \in Artifacts, StoreInCache(k) PROVE StoreInv' /\ UsesInv'
  <2>1. PICK t, p, n : Inserted(k, t, p, n) /\ Fronted(k, t, p, n)
    BY <1>3, StoreFacts
  <2>2. /\ config' = config /\ Size[k] <= config.maxItemBytes /\ Used(k)
        /\ inflight' = [inflight EXCEPT ![k] = Nobody]
        /\ inflight \in [Artifacts -> Requests \cup {Nobody}]
    BY <1>3 DEF StoreInCache, CanStore, Insert, Inv, FlightTypes
  <2>3. /\ DOMAIN lru = 1 .. Len(lru) /\ DOMAIN lru' = 1 .. Len(lru') /\ lru' \in Seq(Entries)
        /\ \A j \in 1 .. Len(lru) : inflight[lru[j].key] = Nobody /\ lru[j].key \in Artifacts
        /\ bytes' = Sizes(lru', 1 .. Len(lru')) /\ bytes' <= config.maxBytes
    BY <2>1, SizeInNat, LenProperties DEF CacheInv, StoreInv, Inserted, CacheIsConsistent, Entries
  <2>4. /\ \A j \in 1 .. Len(lru') : lru'[j].artifact = lru'[j].key
        /\ \A j \in 1 .. Len(lru') : Size[lru'[j].artifact] <= config.maxItemBytes
        /\ \A j, m \in 1 .. Len(lru') : Release(lru'[j].key) = Release(lru'[m].key) => j = m
        /\ \A j \in 1 .. Len(lru') :
              lru'[j].key = k \/ \E m \in 1 .. Len(lru) : lru'[j].key = lru[m].key
    BY <2>1, <2>2, FrontedStore DEF CacheInv
  <2>5. \A j \in 1 .. Len(lru') : inflight'[lru'[j].key] = Nobody
    BY <2>2, <2>3, <2>4
  <2>6. bytes' = Sizes(lru', DOMAIN lru')
    BY <2>3, Zenon
  <2>7. BytesAreExact'
    BY <2>2, <2>3, <2>4, <2>6 DEF BytesAreExact, Sizes
  <2>8. CacheIsConsistent'
    BY <2>3, <2>4, <2>5 DEF CacheIsConsistent
  <2>9. UsesInv'
    BY <2>1, <2>2, UsesStep DEF CacheInv
  <2> QED BY <2>2, <2>3, <2>4, <2>7, <2>8, <2>9 DEF CacheInv, StoreInv
<1> QED BY <1>1, <1>2, <1>3, CacheSteps
-----------------------------------------------------------------------------
(* Answers.                                                                *)

LEMMA EndedStep == ASSUME Inv, Ended, [Next]_vars PROVE Ended'
<1>1. ASSUME NEW f \in Requests, load'[f] \in {"closing", "closed"} PROVE result'[f] # None
  <2>1. ASSUME UNCHANGED <<load, result>> PROVE result'[f] # None
    BY <1>1, <2>1 DEF Ended
  <2>2. ASSUME NEW q \in Requests, Register(q) \/ StartFlight(q) PROVE result'[f] # None
    <3>1. /\ result' = result
          /\ load' = [load EXCEPT ![q] = "registered"] \/ load' = [load EXCEPT ![q] = "running"]
      BY <2>2 DEF Register, StartFlight
    <3> QED BY <1>1, <3>1 DEF Ended, Inv, FlightTypes
  <2>3. ASSUME NEW q \in Requests, Fetch(q) \/ TimeOut(q) PROVE result'[f] # None
    <3>1. /\ load' = [load EXCEPT ![q] = "closing"]
          /\ \E a \in {wanted[q], Failed} : result' = [result EXCEPT ![q] = a]
      BY <2>3 DEF Fetch, TimeOut, LoadEnds, Loaded, Valid
    <3>2. wanted[q] # None /\ Failed # None
      BY OtherAnswers DEF Inv, FlightTypes
    <3> QED BY <1>1, <3>1, <3>2 DEF Ended, Inv, FlightTypes
  <2>4. ASSUME NEW q \in Requests, CloseFlight(q) PROVE result'[f] # None
    <3>1. /\ load[q] = "closing" /\ load' = [load EXCEPT ![q] = "closed"] /\ result' = result
      BY <2>4 DEF CloseFlight
    <3> QED BY <1>1, <3>1 DEF Ended, Inv, FlightTypes
  <2>5. CASE UNCHANGED vars
    BY <2>1, <2>5 DEF vars, flightVars
  <2>6. ASSUME NEW q \in Requests, RequestStep(q) \/ FlightStep(q) PROVE result'[f] # None
    <3>1. CASE \/ \E r \in Releases : Ask(q, r)
               \/ Hit(q) \/ Join(q) \/ Receive(q) \/ Cancel(q) \/ ReadDirect(q)
      <4>1. UNCHANGED <<load, result>>
        BY <3>1 DEF Ask, Hit, Join, Receive, Cancel, ReadDirect, flightVars
      <4> QED BY <2>1, <4>1
    <3> QED BY <2>2, <2>3, <2>4, <2>6, <3>1 DEF RequestStep, FlightStep
  <2>7. ASSUME NEW r \in Releases, Tamper(r) PROVE result'[f] # None
    BY <2>1, <2>7 DEF Tamper, flightVars
  <2> QED BY <2>5, <2>6, <2>7 DEF Next
<1> QED BY <1>1 DEF Ended

LEMMA ReplyStep ==
    ASSUME Inv, AnswerInv, NEW q \in Requests,
           NEW a \in Artifacts \cup {None, Failed, Cancelled},
           a \in Artifacts => a = wanted[q], Reply(q, a), wanted' = wanted
    PROVE  AnswerInv'
<1>1. answer' = [answer EXCEPT ![q] = a] /\ phase' = [phase EXCEPT ![q] = "done"]
  BY DEF Reply
<1> QED BY <1>1 DEF AnswerInv, Inv, FlightTypes

LEMMA AnswerStep == ASSUME Inv, CacheInv, [Next]_vars PROVE AnswerInv'
<1>1. AnswerInv
  BY DEF CacheInv
<1>2. ASSUME UNCHANGED <<answer, wanted>>,
             \A q \in Requests : phase[q] = "done" => phase'[q] = "done"
      PROVE  AnswerInv'
  BY <1>1, <1>2 DEF AnswerInv
<1>3. ASSUME NEW q \in Requests, NEW r \in Releases, Ask(q, r) PROVE AnswerInv'
  <2>1. /\ phase[q] = "new" /\ phase' = [phase EXCEPT ![q] = "asked"] /\ answer' = answer
        /\ wanted' = [wanted EXCEPT ![q] = <<r, stored[r]>>]
    BY <1>3 DEF Ask
  <2>2. answer[q] \notin Artifacts
    BY <1>1, <2>1 DEF AnswerInv
  <2> QED BY <1>1, <2>1, <2>2 DEF AnswerInv, Inv, FlightTypes
<1>4. ASSUME NEW q \in Requests, Hit(q) PROVE AnswerInv'
  <2>1. PICK i \in Positions(wanted[q]) : Reply(q, lru[i].artifact)
    BY <1>4 DEF Hit
  <2>2. lru[i].artifact = wanted[q] /\ wanted[q] \in Artifacts
    BY SizeInNat DEF CacheInv, StoreInv, Positions, Inv, FlightTypes
  <2> QED BY <1>1, <1>4, <2>1, <2>2, ReplyStep DEF Hit
<1>5. ASSUME NEW q \in Requests, Receive(q) PROVE AnswerInv'
  <2>1. phase[q] = "waiting" /\ Reply(q, result[joined[q]]) /\ wanted' = wanted
    BY <1>5 DEF Receive
  <2>2. joined[q] \in Requests /\ wanted[joined[q]] = wanted[q]
    BY <2>1 DEF Inv, Roles
  <2>3. /\ result[joined[q]] \in Artifacts \cup {None, Failed, Cancelled}
        /\ result[joined[q]] \in Artifacts => result[joined[q]] = wanted[q]
    BY <2>2 DEF Inv, FlightTypes, ResultIsWanted
  <2> QED BY <1>1, <2>1, <2>3, ReplyStep
<1>6. ASSUME NEW q \in Requests, Cancel(q) PROVE AnswerInv'
  BY <1>1, <1>6, OtherAnswers, ReplyStep DEF Cancel
<1>7. ASSUME NEW q \in Requests, ReadDirect(q) PROVE AnswerInv'
  <2>1. wanted' = wanted /\ \E a \in {wanted[q], Failed} : Reply(q, a)
    BY <1>7 DEF ReadDirect, Loaded, Valid
  <2>2. wanted[q] \in Artifacts /\ Failed \notin Artifacts
    BY OtherAnswers DEF Inv, FlightTypes
  <2> QED BY <1>1, <2>1, <2>2, ReplyStep
<1>8. CASE UNCHANGED vars
  BY <1>2, <1>8 DEF vars, requestVars
<1>9. ASSUME NEW q \in Requests, RequestStep(q) \/ FlightStep(q) PROVE AnswerInv'
  <2>1. CASE Join(q) \/ Register(q) \/ StartFlight(q)
    <3>1. /\ UNCHANGED <<answer, wanted>> /\ phase[q] # "done"
          /\ phase' = [phase EXCEPT ![q] = "waiting"] \/ phase' = [phase EXCEPT ![q] = "leading"]
      BY <2>1 DEF Join, Register, StartFlight, Miss
    <3> QED BY <1>2, <3>1 DEF Inv, FlightTypes
  <2>2. CASE FlightStep(q)
    <3>1. UNCHANGED <<answer, wanted, phase>>
      BY <2>2 DEF FlightStep, Fetch, TimeOut, CloseFlight, LoadEnds, requestVars
    <3> QED BY <1>2, <3>1
  <2> QED BY <1>3, <1>4, <1>5, <1>6, <1>7, <1>9, <2>1, <2>2 DEF RequestStep
<1>10. ASSUME NEW r \in Releases, Tamper(r) PROVE AnswerInv'
  BY <1>2, <1>10 DEF Tamper, requestVars
<1> QED BY <1>8, <1>9, <1>10 DEF Next

LEMMA NextCache == Inv /\ CacheInv /\ [Next]_vars => CacheInv'
<1> SUFFICES ASSUME Inv, CacheInv, [Next]_vars PROVE CacheInv'
  OBVIOUS
<1>1. StoreInv' /\ UsesInv'
  BY StoreStep
<1>2. Ended'
  BY EndedStep DEF CacheInv
<1>3. AnswerInv'
  BY AnswerStep
<1> QED BY <1>1, <1>2, <1>3 DEF CacheInv

\* The first entry that was removed is the one after the last that was kept.
LEMMA EvictionStep ==
    ASSUME Inv, CacheInv, [Next]_vars,
           NEW gone,
           gone = {i \in DOMAIN lru : /\ Release(lru[i].key) # Release(recent'[1])
                                      /\ \A j \in DOMAIN lru' : lru'[j] # lru[i]},
           gone # {}
    PROVE  bytes' + Size[lru[Min(gone)].artifact] > config.maxBytes
<1>1. DOMAIN lru = 1 .. Len(lru) /\ Len(lru) \in Nat
  BY SizeInNat DEF CacheInv, StoreInv
<1>2. ~ CacheKept
  <2>1. CASE CacheKept
    BY <1>1, <2>1 DEF CacheKept, cacheVars
  <2> QED BY <2>1
<1>3. ASSUME NEW k \in Artifacts, NEW t, NEW p, NEW n, Fronted(k, t, p, n), recent'[1] = k
      PROVE  n < Len(t) /\ Min(gone) = p[n + 1] /\ lru[Min(gone)] = t[n + 1]
  <2>1. /\ n \in Nat /\ n <= Len(t) /\ Len(t) \in Nat
        /\ lru' \in Seq(Entries) /\ Len(lru') = n + 1 /\ DOMAIN lru' = 1 .. Len(lru')
        /\ lru'[1] = [key |-> k, artifact |-> k]
        /\ \A j \in 1 .. n : lru'[j + 1] = t[j]
        /\ \A j \in 1 .. Len(t) : p[j] \in Others(k) /\ t[j] = lru[p[j]]
        /\ \A i, j \in 1 .. Len(t) : i < j => p[i] < p[j]
        /\ \A i \in Others(k) : \E j \in 1 .. Len(t) : p[j] = i
    <3>1. Len(t) \in Nat
      BY <1>3, LenProperties DEF Fronted
    <3>2. lru' \in Seq(Entries)
      BY <1>3 DEF Fronted
    <3>3. DOMAIN lru' = 1 .. Len(lru')
      BY <3>2, LenProperties
    <3> QED BY <1>3, <3>1, <3>2, <3>3 DEF Fronted, Picks
  <2>2. ASSUME NEW i \in gone PROVE \E m \in 1 .. Len(t) : p[m] = i /\ n < m
    <3>1. i \in Others(k)
      BY <1>1, <1>3 DEF Others
    <3>2. PICK m \in 1 .. Len(t) : p[m] = i
      BY <2>1, <3>1
    <3>3. CASE m <= n
      <4>1. m \in 1 .. n /\ m + 1 \in DOMAIN lru'
        BY <2>1, <3>3
      <4>2. lru'[m + 1] = lru[i]
        BY <2>1, <3>2, <4>1
      <4> QED BY <4>1, <4>2
    <3>4. CASE n < m
      BY <3>2, <3>4
    <3> QED BY <2>1, <3>3, <3>4
  <2>3. n < Len(t) /\ n + 1 \in 1 .. Len(t)
    BY <2>1, <2>2
  <2> DEFINE x == p[n + 1]
  <2>4. x \in Others(k) /\ t[n + 1] = lru[x]
    BY <2>1, <2>3
  <2>5. x \in 1 .. Len(lru) /\ Release(lru[x].key) # Release(k)
    BY <2>4 DEF Others
  <2>6. ASSUME NEW j \in 1 .. Len(lru') PROVE lru'[j] # lru[x]
    <3>1. CASE j = 1
      BY <2>1, <2>5, <3>1
    <3>2. CASE j # 1
      <4> DEFINE m == j - 1
      <4>1. m \in 1 .. n /\ m + 1 = j /\ m \in 1 .. Len(t) /\ m < n + 1
        BY <2>1, <3>2
      <4> HIDE DEF m
      <4>2. lru'[j] = lru[p[m]] /\ p[m] \in Others(k) /\ p[m] < x
        BY <2>1, <2>3, <4>1
      <4>3. p[m] \in 1 .. Len(lru) /\ p[m] # x
        BY <2>5, <4>2 DEF Others
      <4>4. Release(lru[p[m]].key) # Release(lru[x].key)
        BY <1>1, <2>5, <4>3 DEF CacheInv, StoreInv, CacheIsConsistent
      <4> QED BY <4>2, <4>4
    <3> QED BY <3>1, <3>2
  <2>7. x \in gone
    BY <1>1, <1>3, <2>1, <2>5, <2>6
  <2>8. \A i \in gone : x <= i
    <3> SUFFICES ASSUME NEW i \in gone PROVE x <= i
      OBVIOUS
    <3>1. PICK m \in 1 .. Len(t) : p[m] = i /\ n < m
      BY <2>2
    <3>2. m = n + 1 \/ p[n + 1] < p[m]
      BY <2>1, <2>3, <3>1
    <3>3. x \in Int /\ i \in Int
      BY <1>1, <2>5
    <3> QED BY <3>1, <3>2, <3>3
  <2>9. \A i \in gone : i \in Int
    BY <1>1
  <2> HIDE DEF x
  <2>10. Min(gone) = x
    <3>1. Min(gone) \in gone /\ \A i \in gone : Min(gone) <= i
      BY <2>7, <2>8 DEF Min
    <3>2. Min(gone) \in Int /\ x \in Int
      BY <2>7, <2>9, <3>1
    <3>3. Min(gone) <= x /\ x <= Min(gone)
      BY <2>7, <2>8, <3>1
    <3> QED BY <3>2, <3>3
  <2> QED BY <2>3, <2>4, <2>10 DEF x
<1>4. ASSUME NEW k \in Artifacts, HitCache(k)
      PROVE  bytes' + Size[lru[Min(gone)].artifact] > config.maxBytes
  <2>1. PICK t, p : Fronted(k, t, p, Len(t))
    BY <1>4, MoveToFrontFacts DEF HitCache, CacheInv
  <2>2. recent'[1] = k
    BY <1>4, <2>1, UsesStep DEF HitCache, CacheInv
  <2>3. Len(t) < Len(t) /\ Len(t) \in Nat
    BY <1>3, <2>1, <2>2, LenProperties DEF Fronted
  <2> QED BY <2>3
<1>5. ASSUME NEW k \in Artifacts, StoreInCache(k)
      PROVE  bytes' + Size[lru[Min(gone)].artifact] > config.maxBytes
  <2>1. PICK t, p, n : Inserted(k, t, p, n) /\ Fronted(k, t, p, n)
    BY <1>5, StoreFacts
  <2>2. recent'[1] = k
    BY <1>5, <2>1, UsesStep DEF StoreInCache, Insert, CacheInv
  <2>3. n < Len(t) /\ lru[Min(gone)] = t[n + 1]
    BY <1>3, <2>1, <2>2
  <2> QED BY <2>1, <2>3 DEF Inserted
<1> QED BY <1>2, <1>4, <1>5, CacheSteps
-----------------------------------------------------------------------------
(* Theorems.                                                               *)

\* The inductive invariant of the flights.
THEOREM Invariance == Spec => []Inv
<1>1. Init => Inv
  BY InitInv
<1>2. Inv /\ [Next]_vars => Inv'
  BY NextInv
<1> QED BY <1>1, <1>2, PTL DEF Spec

\* Reader.Read: however requests and loads of one artifact overlap, it is
\* loaded by one flight at a time, the one that later misses find.
THEOREM OneLoadCorrect == Spec => []OneLoadPerKey
<1>1. Inv => OneLoadPerKey
  BY DEF Inv
<1> QED BY <1>1, Invariance, PTL

\* Whoever waits for a flight waits for the version it asked for: the result is
\* that artifact, or a failure.
WaitersGetTheirVersion ==
    \A q \in Requests :
        phase[q] = "waiting" /\ result[joined[q]] \in Artifacts => result[joined[q]] = wanted[q]

THEOREM WaitersCorrect == Spec => []WaitersGetTheirVersion
<1>1. Inv => WaitersGetTheirVersion
  BY DEF Inv, Roles, ResultIsWanted, WaitersGetTheirVersion
<1> QED BY <1>1, Invariance, PTL

\* The inductive invariant of the cache.
THEOREM CacheInvariance == Spec => []CacheInv
<1>1. Init => CacheInv
  BY InitCache
<1>2. Inv /\ CacheInv /\ [Next]_vars => CacheInv'
  BY NextCache
<1> QED BY <1>1, <1>2, Invariance, PTL DEF Spec

\* Every variable keeps its type.
THEOREM CacheTypeCorrect == Spec => []TypeOK
<1>1. Inv /\ CacheInv => TypeOK
  <2> SUFFICES ASSUME Inv, CacheInv PROVE TypeOK
    OBVIOUS
  <2>1. lru \in Seq([key : Artifacts, artifact : Artifacts]) /\ DOMAIN lru = 1 .. Len(lru)
    BY SizeInNat DEF CacheInv, StoreInv, Entries
  <2>2. bytes \in Nat
    <3>1. 1 .. Len(lru) \in SUBSET (1 .. Len(lru))
      OBVIOUS
    <3>2. Sizes(lru, 1 .. Len(lru)) \in Nat
      BY <3>1, SizesNat DEF CacheInv, StoreInv
    <3>3. bytes = Sizes(lru, 1 .. Len(lru))
      BY <2>1, Zenon DEF CacheInv, StoreInv, BytesAreExact
    <3> QED BY <3>2, <3>3
  <2> QED BY <2>1, <2>2 DEF TypeOK, Inv, FlightTypes, CacheInv, StoreInv, UsesInv, AnswerInv
<1> QED BY <1>1, Invariance, CacheInvariance, PTL

\* cacheItems: over any sequence of hits, replacements of a version and
\* evictions the byte counter is the size of the cached artifacts, it does not
\* exceed MaxBytes, and no artifact exceeds MaxItemBytes.
THEOREM BytesCorrect == Spec => []BytesAreExact
<1>1. CacheInv => BytesAreExact
  BY DEF CacheInv, StoreInv
<1> QED BY <1>1, CacheInvariance, PTL

\* Reader: one version of a release is cached, once, and never while a flight
\* for it is registered.
THEOREM ConsistencyCorrect == Spec => []CacheIsConsistent
<1>1. CacheInv => CacheIsConsistent
  BY DEF CacheInv, StoreInv
<1> QED BY <1>1, CacheInvariance, PTL

\* Reader.Read: a caller gets the version it resolved or an error, however a
\* release's row changes while its loads and its entries live.
THEOREM AnswersCorrect == Spec => []AnswerIsWhatWasAsked
<1>1. CacheInv => AnswerIsWhatWasAsked
  BY DEF CacheInv, AnswerInv, AnswerIsWhatWasAsked
<1> QED BY <1>1, CacheInvariance, PTL

\* cacheItems: the entries are those used last, in the order of use, in
\* whatever order the loads ended.
THEOREM OrderOfUseCorrect == Spec => []KeepsMostRecent
<1>1. CacheInv => KeepsMostRecent
  BY DEF CacheInv, UsesInv
<1> QED BY <1>1, CacheInvariance, PTL

\* cacheItems.insert: an entry of another release is removed only when the
\* cache with it would exceed MaxBytes.
THEOREM EvictionCorrect == Spec => EvictsOnlyOverLimit
<1> DEFINE gone == {i \in DOMAIN lru : /\ Release(lru[i].key) # Release(recent'[1])
                                       /\ \A j \in DOMAIN lru' : lru'[j] # lru[i]}
           Evicts == gone # {} => bytes' + Size[lru[Min(gone)].artifact] > config.maxBytes
<1>1. Inv /\ CacheInv /\ [Next]_vars => [Evicts]_vars
  <2> SUFFICES ASSUME Inv, CacheInv, [Next]_vars, gone # {}
               PROVE  bytes' + Size[lru[Min(gone)].artifact] > config.maxBytes
    OBVIOUS
  <2> QED BY EvictionStep
<1>2. EvictsOnlyOverLimit <=> [][Evicts]_vars
  BY DEF EvictsOnlyOverLimit
<1> QED BY <1>1, <1>2, Invariance, CacheInvariance, PTL DEF Spec
=============================================================================
