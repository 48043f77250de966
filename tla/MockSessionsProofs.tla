------------------------- MODULE MockSessionsProofs -------------------------
(***************************************************************************)
(* Theorems about MockSessions, for any number of requests, clients,       *)
(* owners and any limits.                                                  *)
(*                                                                         *)
(* The argument for the reservations: Calls and Cleanups stay finite and   *)
(* every step that adds or removes one of them changes pending by one.  It *)
(* needs that a session which is being stopped was finished, because only  *)
(* then does a second finish change nothing.  The argument for Close: once *)
(* its context is cancelled nothing is listed any more, and whatever is    *)
(* listed is still to be looked at by its sweep.  It needs that a listed   *)
(* session was never finished, because finish would not unlist it then.    *)
(* The argument for admission: every session upstream is listed or holds a *)
(* reservation, so that what Create counts under the lock (the listed      *)
(* sessions and the sum over UseCase.pending) is never less than what is   *)
(* there, in all and per actor; only Create adds one to it, and it looked  *)
(* in the same critical section.                                           *)
(***************************************************************************)
EXTENDS MockSessions, SumTheorems

\* Sets of places are finite, and what is being stopped was finished.
Places ==
    /\ stopping \subseteq finished
    /\ \A o \in Owners : IsFiniteSet(Calls(o)) /\ IsFiniteSet(Cleanups(o))

WasListed == {c \in Creates : create[c] \in {"listed", "served"}}
WasMade   == {c \in Creates : create[c] \in {"listed", "served", "orphaned", "dropped"}}

\* Clients and reapers only know sessions that were listed, and a session is
\* finished only after its creation and never listed again.
Lifecycle ==
    /\ listed \subseteq WasListed
    /\ finished \subseteq WasMade
    /\ listed \cap finished = {}
    /\ \A k \in Clients : client[k].step # "idle" => client[k].session \in WasListed
    /\ \A r \in Reapers : sweep[r] \subseteq WasListed
    /\ \A r \in Reapers : doomed[r] \in WasListed \cup {Nothing}

\* What Close has still to end.
Shutting ==
    /\ shutdown \in {"cancelled", "sweeping"} => listed \subseteq cancelled
    /\ shutdown = "sweeping" => listed \subseteq sweep["close"] \cup {doomed["close"]}
    /\ shutdown = "closed" => listed = {}

\* The type of everything but pending, which needs the reservations.
OtherTypes ==
    /\ create \in [Creates -> {"new", "refused", "calling", "failed", "answered",
                             "listed", "orphaned", "served", "dropped"}]
    /\ listed \subseteq Creates
    /\ cancelled \subseteq Creates
    /\ finished \subseteq Creates
    /\ stopping \subseteq Creates
    /\ expired \subseteq Creates
    /\ subscribed \subseteq Creates
    /\ client \in [Clients -> [step : {"idle", "found", "ending", "dialing", "streaming"},
                               session : Creates \cup {Nothing}]]
    /\ sweep \in [Reapers -> SUBSET Creates]
    /\ doomed \in [Reapers -> Creates \cup {Nothing}]
    /\ shutdown \in {"no", "cancelled", "sweeping", "closed"}

\* Every reservation is accounted for.
Counted ==
    /\ pending \in [Owners -> Nat]
    /\ Places
    /\ ReservationsAreExact

\* The inductive invariant.
Inv ==
    /\ OtherTypes
    /\ Counted
    /\ Lifecycle
    /\ Shutting
    /\ NothingIsForgotten

-----------------------------------------------------------------------------
(* Counting.                                                               *)

\* The number of places an owner has reserved is a natural number.
LEMMA ReservingIsNatural ==
    ASSUME Places, NEW o \in Owners
    PROVE  /\ Cardinality(Calls(o)) \in Nat
           /\ Cardinality(Cleanups(o)) \in Nat
           /\ Reserving(o) \in Nat
BY FS_CardinalityType DEF Places, Reserving

\* A step that leaves the places alone.
LEMMA SamePlaces ==
    ASSUME Counted, UNCHANGED <<pending, stopping, finished>>,
           \A o \in Owners : Calls(o)' = Calls(o)
    PROVE  Counted'
<1>1. \A o \in Owners : Cleanups(o)' = Cleanups(o)
  BY DEF Cleanups
<1>2. Places'
  BY <1>1 DEF Counted, Places
<1>3. ReservationsAreExact'
  BY <1>1 DEF Counted, ReservationsAreExact, Reserving
<1> QED BY <1>2, <1>3 DEF Counted

\* finish trades nothing or one place: the session's cleanup.
LEMMA FinishCounts ==
    ASSUME OtherTypes, Counted, NEW s \in Creates, Finish(s),
           \A o \in Owners : Calls(o)' = Calls(o)
    PROVE  Counted'
<1>1. CASE s \in finished
  BY <1>1, SamePlaces DEF Finish, sessionVars
<1>2. CASE s \notin finished
  <2>1. /\ stopping' = stopping \cup {s} /\ finished' = finished \cup {s}
        /\ pending' = Reserve(Owner[s])
    BY <1>2 DEF Finish, KeepReserved
  <2>2. s \notin stopping
    BY <1>2 DEF Counted, Places
  <2>3. Owner[s] \in Owners
    BY MockAssumption
  <2>4. Cleanups(Owner[s])' = Cleanups(Owner[s]) \cup {s} /\ s \notin Cleanups(Owner[s])
    BY <2>1, <2>2 DEF Cleanups
  <2>5. \A o \in Owners : o # Owner[s] => Cleanups(o)' = Cleanups(o)
    BY <2>1 DEF Cleanups
  <2>6. Places'
    <3>1. stopping' \subseteq finished'
      BY <2>1 DEF Counted, Places
    <3>2. ASSUME NEW o \in Owners PROVE IsFiniteSet(Calls(o)')
      BY DEF Counted, Places
    <3>3. ASSUME NEW o \in Owners PROVE IsFiniteSet(Cleanups(o)')
      <4>1. IsFiniteSet(Cleanups(o))
        BY DEF Counted, Places
      <4>2. CASE o = Owner[s]
        BY <4>1, <4>2, <2>4, FS_AddElement
      <4>3. CASE o # Owner[s]
        BY <4>1, <4>3, <2>5
      <4> QED BY <4>2, <4>3
    <3> QED BY <3>1, <3>2, <3>3 DEF Places
  <2>7. \A o \in Owners : Reserving(o)' = IF o = Owner[s] THEN Reserving(o) + 1 ELSE Reserving(o)
    <3> SUFFICES ASSUME NEW o \in Owners
                 PROVE  Reserving(o)' = IF o = Owner[s] THEN Reserving(o) + 1 ELSE Reserving(o)
      OBVIOUS
    <3>1. /\ IsFiniteSet(Cleanups(o))
          /\ Cardinality(Calls(o)) \in Nat /\ Cardinality(Cleanups(o)) \in Nat
      BY ReservingIsNatural DEF Counted, Places
    <3>2. CASE o = Owner[s]
      <4>1. Cardinality(Cleanups(o)') = Cardinality(Cleanups(o)) + 1
        BY <3>1, <3>2, <2>4, FS_AddElement
      <4> QED BY <3>1, <3>2, <4>1 DEF Reserving
    <3>3. CASE o # Owner[s]
      BY <3>3, <2>5 DEF Reserving
    <3> QED BY <3>2, <3>3
  <2>8. \A o \in Owners : pending'[o] = IF o = Owner[s] THEN pending[o] + 1 ELSE pending[o]
    BY <2>1, <2>3 DEF Reserve, Counted
  <2>9. pending' \in [Owners -> Nat]
    BY <2>1, <2>3 DEF Reserve, Counted
  <2>10. ReservationsAreExact'
    BY <2>7, <2>8 DEF Counted, ReservationsAreExact
  <2> QED BY <2>6, <2>9, <2>10 DEF Counted
<1> QED BY <1>1, <1>2

\* A place is given back: one call or one cleanup less.
LEMMA ReturnCounts ==
    ASSUME Counted, NEW c, Owner[c] \in Owners, pending' = Return(Owner[c]),
           stopping' \subseteq finished',
           \/ /\ c \in Calls(Owner[c]) /\ Calls(Owner[c])' = Calls(Owner[c]) \ {c}
              /\ Cleanups(Owner[c])' = Cleanups(Owner[c])
           \/ /\ c \in Cleanups(Owner[c]) /\ Cleanups(Owner[c])' = Cleanups(Owner[c]) \ {c}
              /\ Calls(Owner[c])' = Calls(Owner[c]),
           \A o \in Owners \ {Owner[c]} : Calls(o)' = Calls(o) /\ Cleanups(o)' = Cleanups(o)
    PROVE  Counted'
<1> DEFINE p == Owner[c]
<1>1. IsFiniteSet(Calls(p)) /\ IsFiniteSet(Cleanups(p))
  BY DEF Counted, Places
<1>2. /\ IsFiniteSet(Calls(p)') /\ IsFiniteSet(Cleanups(p)')
      /\ Cardinality(Calls(p)') + Cardinality(Cleanups(p)')
           = Cardinality(Calls(p)) + Cardinality(Cleanups(p)) - 1
  <2>1. Cardinality(Calls(p)) \in Nat /\ Cardinality(Cleanups(p)) \in Nat
    BY <1>1, FS_CardinalityType
  <2>2. CASE c \in Calls(p) /\ Calls(p)' = Calls(p) \ {c} /\ Cleanups(p)' = Cleanups(p)
    <3>1. IsFiniteSet(Calls(p)') /\ Cardinality(Calls(p)') = Cardinality(Calls(p)) - 1
      BY <1>1, <2>2, FS_RemoveElement
    <3> HIDE DEF p
    <3> QED BY <1>1, <2>1, <2>2, <3>1
  <2>3. CASE c \in Cleanups(p) /\ Cleanups(p)' = Cleanups(p) \ {c} /\ Calls(p)' = Calls(p)
    <3>1. IsFiniteSet(Cleanups(p)') /\ Cardinality(Cleanups(p)') = Cardinality(Cleanups(p)) - 1
      BY <1>1, <2>3, FS_RemoveElement
    <3> HIDE DEF p
    <3> QED BY <1>1, <2>1, <2>3, <3>1
  <2> QED BY <2>2, <2>3
<1>3. Places'
  BY <1>2 DEF Counted, Places
<1>4. pending' = [pending EXCEPT ![p] = @ - 1] /\ pending \in [Owners -> Nat]
  BY DEF Return, Counted
<1>5. pending[p] = Reserving(p) /\ Reserving(p)' = Reserving(p) - 1 /\ Reserving(p)' \in Nat
  <2>1. pending[p] = Reserving(p)
    BY DEF Counted, ReservationsAreExact
  <2>2. Cardinality(Calls(p)') \in Nat /\ Cardinality(Cleanups(p)') \in Nat
    BY <1>2, FS_CardinalityType
  <2>3. Reserving(p)' = Reserving(p) - 1
    <3>1. Cardinality(Calls(p)) \in Nat /\ Cardinality(Cleanups(p)) \in Nat
      BY <1>1, FS_CardinalityType
    <3> QED BY <3>1, <2>2, <1>2 DEF Reserving
  <2>4. Reserving(p)' \in Nat
    BY <2>2 DEF Reserving
  <2> QED BY <2>1, <2>3, <2>4
<1>6. \A o \in Owners : pending'[o] = Reserving(o)'
  <2> SUFFICES ASSUME NEW o \in Owners PROVE pending'[o] = Reserving(o)'
    OBVIOUS
  <2>1. CASE o = p
    BY <2>1, <1>4, <1>5
  <2>2. CASE o # p
    <3>1. pending'[o] = pending[o] /\ pending[o] = Reserving(o)
      BY <2>2, <1>4 DEF Counted, ReservationsAreExact
    <3> QED BY <2>2, <3>1 DEF Reserving
  <2> QED BY <2>1, <2>2
<1>7. pending' \in [Owners -> Nat]
  <2>1. pending[p] - 1 \in Nat
    BY <1>5
  <2> QED BY <2>1, <1>4
<1> QED BY <1>3, <1>6, <1>7 DEF Counted, ReservationsAreExact

-----------------------------------------------------------------------------
(* What a step does to the life of the sessions.                           *)

Control == OtherTypes /\ Lifecycle /\ Shutting /\ NothingIsForgotten

\* finish, whether it is the first or not.
LEMMA FinishFacts ==
    ASSUME OtherTypes, Lifecycle, NEW s \in Creates, Finish(s)
    PROVE  /\ listed' = listed \ {s}
           /\ finished' = finished \cup {s}
           /\ cancelled \subseteq cancelled' /\ cancelled' \subseteq Creates
           /\ stopping' \subseteq Creates
<1>1. CASE s \in finished
  BY <1>1 DEF Finish, sessionVars, OtherTypes, Lifecycle
<1>2. CASE s \notin finished
  BY <1>2 DEF Finish, OtherTypes
<1> QED BY <1>1, <1>2

\* A session that was made is finished, everything else being the same but for
\* clients and reapers that forget or end a session.
LEMMA FinishControl ==
    ASSUME Control, NEW s \in WasMade, Finish(s),
           UNCHANGED <<create, expired, subscribed, shutdown>>,
           client' \in [Clients -> [step : {"idle", "found", "ending", "dialing", "streaming"},
                                    session : Creates \cup {Nothing}]],
           \A k \in Clients : client'[k].step # "idle" => client'[k] = client[k],
           UNCHANGED sweep,
           doomed' \in [Reapers -> Creates \cup {Nothing}],
           \A r \in Reapers : doomed'[r] = doomed[r] \/ (doomed[r] = s /\ doomed'[r] = Nothing)
    PROVE  Control'
<1>1. s \in Creates
  BY DEF WasMade
<1>2. /\ listed' = listed \ {s} /\ finished' = finished \cup {s}
      /\ cancelled \subseteq cancelled' /\ cancelled' \subseteq Creates
      /\ stopping' \subseteq Creates
  BY <1>1, FinishFacts DEF Control
<1>3. OtherTypes'
  BY <1>1, <1>2 DEF Control, OtherTypes
<1>4. WasListed' = WasListed /\ WasMade' = WasMade
  BY DEF WasListed, WasMade
<1>5. Lifecycle'
  BY <1>1, <1>2, <1>4 DEF Control, Lifecycle
<1>6. Shutting'
  BY <1>1, <1>2 DEF Control, Shutting, Reapers
<1>7. NothingIsForgotten'
  BY <1>1, <1>2 DEF Control, NothingIsForgotten
<1> QED BY <1>3, <1>5, <1>6, <1>7 DEF Control

\* A step that touches neither the sessions nor the reapers nor Close.
LEMMA ClientControl ==
    ASSUME Control,
           UNCHANGED <<create, sessionVars, reaperVars, shutdown>>,
           expired' \subseteq Creates, subscribed' \subseteq Creates,
           client' \in [Clients -> [step : {"idle", "found", "ending", "dialing", "streaming"},
                                    session : Creates \cup {Nothing}]],
           \A k \in Clients : client'[k].step # "idle" => client'[k].session \in WasListed
    PROVE  Control'
<1>1. WasListed' = WasListed /\ WasMade' = WasMade
  BY DEF WasListed, WasMade
<1> QED BY <1>1 DEF Control, OtherTypes, Lifecycle, Shutting, NothingIsForgotten,
                    sessionVars, reaperVars

-----------------------------------------------------------------------------
(* The steps.                                                              *)

LEMMA InitInv == Init => Inv
<1> SUFFICES ASSUME Init PROVE Inv
  OBVIOUS
<1>1. OtherTypes
  BY DEF Init, OtherTypes, Idle
<1>2. \A o \in Owners : Calls(o) = {} /\ Cleanups(o) = {}
  BY DEF Init, Calls, Cleanups
<1>3. Counted
  <2>1. Places
    BY <1>2, FS_EmptySet DEF Init, Places
  <2>2. ReservationsAreExact
    BY <1>2, FS_EmptySet DEF Init, ReservationsAreExact, Reserving
  <2> QED BY <2>1, <2>2 DEF Init, Counted
<1>4. Lifecycle
  BY DEF Init, Lifecycle, Idle
<1>5. Shutting /\ NothingIsForgotten
  BY DEF Init, Shutting, NothingIsForgotten
<1> QED BY <1>1, <1>3, <1>4, <1>5 DEF Inv

\* Admit takes a place, for a call that holds none yet.
LEMMA AdmitStep ==
    ASSUME Inv, NEW c \in Creates, Admit(c)
    PROVE  Inv'
<1>1. Owner[c] \in Owners
  BY MockAssumption
<1>2. Control'
  <2>1. OtherTypes'
    BY DEF Admit, Inv, OtherTypes, leaseVars, reaperVars
  <2>2. WasListed' = WasListed /\ WasMade' = WasMade
    BY DEF Admit, WasListed, WasMade, Inv, OtherTypes
  <2>3. Lifecycle'
    BY <2>2 DEF Admit, Inv, Lifecycle, leaseVars, reaperVars
  <2>4. Shutting' /\ NothingIsForgotten'
    BY DEF Admit, Inv, Shutting, NothingIsForgotten, OtherTypes, reaperVars
  <2> QED BY <2>1, <2>3, <2>4 DEF Control
<1>3. Counted'
  <2>1. create' = [create EXCEPT ![c] = "calling"] /\ create[c] = "new" /\ stopping' = stopping
        /\ finished' = finished /\ pending' = Reserve(Owner[c])
    BY DEF Admit
  <2>2. /\ Calls(Owner[c])' = Calls(Owner[c]) \cup {c} /\ c \notin Calls(Owner[c])
        /\ \A o \in Owners : o # Owner[c] => Calls(o)' = Calls(o)
        /\ \A o \in Owners : Cleanups(o)' = Cleanups(o)
    BY <2>1 DEF Calls, Cleanups, Inv, OtherTypes
  <2>3. \A o \in Owners : /\ IsFiniteSet(Calls(o)) /\ IsFiniteSet(Cleanups(o))
                          /\ Cardinality(Calls(o)) \in Nat /\ Cardinality(Cleanups(o)) \in Nat
    BY ReservingIsNatural DEF Inv, Counted, Places
  <2>4. IsFiniteSet(Calls(Owner[c])') /\
        Cardinality(Calls(Owner[c])') = Cardinality(Calls(Owner[c])) + 1
    BY <1>1, <2>2, <2>3, FS_AddElement
  <2>5. \A o \in Owners : IsFiniteSet(Calls(o)') /\ IsFiniteSet(Cleanups(o)')
    BY <2>2, <2>3, <2>4
  <2>6. Places'
    BY <2>1, <2>5 DEF Inv, Counted, Places
  <2>7. \A o \in Owners :
          Reserving(o)' = IF o = Owner[c] THEN Reserving(o) + 1 ELSE Reserving(o)
    <3> SUFFICES ASSUME NEW o \in Owners
                 PROVE  Reserving(o)' = IF o = Owner[c] THEN Reserving(o) + 1 ELSE Reserving(o)
      OBVIOUS
    <3>1. CASE o = Owner[c]
      BY <3>1, <2>2, <2>3, <2>4 DEF Reserving
    <3>2. CASE o # Owner[c]
      BY <3>2, <2>2 DEF Reserving
    <3> QED BY <3>1, <3>2
  <2>8. pending' \in [Owners -> Nat]
    BY <1>1, <2>1 DEF Reserve, Inv, Counted
  <2>9. \A o \in Owners : pending'[o] = IF o = Owner[c] THEN pending[o] + 1 ELSE pending[o]
    BY <1>1, <2>1 DEF Reserve, Inv, Counted
  <2>10. ReservationsAreExact'
    BY <2>7, <2>9 DEF Inv, Counted, ReservationsAreExact
  <2> QED BY <2>6, <2>8, <2>10 DEF Counted
<1> QED BY <1>2, <1>3 DEF Inv, Control

\* A Create call goes on and keeps its place, or never had one.
LEMMA CallGoesOn ==
    ASSUME Inv, NEW c \in Creates, Refuse(c) \/ GatewayAnswers(c)
    PROVE  Inv'
<1>1. PICK step \in {"refused", "answered", "failed"} :
         /\ create' = [create EXCEPT ![c] = step]
         /\ step = "refused" <=> create[c] = "new"
         /\ create[c] \in {"new", "calling"}
  BY DEF Refuse, GatewayAnswers
<1>2. UNCHANGED <<sessionVars, leaseVars, client, reaperVars, shutdown>>
  BY DEF Refuse, GatewayAnswers
<1>3. \A o \in Owners : Calls(o)' = Calls(o)
  BY <1>1 DEF Calls, Inv, OtherTypes
<1>4. Counted'
  BY <1>2, <1>3, SamePlaces DEF Inv, sessionVars
<1>5. OtherTypes'
  BY <1>1, <1>2 DEF Inv, OtherTypes, sessionVars, leaseVars, reaperVars
<1>6. WasListed' = WasListed /\ WasMade' = WasMade
  BY <1>1 DEF WasListed, WasMade, Inv, OtherTypes
<1>7. Lifecycle'
  BY <1>2, <1>6 DEF Inv, Lifecycle, sessionVars, reaperVars
<1>8. Shutting' /\ NothingIsForgotten'
  BY <1>1, <1>2 DEF Inv, Shutting, NothingIsForgotten, OtherTypes, sessionVars, reaperVars
<1> QED BY <1>4, <1>5, <1>7, <1>8 DEF Inv

\* A session is listed, which was never finished; Close has not begun.
LEMMA ListStep ==
    ASSUME Inv, NEW c \in Creates, List(c)
    PROVE  Inv'
<1>1. /\ create[c] = "answered" /\ create' = [create EXCEPT ![c] = "listed"]
      /\ shutdown = "no" /\ listed' = listed \cup {c} /\ cancelled' = cancelled
      /\ UNCHANGED <<pending, finished, stopping, leaseVars, client, reaperVars, shutdown>>
  BY DEF List, Open, BornCancelled
<1>2. \A o \in Owners : Calls(o)' = Calls(o)
  BY <1>1 DEF Calls, Inv, OtherTypes
<1>3. Counted'
  BY <1>1, <1>2, SamePlaces DEF Inv
<1>4. OtherTypes'
  BY <1>1 DEF Inv, OtherTypes, leaseVars, reaperVars
<1>5. WasListed' = WasListed \cup {c} /\ WasMade' = WasMade \cup {c} /\ c \notin WasMade
  BY <1>1 DEF WasListed, WasMade, Inv, OtherTypes
<1>6. Lifecycle'
  BY <1>1, <1>5 DEF Inv, Lifecycle, reaperVars
<1>7. Shutting' /\ NothingIsForgotten'
  BY <1>1 DEF Inv, Shutting, NothingIsForgotten, OtherTypes
<1> QED BY <1>3, <1>4, <1>6, <1>7 DEF Inv

\* A session that is never listed is finished.
LEMMA OrphanStep ==
    ASSUME Inv, NEW c \in Creates, Orphan(c)
    PROVE  Inv'
<1>1. /\ create[c] = "answered" /\ create' = [create EXCEPT ![c] = "orphaned"]
      /\ Finish(c) /\ UNCHANGED <<leaseVars, client, reaperVars, shutdown>>
  BY DEF Orphan, Discard
<1>2. \A o \in Owners : Calls(o)' = Calls(o)
  BY <1>1 DEF Calls, Inv, OtherTypes
<1>3. Counted'
  BY <1>1, <1>2, FinishCounts DEF Inv
<1>4. /\ listed' = listed \ {c} /\ finished' = finished \cup {c}
      /\ cancelled \subseteq cancelled' /\ cancelled' \subseteq Creates
      /\ stopping' \subseteq Creates
  BY <1>1, FinishFacts DEF Inv
<1>5. OtherTypes'
  BY <1>1, <1>4 DEF Inv, OtherTypes, leaseVars, reaperVars
<1>6. WasListed' = WasListed /\ WasMade' = WasMade \cup {c} /\ c \notin WasListed
  BY <1>1 DEF WasListed, WasMade, Inv, OtherTypes
<1>7. Lifecycle'
  BY <1>1, <1>4, <1>6 DEF Inv, Lifecycle, reaperVars
<1>8. Shutting' /\ NothingIsForgotten'
  BY <1>1, <1>4 DEF Inv, Shutting, NothingIsForgotten, OtherTypes, reaperVars
<1> QED BY <1>3, <1>5, <1>7, <1>8 DEF Inv

\* The deferred return of a call's place.
LEMMA CreateReturnsStep ==
    ASSUME Inv, NEW c \in Creates, CreateReturns(c)
    PROVE  Inv'
<1>1. PICK step \in {"refused", "served", "dropped"} :
         /\ create' = [create EXCEPT ![c] = step]
         /\ step = "served" <=> create[c] = "listed"
         /\ step = "dropped" <=> create[c] = "orphaned"
         /\ create[c] \in {"failed", "listed", "orphaned"}
  BY DEF CreateReturns, Inv, OtherTypes
<1>2. /\ pending' = Return(Owner[c])
      /\ UNCHANGED <<listed, cancelled, finished, stopping, leaseVars, client,
                     reaperVars, shutdown>>
  BY DEF CreateReturns
<1>3. Owner[c] \in Owners
  BY MockAssumption
<1>4. Counted'
  <2>1. c \in Calls(Owner[c]) /\ Calls(Owner[c])' = Calls(Owner[c]) \ {c}
    BY <1>1 DEF Calls, Inv, OtherTypes
  <2>2. \A o \in Owners \ {Owner[c]} : Calls(o)' = Calls(o)
    BY <1>1 DEF Calls, Inv, OtherTypes
  <2>3. \A o \in Owners : Cleanups(o)' = Cleanups(o)
    BY <1>2 DEF Cleanups
  <2>4. stopping' \subseteq finished'
    BY <1>2 DEF Inv, Counted, Places
  <2> QED BY <1>2, <1>3, <2>1, <2>2, <2>3, <2>4, ReturnCounts DEF Inv
<1>5. OtherTypes'
  BY <1>1, <1>2 DEF Inv, OtherTypes, leaseVars, reaperVars
<1>6. WasListed' = WasListed /\ WasMade' = WasMade
  BY <1>1 DEF WasListed, WasMade, Inv, OtherTypes
<1>7. Lifecycle'
  BY <1>2, <1>6 DEF Inv, Lifecycle, reaperVars
<1>8. Shutting' /\ NothingIsForgotten'
  BY <1>1, <1>2 DEF Inv, Shutting, NothingIsForgotten, OtherTypes, reaperVars
<1> QED BY <1>4, <1>5, <1>7, <1>8 DEF Inv

\* A cleanup ends and gives the place back.
LEMMA StopEndsStep ==
    ASSUME Inv, NEW s \in Creates, StopEnds(s)
    PROVE  Inv'
<1>1. /\ s \in stopping /\ stopping' = stopping \ {s} /\ pending' = Return(Owner[s])
      /\ UNCHANGED <<create, listed, cancelled, finished, leaseVars, client,
                     reaperVars, shutdown>>
  BY DEF StopEnds
<1>2. Owner[s] \in Owners
  BY MockAssumption
<1>3. Counted'
  <2>1. s \in Cleanups(Owner[s]) /\ Cleanups(Owner[s])' = Cleanups(Owner[s]) \ {s}
    BY <1>1 DEF Cleanups
  <2>2. \A o \in Owners \ {Owner[s]} : Cleanups(o)' = Cleanups(o)
    BY <1>1 DEF Cleanups
  <2>3. \A o \in Owners : Calls(o)' = Calls(o)
    BY <1>1 DEF Calls
  <2>4. stopping' \subseteq finished'
    BY <1>1 DEF Inv, Counted, Places
  <2> QED BY <1>1, <1>2, <2>1, <2>2, <2>3, <2>4, ReturnCounts DEF Inv
<1>4. OtherTypes'
  BY <1>1 DEF Inv, OtherTypes, leaseVars, reaperVars
<1>5. WasListed' = WasListed /\ WasMade' = WasMade
  BY <1>1 DEF WasListed, WasMade
<1>6. Lifecycle' /\ Shutting' /\ NothingIsForgotten'
  BY <1>1, <1>5 DEF Inv, Lifecycle, Shutting, NothingIsForgotten, reaperVars
<1> QED BY <1>3, <1>4, <1>6 DEF Inv

\* A step of a client.
LEMMA ClientKeepsInv ==
    ASSUME Inv, NEW k \in Clients, ClientStep(k)
    PROVE  Inv'
<1> DEFINE Steps == {"idle", "found", "ending", "dialing", "streaming"}
           Records == [step : Steps, session : Creates \cup {Nothing}]
<1>1. client \in [Clients -> Records] /\ Control
  BY DEF Inv, OtherTypes, Control
<1>2. CASE EndSession(k)
  <2>1. /\ client[k].step \in {"ending", "found"} /\ Finish(client[k].session)
        /\ client' = [client EXCEPT ![k] = Idle]
        /\ UNCHANGED <<create, leaseVars, reaperVars, shutdown>>
    BY <1>2 DEF EndSession, Ends
  <2>2. client[k].session \in WasMade /\ client[k].session \in Creates
    BY <2>1 DEF Inv, Lifecycle, WasListed, WasMade
  <2>3. Idle \in Records /\ Idle.step = "idle"
    BY DEF Idle
  <2>4. client' \in [Clients -> Records]
    BY <1>1, <2>1, <2>3
  <2>5. \A j \in Clients : client'[j].step # "idle" => client'[j] = client[j]
    BY <1>1, <2>1, <2>3
  <2>6. /\ UNCHANGED <<create, expired, subscribed, shutdown>> /\ UNCHANGED sweep
        /\ doomed' = doomed /\ doomed \in [Reapers -> Creates \cup {Nothing}]
    BY <2>1 DEF leaseVars, reaperVars, Inv, OtherTypes
  <2>7. Control'
    BY <1>1, <2>1, <2>2, <2>4, <2>5, <2>6, FinishControl
  <2>8. \A o \in Owners : Calls(o)' = Calls(o)
    BY <2>1 DEF Calls
  <2>9. Counted'
    BY <2>1, <2>2, <2>8, FinishCounts DEF Inv
  <2> QED BY <2>7, <2>9 DEF Inv, Control
<1>3. ASSUME UNCHANGED <<create, sessionVars, reaperVars, shutdown>>,
             expired' \subseteq Creates, subscribed' \subseteq Creates,
             NEW entry \in Records, client' = [client EXCEPT ![k] = entry],
             entry.step # "idle" => entry.session \in WasListed
      PROVE  Inv'
  <2>1. client' \in [Clients -> Records]
    BY <1>1, <1>3
  <2>2. \A j \in Clients : client'[j].step # "idle" => client'[j].session \in WasListed
    BY <1>1, <1>3 DEF Control, Lifecycle
  <2>3. Control'
    BY <1>1, <1>3, <2>1, <2>2, ClientControl
  <2>4. \A o \in Owners : Calls(o)' = Calls(o)
    BY <1>3 DEF Calls
  <2>5. Counted'
    BY <1>3, <2>4, SamePlaces DEF Inv, sessionVars
  <2> QED BY <2>3, <2>5 DEF Inv, Control
<1>4. Idle \in Records /\ Idle.step = "idle"
  BY DEF Idle
<1>5. CASE \E s \in Creates : Find(k, s)
  <2>1. PICK s \in Creates : Find(k, s)
    BY <1>5
  <2>2. PICK step \in {"ending", "found"} :
          client' = [client EXCEPT ![k] = [step |-> step, session |-> s]]
    BY <2>1 DEF Find
  <2>3. s \in WasListed
    BY <2>1 DEF Find, Inv, Lifecycle
  <2>4. UNCHANGED <<create, sessionVars, reaperVars, shutdown, expired, subscribed>>
    BY <2>1 DEF Find, leaseVars
  <2>5. expired' \subseteq Creates /\ subscribed' \subseteq Creates
    BY <2>4 DEF Inv, OtherTypes
  <2> QED BY <1>3, <2>2, <2>3, <2>4, <2>5
<1>6. ASSUME NEW step \in Steps \ {"idle"}, client[k].step # "idle", Becomes(k, step),
             UNCHANGED <<create, sessionVars, reaperVars, shutdown>>,
             expired' \subseteq Creates, subscribed' \subseteq Creates
      PROVE  Inv'
  <2>1. client[k] \in Records /\ client[k].session \in WasListed
    BY <1>1, <1>6 DEF Inv, Lifecycle
  <2>2. client' = [client EXCEPT ![k] = [step |-> step, session |-> client[k].session]]
    <3>1. [client[k] EXCEPT !.step = step] = [step |-> step, session |-> client[k].session]
      BY <2>1
    <3>2. client' = [client EXCEPT ![k] = [client[k] EXCEPT !.step = step]]
      BY <1>6 DEF Becomes
    <3> QED BY <3>1, <3>2
  <2> QED BY <1>3, <1>6, <2>1, <2>2
<1>7. CASE Leave(k)
  <2>1. /\ client' = [client EXCEPT ![k] = Idle]
        /\ UNCHANGED <<create, sessionVars, reaperVars, shutdown, expired, subscribed>>
    BY <1>7 DEF Leave, Ends, leaseVars
  <2>2. expired' \subseteq Creates /\ subscribed' \subseteq Creates
    BY <2>1 DEF Inv, OtherTypes
  <2> QED BY <1>3, <1>4, <2>1, <2>2
<1>8. CASE Renew(k)
  <2>1. /\ client[k].step = "found"
        /\ Becomes(k, "ending") \/ client' = [client EXCEPT ![k] = Idle]
        /\ UNCHANGED <<create, sessionVars, reaperVars, shutdown, subscribed>>
    BY <1>8 DEF Renew, Ends
  <2>2. expired' \subseteq expired
    BY <1>8 DEF Renew
  <2>3. expired' \subseteq Creates /\ subscribed' \subseteq Creates
    BY <2>1, <2>2 DEF Inv, OtherTypes
  <2> QED BY <1>3, <1>4, <1>6, <2>1, <2>3
<1>9. CASE Subscribe(k)
  <2>1. /\ client[k].step = "found" /\ Becomes(k, "dialing")
        /\ UNCHANGED <<create, sessionVars, reaperVars, shutdown, expired>>
        /\ subscribed' = subscribed \cup {client[k].session}
    BY <1>9 DEF Subscribe
  <2>2. client[k].session \in Creates
    BY <2>1 DEF Inv, Lifecycle, WasListed
  <2>3. expired' \subseteq Creates /\ subscribed' \subseteq Creates
    BY <2>1, <2>2 DEF Inv, OtherTypes
  <2> QED BY <1>6, <2>1, <2>3
<1>10. CASE Stream(k)
  <2>1. /\ client[k].step = "dialing" /\ Becomes(k, "streaming")
        /\ UNCHANGED <<create, sessionVars, reaperVars, shutdown, subscribed>>
        /\ expired' \subseteq expired
    BY <1>10 DEF Stream
  <2>2. expired' \subseteq Creates /\ subscribed' \subseteq Creates
    BY <2>1 DEF Inv, OtherTypes
  <2> QED BY <1>6, <2>1, <2>2
<1>11. CASE StreamBreaks(k) \/ StreamCancelled(k)
  <2>1. /\ client[k].step # "idle" /\ Becomes(k, "ending")
        /\ UNCHANGED <<create, sessionVars, reaperVars, shutdown, expired, subscribed>>
    BY <1>11 DEF StreamBreaks, StreamCancelled, leaseVars
  <2>2. expired' \subseteq Creates /\ subscribed' \subseteq Creates
    BY <2>1 DEF Inv, OtherTypes
  <2> QED BY <1>6, <2>1, <2>2
<1> QED BY <1>2, <1>5, <1>7, <1>8, <1>9, <1>10, <1>11 DEF ClientStep

\* A step of the ticker's or of Close's reaper.
LEMMA ReaperKeepsInv ==
    ASSUME Inv, NEW r \in Reapers, ReaperStep(r)
    PROVE  Inv'
<1>1. CASE Sweep(r)
  <2>1. /\ sweep' = [sweep EXCEPT ![r] = listed] /\ sweep[r] = {} /\ doomed[r] = Nothing
        /\ UNCHANGED <<create, sessionVars, leaseVars, client, doomed>>
        /\ \/ r = "ticker" /\ shutdown' = shutdown
           \/ r = "close" /\ shutdown = "cancelled" /\ shutdown' = "sweeping"
    BY <1>1 DEF Sweep, Collected
  <2>2. \A o \in Owners : Calls(o)' = Calls(o)
    BY <2>1 DEF Calls
  <2>3. Counted'
    BY <2>1, <2>2, SamePlaces DEF Inv, sessionVars
  <2>4. OtherTypes'
    BY <2>1 DEF Inv, OtherTypes, sessionVars, leaseVars
  <2>5. WasListed' = WasListed /\ WasMade' = WasMade
    BY <2>1 DEF WasListed, WasMade
  <2>6. Lifecycle'
    BY <2>1, <2>5 DEF Inv, OtherTypes, Lifecycle, sessionVars
  <2>7. Shutting'
    <3>1. CASE r = "ticker" /\ shutdown' = shutdown
      <4>1. sweep'["close"] = sweep["close"]
        BY <2>1, <3>1 DEF Inv, OtherTypes, Reapers
      <4> QED BY <2>1, <3>1, <4>1 DEF Inv, Shutting, sessionVars
    <3>2. CASE r = "close" /\ shutdown = "cancelled" /\ shutdown' = "sweeping"
      <4>1. sweep'["close"] = listed /\ listed' = listed
        BY <2>1, <3>2 DEF Inv, OtherTypes, Reapers, sessionVars
      <4>2. listed' \subseteq sweep'["close"]
        BY <4>1
      <4>3. listed \subseteq cancelled /\ cancelled' = cancelled
        BY <2>1, <3>2 DEF Inv, Shutting, sessionVars
      <4> QED BY <3>2, <4>1, <4>2, <4>3 DEF Shutting
    <3> QED BY <2>1, <3>1, <3>2
  <2>8. NothingIsForgotten'
    BY <2>1 DEF Inv, NothingIsForgotten, sessionVars
  <2> QED BY <2>3, <2>4, <2>6, <2>7, <2>8 DEF Inv
<1>2. CASE \E s \in Creates : Inspect(r, s)
  <2>1. PICK s \in Creates : Inspect(r, s)
    BY <1>2
  <2>2. /\ s \in sweep[r] /\ doomed[r] = Nothing
        /\ sweep' = [sweep EXCEPT ![r] = @ \ {s}]
        /\ doomed' = [doomed EXCEPT ![r] = IF Dead(s) THEN s ELSE Nothing]
        /\ cancelled \subseteq cancelled' /\ cancelled' \subseteq cancelled \cup {s}
        /\ UNCHANGED <<create, listed, pending, finished, stopping, leaseVars, client, shutdown>>
    BY <2>1 DEF Inspect
  <2>3. \A o \in Owners : Calls(o)' = Calls(o)
    BY <2>2 DEF Calls
  <2>4. Counted'
    BY <2>2, <2>3, SamePlaces DEF Inv
  <2>5. OtherTypes'
    BY <2>2 DEF Inv, OtherTypes, leaseVars
  <2>6. WasListed' = WasListed /\ WasMade' = WasMade
    BY <2>2 DEF WasListed, WasMade
  <2>7. Lifecycle'
    BY <2>2, <2>6 DEF Inv, OtherTypes, Lifecycle
  <2>8. Shutting'
    <3>1. shutdown = "sweeping" /\ s \in listed /\ r = "close" => Dead(s)
      <4>1. CASE shutdown = "sweeping" /\ s \in listed /\ r = "close"
        <5>1. s \in cancelled
          BY <4>1 DEF Inv, Shutting
        <5> QED BY <5>1 DEF Dead
      <4> QED BY <4>1
    <3>2. ASSUME shutdown = "sweeping"
          PROVE  listed \subseteq sweep'["close"] \cup {doomed'["close"]}
      <4>1. listed \subseteq sweep["close"] \cup {doomed["close"]}
        BY <3>2 DEF Inv, Shutting
      <4>2. CASE r = "close"
        <5>1. sweep'["close"] = sweep["close"] \ {s}
          BY <2>2, <4>2 DEF Inv, OtherTypes
        <5>2. s \in listed => doomed'["close"] = s
          BY <2>2, <3>1, <3>2, <4>2 DEF Inv, OtherTypes
        <5>3. listed \subseteq sweep["close"]
          BY <2>2, <4>1, <4>2, MockAssumption DEF Inv, OtherTypes
        <5> QED BY <5>1, <5>2, <5>3
      <4>3. CASE r # "close"
        <5>1. sweep'["close"] = sweep["close"] /\ doomed'["close"] = doomed["close"]
          BY <2>2, <4>3 DEF Inv, OtherTypes, Reapers
        <5> QED BY <4>1, <5>1
      <4> QED BY <4>2, <4>3
    <3> QED BY <2>2, <3>2 DEF Inv, Shutting
  <2>9. NothingIsForgotten'
    BY <2>2 DEF Inv, NothingIsForgotten
  <2> QED BY <2>4, <2>5, <2>7, <2>8, <2>9 DEF Inv
<1>3. CASE Reap(r)
  <2>1. /\ doomed[r] # Nothing /\ Finish(doomed[r])
        /\ doomed' = [doomed EXCEPT ![r] = Nothing]
        /\ UNCHANGED <<create, leaseVars, client, sweep, shutdown>>
    BY <1>3 DEF Reap
  <2>2. doomed[r] \in WasMade /\ doomed[r] \in Creates
    BY <2>1 DEF Inv, Lifecycle, WasListed, WasMade
  <2>3. UNCHANGED <<create, expired, subscribed, shutdown>> /\ UNCHANGED sweep
    BY <2>1 DEF leaseVars
  <2>4. /\ client' \in [Clients -> [step : {"idle", "found", "ending", "dialing", "streaming"},
                                    session : Creates \cup {Nothing}]]
        /\ \A k \in Clients : client'[k].step # "idle" => client'[k] = client[k]
    BY <2>1 DEF Inv, OtherTypes
  <2>5. /\ doomed' \in [Reapers -> Creates \cup {Nothing}]
        /\ \A q \in Reapers : \/ doomed'[q] = doomed[q]
                              \/ doomed[q] = doomed[r] /\ doomed'[q] = Nothing
    BY <2>1 DEF Inv, OtherTypes
  <2>6. Control
    BY DEF Inv, Control
  <2>7. Control'
    BY <2>1, <2>2, <2>3, <2>4, <2>5, <2>6, FinishControl
  <2>8. \A o \in Owners : Calls(o)' = Calls(o)
    BY <2>1 DEF Calls
  <2>9. Counted'
    BY <2>1, <2>2, <2>8, FinishCounts DEF Inv
  <2> QED BY <2>7, <2>9 DEF Inv, Control
<1> QED BY <1>1, <1>2, <1>3 DEF ReaperStep

\* Time passes, Close begins, Close returns.
LEMMA LeaseOrCloseStep ==
    ASSUME Inv, (\E s \in Creates : LeaseEnds(s)) \/ Close \/ CloseReturns
    PROVE  Inv'
<1>1. /\ UNCHANGED <<create, listed, pending, finished, stopping, subscribed, client, reaperVars>>
      /\ expired' \subseteq Creates
      /\ cancelled \subseteq cancelled' /\ cancelled' \subseteq Creates
      /\ \/ shutdown' = shutdown
         \/ shutdown' = "cancelled" /\ listed \subseteq cancelled'
         \/ shutdown' = "closed" /\ shutdown = "sweeping"
              /\ sweep["close"] = {} /\ doomed["close"] = Nothing
  BY DEF LeaseEnds, Close, CloseReturns, sessionVars, leaseVars, Inv, OtherTypes
<1>2. \A o \in Owners : Calls(o)' = Calls(o)
  BY <1>1 DEF Calls
<1>3. Counted'
  BY <1>1, <1>2, SamePlaces DEF Inv
<1>4. OtherTypes'
  BY <1>1 DEF Inv, OtherTypes, reaperVars
<1>5. WasListed' = WasListed /\ WasMade' = WasMade
  BY <1>1 DEF WasListed, WasMade
<1>6. Lifecycle' /\ NothingIsForgotten'
  BY <1>1, <1>5 DEF Inv, Lifecycle, NothingIsForgotten, reaperVars
<1>7. Shutting'
  BY <1>1, MockAssumption DEF Inv, OtherTypes, Shutting, reaperVars
<1> QED BY <1>3, <1>4, <1>6, <1>7 DEF Inv

LEMMA NextInv == Inv /\ [Next]_vars => Inv'
<1> SUFFICES ASSUME Inv, [Next]_vars PROVE Inv'
  OBVIOUS
<1>1. CASE UNCHANGED vars
  <2>1. UNCHANGED <<create, listed, pending, cancelled, finished, stopping, expired,
                    subscribed, client, sweep, doomed, shutdown>>
    BY <1>1 DEF vars, sessionVars, leaseVars, reaperVars
  <2>2. \A o \in Owners : Calls(o)' = Calls(o)
    BY <2>1 DEF Calls
  <2>3. Counted'
    BY <2>1, <2>2, SamePlaces DEF Inv
  <2>4. Control'
    BY <2>1 DEF Inv, Control, OtherTypes, Lifecycle, WasListed, WasMade, Shutting,
                NothingIsForgotten
  <2> QED BY <2>3, <2>4 DEF Inv, Control
<1>2. ASSUME NEW c \in Creates, CreateStep(c) \/ StopEnds(c) \/ LeaseEnds(c)
      PROVE  Inv'
  BY <1>2, AdmitStep, CallGoesOn, ListStep, OrphanStep, CreateReturnsStep, StopEndsStep,
     LeaseOrCloseStep DEF CreateStep
<1>3. ASSUME NEW k \in Clients, ClientStep(k) PROVE Inv'
  BY <1>3, ClientKeepsInv
<1>4. ASSUME NEW r \in Reapers, ReaperStep(r) PROVE Inv'
  BY <1>4, ReaperKeepsInv
<1>5. CASE Close \/ CloseReturns
  BY <1>5, LeaseOrCloseStep
<1> QED BY <1>1, <1>2, <1>3, <1>4, <1>5 DEF Next

-----------------------------------------------------------------------------
(* Admission.                                                              *)

\* The Create calls under way, whoever they are for.
Callers == {c \in Creates : create[c] \in {"calling", "failed", "answered", "listed", "orphaned"}}

\* Whatever takes or may take a place.
Held == Callers \cup listed \cup stopping

\* The invariant of admission, above Inv.
AdmissionInv == IsFiniteSet(Held) /\ AdmissionHolds

\* The sessions of a set of owners.
Of(S, K) == {c \in S : Owner[c] \in K}

LEMMA UpstreamIsHeld == Upstream \subseteq Held
  BY DEF Upstream, Held, Callers

\* The reservations of some owners are the calls and the cleanups for them.
LEMMA PendingCounts ==
    ASSUME Inv, IsFiniteSet(Held), NEW K \in SUBSET Owners,
           NEW H, H = {o \in K : pending[o] # 0}
    PROVE  SumFunctionOnSet(pending, H)
             = Cardinality(Of(Callers, K)) + Cardinality(Of(stopping, K))
<1>1. IsFiniteSet(Callers) /\ IsFiniteSet(stopping) /\ IsFiniteSet(Callers \cup stopping)
  BY FS_Subset DEF Held
<1>2. \A o \in K : /\ Calls(o) = Class(Callers, Owner, o)
                   /\ Cleanups(o) = Class(stopping, Owner, o)
  BY DEF Calls, Cleanups, Callers, Class
<1>3. \A o \in K : /\ pending[o] = Cardinality(Calls(o)) + Cardinality(Cleanups(o))
                   /\ Cardinality(Calls(o)) \in Nat /\ Cardinality(Cleanups(o)) \in Nat
                   /\ IsFiniteSet(Calls(o)) /\ IsFiniteSet(Cleanups(o))
  BY ReservingIsNatural DEF Inv, Counted, Places, ReservationsAreExact, Reserving
<1>4. \A o \in K : pending[o] = 0 => Calls(o) = {} /\ Cleanups(o) = {}
  <2> SUFFICES ASSUME NEW o \in K, pending[o] = 0 PROVE Calls(o) = {} /\ Cleanups(o) = {}
    OBVIOUS
  <2>1. Cardinality(Calls(o)) = 0 /\ Cardinality(Cleanups(o)) = 0
    BY <1>3
  <2> QED BY <1>3, <2>1, FS_EmptySet
<1>5. \A c \in Callers \cup stopping : Owner[c] \in K => Owner[c] \in H
  BY <1>2, <1>4 DEF Class
<1>6. IsFiniteSet(H)
  <2> DEFINE S == {c \in Callers \cup stopping : Owner[c] \in K}
             f == [c \in S |-> Owner[c]]
  <2>1. IsFiniteSet(S)
    BY <1>1, FS_Subset
  <2>2. \A o \in H : \E c \in S : f[c] = o
    <3> SUFFICES ASSUME NEW o \in H PROVE \E c \in S : f[c] = o
      OBVIOUS
    <3>1. Calls(o) # {} \/ Cleanups(o) # {}
      <4>1. pending[o] # 0 /\ o \in K
        OBVIOUS
      <4>2. Calls(o) = {} /\ Cleanups(o) = {} => pending[o] = 0
        BY <1>3, <4>1, FS_EmptySet
      <4> QED BY <4>1, <4>2
    <3>2. PICK c \in Calls(o) \cup Cleanups(o) : TRUE
      BY <3>1
    <3>3. c \in Callers \cup stopping /\ Owner[c] = o
      BY <1>2, <3>2 DEF Class
    <3> QED BY <3>3
  <2>3. f \in [S -> H]
    BY <1>5
  <2>4. f \in Surjection(S, H)
    BY <2>2, <2>3 DEF Surjection
  <2> HIDE DEF S, f
  <2> QED BY <2>1, <2>4, FS_Surjection
<1> DEFINE u == [o \in H |-> Cardinality(Class(Callers, Owner, o))]
           v == [o \in H |-> Cardinality(Class(stopping, Owner, o))]
<1>7. \A o \in H : /\ u[o] = Cardinality(Class(Callers, Owner, o))
                   /\ v[o] = Cardinality(Class(stopping, Owner, o))
  OBVIOUS
<1>8. \A o \in H : u[o] = Cardinality(Calls(o)) /\ v[o] = Cardinality(Cleanups(o))
  BY <1>2
<1>9. Classes(Callers, Owner, H) = Of(Callers, K) /\ Classes(stopping, Owner, H) = Of(stopping, K)
  BY <1>5 DEF Of, Classes
<1> HIDE DEF u, v
<1>10. /\ SumFunctionOnSet(u, H) = Cardinality(Classes(Callers, Owner, H))
       /\ SumFunctionOnSet(v, H) = Cardinality(Classes(stopping, Owner, H))
  BY <1>1, <1>6, <1>7, SumOfClasses
<1>11. SumFunctionOnSet(pending, H) = SumFunctionOnSet(u, H) + SumFunctionOnSet(v, H)
  BY <1>3, <1>6, <1>8, SumPlus
<1> QED BY <1>9, <1>10, <1>11, Zenon

\* What admission counts for some owners bounds their upstream sessions.
LEMMA CountBoundsUpstream ==
    ASSUME Inv, IsFiniteSet(Held), NEW K \in SUBSET Owners,
           NEW H, H = {o \in K : pending[o] # 0}
    PROVE  /\ Cardinality(Of(Upstream, K))
                <= Cardinality(Of(listed, K)) + SumFunctionOnSet(pending, H)
           /\ Cardinality(Of(Upstream, K)) \in Nat
<1> DEFINE A == Of(listed, K)
           B == Of(Callers, K)
           C == Of(stopping, K)
<1>1. Of(Upstream, K) \subseteq A \cup (B \cup C)
  BY DEF Of, Upstream, Callers
<1>2. /\ A \in SUBSET Held /\ B \in SUBSET Held /\ C \in SUBSET Held
      /\ A \cup (B \cup C) \in SUBSET Held
  BY DEF Of, Held
<1>3. SumFunctionOnSet(pending, H) = Cardinality(B) + Cardinality(C)
  BY PendingCounts
<1> HIDE DEF A, B, C
<1>4. IsFiniteSet(A) /\ IsFiniteSet(B) /\ IsFiniteSet(C) /\ IsFiniteSet(B \cup C)
      /\ IsFiniteSet(A \cup (B \cup C))
  BY <1>2, FS_Subset, FS_Union
<1>5. /\ Cardinality(A) \in Nat /\ Cardinality(B) \in Nat /\ Cardinality(C) \in Nat
      /\ Cardinality(B \cup C) \in Nat /\ Cardinality(B \cap C) \in Nat
      /\ Cardinality(A \cap (B \cup C)) \in Nat /\ Cardinality(A \cup (B \cup C)) \in Nat
  BY <1>4, FS_CardinalityType, FS_Intersection
<1>6. Cardinality(B \cup C) = Cardinality(B) + Cardinality(C) - Cardinality(B \cap C)
  BY <1>4, FS_Union
<1>7. Cardinality(A \cup (B \cup C))
        = Cardinality(A) + Cardinality(B \cup C) - Cardinality(A \cap (B \cup C))
  BY <1>4, FS_Union
<1>8. /\ Cardinality(Of(Upstream, K)) <= Cardinality(A \cup (B \cup C))
      /\ Cardinality(Of(Upstream, K)) \in Nat
  BY <1>1, <1>4, FS_Subset, FS_CardinalityType
<1>9. Cardinality(A \cup (B \cup C)) <= Cardinality(A) + (Cardinality(B) + Cardinality(C))
  BY <1>5, <1>6, <1>7
<1>10. Cardinality(Of(Upstream, K)) <= Cardinality(A) + SumFunctionOnSet(pending, H)
  BY <1>3, <1>5, <1>8, <1>9
<1> QED BY <1>8, <1>10 DEF A

LEMMA OneMore ==
    ASSUME NEW S, IsFiniteSet(S), NEW x
    PROVE  /\ Cardinality(S \cup {x}) <= Cardinality(S) + 1
           /\ Cardinality(S \cup {x}) \in Nat /\ Cardinality(S) \in Nat
<1>1. Cardinality(S) \in Nat
  BY FS_CardinalityType
<1>2. Cardinality(S \cup {x}) = IF x \in S THEN Cardinality(S) ELSE Cardinality(S) + 1
  BY FS_AddElement
<1> QED BY <1>1, <1>2

\* A creation that Admits lets pass takes the place it found.
LEMMA AdmitKeepsAdmission ==
    ASSUME Inv, AdmissionInv, NEW c \in Creates, Admit(c)
    PROVE  AdmissionInv'
<1> DEFINE a == Actor[Owner[c]]
           K == {o \in Owners : Actor[o] = a}
<1>1. /\ create[c] = "new" /\ create' = [create EXCEPT ![c] = "calling"]
      /\ listed' = listed /\ stopping' = stopping /\ Admits(c)
  BY DEF Admit
<1>2. Upstream' = Upstream \cup {c} /\ Held' = Held \cup {c}
  BY <1>1 DEF Upstream, Held, Callers, Inv, OtherTypes
<1>3. IsFiniteSet(Held) /\ IsFiniteSet(Upstream)
  BY UpstreamIsHeld, FS_Subset DEF AdmissionInv
<1>4. IsFiniteSet(Held')
  <2>1. IsFiniteSet(Held \cup {c})
    BY <1>3, FS_AddElement
  <2> QED BY <1>2, <2>1, Zenon
<1>5. \A s \in Creates : Owner[s] \in Owners
  BY MockAssumption
<1>6. Upstream \subseteq Creates /\ listed \subseteq Creates
  BY DEF Upstream, Inv, OtherTypes
<1>7. Cardinality(Upstream') <= MaxSessions
  <2>1. Of(Upstream, Owners) = Upstream /\ Of(listed, Owners) = listed
    BY <1>5, <1>6 DEF Of
  <2>2. Holders = {o \in Owners : pending[o] # 0}
    BY DEF Holders
  <2>3. /\ Cardinality(Of(Upstream, Owners)) <= Cardinality(Of(listed, Owners)) + TotalPending
        /\ Cardinality(Of(Upstream, Owners)) \in Nat
    BY <1>3, <2>2, CountBoundsUpstream DEF TotalPending
  <2>4. Cardinality(Upstream) <= Cardinality(listed) + TotalPending /\ Cardinality(Upstream) \in Nat
    BY <2>1, <2>3, Zenon
  <2>5. Cardinality(listed) + TotalPending < MaxSessions
    BY <1>1 DEF Admits
  <2>6. Cardinality(listed) \in Nat /\ TotalPending \in Nat
    <3>1. IsFiniteSet(listed)
      BY <1>3, FS_Subset DEF Held
    <3>2. IsFiniteSet(Of(Callers, Owners)) /\ IsFiniteSet(Of(stopping, Owners))
      BY <1>3, FS_Subset DEF Held, Of
    <3>3. TotalPending = Cardinality(Of(Callers, Owners)) + Cardinality(Of(stopping, Owners))
      BY <1>3, <2>2, PendingCounts DEF TotalPending
    <3> QED BY <3>1, <3>2, <3>3, FS_CardinalityType
  <2>7. Cardinality(Upstream \cup {c}) <= Cardinality(Upstream) + 1
        /\ Cardinality(Upstream \cup {c}) \in Nat
    BY <1>3, OneMore
  <2>8. Cardinality(Upstream \cup {c}) <= MaxSessions
    BY <2>4, <2>5, <2>6, <2>7, MockAssumption
  <2> QED BY <1>2, <2>8, Zenon
<1>8. ASSUME NEW o \in Owners
      PROVE  Cardinality({s \in Upstream' : Actor[Owner[s]] = Actor[o]}) <= MaxPerOwner
  <2> DEFINE X == {s \in Upstream : Actor[Owner[s]] = Actor[o]}
  <2>1. CASE Actor[o] # a
    <3>1. {s \in Upstream' : Actor[Owner[s]] = Actor[o]} = X
      BY <1>2, <2>1
    <3>2. Cardinality(X) <= MaxPerOwner
      BY DEF AdmissionInv, AdmissionHolds
    <3> HIDE DEF X
    <3> QED BY <3>1, <3>2, Zenon
  <2>2. CASE Actor[o] = a
    <3>1. {s \in Upstream' : Actor[Owner[s]] = Actor[o]} = X \cup {c}
      BY <1>2, <2>2
    <3>2. Of(Upstream, K) = X /\ Of(listed, K) = {s \in listed : Actor[Owner[s]] = a}
      BY <1>5, <1>6, <2>2 DEF Of
    <3>3. {p \in Holders : Actor[p] = a} = {p \in K : pending[p] # 0}
      BY DEF Holders
    <3>4. IsFiniteSet(X) /\ Of(listed, K) \in SUBSET Held
          /\ Of(Callers, K) \in SUBSET Held /\ Of(stopping, K) \in SUBSET Held
      BY <1>3, FS_Subset DEF Held, Of
    <3>5. Cardinality({s \in listed : Actor[Owner[s]] = a}) + PendingOf(a) < MaxPerOwner
      BY <1>1 DEF Admits
    <3>6. K \in SUBSET Owners
      OBVIOUS
    <3> HIDE DEF X, K
    <3> DEFINE P == PendingOf(a)
    <3>7. P = Cardinality(Of(Callers, K)) + Cardinality(Of(stopping, K))
      BY <1>3, <3>3, <3>6, PendingCounts DEF PendingOf
    <3>8. Cardinality(Of(Upstream, K)) <= Cardinality(Of(listed, K)) + P
          /\ Cardinality(Of(Upstream, K)) \in Nat
      BY <1>3, <3>3, <3>6, CountBoundsUpstream DEF PendingOf
    <3>9. Cardinality(Of(listed, K)) + P < MaxPerOwner
      BY <3>2, <3>5, Zenon
    <3>10. Cardinality(Of(listed, K)) \in Nat /\ P \in Nat
      <4>1. /\ IsFiniteSet(Of(listed, K)) /\ IsFiniteSet(Of(Callers, K))
            /\ IsFiniteSet(Of(stopping, K))
        BY <1>3, <3>4, FS_Subset
      <4> HIDE DEF P
      <4> QED BY <3>7, <4>1, FS_CardinalityType
    <3> HIDE DEF P
    <3>11. Cardinality(Of(Upstream, K)) < MaxPerOwner
      BY <3>8, <3>9, <3>10, MockAssumption
    <3>12. Cardinality(X) < MaxPerOwner /\ Cardinality(X) \in Nat
      BY <3>2, <3>8, <3>11, Zenon
    <3>13. Cardinality(X \cup {c}) <= Cardinality(X) + 1 /\ Cardinality(X \cup {c}) \in Nat
      BY <3>4, OneMore
    <3>14. Cardinality(X \cup {c}) <= MaxPerOwner
      BY <3>12, <3>13, MockAssumption
    <3> QED BY <3>1, <3>14, Zenon
  <2> QED BY <2>1, <2>2
<1> QED BY <1>4, <1>7, <1>8 DEF AdmissionInv, AdmissionHolds

\* A step that adds no session upstream.
LEMMA FewerUpstream ==
    ASSUME AdmissionInv, Upstream' \subseteq Upstream, Held' \subseteq Held
    PROVE  AdmissionInv'
<1>1. IsFiniteSet(Held) /\ IsFiniteSet(Held') /\ IsFiniteSet(Upstream) /\ IsFiniteSet(Upstream')
  BY UpstreamIsHeld, FS_Subset DEF AdmissionInv
<1>2. Cardinality(Upstream') <= MaxSessions
  <2>1. Cardinality(Upstream') <= Cardinality(Upstream)
    BY <1>1, FS_Subset
  <2>2. Cardinality(Upstream) <= MaxSessions
    BY DEF AdmissionInv, AdmissionHolds
  <2>3. Cardinality(Upstream) \in Nat /\ Cardinality(Upstream') \in Nat
    BY <1>1, FS_CardinalityType
  <2> QED BY <2>1, <2>2, <2>3, MockAssumption
<1>3. ASSUME NEW o \in Owners
      PROVE  Cardinality({s \in Upstream' : Actor[Owner[s]] = Actor[o]}) <= MaxPerOwner
  <2> DEFINE X == {s \in Upstream : Actor[Owner[s]] = Actor[o]}
             Y == {s \in Upstream' : Actor[Owner[s]] = Actor[o]}
  <2>1. Cardinality(X) <= MaxPerOwner
    BY DEF AdmissionInv, AdmissionHolds
  <2>2. Y \in SUBSET X /\ X \in SUBSET Upstream
    OBVIOUS
  <2> HIDE DEF X, Y
  <2>3. IsFiniteSet(X)
    BY <1>1, <2>2, FS_Subset
  <2>4. IsFiniteSet(Y) /\ Cardinality(Y) <= Cardinality(X)
    BY <2>2, <2>3, FS_Subset
  <2>5. Cardinality(X) \in Nat /\ Cardinality(Y) \in Nat
    BY <2>3, <2>4, FS_CardinalityType
  <2>6. Cardinality(Y) <= MaxPerOwner
    BY <2>1, <2>4, <2>5, MockAssumption
  <2> QED BY <2>6 DEF Y
<1> QED BY <1>1, <1>2, <1>3 DEF AdmissionInv, AdmissionHolds

\* finish of a session that is upstream, or was finished before.
LEMMA FinishUpstream ==
    ASSUME NEW s, Finish(s), s \in listed \/ s \in finished
    PROVE  listed' \cup stopping' \subseteq listed \cup stopping
  BY DEF Finish, sessionVars

\* A session some client or reaper knows.
LEMMA KnownIsListed ==
    ASSUME Inv, NEW s \in WasListed
    PROVE  s \in listed \/ s \in finished
  BY DEF Inv, NothingIsForgotten, WasListed

\* A step that leaves the Create calls alone and moves listed sessions only to
\* where they are stopped.
LEMMA SameCalls ==
    ASSUME UNCHANGED create, listed' \cup stopping' \subseteq listed \cup stopping
    PROVE  Upstream' \subseteq Upstream /\ Held' \subseteq Held
  BY DEF Upstream, Held, Callers

LEMMA CreateKeepsAdmission ==
    ASSUME Inv, AdmissionInv, NEW c \in Creates, CreateStep(c)
    PROVE  AdmissionInv'
<1>1. CASE Admit(c)
  BY <1>1, AdmitKeepsAdmission
<1>2. CASE Refuse(c) \/ GatewayAnswers(c)
  <2>1. PICK step \in {"refused", "answered", "failed"} :
          /\ create' = [create EXCEPT ![c] = step]
          /\ step = "refused" <=> create[c] = "new"
          /\ create[c] \in {"new", "calling"}
    BY <1>2 DEF Refuse, GatewayAnswers
  <2>2. listed' = listed /\ stopping' = stopping
    BY <1>2 DEF Refuse, GatewayAnswers, sessionVars
  <2>3. Upstream' \subseteq Upstream /\ Held' \subseteq Held
    BY <2>1, <2>2 DEF Upstream, Held, Callers, Inv, OtherTypes
  <2> QED BY <2>3, FewerUpstream
<1>3. CASE List(c)
  <2>1. /\ create[c] = "answered" /\ create' = [create EXCEPT ![c] = "listed"]
        /\ listed' = listed \cup {c} /\ stopping' = stopping
    BY <1>3 DEF List
  <2>2. Upstream' \subseteq Upstream /\ Held' \subseteq Held
    BY <2>1 DEF Upstream, Held, Callers, Inv, OtherTypes
  <2> QED BY <2>2, FewerUpstream
<1>4. CASE Orphan(c)
  <2>1. /\ create[c] = "answered" /\ create' = [create EXCEPT ![c] = "orphaned"]
        /\ listed' \subseteq listed /\ stopping' \subseteq stopping \cup {c}
    BY <1>4 DEF Orphan, Discard, Finish, sessionVars
  <2>2. Upstream' \subseteq Upstream /\ Held' \subseteq Held
    BY <2>1 DEF Upstream, Held, Callers, Inv, OtherTypes
  <2> QED BY <2>2, FewerUpstream
<1>5. CASE CreateReturns(c)
  <2>1. PICK step \in {"refused", "served", "dropped"} : create' = [create EXCEPT ![c] = step]
    BY <1>5 DEF CreateReturns
  <2>2. listed' = listed /\ stopping' = stopping
    BY <1>5 DEF CreateReturns
  <2>3. Upstream' \subseteq Upstream /\ Held' \subseteq Held
    BY <2>1, <2>2 DEF Upstream, Held, Callers, Inv, OtherTypes
  <2> QED BY <2>3, FewerUpstream
<1> QED BY <1>1, <1>2, <1>3, <1>4, <1>5 DEF CreateStep

LEMMA NextAdmission == Inv /\ AdmissionInv /\ [Next]_vars => AdmissionInv'
<1> SUFFICES ASSUME Inv, AdmissionInv, [Next]_vars PROVE AdmissionInv'
  OBVIOUS
<1>1. ASSUME UNCHANGED create, listed' \cup stopping' \subseteq listed \cup stopping
      PROVE  AdmissionInv'
  BY <1>1, SameCalls, FewerUpstream
<1>2. CASE UNCHANGED vars
  BY <1>1, <1>2 DEF vars, sessionVars
<1>3. ASSUME NEW c \in Creates, CreateStep(c) \/ StopEnds(c) \/ LeaseEnds(c)
      PROVE  AdmissionInv'
  BY <1>1, <1>3, CreateKeepsAdmission DEF StopEnds, LeaseEnds, sessionVars
<1>4. ASSUME NEW k \in Clients, ClientStep(k) PROVE AdmissionInv'
  <2>1. UNCHANGED create
    BY <1>4 DEF ClientStep, Find, EndSession, Leave, Renew, Subscribe, Stream,
                StreamBreaks, StreamCancelled
  <2>2. CASE EndSession(k)
    <3>1. client[k].session \in WasListed /\ Finish(client[k].session)
      BY <2>2 DEF EndSession, Inv, Lifecycle
    <3> QED BY <1>1, <2>1, <3>1, KnownIsListed, FinishUpstream
  <2>3. CASE ~ EndSession(k)
    BY <1>1, <1>4, <2>1, <2>3 DEF ClientStep, Find, Leave, Renew, Subscribe, Stream,
                StreamBreaks, StreamCancelled, sessionVars
  <2> QED BY <2>2, <2>3
<1>5. ASSUME NEW r \in Reapers, ReaperStep(r) PROVE AdmissionInv'
  <2>1. CASE Sweep(r) \/ \E s \in Creates : Inspect(r, s)
    BY <1>1, <2>1 DEF Sweep, Inspect, sessionVars
  <2>2. CASE Reap(r)
    <3>1. doomed[r] \in WasListed /\ Finish(doomed[r]) /\ UNCHANGED create
      BY <2>2 DEF Reap, Inv, Lifecycle
    <3> QED BY <1>1, <3>1, KnownIsListed, FinishUpstream
  <2> QED BY <1>5, <2>1, <2>2 DEF ReaperStep
<1>6. CASE Close \/ CloseReturns
  BY <1>1, <1>6 DEF Close, CloseReturns, sessionVars
<1> QED BY <1>2, <1>3, <1>4, <1>5, <1>6 DEF Next

LEMMA InitAdmission == Init => AdmissionInv
<1> SUFFICES ASSUME Init PROVE AdmissionInv
  OBVIOUS
<1>1. Held = {} /\ Upstream = {}
  BY DEF Init, Held, Upstream, Callers
<1>2. IsFiniteSet(Held) /\ Cardinality(Upstream) = 0
  BY <1>1, FS_EmptySet, Zenon
<1>3. ASSUME NEW o \in Owners
      PROVE  Cardinality({s \in Upstream : Actor[Owner[s]] = Actor[o]}) = 0
  <2>1. {s \in Upstream : Actor[Owner[s]] = Actor[o]} = {}
    BY <1>1
  <2> QED BY <2>1, FS_EmptySet, Zenon
<1> QED BY <1>2, <1>3, MockAssumption DEF AdmissionInv, AdmissionHolds

-----------------------------------------------------------------------------
(* Theorems.                                                               *)

\* The inductive invariant: types, counted places, the life of a session and
\* what a shutdown has still to do.
THEOREM Invariance == Spec => []Inv
<1>1. Init => Inv
  BY InitInv
<1>2. Inv /\ [Next]_vars => Inv'
  BY NextInv
<1> QED BY <1>1, <1>2, PTL DEF Spec

\* Every variable of mock_data.UseCase keeps its type; the number of reserved
\* places never falls below zero.
THEOREM TypeCorrect == Spec => []TypeOK
<1>1. Inv => TypeOK
  BY DEF Inv, OtherTypes, Counted, TypeOK
<1> QED BY <1>1, Invariance, PTL

\* UseCase.pending is exactly the Create calls and the cleanups under way,
\* however creations fail and sessions are ended twice.
THEOREM ReservationsCorrect == Spec => []ReservationsAreExact
<1>1. Inv => ReservationsAreExact
  BY DEF Inv, Counted
<1> QED BY <1>1, Invariance, PTL

\* When UseCase.Close returns, no session is left in the backend.
THEOREM CloseCorrect == Spec => []CloseLeavesNothing
<1>1. Inv => CloseLeavesNothing
  BY DEF Inv, Shutting, CloseLeavesNothing
<1> QED BY <1>1, Invariance, PTL

\* Every session the generator confirmed is known to the backend until its
\* stop has begun.
THEOREM ForgottenCorrect == Spec => []NothingIsForgotten
<1>1. Inv => NothingIsForgotten
  BY DEF Inv
<1> QED BY <1>1, Invariance, PTL

\* Upstream never has more sessions of this backend than Config allows, in all
\* and per actor: between UseCase.Create's check and the end of the cleanup
\* every session is counted at least once.
THEOREM AdmissionCorrect == Spec => []AdmissionHolds
<1>1. Init => AdmissionInv
  BY InitAdmission
<1>2. Inv /\ AdmissionInv /\ [Next]_vars => AdmissionInv'
  BY NextAdmission
<1>3. AdmissionInv => AdmissionHolds
  BY DEF AdmissionInv
<1> QED BY <1>1, <1>2, <1>3, Invariance, PTL DEF Spec
=============================================================================
