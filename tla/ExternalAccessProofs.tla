------------------------- MODULE ExternalAccessProofs -------------------------
(***************************************************************************)
(* What ExternalAccess promises for any number of sessions, requests,      *)
(* roles and tokens.                                                       *)
(*                                                                         *)
(* Two invariants next to TypeOK.  SessionsInv follows a refresh token:    *)
(* unless a session was logged out or a refresh of it failed, the token    *)
(* the provider accepts is the one in the row, or the one the holder of    *)
(* the row's lock is about to store.  AnswersInv says that who decides     *)
(* about a token holds the user's lock and has seen what is applied.       *)
(***************************************************************************)
EXTENDS ExternalAccess, SequenceTheorems, TLAPS

Holding == {"refresh", "store", "revoke"}

\* Who refreshes a session holds the lock of its row, which nobody revokes then.
Locked == \A a \in Actors : At(a) \in Holding =>
    /\ Via(a) \in Sessions
    /\ lock[Via(a)] = a
    /\ Unrevoked(Via(a))
    /\ At(a) = "refresh" => Token(a) = row[Via(a)].token
    /\ At(a) = "store" => Token(a) = valid[Via(a)]

Unborn == \A s \in Sessions : At(s) = "new" => row[s].status = "none" /\ lock[s] = Nobody

InTrouble == \A a \in Actors : At(a) = "revoke" => Via(a) \in ended \cup trouble

\* Where the valid refresh token is.
Kept == \A s \in Sessions : s \notin ended \cup trouble /\ row[s].status # "none" =>
    \/ valid[s] = row[s].token
    \/ \E a \in Actors : At(a) = "store" /\ Via(a) = s

\* A logout takes the valid token along and nothing rotates it afterwards.
LoggedOut ==
    /\ told \subseteq ended
    /\ \A s \in Sessions : logout[s] # 0 => s \in ended
    /\ \A s \in ended : At(s) # "new" /\ ~ Unrevoked(s)
    /\ \A s \in ended \ trouble : logout[s] # 0 => valid[s] = logout[s]

SessionsInv ==
    Locked /\ Unborn /\ InTrouble /\ Kept /\ LoggedOut /\ RevokedForCause /\ LogoutEndsLogin

HasToken ==
    /\ \A a \in Actors : At(a) \in {"store", "apply", "decide", "served"} => Token(a) # 0
    /\ \A s \in Sessions : row[s].status # "none" => row[s].token # 0

Watching == \A a \in Actors : At(a) = "decide" => userLock = a /\ Seen(a) = applied

AnswersInv == HasToken /\ Watching /\ NewestTokenWins

IInv == TypeOK /\ SessionsInv /\ AnswersInv

-----------------------------------------------------------------------------
(* Types.                                                                  *)

TokenRecords == [iat : Nat, role : Roles, to : Sessions \cup {Bearer}]

\* A token more, the others as they were.
LEMMA IssueTyped ==
  ASSUME TypeOK, NEW to \in Sessions \cup {Bearer}, Issue(to)
  PROVE  /\ LastIat \in Nat
         /\ issued' \in Seq(TokenRecords)
         /\ Len(issued') = Len(issued) + 1 /\ Len(issued') <= MaxTokens
         /\ \A t \in 1 .. Len(issued) : issued'[t] = issued[t]
         /\ Len(issued) \in Nat
<1>1. issued \in Seq(TokenRecords) /\ Len(issued) \in Nat
  BY DEF TypeOK, TokenRecords
<1>2. LastIat \in Nat
  <2>1. CASE issued = <<>>
    BY <2>1 DEF LastIat
  <2>2. CASE issued # <<>>
    <3>1. Len(issued) \in 1 .. Len(issued)
      BY <1>1, <2>2
    <3>2. issued[Len(issued)] \in TokenRecords
      BY <1>1, <3>1
    <3> QED
      BY <2>2, <3>2 DEF LastIat, Iat, TokenRecords
  <2> QED
    BY <2>1, <2>2
<1>3. PICK iat \in {LastIat, LastIat + 1}, role \in Roles :
        issued' = Append(issued, [iat |-> iat, role |-> role, to |-> to])
  BY DEF Issue
<1>4. [iat |-> iat, role |-> role, to |-> to] \in TokenRecords
  BY <1>2, <1>3 DEF TokenRecords
<1>5. Len(issued) < MaxTokens /\ MaxTokens \in Nat
  BY AccessAssumption DEF Issue
<1> HIDE DEF TokenRecords
<1> QED
  BY <1>1, <1>2, <1>3, <1>4, <1>5

\* The numbers that name a token still do when there is one more.
LEMMA IssuedGrows ==
  ASSUME TypeOK, NEW to \in Sessions \cup {Bearer}, Issue(to)
  PROVE  /\ Issued \subseteq Issued'
         /\ Len(issued') \in Issued'
         /\ ActorRecords \subseteq ActorRecords'
<1>1. Issued \subseteq Issued' /\ Len(issued') \in Issued'
  BY IssueTyped DEF Issued
<1> QED
  BY <1>1 DEF ActorRecords

\* The actors' part of TypeOK, for one that goes on.
LEMMA BecomesTyped ==
  ASSUME TypeOK, NEW a \in Actors, NEW f \in ActorRecords, Becomes(a, f),
         f.at \in Refreshing => f.via \in Sessions
  PROVE  /\ actor' \in [Actors -> ActorRecords]
         /\ actor'[a] = f
         /\ \A b \in Actors : b # a => actor'[b] = actor[b]
         /\ \A b \in Actors : actor'[b].at \in Refreshing => actor'[b].via \in Sessions
<1>1. /\ actor' \in [Actors -> ActorRecords]
      /\ actor'[a] = f
      /\ \A b \in Actors : b # a => actor'[b] = actor[b]
  BY DEF TypeOK, Becomes
<1> QED
  BY <1>1 DEF TypeOK, At, Via

LEMMA FreshTyped ==
  ASSUME TypeOK, NEW a \in Actors
  PROVE  Fresh(a) \in ActorRecords
  BY DEF TypeOK, Fresh, ActorRecords, Steps, Issued

LEMMA RefusedTyped ==
  ASSUME TypeOK, NEW a \in Actors
  PROVE  /\ Refused(a) \in ActorRecords
         /\ Refused(a).at = IF a \in Sessions THEN "undo" ELSE "denied"
         /\ Refused(a).via = Fresh(a).via
  BY FreshTyped DEF Refused, Fresh, ActorRecords, Steps

\* A record that replaces the step only.
LEMMA GotoTyped ==
  ASSUME TypeOK, NEW a \in Actors, NEW step \in Steps
  PROVE  /\ [actor[a] EXCEPT !.at = step] \in ActorRecords
         /\ [actor[a] EXCEPT !.at = step].at = step
         /\ [actor[a] EXCEPT !.at = step].via = Via(a)
  BY DEF TypeOK, ActorRecords, Via

LEMMA InitType == Init => TypeOK
<1> SUFFICES ASSUME Init PROVE TypeOK
  OBVIOUS
<1>1. issued \in Seq(TokenRecords) /\ Len(issued) = 0 /\ 0 <= MaxTokens
  BY AccessAssumption DEF Init
<1>2. \A a \in Actors : Fresh(a) \in ActorRecords /\ Fresh(a).at = "new"
  BY <1>1 DEF Fresh, ActorRecords, Steps, Issued
<1> QED
  BY <1>1, <1>2 DEF Init, TypeOK, TokenRecords, Issued, NoRow, At, Refreshing

\* What TypeOK says of the variables but the actors and the tokens.
RestTyped ==
    /\ valid \in [Sessions -> Issued]
    /\ row \in [Sessions -> [status : {"none", "live", "expired", "revoked"},
                             token : Issued, due : BOOLEAN]]
    /\ lock \in [Sessions -> Actors \cup {Nobody}]
    /\ applied \in Issued
    /\ userLock \in Actors \cup {Nobody}
    /\ logout \in [Sessions -> Issued]
    /\ told \subseteq Sessions /\ ended \subseteq Sessions /\ trouble \subseteq Sessions

\* One actor goes on and no token is issued.
LEMMA StepTyped ==
  ASSUME TypeOK, NEW a \in Actors, NEW f \in ActorRecords, Becomes(a, f),
         f.at \in Refreshing => f.via \in Sessions, UNCHANGED issued, RestTyped'
  PROVE  TypeOK'
<1>1. Issued' = Issued /\ ActorRecords' = ActorRecords
  BY DEF Issued, ActorRecords
<1> QED
  BY <1>1, BecomesTyped DEF TypeOK, RestTyped, At, Via

\* One actor goes on with a token that is issued to it.
LEMMA IssueStepTyped ==
  ASSUME TypeOK, NEW a \in Actors, NEW to \in Sessions, Issue(to), NEW f \in ActorRecords',
         Becomes(a, f), f.at \in Refreshing => f.via \in Sessions, RestTyped'
  PROVE  TypeOK'
<1>1. actor' \in [Actors -> ActorRecords']
  BY IssuedGrows DEF TypeOK, Becomes
<1>2. \A b \in Actors : actor'[b].at \in Refreshing => actor'[b].via \in Sessions
  BY DEF TypeOK, Becomes, At, Via
<1> QED
  BY <1>1, <1>2, IssueTyped DEF TypeOK, RestTyped, TokenRecords, At, Via

LEMMA ReadTyped ==
  ASSUME TypeOK, NEW a \in Actors, NEW s \in Sessions, Read(a, s),
         UNCHANGED <<issued, valid, row, lock, applied, userLock, logout, observers>>
  PROVE  TypeOK'
<1> DEFINE f == IF Live(s)
                THEN [actor[a] EXCEPT !.at = IF row[s].due THEN "wait" ELSE "apply",
                                      !.via = s, !.token = row[s].token]
                ELSE Refused(a)
<1>1. RestTyped'
  BY DEF TypeOK, RestTyped, Issued, observers
<1>2. f \in ActorRecords /\ (f.at \in Refreshing => f.via \in Sessions)
  <2>1. row[s].token \in Issued
    BY DEF TypeOK
  <2>2. CASE Live(s)
    <3> DEFINE g(step) == [actor[a] EXCEPT !.at = step, !.via = s, !.token = row[s].token]
    <3>1. /\ g("wait") \in ActorRecords /\ g("wait").via = s
          /\ g("apply") \in ActorRecords /\ g("apply").via = s
      BY <2>1 DEF TypeOK, ActorRecords, Steps
    <3>2. f = g("wait") \/ f = g("apply")
      BY <2>2
    <3> HIDE DEF f, g
    <3> QED
      BY <3>1, <3>2
  <2>3. CASE ~ Live(s)
    BY <2>3, RefusedTyped DEF Refreshing
  <2> QED
    BY <2>2, <2>3
<1>3. Becomes(a, f)
  BY DEF Read
<1> QED
  BY <1>1, <1>2, <1>3, StepTyped DEF observers

LEMMA BeginType ==
  ASSUME TypeOK, NEW r \in Requests,
         (\E s \in Sessions : Begin(r, s)) \/ (\E t \in Tokens : BeginBearer(r, t))
  PROVE  TypeOK'
<1>1. r \in Actors
  BY DEF Actors
<1>2. ASSUME NEW s \in Sessions, Begin(r, s)
      PROVE  TypeOK'
  BY <1>1, <1>2, ReadTyped DEF Begin, providerVars
<1>3. ASSUME NEW t \in Tokens, BeginBearer(r, t)
      PROVE  TypeOK'
  <2> DEFINE f == [actor[r] EXCEPT !.at = "apply", !.token = t]
  <2>1. t \in Issued
    <3>1. issued \in Seq(TokenRecords)
      BY DEF TypeOK, TokenRecords
    <3>2. DOMAIN issued = 1 .. Len(issued) /\ Len(issued) \in Nat
      BY <3>1 DEF TokenRecords
    <3>3. t \in DOMAIN issued
      BY <1>3 DEF BeginBearer
    <3>4. t \in 1 .. Len(issued)
      BY <3>2, <3>3
    <3> QED
      BY <3>2, <3>4 DEF Issued
  <2>2. f \in ActorRecords /\ f.at = "apply"
    BY <1>1, <2>1 DEF TypeOK, ActorRecords, Steps
  <2>3. Becomes(r, f) /\ UNCHANGED issued
    BY <1>3 DEF BeginBearer, providerVars
  <2>4. RestTyped'
    BY <1>3 DEF BeginBearer, providerVars, observers, TypeOK, RestTyped, Issued
  <2> QED
    BY <1>1, <2>2, <2>3, <2>4, StepTyped DEF Refreshing
<1> QED
  BY <1>2, <1>3

LEMMA RevokeTyped ==
  ASSUME TypeOK, NEW s \in Sessions, Revoke(s)
  PROVE  RestTyped'
<1>1. Issued' = Issued
  BY DEF Revoke, providerVars, Issued
<1>2. row[s].token \in Issued
  BY DEF TypeOK
<1>3. row' = [row EXCEPT ![s].status = "revoked"] \/ row' = row
  BY DEF Revoke
<1>4. row' \in [Sessions -> [status : {"none", "live", "expired", "revoked"},
                            token : Issued, due : BOOLEAN]]
  BY <1>3 DEF TypeOK
<1>5. logout' \in [Sessions -> Issued] /\ ended' \subseteq Sessions
  BY <1>2 DEF Revoke, TypeOK
<1> QED
  BY <1>1, <1>4, <1>5 DEF Revoke, providerVars, TypeOK, RestTyped

\* No actor moves and no token is issued.
LEMMA RestStepTyped ==
  ASSUME TypeOK, UNCHANGED <<issued, actor>>, RestTyped'
  PROVE  TypeOK'
<1>1. Issued' = Issued /\ ActorRecords' = ActorRecords
  BY DEF Issued, ActorRecords
<1> QED
  BY <1>1 DEF TypeOK, RestTyped, At, Via

\* The steps of the callback and of the session row that no token is issued in.
LEMMA RowStepType ==
  ASSUME TypeOK, NEW s \in Sessions,
         CallbackStep(s) \/ FallDue(s) \/ Expire(s) \/ Cleanup(s) \/ Logout(s) \/ TellProvider(s)
  PROVE  TypeOK'
<1>1. s \in Actors
  BY DEF Actors
<1>2. CASE CallbackReads(s)
  BY <1>1, <1>2, ReadTyped DEF CallbackReads, providerVars
<1>3. CASE Undo(s)
  <2>1. RestTyped'
    BY <1>3, RevokeTyped DEF Undo
  <2>2. Becomes(s, [actor[s] EXCEPT !.at = "denied"]) /\ UNCHANGED issued
    BY <1>3 DEF Undo, Goto, Revoke, providerVars
  <2> QED
    BY <1>1, <2>1, <2>2, GotoTyped, StepTyped DEF Steps, Refreshing
<1>4. CASE FallDue(s) \/ Expire(s) \/ Cleanup(s) \/ Logout(s) \/ TellProvider(s)
  <2>1. UNCHANGED <<issued, actor>>
    BY <1>4 DEF FallDue, Expire, Cleanup, Logout, Revoke, TellProvider, providerVars
  <2>2. Issued' = Issued /\ 0 \in Issued
    BY <2>1 DEF TypeOK, Issued
  <2>3. CASE FallDue(s) \/ Expire(s) \/ Cleanup(s)
    <3>1. \/ row' = [row EXCEPT ![s].due = TRUE]
          \/ row' = [row EXCEPT ![s].status = "expired"]
          \/ row' = [row EXCEPT ![s] = NoRow]
      BY <2>3 DEF FallDue, Expire, Cleanup
    <3>2. row' \in [Sessions -> [status : {"none", "live", "expired", "revoked"},
                                token : Issued, due : BOOLEAN]]
      <4> DEFINE R == [status : {"none", "live", "expired", "revoked"},
                       token : Issued, due : BOOLEAN]
      <4>1. row \in [Sessions -> R] /\ NoRow \in R
        BY <2>2 DEF TypeOK, NoRow
      <4>2. [row[s] EXCEPT !.due = TRUE] \in R /\ [row[s] EXCEPT !.status = "expired"] \in R
        BY <4>1
      <4>3. \E new \in R : row' = [row EXCEPT ![s] = new]
        BY <3>1, <4>1, <4>2
      <4> HIDE DEF R
      <4>4. row' \in [Sessions -> R]
        BY <4>1, <4>3
      <4> QED
        BY <4>4 DEF R
    <3> QED
      BY <2>1, <2>2, <2>3, <3>2, RestStepTyped
      DEF FallDue, Expire, Cleanup, providerVars, observers, TypeOK, RestTyped
  <2>4. CASE Logout(s)
    BY <2>1, <2>4, RevokeTyped, RestStepTyped DEF Logout
  <2>5. CASE TellProvider(s)
    <3>1. valid' \in [Sessions -> Issued] /\ logout' \in [Sessions -> Issued]
      BY <2>2, <2>5 DEF TellProvider, TypeOK
    <3> QED
      BY <2>1, <2>2, <2>5, <3>1, RestStepTyped DEF TellProvider, TypeOK, RestTyped
  <2> QED
    BY <1>4, <2>3, <2>4, <2>5
<1> QED
  BY <1>2, <1>3, <1>4 DEF CallbackStep

LEMMA IssueStepType ==
  ASSUME TypeOK, IssueBearer \/ (\E s \in Sessions : Complete(s)) \/ (\E a \in Actors : Refreshed(a))
  PROVE  TypeOK'
<1>1. CASE IssueBearer
  <2>1. Issue(Bearer) /\ UNCHANGED <<valid, row, lock, applied, userLock, actor, logout, told, ended, trouble>>
    BY <1>1 DEF IssueBearer, observers
  <2>2. issued' \in Seq(TokenRecords) /\ Len(issued') <= MaxTokens
    BY <2>1, IssueTyped
  <2>3. Issued \subseteq Issued' /\ ActorRecords \subseteq ActorRecords'
    BY <2>1, IssuedGrows
  <2> QED
    BY <2>1, <2>2, <2>3 DEF TypeOK, TokenRecords, At, Via
<1>2. ASSUME NEW s \in Sessions, Complete(s)
      PROVE  TypeOK'
  <2> DEFINE f == [actor[s] EXCEPT !.at = "read"]
  <2>1. s \in Actors /\ Issue(s) /\ Becomes(s, f)
    BY <1>2 DEF Actors, Complete, Goto
  <2>2. Issued \subseteq Issued' /\ Len(issued') \in Issued' /\ ActorRecords \subseteq ActorRecords'
    BY <2>1, IssuedGrows
  <2>3. f \in ActorRecords' /\ f.at = "read"
    BY <2>1, <2>2, GotoTyped DEF Steps
  <2>4. RestTyped'
    BY <1>2, <2>2 DEF Complete, observers, TypeOK, RestTyped
  <2> QED
    BY <2>1, <2>3, <2>4, IssueStepTyped DEF Refreshing
<1>3. ASSUME NEW a \in Actors, Refreshed(a)
      PROVE  TypeOK'
  <2> DEFINE f == [actor[a] EXCEPT !.at = "store", !.token = Len(issued')]
  <2>1. Via(a) \in Sessions /\ Issue(Via(a)) /\ Becomes(a, f)
    BY <1>3 DEF Refreshed, TypeOK, Refreshing
  <2>2. Issued \subseteq Issued' /\ Len(issued') \in Issued' /\ ActorRecords \subseteq ActorRecords'
    BY <2>1, IssuedGrows
  <2>3. actor[a] \in ActorRecords'
    BY <2>2 DEF TypeOK
  <2>4. f \in ActorRecords' /\ f.via = Via(a)
    BY <2>2, <2>3 DEF ActorRecords, Steps, Via
  <2>5. RestTyped'
    BY <1>3, <2>1, <2>2 DEF Refreshed, observers, TypeOK, RestTyped
  <2> QED
    BY <2>1, <2>4, <2>5, IssueStepTyped
<1> QED
  BY <1>1, <1>2, <1>3

\* The other steps of resolveWithRefresh.
LEMMA RefreshStepType ==
  ASSUME TypeOK, NEW a \in Actors,
         Lock(a) \/ RefreshRefused(a) \/ RefreshFails(a) \/ Store(a) \/ StoreFails(a) \/ RevokeRow(a)
  PROVE  TypeOK'
<1>1. Via(a) \in Sessions /\ UNCHANGED <<issued, applied, userLock>>
  BY DEF Lock, RefreshRefused, RefreshFails, Store, StoreFails, RevokeRow, TypeOK, Refreshing, providerVars
<1>2. Issued' = Issued /\ 0 \in Issued
  BY <1>1 DEF Issued, TypeOK
<1>3. RestTyped'
  <2>1. CASE Lock(a)
    BY <1>1, <1>2, <2>1 DEF Lock, observers, providerVars, TypeOK, RestTyped
  <2>2. CASE RefreshRefused(a) \/ RefreshFails(a)
    BY <1>1, <1>2, <2>2 DEF RefreshRefused, RefreshFails, observers, providerVars, TypeOK, RestTyped
  <2>3. CASE Store(a) \/ StoreFails(a) \/ RevokeRow(a)
    <3>1. Token(a) \in Issued
      BY DEF TypeOK, ActorRecords, Token
    <3> QED
      BY <1>1, <1>2, <2>3, <3>1 DEF Store, StoreFails, RevokeRow, Unlock, observers, providerVars, TypeOK, RestTyped
  <2> QED
    BY <2>1, <2>2, <2>3
<1>4. CASE Lock(a)
  <2> DEFINE locked == [actor[a] EXCEPT !.token = row[Via(a)].token]
  <2>1. row[Via(a)].token \in Issued
    BY <1>1 DEF TypeOK
  <2>2. /\ [locked EXCEPT !.at = "refresh"] \in ActorRecords
        /\ [locked EXCEPT !.at = "refresh"].via = Via(a)
        /\ [locked EXCEPT !.at = "apply"] \in ActorRecords
        /\ [locked EXCEPT !.at = "apply"].at = "apply"
    BY <2>1 DEF TypeOK, ActorRecords, Steps, Via
  <2>3. CASE Becomes(a, [locked EXCEPT !.at = "refresh"])
    BY <1>1, <1>3, <2>2, <2>3, StepTyped
  <2>4. CASE Becomes(a, [locked EXCEPT !.at = "apply"])
    BY <1>1, <1>3, <2>2, <2>4, StepTyped DEF Refreshing
  <2>5. CASE Becomes(a, Refused(a))
    BY <1>1, <1>3, <2>5, RefusedTyped, StepTyped DEF Refreshing
  <2> QED
    BY <1>4, <2>3, <2>4, <2>5 DEF Lock
<1>5. CASE RefreshRefused(a) \/ RefreshFails(a)
  BY <1>1, <1>3, <1>5, GotoTyped, StepTyped DEF RefreshRefused, RefreshFails, Goto, Steps
<1>6. CASE Store(a)
  BY <1>1, <1>3, <1>6, GotoTyped, StepTyped DEF Store, Goto, Steps
<1>7. CASE StoreFails(a) \/ RevokeRow(a)
  BY <1>1, <1>3, <1>7, RefusedTyped, StepTyped DEF StoreFails, RevokeRow, Refuse, Refreshing
<1> QED
  BY <1>4, <1>5, <1>6, <1>7

\* The steps of resolveExternalActor.
LEMMA PrepareStepType ==
  ASSUME TypeOK, NEW a \in Actors,
         Prepare(a) \/ PrepareFails(a) \/ FindStale(a) \/ FindAmbiguous(a) \/ Serve(a)
  PROVE  TypeOK'
<1>1. UNCHANGED <<issued, valid, row, lock, logout, told, ended, trouble>>
  BY DEF Prepare, PrepareFails, FindStale, FindAmbiguous, Serve, providerVars, observers
<1>2. Token(a) \in Issued /\ applied \in Issued /\ 0 \in Issued
  BY DEF TypeOK, ActorRecords, Token, Issued
<1>3. applied' \in Issued /\ userLock' \in Actors \cup {Nobody}
  BY <1>2 DEF Prepare, PrepareFails, FindStale, FindAmbiguous, Serve, Decides, TypeOK
<1>4. RestTyped'
  BY <1>1, <1>3 DEF TypeOK, RestTyped, Issued
<1>5. CASE Prepare(a)
  <2> DEFINE f == [actor[a] EXCEPT !.at = "decide", !.seen = applied]
  <2>1. f \in ActorRecords /\ f.at = "decide"
    BY <1>2 DEF TypeOK, ActorRecords, Steps
  <2> QED
    BY <1>1, <1>4, <1>5, <2>1, StepTyped DEF Prepare, Refreshing
<1>6. CASE PrepareFails(a) \/ FindAmbiguous(a)
  BY <1>1, <1>4, <1>6, RefusedTyped, StepTyped DEF PrepareFails, FindAmbiguous, Refuse, Refreshing
<1>7. CASE FindStale(a)
  <2> DEFINE f == [actor[a] EXCEPT !.at = "wait", !.stale = Token(a), !.seen = 0]
  <2>1. f \in ActorRecords /\ f.via = Via(a) /\ Via(a) \in Sessions \cup {Bearer}
    BY <1>2 DEF TypeOK, ActorRecords, Steps, Via
  <2>2. CASE Retries(a) /\ Becomes(a, f)
    BY <1>1, <1>4, <2>1, <2>2, StepTyped DEF Retries
  <2>3. CASE Becomes(a, Refused(a))
    BY <1>1, <1>4, <2>3, RefusedTyped, StepTyped DEF Refreshing
  <2> QED
    BY <1>7, <2>2, <2>3 DEF FindStale
<1>8. CASE Serve(a)
  <2> DEFINE f == [Fresh(a) EXCEPT !.at = "served", !.token = Token(a)]
  <2>1. f \in ActorRecords /\ f.at = "served"
    BY <1>2, FreshTyped DEF ActorRecords, Steps
  <2> QED
    BY <1>1, <1>4, <1>8, <2>1, StepTyped DEF Serve, Refreshing
<1> QED
  BY <1>5, <1>6, <1>7, <1>8

LEMMA CrashType ==
  ASSUME TypeOK, Crash
  PROVE  TypeOK'
<1>1. /\ UNCHANGED <<issued, valid, row, applied, told, ended>>
      /\ lock' = [s \in Sessions |-> Nobody] /\ userLock' = Nobody
      /\ logout' = [s \in Sessions |-> 0]
      /\ trouble' = trouble \cup {Via(a) : a \in {b \in Actors : At(b) = "store"}}
      /\ actor' = [a \in Actors |->
                    IF a \in InFlight THEN [Fresh(a) EXCEPT !.at = "denied"] ELSE actor[a]]
  BY DEF Crash, providerVars
<1>2. \A a \in Actors :
        [Fresh(a) EXCEPT !.at = "denied"] \in ActorRecords /\ [Fresh(a) EXCEPT !.at = "denied"].at = "denied"
  BY FreshTyped DEF ActorRecords, Steps
<1>3. \A a \in Actors : At(a) = "store" => Via(a) \in Sessions
  BY DEF TypeOK, Refreshing
<1>4. actor' \in [Actors -> ActorRecords]
  BY <1>1, <1>2 DEF TypeOK
<1>5. \A a \in Actors : actor'[a].at \in Refreshing => actor'[a].via \in Sessions
  BY <1>1, <1>2 DEF TypeOK, Refreshing, At, Via
<1>6. Issued' = Issued /\ ActorRecords' = ActorRecords /\ 0 \in Issued
  BY <1>1 DEF Issued, ActorRecords, TypeOK
<1> QED
  BY <1>1, <1>3, <1>4, <1>5, <1>6 DEF TypeOK, At, Via

LEMMA StepType == TypeOK /\ [Next]_vars => TypeOK'
<1> SUFFICES ASSUME TypeOK, [Next]_vars PROVE TypeOK'
  OBVIOUS
<1>1. CASE UNCHANGED vars
  BY <1>1 DEF vars, providerVars, observers, TypeOK, Issued, ActorRecords, At, Via
<1>2. ASSUME NEW a \in Actors, ActorStep(a)
      PROVE  TypeOK'
  BY <1>2, IssueStepType, RefreshStepType, PrepareStepType DEF ActorStep
<1>3. ASSUME NEW s \in Sessions,
             \/ Complete(s) \/ CallbackStep(s)
             \/ FallDue(s) \/ Expire(s) \/ Cleanup(s)
             \/ Logout(s) \/ TellProvider(s)
      PROVE  TypeOK'
  BY <1>3, IssueStepType, RowStepType
<1> QED
  BY <1>1, <1>2, <1>3, IssueStepType, BeginType, CrashType DEF Next

-----------------------------------------------------------------------------
(* Answers: whoever decides holds the user's lock.                         *)

RowHasToken == \A s \in Sessions : row[s].status # "none" => row[s].token # 0

TokensKept == \A t \in 1 .. Len(issued) : issued'[t] = issued[t]

LEMMA SameTokensKept == ASSUME UNCHANGED issued PROVE TokensKept
  BY DEF TokensKept

\* What was answered stays right while the register stays.
LEMMA ServedKept ==
  ASSUME TypeOK, AnswersInv, TokensKept, applied' = applied, NEW b \in Actors,
         At(b) = "served", actor'[b] = actor[b]
  PROVE  /\ applied' # 0
         /\ \/ Iat(Token(b))' < Iat(applied)'
            \/ Iat(Token(b))' = Iat(applied)' /\ RoleOf(Token(b))' = RoleOf(applied)'
<1>1. Token(b) # 0 /\ Token(b) \in Issued /\ applied \in Issued /\ applied # 0
  BY DEF AnswersInv, HasToken, NewestTokenWins, TypeOK, ActorRecords, Token
<1>2. Len(issued) \in Nat
  BY DEF TypeOK
<1>3. Token(b) \in 1 .. Len(issued) /\ applied \in 1 .. Len(issued)
  BY <1>1, <1>2 DEF Issued
<1>4. Token(b)' = Token(b)
  BY DEF Token
<1>5. issued'[Token(b)] = issued[Token(b)] /\ issued'[applied] = issued[applied]
  BY <1>3 DEF TokensKept
<1> QED
  BY <1>1, <1>4, <1>5 DEF AnswersInv, NewestTokenWins, Iat, RoleOf

\* An actor goes on that does not decide, and is not served, by this step.
LEMMA AnswersKept ==
  ASSUME TypeOK, AnswersInv, NEW a \in Actors, NEW f, Becomes(a, f), TokensKept,
         UNCHANGED <<applied, userLock>>, f.at \notin {"decide", "served"},
         f.at \in {"store", "apply"} => f.token # 0, RowHasToken'
  PROVE  AnswersInv'
<1>1. actor'[a] = f /\ \A b \in Actors : b # a => actor'[b] = actor[b]
  BY DEF Becomes, TypeOK
<1>2. HasToken'
  BY <1>1 DEF AnswersInv, HasToken, RowHasToken, At, Token
<1>3. Watching'
  BY <1>1 DEF AnswersInv, Watching, At, Seen
<1>4. NewestTokenWins'
  BY <1>1, ServedKept DEF NewestTokenWins, At
<1> QED
  BY <1>2, <1>3, <1>4 DEF AnswersInv

\* Nobody moves.
LEMMA AnswersRest ==
  ASSUME TypeOK, AnswersInv, TokensKept, UNCHANGED <<actor, applied, userLock>>, RowHasToken'
  PROVE  AnswersInv'
<1>1. HasToken' /\ Watching'
  BY DEF AnswersInv, HasToken, Watching, RowHasToken, At, Token, Seen
<1>2. NewestTokenWins'
  BY ServedKept DEF NewestTokenWins, At
<1> QED
  BY <1>1, <1>2 DEF AnswersInv

LEMMA RowsHaveTokens == ASSUME AnswersInv PROVE RowHasToken
  BY DEF AnswersInv, HasToken, RowHasToken

\* The decision is taken and it is no.
LEMMA DecidedNo ==
  ASSUME TypeOK, AnswersInv, NEW a \in Actors, NEW f, Becomes(a, f), Decides(a),
         UNCHANGED <<issued, applied, row>>, f.at \notin {"store", "apply", "decide", "served"}
  PROVE  AnswersInv'
<1>1. actor'[a] = f /\ \A b \in Actors : b # a => actor'[b] = actor[b]
  BY DEF Becomes, TypeOK
<1>2. HasToken'
  BY <1>1 DEF AnswersInv, HasToken, At, Token
<1>3. Watching'
  BY <1>1 DEF AnswersInv, Watching, Decides, At, Seen
<1>4. NewestTokenWins'
  BY <1>1, ServedKept, SameTokensKept DEF NewestTokenWins, At
<1> QED
  BY <1>2, <1>3, <1>4 DEF AnswersInv

LEMMA RefusedAt ==
  ASSUME NEW a \in Actors
  PROVE  Refused(a).at \in {"undo", "denied"}
  BY DEF Refused, Fresh

LEMMA ReadAnswers ==
  ASSUME TypeOK, AnswersInv, NEW a \in Actors, NEW s \in Sessions, Read(a, s),
         UNCHANGED <<issued, row, applied, userLock>>
  PROVE  AnswersInv'
<1> DEFINE f == IF Live(s)
                THEN [actor[a] EXCEPT !.at = IF row[s].due THEN "wait" ELSE "apply",
                                      !.via = s, !.token = row[s].token]
                ELSE Refused(a)
<1>1. RowHasToken'
  BY RowsHaveTokens DEF RowHasToken
<1>2. f.at \in {"wait", "apply", "undo", "denied"} /\ (f.at = "apply" => f.token # 0)
  BY RefusedAt DEF TypeOK, ActorRecords, Live, AnswersInv, HasToken
<1>3. Becomes(a, f)
  BY DEF Read
<1> QED
  BY <1>1, <1>2, <1>3, SameTokensKept, AnswersKept

LEMMA ServeAnswers ==
  ASSUME TypeOK, AnswersInv, NEW a \in Actors, Serve(a)
  PROVE  AnswersInv'
<1> DEFINE f == [Fresh(a) EXCEPT !.at = "served", !.token = Token(a)]
<1>1. /\ actor'[a] = f /\ \A b \in Actors : b # a => actor'[b] = actor[b]
      /\ f.at = "served" /\ f.token = Token(a)
  BY DEF Serve, Becomes, TypeOK, Fresh
<1>2. UNCHANGED <<issued, row>> /\ userLock = a /\ Seen(a) = applied /\ Token(a) # 0
  BY DEF Serve, Decides, providerVars, AnswersInv, Watching, HasToken
<1>3. HasToken'
  BY <1>1, <1>2 DEF AnswersInv, HasToken, At, Token
<1>4. Watching'
  BY <1>1, <1>2 DEF AnswersInv, Watching, At
<1>5. /\ Len(issued) \in Nat /\ Token(a) \in 1 .. Len(issued)
      /\ applied # 0 => applied \in 1 .. Len(issued)
  BY <1>2 DEF TypeOK, ActorRecords, Issued, Token
<1>6. \A t \in 1 .. Len(issued) : Iat(t) \in Nat
  <2>1. issued \in Seq(TokenRecords)
    BY DEF TypeOK, TokenRecords
  <2>2. \A t \in 1 .. Len(issued) : issued[t] \in TokenRecords
    BY <2>1
  <2> QED
    BY <2>2 DEF TokenRecords, Iat
<1>7. CASE SameSecond(a)
  <2>1. applied' = applied /\ applied # 0
    BY <1>2, <1>7 DEF Serve, SameSecond
  <2>2. Iat(Token(a)) = Iat(applied) /\ RoleOf(Token(a)) = RoleOf(applied)
    BY <1>2, <1>7 DEF Serve, SameSecond, Ambiguous
  <2>3. ASSUME NEW b \in Actors, At(b)' = "served"
        PROVE  /\ applied' # 0
               /\ \/ Iat(Token(b))' < Iat(applied)'
                  \/ Iat(Token(b))' = Iat(applied)' /\ RoleOf(Token(b))' = RoleOf(applied)'
    <3>1. CASE b = a
      BY <1>1, <1>2, <2>1, <2>2, <3>1 DEF Iat, RoleOf, Token
    <3>2. CASE b # a
      BY <1>1, <1>2, <2>1, <2>3, <3>2, ServedKept, SameTokensKept DEF At
    <3> QED
      BY <3>1, <3>2
  <2> QED
    BY <1>3, <1>4, <2>3 DEF AnswersInv, NewestTokenWins
<1>8. CASE ~ SameSecond(a)
  <2>1. applied' = Token(a)
    BY <1>8 DEF Serve
  <2>2. applied # 0 => Iat(applied) < Iat(Token(a))
    BY <1>2, <1>5, <1>6, <1>8 DEF Serve, SameSecond, Stale
  <2>3. ASSUME NEW b \in Actors, At(b)' = "served"
        PROVE  /\ applied' # 0
               /\ \/ Iat(Token(b))' < Iat(applied)'
                  \/ Iat(Token(b))' = Iat(applied)' /\ RoleOf(Token(b))' = RoleOf(applied)'
    <3>1. CASE b = a
      BY <1>1, <1>2, <2>1, <3>1 DEF Iat, RoleOf, Token
    <3>2. CASE b # a
      <4>1. At(b) = "served" /\ Token(b)' = Token(b)
        BY <1>1, <2>3, <3>2 DEF At, Token
      <4>2. applied # 0 /\ Iat(Token(b)) <= Iat(applied)
        <5>1. Token(b) \in 1 .. Len(issued)
          BY <1>5, <4>1 DEF AnswersInv, HasToken, TypeOK, ActorRecords, Token, Issued
        <5> QED
          BY <1>5, <1>6, <4>1, <5>1 DEF AnswersInv, NewestTokenWins
      <4>3. Token(b) \in 1 .. Len(issued)
        BY <1>5, <4>1 DEF AnswersInv, HasToken, TypeOK, ActorRecords, Token, Issued
      <4>4. Iat(Token(b)) < Iat(Token(a))
        BY <1>5, <1>6, <2>2, <4>2, <4>3
      <4> QED
        BY <1>2, <2>1, <4>1, <4>4 DEF Iat
    <3> QED
      BY <3>1, <3>2
  <2> QED
    BY <1>3, <1>4, <2>3 DEF AnswersInv, NewestTokenWins
<1> QED
  BY <1>7, <1>8

LEMMA PrepareStepAnswers ==
  ASSUME TypeOK, AnswersInv, NEW a \in Actors,
         Prepare(a) \/ PrepareFails(a) \/ FindStale(a) \/ FindAmbiguous(a) \/ Serve(a)
  PROVE  AnswersInv'
<1>1. CASE Prepare(a)
  <2> DEFINE f == [actor[a] EXCEPT !.at = "decide", !.seen = applied]
  <2>1. /\ actor'[a] = f /\ \A b \in Actors : b # a => actor'[b] = actor[b]
        /\ f.at = "decide" /\ f.seen = applied /\ f.token = Token(a)
    BY <1>1 DEF Prepare, Becomes, TypeOK, ActorRecords, Token
  <2>2. /\ At(a) = "apply" /\ userLock = Nobody /\ userLock' = a
        /\ UNCHANGED <<issued, row, applied>>
    BY <1>1 DEF Prepare, UserFree, providerVars
  <2>3. \A b \in Actors : At(b) # "decide"
    BY <2>2, AccessAssumption DEF AnswersInv, Watching
  <2>4. HasToken'
    BY <2>1, <2>2 DEF AnswersInv, HasToken, At, Token
  <2>5. Watching'
    BY <2>1, <2>2, <2>3 DEF Watching, At, Seen
  <2>6. NewestTokenWins'
    BY <2>1, <2>2, ServedKept, SameTokensKept DEF NewestTokenWins, At
  <2> QED
    BY <2>4, <2>5, <2>6 DEF AnswersInv
<1>2. CASE PrepareFails(a)
  <2>1. RowHasToken'
    BY <1>2, RowsHaveTokens DEF PrepareFails, RowHasToken
  <2> QED
    BY <1>2, <2>1, RefusedAt, SameTokensKept, AnswersKept DEF PrepareFails, Refuse, providerVars
<1>3. CASE FindStale(a)
  <2> DEFINE f == [actor[a] EXCEPT !.at = "wait", !.stale = Token(a), !.seen = 0]
  <2>1. f.at = "wait"
    BY DEF TypeOK, ActorRecords
  <2>2. (Becomes(a, f) \/ Becomes(a, Refused(a))) /\ Decides(a) /\ UNCHANGED <<issued, applied, row>>
    BY <1>3 DEF FindStale, providerVars
  <2> QED
    BY <2>1, <2>2, RefusedAt, DecidedNo
<1>4. CASE FindAmbiguous(a)
  BY <1>4, RefusedAt, DecidedNo DEF FindAmbiguous, Refuse, providerVars
<1> QED
  BY <1>1, <1>2, <1>3, <1>4, ServeAnswers

\* The steps of resolveWithRefresh.
LEMMA RefreshStepAnswers ==
  ASSUME TypeOK, Locked, AnswersInv, NEW a \in Actors,
         \/ Lock(a) \/ RefreshRefused(a) \/ RefreshFails(a)
         \/ Refreshed(a) \/ Store(a) \/ StoreFails(a) \/ RevokeRow(a)
  PROVE  AnswersInv'
<1>1. Via(a) \in Sessions /\ UNCHANGED <<applied, userLock>>
  BY DEF Lock, Refreshed, RefreshRefused, RefreshFails, Store, StoreFails, RevokeRow, TypeOK, Refreshing,
     providerVars
<1>2. TokensKept
  BY <1>1, SameTokensKept, IssueTyped DEF Lock, Refreshed, RefreshRefused, RefreshFails, Store,
     StoreFails, RevokeRow, providerVars, TokensKept
<1>3. CASE Lock(a)
  <2> DEFINE locked == [actor[a] EXCEPT !.token = row[Via(a)].token]
  <2>1. RowHasToken'
    BY <1>3, RowsHaveTokens DEF Lock, RowHasToken
  <2>2. /\ [locked EXCEPT !.at = "refresh"].at = "refresh"
        /\ [locked EXCEPT !.at = "apply"].at = "apply"
        /\ [locked EXCEPT !.at = "apply"].token = row[Via(a)].token
    BY DEF TypeOK, ActorRecords
  <2>3. CASE Becomes(a, [locked EXCEPT !.at = "refresh"])
    BY <1>1, <1>2, <2>1, <2>2, <2>3, AnswersKept
  <2>4. CASE Live(Via(a)) /\ Becomes(a, [locked EXCEPT !.at = "apply"])
    <3>1. row[Via(a)].token # 0
      BY <1>1, <2>4 DEF Live, AnswersInv, HasToken
    <3> QED
      BY <1>1, <1>2, <2>1, <2>2, <2>4, <3>1, AnswersKept
  <2>5. CASE Becomes(a, Refused(a))
    BY <1>1, <1>2, <2>1, <2>5, RefusedAt, AnswersKept
  <2> QED
    BY <1>3, <2>3, <2>4, <2>5 DEF Lock
<1>4. CASE RefreshRefused(a) \/ RefreshFails(a)
  <2> DEFINE f == [actor[a] EXCEPT !.at = "revoke"]
  <2>1. f.at = "revoke" /\ Becomes(a, f)
    BY <1>4 DEF RefreshRefused, RefreshFails, Goto, TypeOK, ActorRecords
  <2>2. RowHasToken'
    BY <1>4, RowsHaveTokens DEF RefreshRefused, RefreshFails, RowHasToken
  <2> QED
    BY <1>1, <1>2, <2>1, <2>2, AnswersKept
<1>5. CASE Refreshed(a)
  <2> DEFINE f == [actor[a] EXCEPT !.at = "store", !.token = Len(issued')]
  <2>1. f.at = "store" /\ f.token = Len(issued') /\ Becomes(a, f)
    BY <1>5 DEF Refreshed, TypeOK, ActorRecords
  <2>2. Len(issued') # 0
    <3>1. Issue(Via(a))
      BY <1>5 DEF Refreshed
    <3>2. Len(issued') = Len(issued) + 1 /\ Len(issued) \in Nat
      BY <1>1, <3>1, IssueTyped
    <3> QED
      BY <3>2
  <2>3. RowHasToken'
    BY <1>5, RowsHaveTokens DEF Refreshed, RowHasToken
  <2> QED
    BY <1>1, <1>2, <2>1, <2>2, <2>3, AnswersKept
<1>6. CASE Store(a)
  <2> DEFINE f == [actor[a] EXCEPT !.at = "apply"]
  <2>1. f.at = "apply" /\ f.token = Token(a) /\ Becomes(a, f) /\ Token(a) # 0
    BY <1>6 DEF Store, Goto, TypeOK, ActorRecords, Token, AnswersInv, HasToken
  <2>2. RowHasToken'
    BY <1>1, <1>6, <2>1, RowsHaveTokens DEF Store, RowHasToken, TypeOK
  <2> QED
    BY <1>1, <1>2, <2>1, <2>2, AnswersKept
<1>7. CASE StoreFails(a) \/ RevokeRow(a)
  <2>1. CASE StoreFails(a)
    <3>1. RowHasToken'
      BY <2>1, RowsHaveTokens DEF StoreFails, RowHasToken
    <3> QED
      BY <1>1, <1>2, <2>1, <3>1, RefusedAt, AnswersKept DEF StoreFails, Refuse
  <2>2. CASE RevokeRow(a)
    <3>1. Unrevoked(Via(a))
      BY <2>2 DEF RevokeRow, Locked, Holding
    <3>2. row' = row \/ row' = [row EXCEPT ![Via(a)].status = "revoked"]
      BY <2>2 DEF RevokeRow
    <3>3. RowHasToken'
      BY <1>1, <3>1, <3>2, RowsHaveTokens DEF RowHasToken, Unrevoked, TypeOK
    <3> QED
      BY <1>1, <1>2, <2>2, <3>3, RefusedAt, AnswersKept DEF RevokeRow, Refuse
  <2> QED
    BY <1>7, <2>1, <2>2
<1> QED
  BY <1>3, <1>4, <1>5, <1>6, <1>7

LEMMA RevokeRowTokens ==
  ASSUME TypeOK, AnswersInv, NEW s \in Sessions, Revoke(s)
  PROVE  RowHasToken'
<1>1. row' = row \/ (Unrevoked(s) /\ row' = [row EXCEPT ![s].status = "revoked"])
  BY DEF Revoke
<1> QED
  BY <1>1, RowsHaveTokens DEF RowHasToken, Unrevoked, TypeOK

\* The steps of the callback, of the session row and of the provider.
LEMMA SessionStepAnswers ==
  ASSUME TypeOK, AnswersInv, NEW s \in Sessions,
         \/ Complete(s) \/ CallbackStep(s)
         \/ FallDue(s) \/ Expire(s) \/ Cleanup(s)
         \/ Logout(s) \/ TellProvider(s)
  PROVE  AnswersInv'
<1>1. s \in Actors
  BY DEF Actors
<1>2. CASE Complete(s)
  <2> DEFINE f == [actor[s] EXCEPT !.at = "read"]
  <2>1. f.at = "read" /\ Becomes(s, f) /\ Issue(s) /\ UNCHANGED <<applied, userLock>>
    BY <1>1, <1>2 DEF Complete, Goto, TypeOK, ActorRecords
  <2>2. TokensKept /\ Len(issued') # 0
    <3>1. Len(issued') = Len(issued) + 1 /\ Len(issued) \in Nat
      BY <2>1, IssueTyped
    <3> QED
      BY <2>1, <3>1, IssueTyped DEF TokensKept
  <2>3. RowHasToken'
    BY <1>2, <2>2, RowsHaveTokens DEF Complete, RowHasToken, TypeOK
  <2> QED
    BY <1>1, <2>1, <2>2, <2>3, AnswersKept
<1>3. CASE CallbackReads(s)
  BY <1>1, <1>3, ReadAnswers DEF CallbackReads, providerVars
<1>4. CASE Undo(s)
  <2> DEFINE f == [actor[s] EXCEPT !.at = "denied"]
  <2>1. f.at = "denied" /\ Becomes(s, f)
    BY <1>1, <1>4 DEF Undo, Goto, TypeOK, ActorRecords
  <2>2. RowHasToken' /\ UNCHANGED <<issued, applied, userLock>>
    BY <1>4, RevokeRowTokens DEF Undo, Revoke, providerVars
  <2> QED
    BY <1>1, <2>1, <2>2, SameTokensKept, AnswersKept
<1>5. CASE FallDue(s) \/ Expire(s) \/ Cleanup(s)
  <2>1. \/ Unrevoked(s) /\ row' = [row EXCEPT ![s].due = TRUE]
        \/ Live(s) /\ row' = [row EXCEPT ![s].status = "expired"]
        \/ row' = [row EXCEPT ![s] = NoRow]
    BY <1>5 DEF FallDue, Expire, Cleanup
  <2>2. \A q \in Sessions : q # s => row'[q] = row[q]
    BY <2>1 DEF TypeOK
  <2>3. row'[s].status = "none" \/ (row[s].status # "none" /\ row'[s].token = row[s].token)
    <3>1. CASE Unrevoked(s) /\ row' = [row EXCEPT ![s].due = TRUE]
      BY <3>1 DEF Unrevoked, TypeOK
    <3>2. CASE Live(s) /\ row' = [row EXCEPT ![s].status = "expired"]
      BY <3>2 DEF Live, TypeOK
    <3>3. CASE row' = [row EXCEPT ![s] = NoRow]
      BY <3>3 DEF NoRow, TypeOK
    <3> QED
      BY <2>1, <3>1, <3>2, <3>3
  <2>4. RowHasToken'
    BY <2>2, <2>3, RowsHaveTokens DEF RowHasToken
  <2> QED
    BY <1>5, <2>4, SameTokensKept, AnswersRest DEF FallDue, Expire, Cleanup, providerVars
<1>6. CASE Logout(s)
  BY <1>6, RevokeRowTokens, SameTokensKept, AnswersRest DEF Logout, Revoke, providerVars
<1>7. CASE TellProvider(s)
  <2>1. RowHasToken'
    BY <1>7, RowsHaveTokens DEF TellProvider, RowHasToken
  <2> QED
    BY <1>7, <2>1, SameTokensKept, AnswersRest DEF TellProvider
<1> QED
  BY <1>2, <1>3, <1>4, <1>5, <1>6, <1>7 DEF CallbackStep

LEMMA BeginAnswers ==
  ASSUME TypeOK, AnswersInv, NEW r \in Requests,
         (\E s \in Sessions : Begin(r, s)) \/ (\E t \in Tokens : BeginBearer(r, t))
  PROVE  AnswersInv'
<1>1. r \in Actors
  BY DEF Actors
<1>2. ASSUME NEW s \in Sessions, Begin(r, s)
      PROVE  AnswersInv'
  BY <1>1, <1>2, ReadAnswers DEF Begin, providerVars
<1>3. ASSUME NEW t \in Tokens, BeginBearer(r, t)
      PROVE  AnswersInv'
  <2> DEFINE f == [actor[r] EXCEPT !.at = "apply", !.token = t]
  <2>0. t # 0
    BY AccessAssumption DEF Tokens
  <2>1. f.at = "apply" /\ f.token = t /\ t # 0 /\ Becomes(r, f)
    <3>1. actor[r] \in ActorRecords
      BY <1>1 DEF TypeOK
    <3>2. f.at = "apply" /\ f.token = t
      BY <3>1 DEF ActorRecords
    <3> QED
      BY <1>3, <2>0, <3>2 DEF BeginBearer
  <2>2. RowHasToken'
    BY <1>3, RowsHaveTokens DEF BeginBearer, RowHasToken
  <2> QED
    BY <1>1, <1>3, <2>1, <2>2, SameTokensKept, AnswersKept DEF BeginBearer, providerVars
<1> QED
  BY <1>2, <1>3

LEMMA CrashAnswers ==
  ASSUME TypeOK, AnswersInv, Crash
  PROVE  AnswersInv'
<1>1. UNCHANGED <<issued, row, applied>>
  BY DEF Crash, providerVars
<1>2. \A a \in Actors : \/ actor'[a].at = "denied"
                        \/ At(a) \in {"new", "served", "denied"} /\ actor'[a] = actor[a]
  BY DEF Crash, InFlight, Fresh
<1>3. HasToken' /\ Watching'
  BY <1>1, <1>2 DEF AnswersInv, HasToken, Watching, At, Token
<1>4. NewestTokenWins'
  BY <1>1, <1>2, ServedKept, SameTokensKept DEF NewestTokenWins, At
<1> QED
  BY <1>3, <1>4 DEF AnswersInv

LEMMA StepAnswers == TypeOK /\ Locked /\ AnswersInv /\ [Next]_vars => AnswersInv'
<1> SUFFICES ASSUME TypeOK, Locked, AnswersInv, [Next]_vars PROVE AnswersInv'
  OBVIOUS
<1>1. CASE UNCHANGED vars \/ IssueBearer
  <2>1. UNCHANGED <<actor, row, applied, userLock>>
    BY <1>1 DEF vars, IssueBearer
  <2>2. TokensKept
    BY <1>1, SameTokensKept, IssueTyped DEF vars, providerVars, IssueBearer, TokensKept
  <2>3. RowHasToken'
    BY <2>1, RowsHaveTokens DEF RowHasToken
  <2> QED
    BY <2>1, <2>2, <2>3, AnswersRest
<1>2. ASSUME NEW a \in Actors, ActorStep(a)
      PROVE  AnswersInv'
  BY <1>2, RefreshStepAnswers, PrepareStepAnswers DEF ActorStep
<1> QED
  BY <1>1, <1>2, SessionStepAnswers, BeginAnswers, CrashAnswers DEF Next

-----------------------------------------------------------------------------
(* Sessions: where the valid refresh token is.                             *)

\* A row lock has one holder.
LEMMA OneHolder ==
  ASSUME SessionsInv, NEW a \in Actors, NEW b \in Actors, At(a) \in Holding, At(b) \in Holding,
         Via(a) = Via(b)
  PROVE  a = b
  BY DEF SessionsInv, Locked

LEMMA NoHolder ==
  ASSUME SessionsInv, NEW s \in Sessions, lock[s] = Nobody, NEW a \in Actors, At(a) \in Holding
  PROVE  Via(a) # s
  BY AccessAssumption DEF SessionsInv, Locked

\* An actor that holds no row goes on without one.
LEMMA SessionsKept ==
  ASSUME TypeOK, SessionsInv, NEW a \in Actors, NEW f, Becomes(a, f),
         At(a) \notin Holding, f.at \notin Holding, f.at # "new",
         UNCHANGED <<valid, row, lock, logout, observers>>
  PROVE  SessionsInv'
<1>1. actor'[a] = f /\ \A b \in Actors : b # a => actor'[b] = actor[b]
  BY DEF Becomes, TypeOK
<1>2. Locked'
  BY <1>1 DEF SessionsInv, Locked, At, Via, Token, Unrevoked
<1>3. Unborn'
  BY <1>1 DEF SessionsInv, Unborn, Actors, At
<1>4. InTrouble'
  BY <1>1 DEF SessionsInv, InTrouble, Holding, At, Via, observers
<1>5. Kept'
  BY <1>1 DEF SessionsInv, Kept, Holding, At, Via, observers
<1>6. LoggedOut'
  BY <1>1 DEF SessionsInv, LoggedOut, Actors, At, Unrevoked, observers, TypeOK
<1>7. RevokedForCause' /\ LogoutEndsLogin'
  BY DEF SessionsInv, RevokedForCause, LogoutEndsLogin, observers
<1> QED
  BY <1>2, <1>3, <1>4, <1>5, <1>6, <1>7 DEF SessionsInv

\* Nobody moves; a row may expire or fall due.
LEMMA SessionsRest ==
  ASSUME TypeOK, SessionsInv, UNCHANGED <<actor, valid, lock, logout, observers>>,
         \A s \in Sessions :
            /\ row'[s].token = row[s].token
            /\ \/ row'[s].status = row[s].status
               \/ row[s].status = "live" /\ row'[s].status = "expired"
  PROVE  SessionsInv'
<1>1. Locked'
  BY DEF SessionsInv, Locked, At, Via, Token, Unrevoked
<1>2. Unborn' /\ InTrouble' /\ Kept'
  BY DEF SessionsInv, Unborn, InTrouble, Kept, At, Via, observers
<1>3. LoggedOut'
  BY DEF SessionsInv, LoggedOut, At, Unrevoked, observers, TypeOK
<1>4. RevokedForCause' /\ LogoutEndsLogin'
  BY DEF SessionsInv, RevokedForCause, LogoutEndsLogin, observers
<1> QED
  BY <1>1, <1>2, <1>3, <1>4 DEF SessionsInv

\* The row is read for the update and found due.
LEMMA LockSessions ==
  ASSUME TypeOK, SessionsInv, NEW a \in Actors, Lock(a)
  PROVE  SessionsInv'
<1> DEFINE s == Via(a)
           locked == [actor[a] EXCEPT !.token = row[s].token]
<1>1. s \in Sessions /\ At(a) = "wait" /\ lock[s] = Nobody
  BY DEF Lock, RowFree, TypeOK, Refreshing
<1>2. UNCHANGED <<valid, row, logout, observers>>
  BY DEF Lock, providerVars
<1>3. CASE UNCHANGED lock
  <2>1. \/ Becomes(a, [locked EXCEPT !.at = "apply"])
        \/ Becomes(a, Refused(a))
        \/ lock' = [lock EXCEPT ![s] = a]
    BY DEF Lock
  <2>2. lock' # [lock EXCEPT ![s] = a]
    BY <1>1, <1>3, AccessAssumption DEF TypeOK
  <2>3. [locked EXCEPT !.at = "apply"].at = "apply"
    BY DEF TypeOK, ActorRecords
  <2>4. CASE Becomes(a, [locked EXCEPT !.at = "apply"])
    BY <1>1, <1>2, <1>3, <2>3, <2>4, SessionsKept DEF Holding
  <2>5. CASE Becomes(a, Refused(a))
    BY <1>1, <1>2, <1>3, <2>5, RefusedAt, SessionsKept DEF Holding
  <2> QED
    BY <2>1, <2>2, <2>4, <2>5
<1>4. CASE Live(s) /\ Becomes(a, [locked EXCEPT !.at = "refresh"]) /\ lock' = [lock EXCEPT ![s] = a]
  <2>1. /\ actor'[a].at = "refresh" /\ actor'[a].via = s /\ actor'[a].token = row[s].token
        /\ \A b \in Actors : b # a => actor'[b] = actor[b]
    BY <1>4 DEF Becomes, TypeOK, ActorRecords, Via
  <2>2. lock'[s] = a /\ \A q \in Sessions : q # s => lock'[q] = lock[q]
    BY <1>1, <1>4 DEF TypeOK
  <2>3. row[s].status = "live"
    BY <1>4 DEF Live
  <2> HIDE DEF s
  <2>4. Locked'
    <3>1. ASSUME NEW b \in Actors, At(b)' \in Holding, b # a
          PROVE  At(b) \in Holding /\ Via(b) # s /\ Via(b)' = Via(b) /\ Token(b)' = Token(b)
                 /\ At(b)' = At(b)
      BY <1>1, <2>1, <3>1, NoHolder DEF At, Via, Token
    <3> QED
      BY <1>1, <1>2, <2>1, <2>2, <2>3, <3>1 DEF SessionsInv, Locked, At, Via, Token, Unrevoked
  <2>5. Unborn'
    BY <1>1, <1>2, <2>1, <2>2, <2>3 DEF SessionsInv, Unborn, Actors, At
  <2>6. InTrouble' /\ Kept'
    BY <1>1, <1>2, <2>1 DEF SessionsInv, InTrouble, Kept, At, Via, observers
  <2>7. LoggedOut'
    BY <1>1, <1>2, <2>1 DEF SessionsInv, LoggedOut, Actors, At, Unrevoked, observers, TypeOK
  <2>8. RevokedForCause' /\ LogoutEndsLogin'
    BY <1>2 DEF SessionsInv, RevokedForCause, LogoutEndsLogin, observers
  <2> QED
    BY <2>4, <2>5, <2>6, <2>7, <2>8 DEF SessionsInv
<1> QED
  BY <1>3, <1>4 DEF Lock

\* What a step of the holder of a row leaves alone.
LEMMA HolderMoves ==
  ASSUME TypeOK, SessionsInv, NEW a \in Actors, NEW f, Becomes(a, f), At(a) \in Holding
  PROVE  /\ Via(a) \in Sessions /\ Unrevoked(Via(a)) /\ Via(a) \notin ended
         /\ lock[Via(a)] = a
         /\ actor'[a] = f
         /\ \A b \in Actors : b # a => actor'[b] = actor[b]
         /\ \A b \in Actors : b # a /\ At(b) \in Holding => Via(b) # Via(a)
<1>1. Via(a) \in Sessions /\ Unrevoked(Via(a)) /\ lock[Via(a)] = a
  BY DEF SessionsInv, Locked
<1>2. Via(a) \notin ended
  BY <1>1 DEF SessionsInv, LoggedOut
<1> QED
  BY <1>1, <1>2, OneHolder DEF Becomes, TypeOK

\* The provider rotates the token: the new one is with the holder.
LEMMA RefreshedSessions ==
  ASSUME TypeOK, SessionsInv, NEW a \in Actors, Refreshed(a)
  PROVE  SessionsInv'
<1> DEFINE s == Via(a)
           n == Len(issued')
           f == [actor[a] EXCEPT !.at = "store", !.token = n]
<1>1. At(a) = "refresh" /\ Becomes(a, f) /\ UNCHANGED <<row, lock, logout, observers>>
  BY DEF Refreshed
<1>2. /\ s \in Sessions /\ Unrevoked(s) /\ s \notin ended /\ lock[s] = a
      /\ actor'[a] = f
      /\ \A b \in Actors : b # a => actor'[b] = actor[b]
      /\ \A b \in Actors : b # a /\ At(b) \in Holding => Via(b) # s
  BY <1>1, HolderMoves DEF Holding
<1>3. f.at = "store" /\ f.via = s /\ f.token = n
  BY DEF TypeOK, ActorRecords, Via
<1>4. valid'[s] = n /\ \A q \in Sessions : q # s => valid'[q] = valid[q]
  BY <1>2 DEF Refreshed, TypeOK
<1> HIDE DEF s, n, f
<1>5. Locked'
  <2>1. ASSUME NEW b \in Actors, b # a, At(b)' \in Holding
        PROVE  /\ At(b) \in Holding /\ Via(b) # s
               /\ Via(b)' = Via(b) /\ Token(b)' = Token(b) /\ At(b)' = At(b)
    BY <1>2, <2>1 DEF At, Via, Token
  <2> QED
    BY <1>1, <1>2, <1>3, <1>4, <2>1 DEF SessionsInv, Locked, At, Via, Token, Unrevoked
<1>6. Unborn'
  BY <1>1, <1>2, <1>3 DEF SessionsInv, Unborn, Actors, At
<1>7. InTrouble'
  BY <1>1, <1>2, <1>3 DEF SessionsInv, InTrouble, At, Via, observers
<1>8. Kept'
  <2>1. ASSUME NEW q \in Sessions, NEW b \in Actors, At(b) = "store", Via(b) = q
        PROVE  At(b)' = "store" /\ Via(b)' = q
    BY <1>1, <1>2, <2>1 DEF At, Via
  <2>2. At(a)' = "store" /\ Via(a)' = s
    BY <1>2, <1>3 DEF At, Via
  <2> QED
    BY <1>1, <1>4, <2>1, <2>2 DEF SessionsInv, Kept, observers
<1>9. LoggedOut'
  BY <1>1, <1>2, <1>3, <1>4 DEF SessionsInv, LoggedOut, Actors, At, Unrevoked, observers, TypeOK
<1>10. RevokedForCause' /\ LogoutEndsLogin'
  BY <1>1, <1>2, <1>4 DEF SessionsInv, RevokedForCause, LoggedOut, LogoutEndsLogin, observers, TypeOK
<1> QED
  BY <1>5, <1>6, <1>7, <1>8, <1>9, <1>10 DEF SessionsInv

\* The provider refuses only a token that trouble or a logout made invalid:
\* the lock keeps other requests from spending it.
LEMMA RefusedForCause ==
  ASSUME TypeOK, SessionsInv, NEW a \in Actors, RefreshRefused(a)
  PROVE  Via(a) \in ended \cup trouble
<1> DEFINE s == Via(a)
<1>1. At(a) = "refresh" /\ Token(a) # valid[s]
  BY DEF RefreshRefused
<1>2. s \in Sessions /\ Unrevoked(s) /\ Token(a) = row[s].token
  BY <1>1 DEF SessionsInv, Locked, Holding
<1>3. \A b \in Actors : At(b) = "store" => Via(b) # s
  BY <1>1, OneHolder DEF Holding
<1>4. row[s].status # "none"
  BY <1>2 DEF Unrevoked
<1> QED
  BY <1>1, <1>2, <1>3, <1>4 DEF SessionsInv, Kept

LEMMA RefreshFailedSessions ==
  ASSUME TypeOK, SessionsInv, NEW a \in Actors, RefreshRefused(a) \/ RefreshFails(a)
  PROVE  SessionsInv'
<1> DEFINE s == Via(a)
           f == [actor[a] EXCEPT !.at = "revoke"]
<1>1. At(a) = "refresh" /\ Becomes(a, f) /\ UNCHANGED <<row, lock, logout, told, ended>>
  BY DEF RefreshRefused, RefreshFails, Goto, observers
<1>2. /\ s \in Sessions /\ Unrevoked(s) /\ s \notin ended /\ lock[s] = a
      /\ actor'[a] = f
      /\ \A b \in Actors : b # a => actor'[b] = actor[b]
      /\ \A b \in Actors : b # a /\ At(b) \in Holding => Via(b) # s
  BY <1>1, HolderMoves DEF Holding
<1>3. f.at = "revoke" /\ f.via = s
  BY DEF TypeOK, ActorRecords, Via
<1>4. /\ \A q \in Sessions : q # s => valid'[q] = valid[q]
      /\ trouble \subseteq trouble'
      /\ s \in trouble'
  BY <1>2, RefusedForCause DEF RefreshRefused, RefreshFails, providerVars, observers, TypeOK
<1> HIDE DEF s, f
<1>5. Locked'
  <2>1. ASSUME NEW b \in Actors, b # a, At(b)' \in Holding
        PROVE  /\ At(b) \in Holding /\ Via(b) # s
               /\ Via(b)' = Via(b) /\ Token(b)' = Token(b) /\ At(b)' = At(b)
    BY <1>2, <2>1 DEF At, Via, Token
  <2> QED
    BY <1>1, <1>2, <1>3, <1>4, <2>1 DEF SessionsInv, Locked, At, Via, Token, Unrevoked
<1>6. Unborn'
  BY <1>1, <1>2, <1>3 DEF SessionsInv, Unborn, Actors, At
<1>7. InTrouble'
  BY <1>1, <1>2, <1>3, <1>4 DEF SessionsInv, InTrouble, At, Via
<1>8. Kept'
  <2>1. ASSUME NEW q \in Sessions, NEW b \in Actors, At(b) = "store", Via(b) = q
        PROVE  At(b)' = "store" /\ Via(b)' = q
    BY <1>1, <1>2, <2>1 DEF At, Via
  <2> QED
    BY <1>1, <1>4, <2>1 DEF SessionsInv, Kept
<1>9. LoggedOut'
  BY <1>1, <1>2, <1>3, <1>4 DEF SessionsInv, LoggedOut, Actors, At, Unrevoked, TypeOK
<1>10. RevokedForCause' /\ LogoutEndsLogin'
  BY <1>1, <1>4 DEF SessionsInv, RevokedForCause, LogoutEndsLogin, TypeOK
<1> QED
  BY <1>5, <1>6, <1>7, <1>8, <1>9, <1>10 DEF SessionsInv

\* The holder stores the token, gives up or revokes the row, and unlocks it.
LEMMA UnlockSessions ==
  ASSUME TypeOK, SessionsInv, NEW a \in Actors, NEW f, At(a) \in {"store", "revoke"},
         Becomes(a, f), Unlock(a), f.at \notin Holding, f.at # "new",
         UNCHANGED <<valid, logout, told, ended>>, trouble \subseteq trouble',
         \A q \in Sessions : q # Via(a) => row'[q] = row[q],
         \/ Via(a) \in trouble' /\ row' = row
         \/ Via(a) \in ended \cup trouble /\ row'[Via(a)].status = "revoked"
         \/ At(a) = "revoke" /\ row' = row
         \/ /\ At(a) = "store" /\ row'[Via(a)].token = Token(a)
            /\ row'[Via(a)].status = row[Via(a)].status
  PROVE  SessionsInv'
<1> DEFINE s == Via(a)
<1>1. /\ s \in Sessions /\ Unrevoked(s) /\ s \notin ended /\ lock[s] = a
      /\ actor'[a] = f
      /\ \A b \in Actors : b # a => actor'[b] = actor[b]
      /\ \A b \in Actors : b # a /\ At(b) \in Holding => Via(b) # s
  BY HolderMoves DEF Holding
<1>2. lock'[s] = Nobody /\ \A q \in Sessions : q # s => lock'[q] = lock[q]
  BY <1>1 DEF Unlock, TypeOK
<1>3. /\ s \in trouble' \/ row'[s].token = valid[s]
      /\ row'[s].status = row[s].status \/ (s \in trouble' /\ row'[s].status = "revoked")
  BY <1>1 DEF SessionsInv, Locked, InTrouble, Holding
<1>4. ASSUME NEW b \in Actors, At(b)' \in Holding
      PROVE  /\ b # a /\ At(b) \in Holding /\ Via(b) # s
             /\ Via(b)' = Via(b) /\ Token(b)' = Token(b) /\ At(b)' = At(b)
  BY <1>1, <1>4 DEF At, Via, Token
<1>5. Locked'
  BY <1>1, <1>2, <1>4 DEF SessionsInv, Locked, At, Via, Token, Unrevoked
<1>6. Unborn'
  BY <1>1, <1>2 DEF SessionsInv, Unborn, Unrevoked, Actors, At
<1>7. InTrouble'
  BY <1>4 DEF SessionsInv, InTrouble, Holding
<1>8. Kept'
  <2>1. ASSUME NEW q \in Sessions, q # s, NEW b \in Actors, At(b) = "store", Via(b) = q
        PROVE  At(b)' = "store" /\ Via(b)' = q
    BY <1>1, <2>1 DEF At, Via
  <2> QED
    BY <1>3, <2>1 DEF SessionsInv, Kept
<1>9. LoggedOut'
  BY <1>1 DEF SessionsInv, LoggedOut, Actors, At, Unrevoked, TypeOK
<1>10. RevokedForCause'
  BY <1>1, <1>3 DEF SessionsInv, RevokedForCause, Unrevoked
<1>11. LogoutEndsLogin'
  BY DEF SessionsInv, LogoutEndsLogin
<1> QED
  BY <1>5, <1>6, <1>7, <1>8, <1>9, <1>10, <1>11 DEF SessionsInv

LEMMA UnlockStepSessions ==
  ASSUME TypeOK, SessionsInv, NEW a \in Actors, Store(a) \/ StoreFails(a) \/ RevokeRow(a)
  PROVE  SessionsInv'
<1>1. Via(a) \in Sessions /\ Unrevoked(Via(a))
  BY DEF Store, StoreFails, RevokeRow, SessionsInv, Locked, Holding
<1>2. CASE Store(a)
  <2> DEFINE f == [actor[a] EXCEPT !.at = "apply"]
  <2>1. /\ f.at = "apply" /\ Becomes(a, f) /\ At(a) = "store" /\ Unlock(a)
        /\ row' = [row EXCEPT ![Via(a)].token = Token(a), ![Via(a)].due = FALSE]
        /\ UNCHANGED <<valid, logout, told, ended, trouble>>
    BY <1>1, <1>2 DEF Store, Goto, TypeOK, ActorRecords, providerVars, observers
  <2>2. /\ row'[Via(a)].token = Token(a) /\ row'[Via(a)].status = row[Via(a)].status
        /\ \A q \in Sessions : q # Via(a) => row'[q] = row[q]
    BY <1>1, <2>1 DEF TypeOK
  <2> HIDE DEF f
  <2>3. /\ f.at \notin Holding /\ f.at # "new" /\ trouble \subseteq trouble'
        /\ UNCHANGED <<valid, logout, told, ended>> /\ At(a) \in {"store", "revoke"}
    BY <2>1 DEF Holding
  <2>4. Becomes(a, f) /\ Unlock(a) /\ At(a) = "store"
    BY <2>1
  <2> QED
    BY <2>2, <2>3, <2>4, UnlockSessions
<1>3. CASE StoreFails(a)
  BY <1>3, RefusedAt, UnlockSessions DEF StoreFails, Refuse, Holding, providerVars
<1>4. CASE RevokeRow(a)
  <2>1. /\ Becomes(a, Refused(a)) /\ At(a) = "revoke" /\ Unlock(a)
        /\ UNCHANGED <<valid, logout, told, ended, trouble>>
        /\ row' = row \/ row' = [row EXCEPT ![Via(a)].status = "revoked"]
    BY <1>4 DEF RevokeRow, Refuse, providerVars, observers
  <2>2. Via(a) \in ended \cup trouble
    BY <2>1 DEF SessionsInv, InTrouble
  <2>3. /\ row' = row \/ row'[Via(a)].status = "revoked"
        /\ \A q \in Sessions : q # Via(a) => row'[q] = row[q]
    BY <1>1, <2>1 DEF TypeOK
  <2> QED
    BY <2>1, <2>2, <2>3, RefusedAt, UnlockSessions DEF Holding
<1> QED
  BY <1>2, <1>3, <1>4

\* A session is born: nobody knew its row.
LEMMA CompleteSessions ==
  ASSUME TypeOK, SessionsInv, NEW s \in Sessions, Complete(s)
  PROVE  SessionsInv'
<1> DEFINE n == Len(issued')
           f == [actor[s] EXCEPT !.at = "read"]
<1>1. /\ s \in Actors /\ At(s) = "new" /\ lock[s] = Nobody /\ s \notin ended
      /\ UNCHANGED <<lock, logout, observers>>
  BY DEF Actors, Complete, SessionsInv, Unborn, LoggedOut
<1>2. f.at = "read" /\ Becomes(s, f)
  BY <1>1 DEF Complete, Goto, TypeOK, ActorRecords
<1>3. actor'[s] = f /\ \A b \in Actors : b # s => actor'[b] = actor[b]
  BY <1>1, <1>2 DEF Becomes, TypeOK
<1>4. /\ valid'[s] = n /\ row'[s].token = n /\ row'[s].status = "live"
      /\ \A q \in Sessions : q # s => valid'[q] = valid[q] /\ row'[q] = row[q]
  BY DEF Complete, TypeOK
<1> HIDE DEF n, f
<1>5. ASSUME NEW b \in Actors, At(b)' \in Holding
      PROVE  /\ b # s /\ At(b) \in Holding /\ Via(b) # s
             /\ Via(b)' = Via(b) /\ Token(b)' = Token(b) /\ At(b)' = At(b)
  <2>1. b # s
    BY <1>2, <1>3, <1>5 DEF At, Holding
  <2>2. actor'[b] = actor[b]
    BY <1>3, <2>1
  <2> QED
    BY <1>1, <1>5, <2>1, <2>2, NoHolder DEF At, Via, Token
<1>6. Locked'
  BY <1>1, <1>4, <1>5 DEF SessionsInv, Locked, At, Via, Token, Unrevoked
<1>7. Unborn'
  BY <1>1, <1>2, <1>3, <1>4 DEF SessionsInv, Unborn, Actors, At
<1>8. InTrouble'
  BY <1>1, <1>5 DEF SessionsInv, InTrouble, Holding, observers
<1>9. Kept'
  <2>1. ASSUME NEW b \in Actors, At(b) = "store"
        PROVE  At(b)' = "store" /\ Via(b)' = Via(b)
    BY <1>1, <1>3, <2>1 DEF At, Via
  <2> QED
    BY <1>1, <1>4, <2>1 DEF SessionsInv, Kept, observers
<1>10. LoggedOut'
  BY <1>1, <1>3, <1>4 DEF SessionsInv, LoggedOut, Actors, At, Unrevoked, observers, TypeOK
<1>11. RevokedForCause' /\ LogoutEndsLogin'
  BY <1>1, <1>4 DEF SessionsInv, RevokedForCause, LoggedOut, LogoutEndsLogin, observers, TypeOK
<1> QED
  BY <1>6, <1>7, <1>8, <1>9, <1>10, <1>11 DEF SessionsInv

LEMMA CleanupSessions ==
  ASSUME TypeOK, SessionsInv, NEW s \in Sessions, Cleanup(s)
  PROVE  SessionsInv'
<1>1. /\ lock[s] = Nobody
      /\ UNCHANGED <<actor, valid, lock, logout, observers>>
  BY DEF Cleanup, providerVars
<1>2. row'[s].status = "none" /\ \A q \in Sessions : q # s => row'[q] = row[q]
  BY DEF Cleanup, NoRow, TypeOK
<1>3. Locked'
  <2>1. ASSUME NEW b \in Actors, At(b) \in Holding
        PROVE  Via(b) # s
    BY <1>1, <2>1, NoHolder
  <2> QED
    BY <1>1, <1>2, <2>1 DEF SessionsInv, Locked, At, Via, Token, Unrevoked
<1>4. Unborn' /\ InTrouble' /\ Kept'
  BY <1>1, <1>2 DEF SessionsInv, Unborn, InTrouble, Kept, At, Via, observers
<1>5. LoggedOut'
  BY <1>1, <1>2 DEF SessionsInv, LoggedOut, At, Unrevoked, observers, TypeOK
<1>6. RevokedForCause' /\ LogoutEndsLogin'
  BY <1>1, <1>2 DEF SessionsInv, RevokedForCause, LogoutEndsLogin, observers
<1> QED
  BY <1>3, <1>4, <1>5, <1>6 DEF SessionsInv

\* A logout, or a callback that undoes its login, takes the valid token along.
LEMMA RevokeSessions ==
  ASSUME TypeOK, SessionsInv, NEW s \in Sessions, Revoke(s), At(s) \in {"undo", "served"},
         actor' = actor \/ Goto(s, "denied")
  PROVE  SessionsInv'
<1>1. s \in Actors /\ lock[s] = Nobody /\ UNCHANGED <<valid, lock, told, trouble>>
  BY DEF Actors, Revoke, RowFree, providerVars
<1>2. /\ \A b \in Actors : b # s => actor'[b] = actor[b]
      /\ At(s)' \in {"undo", "served", "denied"}
  BY <1>1 DEF Goto, Becomes, At, TypeOK, ActorRecords
<1>3. ASSUME NEW b \in Actors, At(b) \in Holding \/ At(b)' \in Holding
      PROVE  /\ b # s /\ At(b) \in Holding /\ Via(b) # s
             /\ Via(b)' = Via(b) /\ Token(b)' = Token(b) /\ At(b)' = At(b)
  <2>1. b # s
    BY <1>2, <1>3 DEF Holding
  <2>2. actor'[b] = actor[b]
    BY <1>2, <2>1
  <2> QED
    BY <1>1, <1>3, <2>1, <2>2, NoHolder DEF At, Via, Token
<1>4. /\ \A q \in Sessions : q # s => row'[q] = row[q] /\ logout'[q] = logout[q]
      /\ \/ /\ Unrevoked(s) /\ row'[s].status = "revoked" /\ logout'[s] = row[s].token
            /\ ended' = ended \cup {s}
         \/ UNCHANGED <<row, logout, ended>>
  BY DEF Revoke, TypeOK
<1>5. Locked'
  BY <1>1, <1>3, <1>4 DEF SessionsInv, Locked, At, Via, Token, Unrevoked
<1>6. Unborn'
  BY <1>1, <1>2, <1>4 DEF SessionsInv, Unborn, Actors, At
<1>7. InTrouble'
  BY <1>1, <1>3, <1>4 DEF SessionsInv, InTrouble, Holding
<1>8. Kept'
  <2>1. ASSUME NEW b \in Actors, At(b) = "store"
        PROVE  At(b)' = "store" /\ Via(b)' = Via(b)
    BY <1>3, <2>1 DEF Holding
  <2> QED
    BY <1>1, <1>4, <2>1 DEF SessionsInv, Kept
<1>9. Unrevoked(s) => s \notin ended /\ (s \in trouble \/ valid[s] = row[s].token)
  <2>1. \A b \in Actors : At(b) = "store" => Via(b) # s
    BY <1>3 DEF Holding
  <2> QED
    BY <2>1 DEF SessionsInv, LoggedOut, Kept, Unrevoked
<1>10. LoggedOut'
  <2>1. CASE UNCHANGED <<row, logout, ended>>
    BY <1>1, <1>2, <2>1 DEF SessionsInv, LoggedOut, Actors, At, Unrevoked, TypeOK
  <2>2. CASE /\ Unrevoked(s) /\ row'[s].status = "revoked" /\ logout'[s] = row[s].token
             /\ ended' = ended \cup {s}
    <3>1. told' \subseteq ended' /\ \A q \in Sessions : logout'[q] # 0 => q \in ended'
      BY <1>1, <1>4, <2>2 DEF SessionsInv, LoggedOut
    <3>2. \A q \in ended' : At(q)' # "new" /\ ~ Unrevoked(q)'
      BY <1>2, <1>4, <2>2 DEF SessionsInv, LoggedOut, Actors, At, Unrevoked, TypeOK
    <3>3. \A q \in ended' \ trouble' : logout'[q] # 0 => valid'[q] = logout'[q]
      BY <1>1, <1>4, <1>9, <2>2 DEF SessionsInv, LoggedOut, TypeOK
    <3> QED
      BY <3>1, <3>2, <3>3 DEF LoggedOut
  <2> QED
    BY <1>4, <2>1, <2>2
<1>11. RevokedForCause' /\ LogoutEndsLogin'
  BY <1>1, <1>4 DEF SessionsInv, RevokedForCause, LogoutEndsLogin
<1> QED
  BY <1>5, <1>6, <1>7, <1>8, <1>10, <1>11 DEF SessionsInv

LEMMA TellProviderSessions ==
  ASSUME TypeOK, SessionsInv, NEW s \in Sessions, TellProvider(s)
  PROVE  SessionsInv'
<1>1. /\ logout[s] # 0 /\ s \in ended /\ ~ Unrevoked(s)
      /\ s \in trouble \/ valid[s] = logout[s]
      /\ UNCHANGED <<actor, row, lock, ended, trouble>> /\ told' = told \cup {s}
  BY DEF TellProvider, SessionsInv, LoggedOut
<1>2. /\ logout'[s] = 0 /\ (valid[s] = logout[s] => valid'[s] = 0)
      /\ \A q \in Sessions : q # s => logout'[q] = logout[q] /\ valid'[q] = valid[q]
  BY DEF TellProvider, TypeOK
<1>3. Locked'
  BY <1>1, <1>2 DEF SessionsInv, Locked, At, Via, Token, Unrevoked
<1>4. Unborn' /\ InTrouble' /\ Kept'
  BY <1>1, <1>2 DEF SessionsInv, Unborn, InTrouble, Kept, At, Via
<1>5. LoggedOut'
  BY <1>1, <1>2 DEF SessionsInv, LoggedOut, At, Unrevoked, TypeOK
<1>6. RevokedForCause' /\ LogoutEndsLogin'
  BY <1>1, <1>2 DEF SessionsInv, RevokedForCause, LogoutEndsLogin, TypeOK
<1> QED
  BY <1>3, <1>4, <1>5, <1>6 DEF SessionsInv

\* The process dies: what was about to be stored is lost.
LEMMA CrashSessions ==
  ASSUME TypeOK, SessionsInv, Crash
  PROVE  SessionsInv'
<1>1. /\ UNCHANGED <<valid, row, told, ended>>
      /\ \A s \in Sessions : lock'[s] = Nobody /\ logout'[s] = 0
      /\ trouble \subseteq trouble'
      /\ \A a \in Actors : At(a) = "store" => Via(a) \in trouble'
  BY DEF Crash, providerVars
<1>2. \A a \in Actors : At(a)' \in {"new", "served", "denied"} /\ (At(a)' = "new" => At(a) = "new")
  BY DEF Crash, InFlight, Fresh, At
<1>3. Locked' /\ InTrouble'
  BY <1>2 DEF Locked, InTrouble, Holding
<1>4. Unborn'
  BY <1>1, <1>2 DEF SessionsInv, Unborn, Actors
<1>5. Kept'
  BY <1>1 DEF SessionsInv, Kept
<1>6. LoggedOut'
  BY <1>1, <1>2 DEF SessionsInv, LoggedOut, Actors, Unrevoked, TypeOK
<1>7. RevokedForCause' /\ LogoutEndsLogin'
  BY <1>1 DEF SessionsInv, RevokedForCause, LogoutEndsLogin
<1> QED
  BY <1>3, <1>4, <1>5, <1>6, <1>7 DEF SessionsInv

LEMMA RowStepSessions ==
  ASSUME TypeOK, SessionsInv, NEW s \in Sessions,
         FallDue(s) \/ Expire(s) \/ Logout(s) \/ Undo(s)
  PROVE  SessionsInv'
<1>1. CASE FallDue(s)
  <2>1. \A q \in Sessions : row'[q].token = row[q].token /\ row'[q].status = row[q].status
    BY <1>1 DEF FallDue, TypeOK
  <2> QED
    BY <1>1, <2>1, SessionsRest DEF FallDue, providerVars
<1>2. CASE Expire(s)
  <2>1. /\ row'[s].token = row[s].token /\ row'[s].status = "expired" /\ row[s].status = "live"
        /\ \A q \in Sessions : q # s => row'[q] = row[q]
    BY <1>2 DEF Expire, Live, TypeOK
  <2> QED
    BY <1>2, <2>1, SessionsRest DEF Expire, providerVars
<1>3. CASE Logout(s)
  BY <1>3, RevokeSessions DEF Logout
<1>4. CASE Undo(s)
  BY <1>4, RevokeSessions DEF Undo
<1> QED
  BY <1>1, <1>2, <1>3, <1>4

LEMMA ReadSessions ==
  ASSUME TypeOK, SessionsInv, NEW a \in Actors, NEW s \in Sessions, Read(a, s), At(a) \in {"new", "read"},
         UNCHANGED <<valid, row, lock, logout, observers>>
  PROVE  SessionsInv'
<1> DEFINE f == IF Live(s)
                THEN [actor[a] EXCEPT !.at = IF row[s].due THEN "wait" ELSE "apply",
                                      !.via = s, !.token = row[s].token]
                ELSE Refused(a)
<1>1. f.at \in {"wait", "apply", "undo", "denied"}
  BY RefusedAt DEF TypeOK, ActorRecords
<1>2. Becomes(a, f)
  BY DEF Read
<1> HIDE DEF f
<1>3. At(a) \notin Holding /\ f.at \notin Holding /\ f.at # "new"
  BY <1>1 DEF Holding
<1> QED
  BY <1>2, <1>3, SessionsKept

LEMMA BeginSessions ==
  ASSUME TypeOK, SessionsInv, NEW r \in Requests,
         (\E s \in Sessions : Begin(r, s)) \/ (\E t \in Tokens : BeginBearer(r, t))
  PROVE  SessionsInv'
<1>1. r \in Actors
  BY DEF Actors
<1>2. ASSUME NEW s \in Sessions, Begin(r, s)
      PROVE  SessionsInv'
  BY <1>1, <1>2, ReadSessions DEF Begin, providerVars
<1>3. ASSUME NEW t \in Tokens, BeginBearer(r, t)
      PROVE  SessionsInv'
  <2> DEFINE f == [actor[r] EXCEPT !.at = "apply", !.token = t]
  <2>1. f.at = "apply"
    <3>1. actor[r] \in ActorRecords
      BY <1>1 DEF TypeOK
    <3> QED
      BY <3>1 DEF ActorRecords
  <2>2. Becomes(r, f) /\ At(r) = "new" /\ UNCHANGED <<valid, row, lock, logout, observers>>
    BY <1>3 DEF BeginBearer, providerVars
  <2> HIDE DEF f
  <2>3. At(r) \notin Holding /\ f.at \notin Holding /\ f.at # "new"
    BY <2>1, <2>2 DEF Holding
  <2> QED
    BY <1>1, <2>2, <2>3, SessionsKept
<1> QED
  BY <1>2, <1>3

\* The preparation does not touch a session row.
LEMMA PrepareStepSessions ==
  ASSUME TypeOK, SessionsInv, NEW a \in Actors,
         Prepare(a) \/ PrepareFails(a) \/ FindStale(a) \/ FindAmbiguous(a) \/ Serve(a)
  PROVE  SessionsInv'
<1>1. At(a) \notin Holding /\ UNCHANGED <<valid, row, lock, logout, observers>>
  BY DEF Prepare, PrepareFails, FindStale, FindAmbiguous, Serve, Decides, Holding, providerVars
<1>2. actor[a] \in ActorRecords
  BY DEF TypeOK
<1>3. /\ [actor[a] EXCEPT !.at = "decide", !.seen = applied].at = "decide"
      /\ [actor[a] EXCEPT !.at = "wait", !.stale = Token(a), !.seen = 0].at = "wait"
      /\ [Fresh(a) EXCEPT !.at = "served", !.token = Token(a)].at = "served"
  BY <1>2 DEF ActorRecords, Fresh
<1>4. \E f : Becomes(a, f) /\ f.at \in {"decide", "wait", "served", "undo", "denied"}
  <2>1. CASE Prepare(a)
    BY <1>3, <2>1 DEF Prepare
  <2>2. CASE FindStale(a)
    BY <1>3, <2>2, RefusedAt DEF FindStale
  <2>3. CASE Serve(a)
    BY <1>3, <2>3 DEF Serve
  <2>4. CASE PrepareFails(a) \/ FindAmbiguous(a)
    BY <2>4, RefusedAt DEF PrepareFails, FindAmbiguous, Refuse
  <2> QED
    BY <2>1, <2>2, <2>3, <2>4
<1>5. PICK f : Becomes(a, f) /\ f.at \in {"decide", "wait", "served", "undo", "denied"}
  BY <1>4
<1>6. f.at \notin Holding /\ f.at # "new"
  BY <1>5 DEF Holding
<1> QED
  BY <1>1, <1>5, <1>6, SessionsKept

LEMMA StepSessions == TypeOK /\ SessionsInv /\ [Next]_vars => SessionsInv'
<1> SUFFICES ASSUME TypeOK, SessionsInv, [Next]_vars PROVE SessionsInv'
  OBVIOUS
<1>1. CASE UNCHANGED vars \/ IssueBearer
  BY <1>1, SessionsRest DEF vars, providerVars, IssueBearer
<1>2. ASSUME NEW a \in Actors, ActorStep(a)
      PROVE  SessionsInv'
  BY <1>2, LockSessions, RefreshedSessions, RefreshFailedSessions, UnlockStepSessions,
     PrepareStepSessions DEF ActorStep
<1>3. ASSUME NEW s \in Sessions,
             \/ Complete(s) \/ CallbackStep(s)
             \/ FallDue(s) \/ Expire(s) \/ Cleanup(s)
             \/ Logout(s) \/ TellProvider(s)
      PROVE  SessionsInv'
  <2>1. CASE CallbackReads(s)
    BY <2>1, ReadSessions DEF CallbackReads, Actors, providerVars
  <2> QED
    BY <1>3, <2>1, CompleteSessions, RowStepSessions, CleanupSessions, TellProviderSessions
       DEF CallbackStep
<1> QED
  BY <1>1, <1>2, <1>3, BeginSessions, CrashSessions DEF Next

-----------------------------------------------------------------------------
(* The theorems.                                                           *)

LEMMA InitInv == Init => SessionsInv /\ AnswersInv
<1> SUFFICES ASSUME Init PROVE SessionsInv /\ AnswersInv
  OBVIOUS
<1>1. /\ \A a \in Actors : At(a) = "new"
      /\ \A s \in Sessions : row[s].status = "none" /\ lock[s] = Nobody /\ logout[s] = 0
      /\ told = {} /\ ended = {} /\ trouble = {}
  BY DEF Init, Fresh, At, NoRow
<1>2. Locked /\ Unborn /\ InTrouble /\ Kept
  BY <1>1 DEF Locked, Holding, Unborn, InTrouble, Kept, Actors
<1>3. LoggedOut /\ RevokedForCause /\ LogoutEndsLogin
  BY <1>1 DEF LoggedOut, RevokedForCause, LogoutEndsLogin
<1>4. HasToken /\ Watching /\ NewestTokenWins
  BY <1>1 DEF HasToken, Watching, NewestTokenWins
<1> QED
  BY <1>2, <1>3, <1>4 DEF SessionsInv, AnswersInv

LEMMA Invariance == Spec => []IInv
<1>1. Init => IInv
  BY InitType, InitInv DEF IInv
<1>2. IInv /\ [Next]_vars => IInv'
  BY StepType, StepSessions, StepAnswers DEF IInv, SessionsInv
<1> QED
  BY <1>1, <1>2, PTL DEF Spec

\* Every variable keeps its type, every token that is named has been issued, and
\* only a cookie session is refreshed (SessionManager.resolveWithRefresh).
THEOREM TypeCorrect == Spec => []TypeOK
<1>1. IInv => TypeOK
  BY DEF IInv
<1> QED
  BY <1>1, Invariance, PTL

\* For any number of concurrent requests, a session is revoked only because it
\* was logged out or because a refresh failed half-way: the row lock that
\* resolveWithRefresh holds across the call keeps a refresh token from being
\* spent twice.
THEOREM SessionsRevokedForCause == Spec => []RevokedForCause
<1>1. IInv => RevokedForCause
  BY DEF IInv, SessionsInv
<1> QED
  BY <1>1, Invariance, PTL

\* A logout the provider was told of ended the login there, whatever requests
\* rotated the token at the same time (SessionManager.Revoke).
THEOREM LogoutsEndLogins == Spec => []LogoutEndsLogin
<1>1. IInv => LogoutEndsLogin
  BY DEF IInv, SessionsInv
<1> QED
  BY <1>1, Invariance, PTL

\* The stored grants are those of the newest token anybody was served with, for
\* any number of sessions, clients and tokens (resolveExternalActor).
THEOREM NewestTokenAlwaysWins == Spec => []NewestTokenWins
<1>1. IInv => NewestTokenWins
  BY DEF IInv, AnswersInv
<1> QED
  BY <1>1, Invariance, PTL

-----------------------------------------------------------------------------
(* The refinement of the register.                                         *)

LEMMA OutcomeKept ==
  ASSUME TypeOK, NEW a \in Actors, NEW f, Becomes(a, f), At(a) # "served", f.at # "served"
  PROVE  Outcome' = Outcome
<1>1. actor'[a] = f /\ \A b \in Actors : b # a => actor'[b] = actor[b]
  BY DEF Becomes, TypeOK
<1>2. \A b \in Actors : (At(b)' = "served" <=> At(b) = "served")
                        /\ (At(b) = "served" => Token(b)' = Token(b))
  BY <1>1 DEF At, Token
<1> QED
  BY <1>2 DEF Outcome

LEMMA IssuePublishes ==
  ASSUME NEW to \in Sessions \cup {Bearer}, Issue(to), UNCHANGED <<applied, Outcome>>
  PROVE  Register!Publish
<1>1. Register!LastIat = LastIat
  BY DEF Register!LastIat, LastIat, Iat
<1> QED
  BY <1>1 DEF Issue, Register!Publish

LEMMA ServeAnswersOnce ==
  ASSUME IInv, NEW a \in Actors, Serve(a)
  PROVE  Register!Next
<1> DEFINE f == [Fresh(a) EXCEPT !.at = "served", !.token = Token(a)]
<1>1. /\ At(a) = "decide" /\ UNCHANGED issued /\ Token(a) # 0 /\ Seen(a) = applied
      /\ ~ Stale(a) /\ ~ Ambiguous(a) /\ Becomes(a, f)
  BY DEF Serve, Decides, providerVars, IInv, AnswersInv, Watching, HasToken
<1>2. actor'[a] = f /\ \A b \in Actors : b # a => actor'[b] = actor[b]
  BY <1>1 DEF Becomes, IInv, TypeOK
<1>3. f.at = "served" /\ f.token = Token(a)
  BY DEF Fresh
<1>4. Outcome[a] = 0 /\ Outcome' = [Outcome EXCEPT ![a] = Token(a)]
  BY <1>1, <1>2, <1>3 DEF Outcome, At, Token
<1>5. /\ Token(a) \in DOMAIN issued /\ Iat(Token(a)) \in Nat
      /\ applied # 0 => Iat(applied) \in Nat
  <2>1. issued \in Seq(TokenRecords) /\ Len(issued) \in Nat
    BY DEF IInv, TypeOK, TokenRecords
  <2>2. \A t \in 1 .. Len(issued) : issued[t] \in TokenRecords
    BY <2>1
  <2>3. Token(a) \in Issued /\ applied \in Issued
    BY DEF IInv, TypeOK, ActorRecords, Token
  <2>4. Token(a) \in 1 .. Len(issued) /\ (applied # 0 => applied \in 1 .. Len(issued))
    BY <1>1, <2>1, <2>3 DEF Issued
  <2> QED
    BY <2>1, <2>2, <2>4 DEF TokenRecords, Iat
<1>6. CASE SameSecond(a)
  <2>1. Register!Agrees(Token(a))
    BY <1>1, <1>6 DEF SameSecond, Ambiguous, Register!Agrees, Iat, RoleOf
  <2>2. UNCHANGED applied
    BY <1>6 DEF Serve
  <2> QED
    BY <1>1, <1>4, <1>5, <2>1, <2>2 DEF Register!Answer, Register!Next
<1>7. CASE ~ SameSecond(a)
  <2>1. Register!Newer(Token(a))
    BY <1>1, <1>5, <1>7 DEF SameSecond, Stale, Register!Newer, Iat
  <2>2. applied' = Token(a)
    BY <1>7 DEF Serve
  <2> QED
    BY <1>1, <1>4, <1>5, <2>1, <2>2 DEF Register!Answer, Register!Next
<1> QED
  BY <1>6, <1>7

\* A step that neither issues a token nor answers is none of the register's.
Silent == UNCHANGED <<issued, applied, Outcome>>

LEMMA MovesSilently ==
  ASSUME TypeOK, NEW a \in Actors, At(a) # "served", UNCHANGED <<issued, applied>>,
         \E f : Becomes(a, f) /\ f.at # "served"
  PROVE  Silent
  BY OutcomeKept DEF Silent

LEMMA ReadSilent ==
  ASSUME TypeOK, NEW a \in Actors, NEW s \in Sessions, Read(a, s), At(a) # "served",
         UNCHANGED <<issued, applied>>
  PROVE  Silent
<1> DEFINE f == IF Live(s)
                THEN [actor[a] EXCEPT !.at = IF row[s].due THEN "wait" ELSE "apply",
                                      !.via = s, !.token = row[s].token]
                ELSE Refused(a)
<1>1. f.at # "served" /\ Becomes(a, f)
  BY RefusedAt DEF TypeOK, ActorRecords, Read
<1> QED
  BY <1>1, MovesSilently

\* The steps of an actor that has begun.
LEMMA ActorStepMaps ==
  ASSUME IInv, NEW a \in Actors, ActorStep(a)
  PROVE  Register!Next \/ Silent
<1>1. TypeOK /\ actor[a] \in ActorRecords
  BY DEF IInv, TypeOK
<1>2. \A step \in Steps : [actor[a] EXCEPT !.at = step].at = step
  BY <1>1 DEF ActorRecords
<1>3. CASE Lock(a)
  <2> DEFINE locked == [actor[a] EXCEPT !.token = row[Via(a)].token]
  <2>1. [locked EXCEPT !.at = "refresh"].at = "refresh" /\ [locked EXCEPT !.at = "apply"].at = "apply"
    BY <1>1 DEF ActorRecords
  <2>2. \E f : Becomes(a, f) /\ f.at # "served"
    BY <1>3, <2>1, RefusedAt DEF Lock
  <2> QED
    BY <1>1, <1>3, <2>2, MovesSilently DEF Lock, providerVars
<1>4. CASE Refreshed(a)
  <2> DEFINE f == [actor[a] EXCEPT !.at = "store", !.token = Len(issued')]
  <2>1. f.at = "store" /\ Becomes(a, f) /\ At(a) = "refresh" /\ UNCHANGED applied /\ Issue(Via(a))
    BY <1>1, <1>4 DEF Refreshed, ActorRecords
  <2>2. Outcome' = Outcome
    BY <1>1, <2>1, OutcomeKept
  <2>3. Via(a) \in Sessions
    BY <1>1, <2>1 DEF TypeOK, Refreshing
  <2> QED
    BY <2>1, <2>2, <2>3, IssuePublishes DEF Register!Next
<1>5. CASE RefreshRefused(a) \/ RefreshFails(a) \/ Store(a)
  <2>1. \E f : Becomes(a, f) /\ f.at # "served"
    BY <1>2, <1>5 DEF RefreshRefused, RefreshFails, Store, Goto, Steps
  <2> QED
    BY <1>1, <1>5, <2>1, MovesSilently DEF RefreshRefused, RefreshFails, Store, providerVars
<1>6. CASE StoreFails(a) \/ RevokeRow(a) \/ PrepareFails(a) \/ FindAmbiguous(a)
  <2>1. \E f : Becomes(a, f) /\ f.at # "served"
    BY <1>6, RefusedAt DEF StoreFails, RevokeRow, PrepareFails, FindAmbiguous, Refuse
  <2> QED
    BY <1>1, <1>6, <2>1, MovesSilently
       DEF StoreFails, RevokeRow, PrepareFails, FindAmbiguous, Decides, providerVars
<1>7. CASE Prepare(a) \/ FindStale(a)
  <2>1. /\ [actor[a] EXCEPT !.at = "decide", !.seen = applied].at = "decide"
        /\ [actor[a] EXCEPT !.at = "wait", !.stale = Token(a), !.seen = 0].at = "wait"
    BY <1>1 DEF ActorRecords
  <2>2. \E f : Becomes(a, f) /\ f.at # "served"
    BY <1>7, <2>1, RefusedAt DEF Prepare, FindStale
  <2> QED
    BY <1>1, <1>7, <2>2, MovesSilently DEF Prepare, FindStale, Decides, providerVars
<1>8. CASE Serve(a)
  BY <1>8, ServeAnswersOnce
<1> QED
  BY <1>3, <1>4, <1>5, <1>6, <1>7, <1>8 DEF ActorStep

\* The steps of the callbacks, the session rows and the provider.
LEMMA SessionStepMaps ==
  ASSUME IInv, NEW s \in Sessions,
         \/ Complete(s) \/ CallbackStep(s)
         \/ FallDue(s) \/ Expire(s) \/ Cleanup(s)
         \/ Logout(s) \/ TellProvider(s)
  PROVE  Register!Next \/ Silent
<1>1. TypeOK /\ s \in Actors /\ actor[s] \in ActorRecords
  BY DEF IInv, TypeOK, Actors
<1>2. [actor[s] EXCEPT !.at = "read"].at = "read" /\ [actor[s] EXCEPT !.at = "denied"].at = "denied"
  BY <1>1 DEF ActorRecords
<1>3. CASE Complete(s)
  <2>1. Outcome' = Outcome
    BY <1>1, <1>2, <1>3, OutcomeKept DEF Complete, Goto
  <2> QED
    BY <1>3, <2>1, IssuePublishes DEF Complete, Register!Next
<1>4. CASE CallbackReads(s)
  BY <1>1, <1>4, ReadSilent DEF CallbackReads, providerVars
<1>5. CASE Undo(s)
  BY <1>1, <1>2, <1>5, MovesSilently DEF Undo, Revoke, Goto, providerVars
<1>6. CASE FallDue(s) \/ Expire(s) \/ Cleanup(s) \/ Logout(s) \/ TellProvider(s)
  BY <1>6 DEF FallDue, Expire, Cleanup, Logout, Revoke, TellProvider, providerVars,
     Silent, Outcome, At, Token
<1> QED
  BY <1>3, <1>4, <1>5, <1>6 DEF CallbackStep

LEMMA StepMaps == IInv /\ [Next]_vars => [Register!Next]_(Register!vars)
<1> SUFFICES ASSUME IInv, [Next]_vars PROVE Register!Next \/ Silent
  BY DEF Silent, Register!vars
<1>1. TypeOK
  BY DEF IInv
<1>2. CASE UNCHANGED vars
  BY <1>2 DEF vars, providerVars, Silent, Outcome, At, Token
<1>3. CASE IssueBearer
  <2>1. Issue(Bearer) /\ UNCHANGED <<applied, Outcome>>
    BY <1>3 DEF IssueBearer, Outcome, At, Token
  <2> QED
    BY <2>1, IssuePublishes DEF Register!Next
<1>4. ASSUME NEW r \in Requests, NEW s \in Sessions, Begin(r, s)
      PROVE  Silent
  BY <1>1, <1>4, ReadSilent DEF Begin, Actors, providerVars
<1>5. ASSUME NEW r \in Requests, NEW t \in Tokens, BeginBearer(r, t)
      PROVE  Silent
  <2>1. r \in Actors /\ actor[r] \in ActorRecords
    BY <1>1 DEF Actors, TypeOK
  <2>2. [actor[r] EXCEPT !.at = "apply", !.token = t].at = "apply"
    BY <2>1 DEF ActorRecords
  <2> QED
    BY <1>1, <1>5, <2>1, <2>2, MovesSilently DEF BeginBearer, providerVars
<1>6. CASE Crash
  <2>1. \A a \in Actors : \/ At(a) # "served" /\ At(a)' # "served"
                          \/ At(a) = "served" /\ actor'[a] = actor[a]
    BY <1>6 DEF Crash, InFlight, Fresh, At
  <2>2. Outcome' = Outcome
    BY <2>1 DEF Outcome, At, Token
  <2> QED
    BY <1>6, <2>2 DEF Crash, providerVars, Silent
<1> QED
  BY <1>2, <1>3, <1>4, <1>5, <1>6, ActorStepMaps, SessionStepMaps DEF Next

\* Requests that wait for locks, refresh, retry, fail and die behave, taken
\* together, like a register that each of them reads and writes in one step.
THEOREM RegisterImplemented == Spec => ImplementsRegister
<1>1. Init => Register!Init
  <2> SUFFICES ASSUME Init PROVE Register!Init
    OBVIOUS
  <2>1. \A a \in Actors : At(a) = "new"
    BY DEF Init, Fresh, At
  <2>2. Outcome = [a \in Actors |-> 0]
    BY <2>1 DEF Outcome
  <2> QED
    BY <2>2 DEF Init, Register!Init
<1> QED
  BY <1>1, StepMaps, Invariance, PTL DEF Spec, ImplementsRegister, Register!Spec
==============================================================================
