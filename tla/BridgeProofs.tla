---------------------------- MODULE BridgeProofs ----------------------------
(***************************************************************************)
(* Theorems about Bridge, for any number of configurators, clients,        *)
(* sessions and commands.                                                  *)
(*                                                                         *)
(* The books of the use case are its sessions, its commands, the requests  *)
(* it took on and the results it sent.  Whatever happens to them is one of *)
(* a few steps: sessions and commands are removed and answered, one is     *)
(* added, a session becomes active or its deadline passes.  The lemmas     *)
(* about Books treat these steps once, the lemmas about actions say which  *)
(* of them an action takes.                                                *)
(***************************************************************************)
EXTENDS Bridge, TLAPS

Unanswered(S, C) == Names({s \in S : ~s.active}) \cup Names(C)

Answered(R, X) == [r \in Requests |-> IF r \in X THEN R[r] + 1 ELSE R[r]]

\* The records of sessions S, commands C, accepted requests A and results R
\* agree with each other.
Books(S, C, A, R) ==
    /\ S \subseteq SessionRecords /\ C \subseteq CommandRecords
    /\ A \subseteq Requests /\ R \in [Requests -> Nat]
    /\ Names(S) \subseteq A /\ Names(C) \subseteq A
    /\ \A s, u \in S : s.id = u.id \/ s.client = u.client => s = u
    /\ \A c, d \in C : c.id = d.id => c = d
    /\ \A c \in C : \E s \in S : s.id = c.session /\ s.active
    /\ \A r \in Requests : R[r] = IF r \in A \ Unanswered(S, C) THEN 1 ELSE 0

-----------------------------------------------------------------------------
(* Steps of the books.                                                     *)

LEMMA AnsweredType ==
    ASSUME NEW R \in [Requests -> Nat], NEW X
    PROVE  /\ Answered(R, X) \in [Requests -> Nat]
           /\ \A r \in Requests : Answered(R, X)[r] = IF r \in X THEN R[r] + 1 ELSE R[r]
BY DEF Answered

\* Sessions and their commands are removed, and what was open is answered.
LEMMA BooksRemove ==
    ASSUME NEW S, NEW C, NEW A, NEW R, Books(S, C, A, R),
           NEW D \in SUBSET S, NEW E \in SUBSET C,
           \A c \in C : c.session \in Names(D) => c \in E,
           NEW X, X = Unanswered(D, E)
    PROVE  Books(S \ D, C \ E, A, Answered(R, X))
<1> DEFINE T == S \ D
           B == C \ E
<1>1. T \subseteq S /\ B \subseteq C
  OBVIOUS
<1>2. /\ T \subseteq SessionRecords /\ B \subseteq CommandRecords
      /\ A \subseteq Requests /\ R \in [Requests -> Nat]
      /\ Names(T) \subseteq A /\ Names(B) \subseteq A
      /\ \A s, u \in T : s.id = u.id \/ s.client = u.client => s = u
      /\ \A c, d \in B : c.id = d.id => c = d
  BY DEF Books, Names
<1>3. \A c \in B : \E s \in T : s.id = c.session /\ s.active
  BY DEF Books, Names
<1>4. Unanswered(T, B) = Unanswered(S, C) \ X
  <2>1. ASSUME NEW s \in S, NEW u \in S, s.id = u.id PROVE s = u
    BY <2>1 DEF Books
  <2>2. ASSUME NEW c \in C, NEW d \in C, c.id = d.id PROVE c = d
    BY <2>2 DEF Books
  <2>3. ASSUME NEW s \in S, NEW c \in C PROVE s.id # c.id
    <3>1. s.id \in Sessions /\ c.id \in Commands
      BY DEF Books, SessionRecords, CommandRecords
    <3> QED BY <3>1, BridgeAssumption
  <2> QED BY <2>1, <2>2, <2>3 DEF Unanswered, Names
<1>5. X \subseteq Unanswered(S, C) /\ Unanswered(S, C) \subseteq A
  BY DEF Unanswered, Names, Books
<1>6. \A r \in Requests : Answered(R, X)[r] = IF r \in A \ Unanswered(T, B) THEN 1 ELSE 0
  <2> SUFFICES ASSUME NEW r \in Requests
               PROVE  Answered(R, X)[r] = IF r \in A \ Unanswered(T, B) THEN 1 ELSE 0
    OBVIOUS
  <2>1. R[r] = IF r \in A \ Unanswered(S, C) THEN 1 ELSE 0
    BY DEF Books
  <2>2. Answered(R, X)[r] = IF r \in X THEN R[r] + 1 ELSE R[r]
    BY <1>2, AnsweredType
  <2> HIDE DEF T, B
  <2> QED BY <1>4, <1>5, <2>1, <2>2
<1>7. Answered(R, X) \in [Requests -> Nat]
  BY <1>2, AnsweredType
<1> HIDE DEF T, B
<1>8. Books(T, B, A, Answered(R, X))
  BY <1>2, <1>3, <1>6, <1>7 DEF Books
<1> QED BY <1>8 DEF T, B

\* A session is requested of a client that has none.
LEMMA BooksAddSession ==
    ASSUME NEW S, NEW C, NEW A, NEW R, Books(S, C, A, R),
           NEW s \in SessionRecords, s.id \notin A, ~s.active,
           \A u \in S : u.client # s.client
    PROVE  Books(S \cup {s}, C, A \cup {s.id}, R)
<1>1. s.id \in Requests
  BY DEF SessionRecords, Requests
<1>2. Unanswered(S \cup {s}, C) = Unanswered(S, C) \cup {s.id}
  BY DEF Unanswered, Names
<1>3. \A u \in S : u.id # s.id
  BY DEF Books, Names
<1>4. \A r \in Requests :
        R[r] = IF r \in (A \cup {s.id}) \ Unanswered(S \cup {s}, C) THEN 1 ELSE 0
  BY <1>2 DEF Books
<1>5. Names(S \cup {s}) \subseteq A \cup {s.id}
  BY DEF Books, Names
<1> QED BY <1>1, <1>3, <1>4, <1>5 DEF Books

\* A command is sent in an active session.
LEMMA BooksAddCommand ==
    ASSUME NEW S, NEW C, NEW A, NEW R, Books(S, C, A, R),
           NEW c \in CommandRecords, c.id \notin A,
           \E s \in S : s.id = c.session /\ s.active
    PROVE  Books(S, C \cup {c}, A \cup {c.id}, R)
<1>1. c.id \in Requests
  BY DEF CommandRecords, Requests
<1>2. Unanswered(S, C \cup {c}) = Unanswered(S, C) \cup {c.id}
  BY DEF Unanswered, Names
<1>3. \A d \in C : d.id # c.id
  BY DEF Books, Names
<1>4. \A r \in Requests :
        R[r] = IF r \in (A \cup {c.id}) \ Unanswered(S, C \cup {c}) THEN 1 ELSE 0
  BY <1>2 DEF Books
<1>5. Names(C \cup {c}) \subseteq A \cup {c.id}
  BY DEF Books, Names
<1> QED BY <1>1, <1>3, <1>4, <1>5 DEF Books

\* A command is taken on and answered at once: it could not be delivered.
LEMMA BooksAnswerNow ==
    ASSUME NEW S, NEW C, NEW A, NEW R, Books(S, C, A, R), NEW r \in Requests, r \notin A
    PROVE  Books(S, C, A \cup {r}, Answered(R, {r}))
<1>1. r \notin Unanswered(S, C)
  BY DEF Unanswered, Names, Books
<1>2. Answered(R, {r}) \in [Requests -> Nat]
  BY AnsweredType DEF Books
<1>3. \A q \in Requests :
        Answered(R, {r})[q] = IF q \in (A \cup {r}) \ Unanswered(S, C) THEN 1 ELSE 0
  BY <1>1, AnsweredType DEF Books
<1> QED BY <1>2, <1>3 DEF Books

\* Answers given together are answers given one after the other.
LEMMA AnsweredTwice ==
    ASSUME NEW R \in [Requests -> Nat], NEW X, NEW Y, X \cap Y = {}
    PROVE  Answered(Answered(R, X), Y) = Answered(R, X \cup Y)
BY DEF Answered

LEMMA SessionFields ==
    ASSUME NEW s \in SessionRecords
    PROVE  /\ [s EXCEPT !.late = TRUE] \in SessionRecords
           /\ [s EXCEPT !.late = TRUE].id = s.id
           /\ [s EXCEPT !.late = TRUE].client = s.client
           /\ [s EXCEPT !.late = TRUE].configurator = s.configurator
           /\ [s EXCEPT !.late = TRUE].active = s.active
           /\ [s EXCEPT !.active = TRUE] \in SessionRecords
           /\ [s EXCEPT !.active = TRUE].id = s.id
           /\ [s EXCEPT !.active = TRUE].client = s.client
           /\ [s EXCEPT !.active = TRUE].configurator = s.configurator
           /\ [s EXCEPT !.active = TRUE].active
BY DEF SessionRecords

LEMMA CommandFields ==
    ASSUME NEW c \in CommandRecords
    PROVE  /\ [c EXCEPT !.late = TRUE] \in CommandRecords
           /\ [c EXCEPT !.late = TRUE].id = c.id
           /\ [c EXCEPT !.late = TRUE].session = c.session
BY DEF CommandRecords

\* The deadline of a session passes.
LEMMA BooksLateSession ==
    ASSUME NEW S, NEW C, NEW A, NEW R, Books(S, C, A, R), NEW s \in S
    PROVE  Books((S \ {s}) \cup {[s EXCEPT !.late = TRUE]}, C, A, R)
<1> DEFINE l == [s EXCEPT !.late = TRUE]
           T == (S \ {s}) \cup {l}
<1>1. s \in SessionRecords
  BY DEF Books
<1>2. l \in SessionRecords /\ l.id = s.id /\ l.client = s.client /\ l.active = s.active
  BY <1>1, SessionFields
<1> HIDE DEF l
<1>3. \A u, v \in T : u.id = v.id \/ u.client = v.client => u = v
  BY <1>2 DEF Books
<1>4. Names(T) \subseteq A /\ Unanswered(T, C) = Unanswered(S, C)
  BY <1>2 DEF Books, Names, Unanswered
<1>5. \A c \in C : \E u \in T : u.id = c.session /\ u.active
  <2> SUFFICES ASSUME NEW c \in C PROVE \E u \in T : u.id = c.session /\ u.active
    OBVIOUS
  <2>1. PICK u \in S : u.id = c.session /\ u.active
    BY DEF Books
  <2> QED BY <2>1, <1>2
<1>6. T \subseteq SessionRecords
  BY <1>2 DEF Books
<1> HIDE DEF T
<1>7. Books(T, C, A, R)
  BY <1>3, <1>4, <1>5, <1>6 DEF Books
<1> QED BY <1>7 DEF T, l

\* The deadline of a command passes.
LEMMA BooksLateCommand ==
    ASSUME NEW S, NEW C, NEW A, NEW R, Books(S, C, A, R), NEW c \in C
    PROVE  Books(S, (C \ {c}) \cup {[c EXCEPT !.late = TRUE]}, A, R)
<1> DEFINE l == [c EXCEPT !.late = TRUE]
           B == (C \ {c}) \cup {l}
<1>1. c \in CommandRecords
  BY DEF Books
<1>2. l \in CommandRecords /\ l.id = c.id /\ l.session = c.session
  BY <1>1, CommandFields
<1> HIDE DEF l
<1>3. \A d, e \in B : d.id = e.id => d = e
  BY <1>2 DEF Books
<1>4. Names(B) \subseteq A /\ Unanswered(S, B) = Unanswered(S, C)
  BY <1>2 DEF Books, Names, Unanswered
<1>5. \A d \in B : \E u \in S : u.id = d.session /\ u.active
  BY <1>2 DEF Books
<1>6. B \subseteq CommandRecords
  BY <1>2 DEF Books
<1> HIDE DEF B
<1>7. Books(S, B, A, R)
  BY <1>3, <1>4, <1>5, <1>6 DEF Books
<1> QED BY <1>7 DEF B, l

\* A client agrees to a session.
LEMMA BooksActivate ==
    ASSUME NEW S, NEW C, NEW A, NEW R, Books(S, C, A, R), NEW s \in S, ~s.active
    PROVE  Books((S \ {s}) \cup {[s EXCEPT !.active = TRUE]}, C, A, Answered(R, {s.id}))
<1> DEFINE l == [s EXCEPT !.active = TRUE]
           T == (S \ {s}) \cup {l}
<1>1. s \in SessionRecords /\ s.id \in A
  BY DEF Books, Names
<1>2. l \in SessionRecords /\ l.id = s.id /\ l.client = s.client /\ l.active
  BY <1>1, SessionFields
<1> HIDE DEF l
<1>3. \A u, v \in T : u.id = v.id \/ u.client = v.client => u = v
  BY <1>2 DEF Books
<1>4. Names(T) \subseteq A
  BY <1>2 DEF Books, Names
<1>5. Unanswered(T, C) = Unanswered(S, C) \ {s.id} /\ s.id \in Unanswered(S, C)
  <2>1. \A u \in S : u.id = s.id => u = s
    BY DEF Books
  <2>2. \A c \in C : c.id # s.id
    BY BridgeAssumption DEF Books, SessionRecords, CommandRecords
  <2> QED BY <1>2, <2>1, <2>2 DEF Names, Unanswered
<1>6. \A c \in C : \E u \in T : u.id = c.session /\ u.active
  BY <1>2 DEF Books
<1>7. T \subseteq SessionRecords
  BY <1>2 DEF Books
<1>8. Answered(R, {s.id}) \in [Requests -> Nat]
  BY AnsweredType DEF Books
<1>9. \A r \in Requests : Answered(R, {s.id})[r] = IF r \in A \ Unanswered(T, C) THEN 1 ELSE 0
  <2> HIDE DEF T
  <2> QED BY <1>1, <1>5, AnsweredType DEF Books
<1> HIDE DEF T
<1>10. Books(T, C, A, Answered(R, {s.id}))
  BY <1>3, <1>4, <1>6, <1>7, <1>8, <1>9 DEF Books
<1> QED BY <1>10 DEF T, l

-----------------------------------------------------------------------------
(* The invariant.                                                          *)

\* The types of the sockets, of the database and of what the threads hold.
Threads ==
    /\ socket \in [Connections -> {"new", "open", "closed", "gone"}]
    /\ access \in [Configurators -> Roles]
    /\ reader \in [Connections -> ReaderRecords]
    /\ writer \in [Configurators -> Roles]
    /\ entitled \in [Clients -> BOOLEAN]
    /\ leaked \in BOOLEAN

BooksAgree == Books(sessions, commands, accepted, results)

\* Sessions join registered participants.
Held == \A s \in sessions : s.configurator \in peers /\ s.client \in peers

\* The participants and what they were told of each other.
Presence ==
    /\ peers \subseteq Connections
    /\ role \in [Configurators -> Roles]
    /\ shown \in [Configurators -> SUBSET Connections]
    /\ PresenceIsCurrent

\* The inductive invariant.
Inv == Threads /\ BooksAgree /\ Held /\ Presence

tables == <<peers, role, requestVars, shown>>

\* A step that leaves the participants and the books alone.
LEMMA QuietStep ==
    ASSUME Inv, UNCHANGED tables, Threads'
    PROVE  Inv'
<1>1. UNCHANGED <<peers, role, sessions, commands, accepted, results, shown>>
  BY DEF tables, requestVars
<1>2. BooksAgree'
  BY <1>1 DEF Inv, BooksAgree
<1>3. Held' /\ Presence'
  BY <1>1 DEF Inv, Held, Presence, PresenceIsCurrent, Roster
<1> QED BY <1>2, <1>3 DEF Inv

\* A step of the books among participants that stay.
LEMMA BooksStep ==
    ASSUME Inv, UNCHANGED <<peers, role, shown>>, Threads', BooksAgree', Held'
    PROVE  Inv'
BY DEF Inv, Presence, PresenceIsCurrent, Roster

\* end.
LEMMA EndKeepsBooks ==
    ASSUME BooksAgree, NEW S \in SUBSET sessions, End(S), accepted' = accepted
    PROVE  BooksAgree' /\ sessions' = sessions \ S
<1>1. /\ sessions' = sessions \ S /\ commands' = commands \ Waiting(S)
      /\ results' = Answered(results, AnsweredByEnd(S))
  BY DEF End, Answer, Answered
<1>2. Waiting(S) \subseteq commands /\ \A c \in commands : c.session \in Names(S) => c \in Waiting(S)
  BY DEF Waiting
<1>3. AnsweredByEnd(S) = Unanswered(S, Waiting(S))
  BY DEF AnsweredByEnd, Unanswered
<1>4. Books(sessions \ S, commands \ Waiting(S), accepted, Answered(results, AnsweredByEnd(S)))
  BY <1>2, <1>3, BooksRemove DEF BooksAgree
<1> QED BY <1>1, <1>4 DEF BooksAgree

\* What expiry, and the end of the sessions S after it, leave.
LEMMA BooksExpire ==
    ASSUME BooksAgree, NEW S \in SUBSET sessions
    PROVE  Books(Live \ S, LiveCommands \ Waiting(S), accepted,
                 Answered(results, AnsweredByExpiry \cup AnsweredByEnd(S)))
<1> DEFINE D == Expired \cup S
           E == Late \cup Waiting(Expired) \cup Waiting(S)
           X == AnsweredByExpiry \cup AnsweredByEnd(S)
<1>1. D \in SUBSET sessions /\ E \in SUBSET commands
  BY DEF Expired, Late, Waiting
<1>2. \A c \in commands : c.session \in Names(D) => c \in E
  BY DEF Waiting, Names
<1>3. Late \subseteq Waiting(sessions)
  BY DEF Late, Waiting, BooksAgree, Books, Names
<1>4. X = Unanswered(D, E)
  <2>1. AnsweredByExpiry = Unanswered(Expired, Late \cup Waiting(Expired))
    BY <1>3 DEF AnsweredByExpiry, AnsweredByEnd, Unanswered, Names
  <2>2. AnsweredByEnd(S) = Unanswered(S, Waiting(S))
    BY DEF AnsweredByEnd, Unanswered
  <2>3. Unanswered(D, E) = Unanswered(Expired, Late \cup Waiting(Expired)) \cup Unanswered(S, Waiting(S))
    BY DEF Unanswered, Names
  <2> QED BY <2>1, <2>2, <2>3
<1>5. Live \ S = sessions \ D /\ LiveCommands \ Waiting(S) = commands \ E
  BY DEF Live, LiveCommands
<1> HIDE DEF D, E, X
<1>6. Books(sessions \ D, commands \ E, accepted, Answered(results, X))
  BY <1>1, <1>2, <1>4, BooksRemove DEF BooksAgree
<1> QED BY <1>5, <1>6 DEF X

\* Expiry alone.
LEMMA BooksLive ==
    ASSUME BooksAgree
    PROVE  Books(Live, LiveCommands, accepted, Answered(results, AnsweredByExpiry))
<1>1. Waiting({}) = {} /\ AnsweredByEnd({}) = {}
  BY DEF Waiting, AnsweredByEnd, Names
<1>2. Books(Live \ {}, LiveCommands \ Waiting({}), accepted,
            Answered(results, AnsweredByExpiry \cup AnsweredByEnd({})))
  BY BooksExpire
<1>3. /\ Live \ {} = Live /\ LiveCommands \ Waiting({}) = LiveCommands
      /\ AnsweredByExpiry \cup AnsweredByEnd({}) = AnsweredByExpiry
  BY <1>1
<1> QED BY <1>2, <1>3

\* A step that only ends sessions.
LEMMA ExpireStep ==
    ASSUME Inv, NEW S \in SUBSET sessions, ExpireAndEnd(S),
           UNCHANGED <<peers, role, accepted, shown>>, Threads'
    PROVE  Inv'
<1>1. /\ sessions' = Live \ S /\ commands' = LiveCommands \ Waiting(S)
      /\ results' = Answered(results, AnsweredByExpiry \cup AnsweredByEnd(S))
  BY DEF ExpireAndEnd, Answer, Answered
<1>2. BooksAgree'
  <2>1. Books(Live \ S, LiveCommands \ Waiting(S), accepted,
              Answered(results, AnsweredByExpiry \cup AnsweredByEnd(S)))
    BY BooksExpire DEF Inv
  <2> QED BY <1>1, <2>1 DEF BooksAgree
<1>3. Held'
  BY <1>1 DEF Inv, Held, Live
<1> QED BY <1>2, <1>3, BooksStep

\* A broadcast tells every participant of the others.
LEMMA BroadcastTells ==
    ASSUME Presence, peers' \subseteq Connections, role' \in [Configurators -> Roles],
           Broadcast(peers', role')
    PROVE  Presence'
<1>1. shown' = [x \in Configurators |->
                  IF x \in peers' THEN Roster(x, peers', role') ELSE shown[x]]
  BY DEF Broadcast
<1>2. \A x \in Configurators : Roster(x, peers', role') \subseteq Connections
  BY DEF Roster
<1>3. shown' \in [Configurators -> SUBSET Connections]
  BY <1>1, <1>2 DEF Presence
<1>4. PresenceIsCurrent'
  BY <1>1 DEF PresenceIsCurrent, Roster
<1> QED BY <1>3, <1>4 DEF Presence

\* Check applies its answer.
LEMMA ApplyCheckStep ==
    ASSUME Inv, NEW x \in Configurators, NEW a \in Roles, ApplyCheck(x, a), Threads'
    PROVE  Inv'
<1>1. /\ role' = [role EXCEPT ![x] = a] /\ End(Revoked(x, a))
      /\ peers' = peers /\ accepted' = accepted
      /\ IF role[x] # a THEN Broadcast(peers, role') ELSE shown' = shown
  BY DEF ApplyCheck, RoleChanges
<1>2. Revoked(x, a) \in SUBSET sessions
  BY DEF Revoked, Controlled
<1>3. BooksAgree' /\ sessions' \subseteq sessions
  BY <1>1, <1>2, EndKeepsBooks DEF Inv
<1>4. Held'
  BY <1>1, <1>3 DEF Inv, Held
<1>5. role' \in [Configurators -> Roles] /\ peers' \subseteq Connections
  BY <1>1 DEF Inv, Presence
<1>6. Presence'
  <2>1. CASE role[x] # a
    BY <1>1, <1>5, <2>1, BroadcastTells DEF Inv
  <2>2. CASE role[x] = a
    <3>1. role' = role /\ shown' = shown
      BY <1>1, <2>2 DEF Inv, Presence
    <3> QED BY <1>1, <3>1 DEF Inv, Presence, PresenceIsCurrent, Roster
  <2> QED BY <2>1, <2>2
<1> QED BY <1>3, <1>4, <1>6 DEF Inv

\* Leave.
LEMMA LeaveStep ==
    ASSUME Inv, NEW x, Leave(x), Threads'
    PROVE  Inv'
<1>1. CASE x \notin peers
  BY <1>1, QuietStep DEF Leave, tables
<1>2. CASE x \in peers
  <2>1. /\ peers' = peers \ {x} /\ End(Between(x)) /\ Broadcast(peers', role)
        /\ UNCHANGED <<role, accepted>>
    BY <1>2 DEF Leave
  <2>2. Between(x) \in SUBSET sessions
    BY DEF Between
  <2>3. BooksAgree' /\ sessions' = sessions \ Between(x)
    BY <2>1, <2>2, EndKeepsBooks DEF Inv
  <2>4. Held'
    BY <2>1, <2>3 DEF Inv, Held, Between
  <2>5. Presence'
    BY <2>1, BroadcastTells DEF Inv, Presence
  <2> QED BY <2>3, <2>4, <2>5 DEF Inv
<1> QED BY <1>1, <1>2

-----------------------------------------------------------------------------
(* The steps.                                                              *)

LEMMA InitInv == Init => Inv
<1> SUFFICES ASSUME Init PROVE Inv
  OBVIOUS
<1>1. Threads
  BY DEF Init, Threads, Idle, ReaderRecords, Roles
<1>2. BooksAgree
  BY DEF Init, BooksAgree, Books, Names, Unanswered
<1>3. Held /\ Presence
  BY DEF Init, Held, Presence, PresenceIsCurrent, Roles
<1> QED BY <1>1, <1>2, <1>3 DEF Inv

\* Only sockets, grants or what a thread holds change.
LEMMA ThreadStep ==
    ASSUME Inv,
           \/ \E x \in Connections : Break(x)
           \/ \E x \in Configurators, a \in Roles : Administer(x, a)
           \/ \E x \in Configurators : Tick(x) \/ TickFails(x) \/ Hello(x) \/ Receive(x)
           \/ \E t \in Clients : AskController(t) \/ ControllerCloses(t)
           \/ \E t \in Clients, s \in sessions : Respond(t, s)
    PROVE  Inv'
<1>1. UNCHANGED tables
  BY DEF Break, Administer, Tick, TickFails, Hello, Receive, AskController, ControllerCloses,
         Respond, tables
<1>2. Threads'
  <2>1. CASE \E x \in Connections : Break(x)
    BY <2>1 DEF Inv, Threads, Break, Shut, threadVars, observers
  <2>2. CASE \E x \in Configurators, a \in Roles : Administer(x, a)
    BY <2>2 DEF Inv, Threads, Administer, threadVars
  <2>3. CASE \E x \in Configurators : Tick(x) \/ TickFails(x)
    BY <2>3 DEF Inv, Threads, Tick, TickFails, Shut, threadVars, observers, Connections
  <2>4. CASE \E x \in Configurators : Hello(x) \/ Receive(x)
    <3>1. PICK x \in Configurators : Hello(x) \/ Receive(x)
      BY <2>4
    <3>2. access[x] \in Roles /\ x \in Connections
      BY DEF Inv, Threads, Connections
    <3>3. /\ [Idle EXCEPT !.at = "joining", !.answer = access[x]] \in ReaderRecords
          /\ [Idle EXCEPT !.at = "checked", !.answer = access[x]] \in ReaderRecords
      BY <3>2 DEF Idle, ReaderRecords
    <3> QED BY <3>1, <3>2, <3>3 DEF Inv, Threads, Hello, Receive, observers
  <2>5. CASE \E t \in Clients : AskController(t) \/ ControllerCloses(t)
    <3>1. PICK t \in Clients : AskController(t) \/ ControllerCloses(t)
      BY <2>5
    <3>2. reader[t] \in ReaderRecords /\ t \in Connections
      BY DEF Inv, Threads, Connections
    <3>3. CASE AskController(t)
      <4>1. CASE /\ Controller(t) \in peers
                 /\ reader' = [reader EXCEPT ![t].at = "checked", ![t].answer = access[Controller(t)]]
        <5>1. Controller(t) \in Configurators
          BY <3>2, <4>1, BridgeAssumption DEF Inv, Presence, ReaderRecords, Controller
        <5>2. access[Controller(t)] \in Roles
          BY <5>1 DEF Inv, Threads
        <5>3. [reader[t] EXCEPT !.at = "checked", !.answer = access[Controller(t)]] \in ReaderRecords
          BY <3>2, <5>2 DEF ReaderRecords
        <5>4. reader' = [reader EXCEPT ![t] =
                 [reader[t] EXCEPT !.at = "checked", !.answer = access[Controller(t)]]]
          BY <3>2, <4>1 DEF Inv, Threads
        <5> QED BY <3>2, <3>3, <5>3, <5>4 DEF Inv, Threads, AskController, observers
      <4>2. CASE reader' = [reader EXCEPT ![t].at = "leave"]
        <5>1. [reader[t] EXCEPT !.at = "leave"] \in ReaderRecords
          BY <3>2 DEF ReaderRecords
        <5> QED BY <3>2, <3>3, <4>2, <5>1 DEF Inv, Threads, AskController, observers
      <4> QED BY <3>3, <4>1, <4>2 DEF AskController
    <3>4. CASE ControllerCloses(t)
      <4>1. [reader[t] EXCEPT !.at = "operate"] \in ReaderRecords
        BY <3>2 DEF ReaderRecords
      <4> QED BY <3>2, <3>4, <4>1 DEF Inv, Threads, ControllerCloses, Shut, observers
    <3> QED BY <3>1, <3>3, <3>4
  <2>6. CASE \E t \in Clients, s \in sessions : Respond(t, s)
    <3>1. PICK t \in Clients, s \in sessions : Respond(t, s)
      BY <2>6
    <3>2. s \in SessionRecords /\ t \in Connections
      BY DEF Inv, BooksAgree, Books, Connections
    <3>3. [at |-> "controller", answer |-> "none", session |-> s.id,
           controller |-> s.configurator] \in ReaderRecords
      BY <3>2 DEF SessionRecords, ReaderRecords, Roles
    <3> QED BY <3>1, <3>2, <3>3 DEF Inv, Threads, Respond, FirstStep
  <2> QED BY <2>1, <2>2, <2>3, <2>4, <2>5, <2>6
<1> QED BY <1>1, <1>2, QuietStep

\* A socket is cleaned up, or a controller that lost access is made to leave.
LEMMA LeavingStep ==
    ASSUME Inv,
           (\E x \in Connections : CleanUp(x)) \/ (\E t \in Clients : ControllerLeaves(t))
    PROVE  Inv'
<1>1. CASE \E x \in Connections : CleanUp(x)
  <2>1. PICK x \in Connections : CleanUp(x)
    BY <1>1
  <2>2. Threads'
    BY <2>1 DEF Inv, Threads, CleanUp, threadVars, observers
  <2> QED BY <2>1, <2>2, LeaveStep DEF CleanUp
<1>2. CASE \E t \in Clients : ControllerLeaves(t)
  <2>1. PICK t \in Clients : ControllerLeaves(t)
    BY <1>2
  <2>2. reader[t] \in ReaderRecords /\ t \in Connections
    BY DEF Inv, Threads, Connections
  <2>3. [reader[t] EXCEPT !.at = "close"] \in ReaderRecords
    BY <2>2 DEF ReaderRecords
  <2>4. Threads'
    BY <2>1, <2>2, <2>3 DEF Inv, Threads, ControllerLeaves, observers
  <2> QED BY <2>1, <2>4, LeaveStep DEF ControllerLeaves
<1> QED BY <1>1, <1>2

\* A participant is registered.
LEMMA JoiningStep ==
    ASSUME Inv, (\E x \in Configurators : Join(x)) \/ (\E t \in Clients : JoinClient(t))
    PROVE  Inv'
<1>1. CASE \E x \in Configurators : Join(x)
  <2>1. PICK x \in Configurators : Join(x)
    BY <1>1
  <2>2. x \in Connections /\ reader[x] \in ReaderRecords /\ Idle \in ReaderRecords
    BY DEF Inv, Threads, Connections, Idle, ReaderRecords, Roles
  <2>3. Threads'
    BY <2>1, <2>2 DEF Inv, Threads, Join, observers
  <2>4. BooksAgree' /\ Held'
    BY <2>1 DEF Inv, BooksAgree, Held, Join, requestVars
  <2>5. reader[x].answer \in Roles
    BY <2>2 DEF ReaderRecords
  <2>6. role' \in [Configurators -> Roles] /\ peers' \subseteq Connections
    BY <2>1, <2>2, <2>5 DEF Join, Inv, Presence
  <2>7. Presence'
    BY <2>1, <2>6, BroadcastTells DEF Join, Inv
  <2> QED BY <2>3, <2>4, <2>7 DEF Inv
<1>2. CASE \E t \in Clients : JoinClient(t)
  <2>1. PICK t \in Clients : JoinClient(t)
    BY <1>2
  <2>2. Threads'
    BY <2>1 DEF Inv, Threads, JoinClient, threadVars, observers
  <2>3. BooksAgree' /\ Held'
    BY <2>1 DEF Inv, BooksAgree, Held, JoinClient, requestVars
  <2>4. role' = role /\ peers' \subseteq Connections /\ Broadcast(peers', role')
    BY <2>1 DEF JoinClient, Inv, Presence, Connections
  <2>5. Presence'
    BY <2>4, BroadcastTells DEF Inv, Presence
  <2> QED BY <2>2, <2>3, <2>5 DEF Inv
<1> QED BY <1>1, <1>2

\* A check that was under way applies its answer, or finds nobody.
LEMMA CheckStep ==
    ASSUME Inv,
           \/ \E x \in Configurators : TickApplies(x) \/ Checked(x)
           \/ \E t \in Clients : ControllerChecked(t)
    PROVE  Inv'
<1>1. ASSUME NEW x \in Configurators, TickApplies(x) PROVE Inv'
  <2>1. writer[x] \in Roles
    BY DEF Inv, Threads
  <2>2. Threads'
    BY <1>1 DEF Inv, Threads, TickApplies, Shut, observers, Roles
  <2>3. CASE x \in peers
    BY <1>1, <2>1, <2>2, <2>3, ApplyCheckStep DEF TickApplies
  <2>4. CASE x \notin peers
    BY <1>1, <2>2, <2>4, QuietStep DEF TickApplies, tables
  <2> QED BY <2>3, <2>4
<1>2. ASSUME NEW x \in Configurators, Checked(x) PROVE Inv'
  <2>1. reader[x] \in ReaderRecords /\ x \in Connections
    BY DEF Inv, Threads, Connections
  <2>2. reader[x].answer \in Roles
    BY <2>1 DEF ReaderRecords
  <2>3. Idle \in ReaderRecords /\ [Idle EXCEPT !.at = "operate"] \in ReaderRecords
    BY DEF Idle, ReaderRecords, Roles
  <2>4. Threads'
    BY <1>2, <2>1, <2>3 DEF Inv, Threads, Checked, observers
  <2>5. CASE x \in peers
    BY <1>2, <2>2, <2>4, <2>5, ApplyCheckStep DEF Checked
  <2>6. CASE x \notin peers
    BY <1>2, <2>4, <2>6, QuietStep DEF Checked, tables
  <2> QED BY <2>5, <2>6
<1>3. ASSUME NEW t \in Clients, ControllerChecked(t) PROVE Inv'
  <2>1. reader[t] \in ReaderRecords /\ t \in Connections
    BY DEF Inv, Threads, Connections
  <2>2. reader[t].answer \in Roles /\ "none" \in Roles
    BY <2>1 DEF ReaderRecords, Roles
  <2>3. /\ [reader[t] EXCEPT !.at = "operate", !.answer = "none"] \in ReaderRecords
        /\ [reader[t] EXCEPT !.at = "leave", !.answer = "none"] \in ReaderRecords
    BY <2>1, <2>2 DEF ReaderRecords
  <2>4. \E r \in ReaderRecords : reader' = [reader EXCEPT ![t] = r]
    <3>1. CASE reader' = [reader EXCEPT ![t].at = "operate", ![t].answer = "none"]
      <4>1. reader' = [reader EXCEPT ![t] = [reader[t] EXCEPT !.at = "operate", !.answer = "none"]]
        BY <2>1, <3>1 DEF Inv, Threads
      <4> QED BY <2>3, <4>1
    <3>2. CASE reader' = [reader EXCEPT ![t].at = "leave", ![t].answer = "none"]
      <4>1. reader' = [reader EXCEPT ![t] = [reader[t] EXCEPT !.at = "leave", !.answer = "none"]]
        BY <2>1, <3>2 DEF Inv, Threads
      <4> QED BY <2>3, <4>1
    <3> QED BY <1>3, <3>1, <3>2 DEF ControllerChecked
  <2>5. Threads'
    BY <1>3, <2>1, <2>4 DEF Inv, Threads, ControllerChecked, observers
  <2>6. CASE Controller(t) \in peers
    <3>1. Controller(t) \in Configurators
      BY <2>1, <2>6, BridgeAssumption DEF Inv, Presence, ReaderRecords, Controller
    <3> QED BY <1>3, <2>2, <2>5, <2>6, <3>1, ApplyCheckStep DEF ControllerChecked
  <2>7. CASE Controller(t) \notin peers
    BY <1>3, <2>5, <2>7, QuietStep DEF ControllerChecked, tables
  <2> QED BY <2>6, <2>7
<1> QED BY <1>1, <1>2, <1>3

\* Deadlines pass.
LEMMA DeadlineStep ==
    ASSUME Inv,
           (\E s \in sessions : SessionDeadline(s)) \/ (\E c \in commands : CommandDeadline(c))
    PROVE  Inv'
<1>1. Threads' /\ UNCHANGED <<peers, role, shown, accepted, results>>
  BY DEF Inv, Threads, SessionDeadline, CommandDeadline, threadVars, observers
<1>2. CASE \E s \in sessions : SessionDeadline(s)
  <2>1. PICK s \in sessions : SessionDeadline(s)
    BY <1>2
  <2>2. sessions' = (sessions \ {s}) \cup {[s EXCEPT !.late = TRUE]} /\ commands' = commands
    BY <2>1 DEF SessionDeadline
  <2>3. BooksAgree'
    BY <1>1, <2>2, BooksLateSession DEF Inv, BooksAgree
  <2>4. s \in SessionRecords
    BY DEF Inv, BooksAgree, Books
  <2>5. Held'
    BY <1>1, <2>2, <2>4, SessionFields DEF Inv, Held
  <2> QED BY <1>1, <2>3, <2>5, BooksStep
<1>3. CASE \E c \in commands : CommandDeadline(c)
  <2>1. PICK c \in commands : CommandDeadline(c)
    BY <1>3
  <2>2. commands' = (commands \ {c}) \cup {[c EXCEPT !.late = TRUE]} /\ sessions' = sessions
    BY <2>1 DEF CommandDeadline
  <2>3. BooksAgree'
    BY <1>1, <2>2, BooksLateCommand DEF Inv, BooksAgree
  <2>4. Held'
    BY <1>1, <2>2 DEF Inv, Held
  <2> QED BY <1>1, <2>3, <2>4, BooksStep
<1> QED BY <1>2, <1>3

\* An operation leaves its reader idle.
LEMMA OperatesThreads ==
    ASSUME Inv, NEW x \in Connections, Operates(x), UNCHANGED <<socket, access, writer>>,
           entitled' \in [Clients -> BOOLEAN], leaked' \in BOOLEAN
    PROVE  Threads'
<1>1. Idle \in ReaderRecords
  BY DEF Idle, ReaderRecords, Roles
<1> QED BY <1>1 DEF Operates, Inv, Threads

\* The operations of a configurator.
LEMMA OperationStep ==
    ASSUME Inv, NEW x \in Configurators, Operation(x)
    PROVE  Inv'
<1>1. x \in Connections /\ Operates(x) /\ Threads' /\ UNCHANGED <<peers, role, shown>>
  <2>1. x \in Connections /\ Operates(x) /\ UNCHANGED <<socket, access, writer, observers>>
        /\ UNCHANGED <<peers, role, shown>>
    BY DEF Operation, RequestSession, RequestCommand, EndSession, Refuse, Connections
  <2>2. entitled' \in [Clients -> BOOLEAN] /\ leaked' \in BOOLEAN
    BY <2>1 DEF observers, Inv, Threads
  <2> QED BY <2>1, <2>2, OperatesThreads
<1>2. Live \subseteq sessions
  BY DEF Live
<1>3. Books(Live, LiveCommands, accepted, Answered(results, AnsweredByExpiry))
  BY BooksLive DEF Inv
<1>4. ASSUME NEW t \in Clients, NEW id \in Sessions, RequestSession(x, t, id)
      PROVE  Inv'
  <2> DEFINE s == [id |-> id, configurator |-> x, client |-> t, active |-> FALSE, late |-> FALSE]
  <2>1. /\ x \in peers /\ t \in peers /\ id \notin accepted /\ ~Busy(t)
        /\ sessions' = Live \cup {s} /\ commands' = LiveCommands
        /\ results' = Answered(results, AnsweredByExpiry) /\ accepted' = accepted \cup {id}
    BY <1>4 DEF RequestSession, Answer, Answered
  <2>2. s \in SessionRecords /\ s.id = id /\ ~s.active /\ s.client = t /\ s.configurator = x
    BY DEF SessionRecords
  <2>3. \A u \in Live : u.client # t
    BY <2>1 DEF Busy
  <2> HIDE DEF s
  <2>4. Books(Live \cup {s}, LiveCommands, accepted \cup {id}, Answered(results, AnsweredByExpiry))
    BY <1>3, <2>1, <2>2, <2>3, BooksAddSession
  <2>5. BooksAgree'
    BY <2>1, <2>4 DEF BooksAgree
  <2>6. Held'
    BY <1>1, <1>2, <2>1, <2>2 DEF Inv, Held
  <2> QED BY <1>1, <2>5, <2>6, BooksStep
<1>5. ASSUME NEW s \in sessions, NEW id \in Commands, RequestCommand(x, s, id)
      PROVE  Inv'
  <2>1. /\ id \notin accepted /\ s \in Live /\ s.active /\ accepted' = accepted \cup {id}
    BY <1>5 DEF RequestCommand
  <2>2. s \in SessionRecords
    BY DEF Inv, BooksAgree, Books
  <2>3. CASE socket[s.client] = "open"
    <3> DEFINE c == [id |-> id, session |-> s.id, late |-> FALSE]
    <3>1. /\ sessions' = Live /\ commands' = LiveCommands \cup {c}
          /\ results' = Answered(results, AnsweredByExpiry)
      BY <1>5, <2>3 DEF RequestCommand, Answer, Answered
    <3>2. c \in CommandRecords /\ c.id = id /\ c.session = s.id
      BY <2>2 DEF CommandRecords, SessionRecords
    <3> HIDE DEF c
    <3>3. Books(Live, LiveCommands \cup {c}, accepted \cup {id}, Answered(results, AnsweredByExpiry))
      BY <1>3, <2>1, <3>2, BooksAddCommand
    <3>4. BooksAgree' /\ Held'
      BY <1>1, <1>2, <2>1, <3>1, <3>3 DEF Inv, BooksAgree, Held
    <3> QED BY <1>1, <3>4, BooksStep
  <2>4. CASE socket[s.client] # "open"
    <3> DEFINE X == AnsweredByExpiry \cup AnsweredByEnd({s})
    <3>1. /\ sessions' = Live \ {s} /\ commands' = LiveCommands \ Waiting({s})
          /\ results' = Answered(results, X \cup {id})
      BY <1>5, <2>4 DEF RequestCommand, Answer, Answered
    <3>2. Books(Live \ {s}, LiveCommands \ Waiting({s}), accepted, Answered(results, X))
      BY BooksExpire DEF Inv
    <3>3. id \in Requests
      BY DEF Requests
    <3>4. Books(Live \ {s}, LiveCommands \ Waiting({s}), accepted \cup {id},
                Answered(Answered(results, X), {id}))
      BY <2>1, <3>2, <3>3, BooksAnswerNow
    <3>5. X \subseteq accepted
      BY DEF AnsweredByExpiry, AnsweredByEnd, Expired, Late, Waiting, Names, Inv, BooksAgree, Books
    <3>6. results \in [Requests -> Nat]
      BY DEF Inv, BooksAgree, Books
    <3>7. Answered(Answered(results, X), {id}) = Answered(results, X \cup {id})
      <4> HIDE DEF X
      <4> QED BY <2>1, <3>5, <3>6, AnsweredTwice
    <3>8. BooksAgree'
      BY <2>1, <3>1, <3>4, <3>7 DEF BooksAgree
    <3>9. Held'
      BY <1>1, <1>2, <3>1 DEF Inv, Held
    <3> QED BY <1>1, <3>8, <3>9, BooksStep
  <2> QED BY <2>3, <2>4
<1>6. ASSUME NEW s \in sessions, EndSession(x, s) PROVE Inv'
  <2>1. ExpireAndEnd({s}) /\ accepted' = accepted /\ {s} \in SUBSET sessions
    BY <1>6 DEF EndSession
  <2> QED BY <1>1, <2>1, ExpireStep
<1>7. CASE Refuse(x)
  <2>1. CASE x \in peers
    <3>1. ExpireAndEnd({}) /\ accepted' = accepted /\ {} \in SUBSET sessions
      BY <1>7, <2>1 DEF Refuse
    <3> QED BY <1>1, <3>1, ExpireStep
  <2>2. CASE x \notin peers
    BY <1>1, <1>7, <2>2, QuietStep DEF Refuse, tables, requestVars
  <2> QED BY <2>1, <2>2
<1> QED BY <1>4, <1>5, <1>6, <1>7 DEF Operation

\* The responses of a client, and the end of a session it asks for.
LEMMA ResponseStep ==
    ASSUME Inv, NEW t \in Clients,
           Response(t) \/ (\E s \in sessions : ClientEnds(t, s))
    PROVE  Inv'
<1>1. CASE \E s \in sessions : ClientEnds(t, s)
  <2>1. PICK s \in sessions : ClientEnds(t, s)
    BY <1>1
  <2>2. Threads' /\ UNCHANGED <<peers, role, accepted, shown>> /\ ExpireAndEnd({s})
    BY <2>1 DEF ClientEnds, Inv, Threads, threadVars, observers
  <2> QED BY <2>2, ExpireStep
<1>2. CASE Response(t)
  <2>1. OperatesFor(t) /\ leaked' \in BOOLEAN
    BY <1>2 DEF Response, Accept, Decline, CommandResult, ForwardEvent, RefuseResponse, Forwarded,
                Inv, Threads
  <2>2. Threads' /\ UNCHANGED <<peers, role, accepted, shown>>
    <3>1. Operates(t) /\ UNCHANGED <<socket, access, writer>> /\ t \in Connections
          /\ UNCHANGED <<peers, role, accepted, shown>>
      BY <2>1 DEF OperatesFor, Connections
    <3>2. entitled' \in [Clients -> BOOLEAN]
      BY <2>1 DEF OperatesFor, Inv, Threads
    <3> QED BY <2>1, <3>1, <3>2, OperatesThreads
  <2>3. Named(t) \subseteq Live /\ Live \subseteq sessions
    BY DEF Named, Live
  <2>4. Books(Live, LiveCommands, accepted, Answered(results, AnsweredByExpiry))
    BY BooksLive DEF Inv
  <2>5. results \in [Requests -> Nat]
    BY DEF Inv, BooksAgree, Books
  <2>6. CASE Accept(t)
    <3>1. PICK s \in Named(t) :
            /\ ~s.active
            /\ sessions' = (Live \ {s}) \cup {[s EXCEPT !.active = TRUE]}
            /\ commands' = LiveCommands
            /\ results' = Answered(results, AnsweredByExpiry \cup {s.id})
      BY <2>6 DEF Accept, Answer, Answered
    <3>2. Books((Live \ {s}) \cup {[s EXCEPT !.active = TRUE]}, LiveCommands, accepted,
                Answered(Answered(results, AnsweredByExpiry), {s.id}))
      BY <2>3, <2>4, <3>1, BooksActivate
    <3>3. s.id \notin AnsweredByExpiry
      <4>1. s \in sessions /\ s \notin Expired
        BY <2>3, <3>1 DEF Live
      <4>2. \A u \in sessions : u.id = s.id => u = s
        BY <4>1 DEF Inv, BooksAgree, Books
      <4>3. \A c \in commands : c.id # s.id
        BY <4>1, BridgeAssumption DEF Inv, BooksAgree, Books, SessionRecords, CommandRecords
      <4> QED BY <4>1, <4>2, <4>3 DEF AnsweredByExpiry, AnsweredByEnd, Names, Expired, Late, Waiting
    <3>4. Answered(Answered(results, AnsweredByExpiry), {s.id})
            = Answered(results, AnsweredByExpiry \cup {s.id})
      BY <2>5, <3>3, AnsweredTwice
    <3>5. BooksAgree'
      BY <2>2, <3>1, <3>2, <3>4 DEF BooksAgree
    <3>6. s \in sessions /\ s \in SessionRecords
      BY <2>3, <3>1 DEF Inv, BooksAgree, Books
    <3>7. Held'
      BY <2>2, <2>3, <3>1, <3>6, SessionFields DEF Inv, Held
    <3> QED BY <2>2, <3>5, <3>7, BooksStep
  <2>7. CASE CommandResult(t)
    <3>0. PICK s \in Named(t) : \E c \in PendingIn(s) :
            /\ sessions' = Live
            /\ commands' = LiveCommands \ {c}
            /\ results' = Answered(results, AnsweredByExpiry \cup {c.id})
      BY <2>7 DEF CommandResult, Answer, Answered, Delivered
    <3>1. PICK c \in PendingIn(s) :
            /\ sessions' = Live
            /\ commands' = LiveCommands \ {c}
            /\ results' = Answered(results, AnsweredByExpiry \cup {c.id})
      BY <3>0
    <3>2. c \in LiveCommands
      BY <3>1 DEF PendingIn
    <3>3. {c.id} = Unanswered({}, {c})
      BY DEF Unanswered, Names
    <3>4. Books(Live \ {}, LiveCommands \ {c}, accepted,
                Answered(Answered(results, AnsweredByExpiry), {c.id}))
      <4>1. \A d \in LiveCommands : d.session \in Names({}) => d \in {c}
        BY DEF Names
      <4> QED BY <2>4, <3>2, <3>3, <4>1, BooksRemove
    <3>5. c.id \notin AnsweredByExpiry
      <4>1. c \in commands /\ c \notin Late /\ c \notin Waiting(Expired)
        BY <3>2 DEF LiveCommands
      <4>2. \A d \in commands : d.id = c.id => d = c
        BY <4>1 DEF Inv, BooksAgree, Books
      <4>3. \A u \in sessions : u.id # c.id
        BY <4>1, BridgeAssumption DEF Inv, BooksAgree, Books, SessionRecords, CommandRecords
      <4>4. Expired \subseteq sessions /\ Late \subseteq commands /\ Waiting(Expired) \subseteq commands
        BY DEF Expired, Late, Waiting
      <4> QED BY <4>1, <4>2, <4>3, <4>4 DEF AnsweredByExpiry, AnsweredByEnd, Names
    <3>6. Answered(Answered(results, AnsweredByExpiry), {c.id})
            = Answered(results, AnsweredByExpiry \cup {c.id})
      BY <2>5, <3>5, AnsweredTwice
    <3>7. BooksAgree'
      <4>1. Live \ {} = Live
        OBVIOUS
      <4> QED BY <2>2, <3>1, <3>4, <3>6, <4>1 DEF BooksAgree
    <3>8. Held'
      BY <2>2, <2>3, <3>1 DEF Inv, Held
    <3> QED BY <2>2, <3>7, <3>8, BooksStep
  <2>8. CASE Decline(t) \/ ForwardEvent(t) \/ RefuseResponse(t)
    <3>1. \E S \in SUBSET sessions : ExpireAndEnd(S)
      BY <2>3, <2>8 DEF Decline, ForwardEvent, RefuseResponse
    <3> QED BY <2>2, <3>1, ExpireStep
  <2> QED BY <1>2, <2>6, <2>7, <2>8 DEF Response
<1> QED BY <1>1, <1>2

LEMMA NextInv == Inv /\ [Next]_vars => Inv'
<1> SUFFICES ASSUME Inv, [Next]_vars PROVE Inv'
  OBVIOUS
<1>1. CASE UNCHANGED vars
  <2>1. UNCHANGED tables /\ UNCHANGED <<socket, access, reader, writer, entitled, leaked>>
    BY <1>1 DEF vars, tables, threadVars, observers
  <2>2. Threads'
    BY <2>1 DEF Inv, Threads
  <2> QED BY <2>1, <2>2, QuietStep
<1>2. CASE SocketStep
  BY <1>2, ThreadStep, LeavingStep DEF SocketStep
<1>3. CASE Sweep
  <2>1. Threads' /\ UNCHANGED <<peers, role, accepted, shown>> /\ ExpireAndEnd({})
    BY <1>3 DEF Sweep, Inv, Threads, threadVars, observers
  <2> QED BY <2>1, ExpireStep
<1>4. CASE (\E s \in sessions : SessionDeadline(s)) \/ (\E c \in commands : CommandDeadline(c))
  BY <1>4, DeadlineStep
<1>5. CASE \E x \in Configurators, a \in Roles : Administer(x, a)
  BY <1>5, ThreadStep
<1>6. ASSUME NEW x \in Configurators,
             WriterStep(x) \/ Hello(x) \/ Join(x) \/ Receive(x) \/ Checked(x) \/ Operation(x)
      PROVE  Inv'
  <2>1. CASE WriterStep(x)
    BY <2>1, ThreadStep, CheckStep DEF WriterStep
  <2>2. CASE Hello(x) \/ Receive(x)
    BY <2>2, ThreadStep
  <2>3. CASE Join(x)
    BY <2>3, JoiningStep
  <2>4. CASE Checked(x)
    BY <2>4, CheckStep
  <2>5. CASE Operation(x)
    BY <2>5, OperationStep
  <2> QED BY <1>6, <2>1, <2>2, <2>3, <2>4, <2>5
<1>7. ASSUME NEW t \in Clients,
             \/ JoinClient(t)
             \/ \E s \in sessions : Respond(t, s) \/ ClientEnds(t, s)
             \/ ControllerStep(t) \/ Response(t)
      PROVE  Inv'
  <2>1. CASE JoinClient(t)
    BY <2>1, JoiningStep
  <2>2. CASE \E s \in sessions : Respond(t, s)
    BY <2>2, ThreadStep
  <2>3. CASE Response(t) \/ \E s \in sessions : ClientEnds(t, s)
    BY <2>3, ResponseStep
  <2>4. CASE ControllerStep(t)
    BY <2>4, ThreadStep, CheckStep, LeavingStep DEF ControllerStep
  <2> QED BY <1>7, <2>1, <2>2, <2>3, <2>4
<1> QED BY <1>1, <1>2, <1>3, <1>4, <1>5, <1>6, <1>7 DEF Next

-----------------------------------------------------------------------------
(* Theorems.                                                               *)

\* The inductive invariant: the books agree, sessions join participants that
\* are registered, and everyone knows who is there.
THEOREM Invariance == Spec => []Inv
<1>1. Init => Inv
  BY InitInv
<1>2. Inv /\ [Next]_vars => Inv'
  BY NextInv
<1> QED BY <1>1, <1>2, PTL DEF Spec

\* bridge.UseCase answers every request it took on exactly once, whichever of
\* the client, the deadline, a revocation and a lost connection comes first.
THEOREM ResultsCorrect == Spec => []OneResultPerRequest
<1>1. Inv => OneResultPerRequest
  BY DEF Inv, BooksAgree, Books, OneResultPerRequest, Open, Unanswered
<1> QED BY <1>1, Invariance, PTL

\* No session or command of bridge.UseCase outlives a participant, a client is
\* in one session at a time, and commands wait in active sessions only.
THEOREM SessionsCorrect == Spec => []SessionsAreHeld
<1>1. Inv => SessionsAreHeld
  BY DEF Inv, BooksAgree, Books, Held, SessionsAreHeld
<1> QED BY <1>1, Invariance, PTL

\* What broadcast told every configurator is who is there now.
THEOREM PresenceCorrect == Spec => []PresenceIsCurrent
<1>1. Inv => PresenceIsCurrent
  BY DEF Inv, Presence
<1> QED BY <1>1, Invariance, PTL

\* Every variable of bridge.UseCase keeps its type; a result is sent once at
\* most.
THEOREM TypeCorrect == Spec => []TypeOK
<1>1. Inv => TypeOK
  <2> SUFFICES ASSUME Inv PROVE TypeOK
    OBVIOUS
  <2>1. results \in [Requests -> 0 .. 1]
    BY DEF Inv, BooksAgree, Books
  <2> QED BY <2>1 DEF Inv, Threads, BooksAgree, Books, Presence, TypeOK
<1> QED BY <1>1, Invariance, PTL

-----------------------------------------------------------------------------
(* What a client's late response may still bring a controller.             *)
(*                                                                         *)
(* The reader of a client remembers the session and the controller it      *)
(* looked up while the lock is released: for the Check of the controller,  *)
(* then for making it leave and for closing its socket.  In the meantime   *)
(* the grants may change, other threads may apply older answers, and the   *)
(* session may end.  The invariant says what still holds of the remembered *)
(* names at each of these points.                                          *)

\* The session the response of t is about has ended.
Over(t) == \A s \in sessions : s.id # reader[t].session

\* The response of t is being handled.
Asking(t) ==
    /\ reader[t].session \in accepted
    /\ Controller(t) \in Configurators
    /\ \A s \in sessions : s.id = reader[t].session => s.configurator = Controller(t)
    /\ access[Controller(t)] = "editor" => entitled[t]
    /\ reader[t].at = "checked" /\ reader[t].answer = "editor" => entitled[t]
    /\ reader[t].at \in {"close", "operate"} => entitled[t] \/ Over(t)

Handling(t) == reader[t].at = "idle" \/ Asking(t)

RevocationInv == NothingAfterRevocation /\ \A t \in Clients : Handling(t)

-----------------------------------------------------------------------------
(* Sessions come and go.                                                   *)

\* A session there is was there, or was not even requested before.
SessionsLast ==
    /\ accepted \subseteq accepted'
    /\ \A u \in sessions' :
          \/ \E s \in sessions : s.id = u.id /\ s.configurator = u.configurator
          \/ u.id \notin accepted

LEMMA CheckEnds ==
    ASSUME NEW x, NEW a, ApplyCheck(x, a)
    PROVE  accepted' = accepted /\ sessions' = sessions \ Revoked(x, a)
BY DEF ApplyCheck, End

LEMMA LeaveEnds ==
    ASSUME NEW x, Leave(x)
    PROVE  /\ accepted' = accepted /\ sessions' \subseteq sessions
           /\ x \in peers => sessions' = sessions \ Between(x)
BY DEF Leave, End, requestVars

LEMMA ExpiryEnds ==
    ASSUME NEW S, ExpireAndEnd(S)
    PROVE  sessions' \subseteq sessions
BY DEF ExpireAndEnd, Live

\* The steps that remove sessions at most.
LEMMA EndingSteps ==
    ASSUME \/ UNCHANGED vars
           \/ SocketStep \/ Sweep
           \/ \E x \in Configurators, a \in Roles : Administer(x, a)
           \/ \E c \in commands : CommandDeadline(c)
           \/ \E x \in Configurators :
                 \/ WriterStep(x) \/ Hello(x) \/ Join(x) \/ Receive(x) \/ Checked(x) \/ Refuse(x)
                 \/ \E s \in sessions : EndSession(x, s)
           \/ \E t \in Clients :
                 \/ JoinClient(t) \/ ControllerStep(t)
                 \/ \E s \in sessions : Respond(t, s) \/ ClientEnds(t, s)
                 \/ Decline(t) \/ CommandResult(t) \/ ForwardEvent(t) \/ RefuseResponse(t)
    PROVE  accepted' = accepted /\ sessions' \subseteq sessions
<1>1. CASE \/ UNCHANGED vars
           \/ \E x \in Configurators, a \in Roles : Administer(x, a)
           \/ \E c \in commands : CommandDeadline(c)
  BY <1>1 DEF vars, requestVars, Administer, CommandDeadline
<1>2. CASE SocketStep
  BY <1>2, LeaveEnds DEF SocketStep, Break, CleanUp, requestVars
<1>3. CASE Sweep
  BY <1>3, ExpiryEnds DEF Sweep
<1>4. ASSUME NEW x \in Configurators,
             \/ WriterStep(x) \/ Hello(x) \/ Join(x) \/ Receive(x) \/ Checked(x) \/ Refuse(x)
             \/ \E s \in sessions : EndSession(x, s)
      PROVE  accepted' = accepted /\ sessions' \subseteq sessions
  <2>1. CASE WriterStep(x)
    <3>1. CASE Tick(x) \/ TickFails(x)
      BY <3>1 DEF Tick, TickFails, requestVars
    <3>2. CASE TickApplies(x)
      BY <3>2, CheckEnds DEF TickApplies, requestVars
    <3> QED BY <2>1, <3>1, <3>2 DEF WriterStep
  <2>2. CASE Hello(x) \/ Join(x) \/ Receive(x)
    BY <2>2 DEF Hello, Join, Receive, requestVars
  <2>3. CASE Checked(x)
    BY <2>3, CheckEnds DEF Checked, requestVars
  <2>4. CASE Refuse(x) \/ \E s \in sessions : EndSession(x, s)
    BY <2>4, ExpiryEnds DEF Refuse, EndSession
  <2> QED BY <1>4, <2>1, <2>2, <2>3, <2>4
<1>5. ASSUME NEW t \in Clients,
             \/ JoinClient(t) \/ ControllerStep(t)
             \/ \E s \in sessions : Respond(t, s) \/ ClientEnds(t, s)
             \/ Decline(t) \/ CommandResult(t) \/ ForwardEvent(t) \/ RefuseResponse(t)
      PROVE  accepted' = accepted /\ sessions' \subseteq sessions
  <2>1. CASE JoinClient(t) \/ \E s \in sessions : Respond(t, s)
    BY <2>1 DEF JoinClient, Respond, requestVars
  <2>2. CASE ControllerStep(t)
    <3>1. CASE AskController(t) \/ ControllerCloses(t)
      BY <3>1 DEF AskController, ControllerCloses, requestVars
    <3>2. CASE ControllerChecked(t)
      BY <3>2, CheckEnds DEF ControllerChecked, requestVars
    <3>3. CASE ControllerLeaves(t)
      BY <3>3, LeaveEnds DEF ControllerLeaves
    <3> QED BY <2>2, <3>1, <3>2, <3>3 DEF ControllerStep
  <2>3. CASE \E s \in sessions : ClientEnds(t, s)
    BY <2>3, ExpiryEnds DEF ClientEnds
  <2>4. CASE Decline(t) \/ CommandResult(t) \/ ForwardEvent(t) \/ RefuseResponse(t)
    BY <2>4, ExpiryEnds DEF Decline, CommandResult, ForwardEvent, RefuseResponse, OperatesFor, Live
  <2> QED BY <1>5, <2>1, <2>2, <2>3, <2>4
<1> QED BY <1>1, <1>2, <1>3, <1>4, <1>5

LEMMA SessionsStep == Inv /\ [Next]_vars => SessionsLast
<1> SUFFICES ASSUME Inv, [Next]_vars PROVE SessionsLast
  OBVIOUS
<1>1. Live \subseteq sessions /\ \A s \in sessions : s \in SessionRecords
  BY DEF Live, Inv, BooksAgree, Books
<1>2. CASE \E s \in sessions : SessionDeadline(s)
  <2>1. PICK s \in sessions : SessionDeadline(s)
    BY <1>2
  <2>2. /\ sessions' = (sessions \ {s}) \cup {[s EXCEPT !.late = TRUE]}
        /\ accepted' = accepted
    BY <2>1 DEF SessionDeadline
  <2> DEFINE l == [s EXCEPT !.late = TRUE]
  <2>3. l.id = s.id /\ l.configurator = s.configurator
    BY <1>1, SessionFields
  <2>4. sessions' = (sessions \ {s}) \cup {l}
    BY <2>2
  <2> HIDE DEF l
  <2> QED BY <2>2, <2>3, <2>4 DEF SessionsLast
<1>3. CASE \E x \in Configurators, t \in Clients, id \in Sessions : RequestSession(x, t, id)
  BY <1>1, <1>3 DEF RequestSession, SessionsLast
<1>4. CASE \E x \in Configurators, s \in sessions, id \in Commands : RequestCommand(x, s, id)
  BY <1>1, <1>4 DEF RequestCommand, SessionsLast
<1>5. CASE \E t \in Clients : Accept(t)
  <2>0. PICK t \in Clients : Accept(t)
    BY <1>5
  <2>1. PICK s \in Named(t) :
          /\ OperatesFor(t)
          /\ sessions' = (Live \ {s}) \cup {[s EXCEPT !.active = TRUE]}
    BY <2>0 DEF Accept
  <2>2. accepted' = accepted /\ s \in sessions
    BY <1>1, <2>1 DEF OperatesFor, Named
  <2> DEFINE l == [s EXCEPT !.active = TRUE]
  <2>3. l.id = s.id /\ l.configurator = s.configurator
    BY <1>1, <2>2, SessionFields
  <2>4. sessions' = (Live \ {s}) \cup {l}
    BY <2>1
  <2> HIDE DEF l
  <2> QED BY <1>1, <2>2, <2>3, <2>4 DEF SessionsLast
<1>6. CASE accepted' = accepted /\ sessions' \subseteq sessions
  BY <1>6 DEF SessionsLast
<1> QED BY <1>2, <1>3, <1>4, <1>5, <1>6, EndingSteps DEF Next, Operation, Response

-----------------------------------------------------------------------------
(* Steps of others while a client's response is handled.                   *)

Acts(t) == ControllerStep(t) \/ Response(t) \/ \E s \in sessions : Respond(t, s)

\* The reader of t is where it was, and new access of its controller counts.
Undisturbed(t) ==
    /\ reader'[t] = reader[t]
    /\ entitled[t] => entitled'[t]
    /\ Controller(t) \in Configurators /\ access'[Controller(t)] = "editor"
          => access[Controller(t)] = "editor" \/ entitled'[t]

LEMMA Bystander ==
    ASSUME Inv, NEW t \in Clients, [Next]_vars, ~Acts(t)
    PROVE  Undisturbed(t)
<1>1. /\ t \in Connections /\ t \notin Configurators
      /\ reader \in [Connections -> ReaderRecords] /\ entitled \in [Clients -> BOOLEAN]
      /\ access \in [Configurators -> Roles]
  BY BridgeAssumption DEF Connections, Inv, Threads
<1>2. CASE \E x \in Configurators, a \in Roles : Administer(x, a)
  <2>1. PICK x \in Configurators, a \in Roles : Administer(x, a)
    BY <1>2
  <2>2. /\ access' = [access EXCEPT ![x] = a] /\ reader' = reader
        /\ entitled' = [u \in Clients |->
                           entitled[u] \/ (a = "editor" /\ reader[u].controller = x)]
    BY <2>1 DEF Administer, threadVars
  <2>3. entitled'[t] = (entitled[t] \/ (a = "editor" /\ Controller(t) = x))
    BY <2>2 DEF Controller
  <2> QED BY <1>1, <2>2, <2>3 DEF Undisturbed
<1>3. CASE /\ access' = access /\ UNCHANGED observers
           /\ \E x \in Connections : x # t /\ \E m : reader' = [reader EXCEPT ![x] = m]
  BY <1>1, <1>3 DEF Undisturbed, observers
<1>4. CASE access' = access /\ UNCHANGED observers /\ reader' = reader
  BY <1>4 DEF Undisturbed, observers
<1>5. CASE \/ UNCHANGED vars
           \/ SocketStep \/ Sweep
           \/ \E s \in sessions : SessionDeadline(s)
           \/ \E c \in commands : CommandDeadline(c)
           \/ \E x \in Configurators : WriterStep(x)
           \/ \E u \in Clients : JoinClient(u) \/ \E s \in sessions : ClientEnds(u, s)
  BY <1>4, <1>5 DEF vars, threadVars, observers, SocketStep, Break, CleanUp, Sweep, SessionDeadline,
     CommandDeadline, WriterStep, Tick, TickFails, TickApplies, JoinClient, ClientEnds
<1>6. ASSUME NEW x \in Configurators,
             Hello(x) \/ Join(x) \/ Receive(x) \/ Checked(x) \/ Operation(x)
      PROVE  Undisturbed(t)
  <2>1. x \in Connections /\ x # t
    BY <1>1 DEF Connections
  <2>2. access' = access /\ UNCHANGED observers /\ \E m : reader' = [reader EXCEPT ![x] = m]
    BY <1>6 DEF Hello, Join, Receive, Checked, Operation, RequestSession, RequestCommand,
       EndSession, Refuse, Operates
  <2> QED BY <1>3, <2>1, <2>2
<1>7. ASSUME NEW u \in Clients, Acts(u)
      PROVE  Undisturbed(t)
  <2>1. u \in Connections /\ u # t /\ access' = access
    BY <1>7 DEF Connections, Acts, ControllerStep, AskController, ControllerChecked,
       ControllerLeaves, ControllerCloses, Response, Accept, Decline, CommandResult, ForwardEvent,
       RefuseResponse, OperatesFor, Respond
  <2>2. reader'[t] = reader[t]
    BY <1>1, <1>7, <2>1 DEF Acts, ControllerStep, AskController, ControllerChecked,
       ControllerLeaves, ControllerCloses, Response, Accept, Decline, CommandResult, ForwardEvent,
       RefuseResponse, OperatesFor, Operates, Respond
  <2>3. entitled'[t] = entitled[t]
    BY <1>1, <1>7, <2>1 DEF Acts, ControllerStep, AskController, ControllerChecked,
       ControllerLeaves, ControllerCloses, Response, Accept, Decline, CommandResult, ForwardEvent,
       RefuseResponse, OperatesFor, Respond, observers
  <2> QED BY <2>1, <2>2, <2>3 DEF Undisturbed
<1> QED BY <1>2, <1>5, <1>6, <1>7 DEF Next, Acts

\* What others do while the response of t is handled does not disturb it.
LEMMA HandlingStands ==
    ASSUME Inv, NEW t \in Clients, [Next]_vars, ~Acts(t), Handling(t)
    PROVE  Handling(t)'
<1>1. CASE reader[t].at = "idle"
  BY <1>1, Bystander DEF Handling, Undisturbed
<1>2. CASE Asking(t)
  <2>1. Undisturbed(t) /\ SessionsLast
    BY <1>2, Bystander, SessionsStep DEF Asking
  <2>2. Controller(t)' = Controller(t)
    BY <2>1 DEF Undisturbed, Controller
  <2> QED BY <1>2, <2>1, <2>2 DEF Undisturbed, SessionsLast, Asking, Over, Handling
<1> QED BY <1>1, <1>2 DEF Handling

-----------------------------------------------------------------------------
(* The steps of the client itself.                                         *)

\* A response comes in: its controller is looked up.
LEMMA RespondStep ==
    ASSUME Inv, NEW t \in Clients, NEW s \in sessions, Respond(t, s)
    PROVE  Asking(t)' /\ leaked' = leaked
<1>1. /\ t \in Connections /\ reader \in [Connections -> ReaderRecords]
      /\ entitled \in [Clients -> BOOLEAN]
      /\ s \in SessionRecords /\ s.id \in accepted
      /\ \A u \in sessions : u.id = s.id => u = s
  BY DEF Connections, Inv, Threads, BooksAgree, Books, Names
<1>2. /\ reader'[t] = [at |-> "controller", answer |-> "none",
                      session |-> s.id, controller |-> s.configurator]
      /\ entitled'[t] = (access[s.configurator] = "editor")
      /\ access' = access /\ sessions' = sessions /\ accepted' = accepted /\ leaked' = leaked
  BY <1>1 DEF Respond, FirstStep, requestVars
<1>3. s.configurator \in Configurators
  BY <1>1 DEF SessionRecords
<1>4. /\ reader'[t].at = "controller" /\ reader'[t].session = s.id
      /\ Controller(t)' = s.configurator
  BY <1>2 DEF Controller
<1>5. access'[s.configurator] = "editor" => entitled'[t]
  BY <1>2
<1> QED BY <1>1, <1>2, <1>3, <1>4, <1>5 DEF Asking

\* The steps about the controller: the answer of its Check is that of a moment
\* when the response was already there; whoever is refused has no session left.
LEMMA ControllerSteps ==
    ASSUME Inv, NEW t \in Clients, Handling(t), ControllerStep(t)
    PROVE  Asking(t)' /\ leaked' = leaked
<1>1. /\ t \in Connections /\ reader \in [Connections -> ReaderRecords]
      /\ reader[t] \in ReaderRecords
  BY DEF Connections, Inv, Threads
<1>2. Asking(t)
  BY DEF Handling, ControllerStep, AskController, ControllerChecked, ControllerLeaves,
         ControllerCloses
<1>3. /\ access' = access /\ entitled' = entitled /\ leaked' = leaked
      /\ accepted' = accepted /\ sessions' \subseteq sessions
  BY EndingSteps DEF ControllerStep, AskController, ControllerChecked, ControllerLeaves,
         ControllerCloses, observers
<1>4. /\ reader'[t].session = reader[t].session /\ Controller(t)' = Controller(t)
      /\ reader'[t].at \in {"checked", "leave", "close", "operate"}
  BY <1>1 DEF ControllerStep, AskController, ControllerChecked, ControllerLeaves,
         ControllerCloses, Controller, ReaderRecords
<1>5. reader'[t].at = "checked" /\ reader'[t].answer = "editor" => entitled[t]
  <2>1. reader'[t].at = "checked" => reader'[t].answer = access[Controller(t)]
    BY <1>1 DEF ControllerStep, AskController, ControllerChecked, ControllerLeaves,
         ControllerCloses, ReaderRecords
  <2> QED BY <1>2, <2>1 DEF Asking
<1>6. reader'[t].at \in {"close", "operate"} =>
        entitled[t] \/ \A s \in sessions' : s.id # reader[t].session
  <2>1. CASE AskController(t)
    BY <1>1, <2>1 DEF AskController, ReaderRecords
  <2>2. CASE ControllerChecked(t)
    <3>1. CASE Controller(t) \in peers
      <4>1. sessions' = sessions \ Revoked(Controller(t), reader[t].answer)
        BY <2>2, <3>1, CheckEnds DEF ControllerChecked
      <4>2. reader[t].at = "checked"
        BY <2>2 DEF ControllerChecked
      <4> QED BY <1>2, <4>1, <4>2 DEF Revoked, Controlled, Asking
    <3>2. CASE Controller(t) \notin peers
      BY <1>1, <2>2, <3>2 DEF ControllerChecked, ReaderRecords
    <3> QED BY <3>1, <3>2
  <2>3. CASE ControllerLeaves(t)
    <3>1. CASE Controller(t) \in peers
      <4>1. sessions' = sessions \ Between(Controller(t))
        BY <2>3, <3>1, LeaveEnds DEF ControllerLeaves
      <4> QED BY <1>2, <4>1 DEF Between, Asking
    <3>2. CASE Controller(t) \notin peers
      BY <1>2, <1>3, <3>2 DEF Asking, Inv, Held
    <3> QED BY <3>1, <3>2
  <2>4. CASE ControllerCloses(t)
    BY <1>2, <1>3, <2>4 DEF ControllerCloses, Asking, Over
  <2> QED BY <2>1, <2>2, <2>3, <2>4 DEF ControllerStep
<1> QED BY <1>2, <1>3, <1>4, <1>5, <1>6 DEF Asking, Over

\* The response is carried out: what it names is still there only if the
\* controller had access.
LEMMA ResponseEnds ==
    ASSUME Inv, NEW t \in Clients, Handling(t), Response(t), ~leaked
    PROVE  Handling(t)' /\ ~leaked'
<1>1. /\ t \in Connections /\ reader \in [Connections -> ReaderRecords]
      /\ Live \subseteq sessions
  BY DEF Connections, Inv, Threads, Live
<1>2. OperatesFor(t)
  BY DEF Response, Accept, Decline, CommandResult, ForwardEvent, RefuseResponse
<1>3. reader[t].at = "operate" /\ reader'[t] = Idle
  BY <1>1, <1>2 DEF OperatesFor, Operates
<1>4. Handling(t)'
  BY <1>3 DEF Handling, Idle
<1>5. Named(t) # {} => entitled[t]
  BY <1>1, <1>3 DEF Handling, Asking, Over, Named
<1>6. (leaked' = leaked) \/ (Named(t) # {} /\ leaked' = (leaked \/ ~entitled[t]))
  BY DEF Response, Accept, Decline, CommandResult, ForwardEvent, RefuseResponse, Forwarded
<1>7. ~leaked'
  <2>1. CASE leaked' = leaked
    BY <2>1
  <2>2. CASE entitled[t] /\ leaked' = (leaked \/ ~entitled[t])
    BY <2>2
  <2> QED BY <1>5, <1>6, <2>1, <2>2
<1> QED BY <1>4, <1>7

-----------------------------------------------------------------------------
(* Theorems.                                                               *)

LEMMA RevocationInit == Init => RevocationInv
BY DEF Init, RevocationInv, NothingAfterRevocation, Handling, Idle, Connections

LEMMA RevocationStep == Inv /\ RevocationInv /\ [Next]_vars => RevocationInv'
<1> SUFFICES ASSUME Inv, RevocationInv, [Next]_vars PROVE RevocationInv'
  OBVIOUS
<1>1. ASSUME NEW t \in Clients PROVE Handling(t)'
  <2>1. Handling(t) /\ ~leaked
    BY DEF RevocationInv, NothingAfterRevocation
  <2>2. CASE ~Acts(t)
    BY <2>1, <2>2, HandlingStands
  <2>3. CASE Acts(t)
    BY <2>1, <2>3, RespondStep, ControllerSteps, ResponseEnds DEF Acts, Handling
  <2> QED BY <2>2, <2>3
<1>2. ~leaked'
  <2>1. ~leaked /\ \A t \in Clients : Handling(t)
    BY DEF RevocationInv, NothingAfterRevocation
  <2>2. CASE \E t \in Clients : Acts(t)
    BY <2>1, <2>2, RespondStep, ControllerSteps, ResponseEnds DEF Acts
  <2>3. CASE \A t \in Clients : ~Acts(t)
    <3>1. leaked' = leaked
      BY <2>3 DEF Next, Acts, vars, observers, SocketStep, Break, CleanUp, Administer, Sweep,
         SessionDeadline, CommandDeadline, WriterStep, Tick, TickFails, TickApplies, Hello, Join,
         Receive, Checked, Operation, RequestSession, RequestCommand, EndSession, Refuse,
         JoinClient, ClientEnds
    <3> QED BY <2>1, <3>1
  <2> QED BY <2>2, <2>3
<1> QED BY <1>1, <1>2 DEF RevocationInv, NothingAfterRevocation

\* usecase.go:161: a late client response does not bypass the revocation of the
\* controlling identity.  bridge.UseCase lets nothing a client sends reach a
\* controller that had no access at any moment while the message was handled.
THEOREM RevocationCorrect == Spec => []NothingAfterRevocation
<1>1. Init => RevocationInv
  BY RevocationInit
<1>2. Inv /\ RevocationInv /\ [Next]_vars => RevocationInv'
  BY RevocationStep
<1>3. RevocationInv => NothingAfterRevocation
  BY DEF RevocationInv
<1> QED BY <1>1, <1>2, <1>3, Invariance, PTL DEF Spec
=============================================================================
