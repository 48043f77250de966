------------------------------- MODULE Bridge -------------------------------
(***************************************************************************)
(* The debug bridge: platform/bridge.Connections owns the sockets, the     *)
(* use case bridge.UseCase the participants, the debug sessions and the    *)
(* commands that wait for an answer.                                       *)
(*                                                                         *)
(* Every socket has two goroutines.  The reader handles one message after  *)
(* the other and cleans up in the end; the writer checks periodically that *)
(* the participant may still be there.  Both call Check, which releases    *)
(* the lock of the use case while the database is asked.                   *)
(*                                                                         *)
(* Connections, sessions and commands have fresh UUIDs: here each name is  *)
(* used once.  A request is named by the session or the command it         *)
(* creates.  One workspace, one role per configurator: "editor" may debug, *)
(* "viewer" may not, "none" fails the authorization.  A message refused    *)
(* before the use case takes its lock for good changes nothing; one that   *)
(* makes the reader give up is Break.                                      *)
(***************************************************************************)
EXTENDS Integers, FiniteSets

CONSTANTS
    Configurators, Clients,
    Sessions, Commands,
    Nobody,
    MaxPending          \* commands of one session that may wait at a time

Connections == Configurators \cup Clients
Requests    == Sessions \cup Commands
Roles       == {"editor", "viewer", "none"}

ASSUME BridgeAssumption ==
    /\ Configurators \cap Clients = {}
    /\ Sessions \cap Commands = {}
    /\ Nobody \notin Connections \cup Requests
    /\ MaxPending \in Nat

VARIABLES
    socket,         \* "new", "open", "closed" or "gone"
    access,         \* configurator: what the database says
    peers,          \* UseCase.peers
    role,           \* configurator: the role its last applied Check brought
    sessions,       \* UseCase.sessions
    commands,       \* UseCase.commands
    reader,         \* the message being handled
    writer,         \* configurator: the answer its periodic Check will apply
    shown,          \* configurator: the participants last broadcast to it
    accepted,       \* observer: the requests taken on
    results,        \* observer: how many results were sent for a request
    entitled,       \* observer: the controller had access at some moment
                    \*           since the client's message came in
    leaked          \* observer: something was sent to a controller without

threadVars  == <<reader, writer>>
requestVars == <<sessions, commands, accepted, results>>
observers   == <<entitled, leaked>>
vars == <<socket, access, peers, role, requestVars, threadVars, shown, observers>>

Idle == [at |-> "idle", answer |-> "none", session |-> Nobody, controller |-> Nobody]

-----------------------------------------------------------------------------
(* Under the lock of the use case.                                         *)

Names(S)        == {s.id : s \in S}
Controlled(x)   == {s \in sessions : s.configurator = x}
Between(x)      == {s \in sessions : x \in {s.configurator, s.client}}
CanDebug(x)     == role[x] = "editor"
Waiting(S)      == {c \in commands : c.session \in Names(S)}

\* mutant: the commands that wait in an ended session are forgotten
EndedOnly(S) == Names({s \in S : ~s.active})

\* end: answers to the request of a session that was never accepted and to the
\* commands that still wait.
AnsweredByEnd(S) == Names({s \in S : ~s.active}) \cup Names(Waiting(S))

\* mutant: a session nobody has accepted does not expire
ActiveOnly == {s \in sessions : s.late /\ s.active}

Expired == {s \in sessions : s.late}

Late == {c \in commands : c.late}

\* expire: sessions end first, then the commands left are answered.
AnsweredByExpiry == AnsweredByEnd(Expired) \cup
                    Names(Late \cap (Waiting(sessions) \ Waiting(Expired)))

Live         == sessions \ Expired
LiveCommands == commands \ (Late \cup Waiting(Expired))

Answer(R) == results' = [r \in Requests |-> IF r \in R THEN results[r] + 1 ELSE results[r]]

End(S) ==
    /\ sessions' = sessions \ S
    /\ commands' = commands \ Waiting(S)
    /\ Answer(AnsweredByEnd(S))

\* Expiry and then the end of the sessions S.
ExpireAndEnd(S) ==
    /\ sessions' = Live \ S
    /\ commands' = LiveCommands \ Waiting(S)
    /\ Answer(AnsweredByExpiry \cup AnsweredByEnd(S))

Roster(x, P, r) ==
    (P \cap Configurators) \cup (IF r[x] = "editor" THEN P \cap Clients ELSE {})

Broadcast(P, r) ==
    shown' = [x \in Configurators |-> IF x \in P THEN Roster(x, P, r) ELSE shown[x]]

\* mutant: the participants are not told of a new role
Unannounced(x, a) == FALSE

RoleChanges(x, a) == role[x] # a

\* mutant: a controller that may not debug any more keeps its sessions
NotRevoked(x, a) == {}

Revoked(x, a) == IF a = "editor" THEN {} ELSE Controlled(x)

\* Check, after the authorization: the answer is stored, whenever it comes.
ApplyCheck(x, a) ==
    /\ role' = [role EXCEPT ![x] = a]
    /\ End(Revoked(x, a))
    /\ IF RoleChanges(x, a) THEN Broadcast(peers, role') ELSE UNCHANGED shown
    /\ UNCHANGED <<accepted, peers>>

Leave(x) ==
    IF x \notin peers
    THEN UNCHANGED <<peers, role, requestVars, shown>>
    ELSE /\ peers' = peers \ {x}
         /\ End(Between(x))
         /\ Broadcast(peers', role)
         /\ UNCHANGED <<role, accepted>>

-----------------------------------------------------------------------------
(* Sockets, time and the database.                                         *)

Shut(x) == socket' = [socket EXCEPT ![x] = IF @ = "open" THEN "closed" ELSE @]

\* The network fails, a queue is full, a message is refused for good, or the
\* server shuts down.
Break(x) ==
    /\ socket[x] = "open"
    /\ Shut(x)
    /\ UNCHANGED <<access, peers, role, requestVars, threadVars, shown, observers>>

\* Serve's cleanup, when both goroutines have ended: the participant leaves.
\* (The socket leaves the registry just before; nothing can be sent to it
\* either way.)
CleanUp(x) ==
    /\ socket[x] = "closed" /\ reader[x] = Idle
    /\ x \in Configurators => writer[x] = "none"
    /\ socket' = [socket EXCEPT ![x] = "gone"]
    /\ Leave(x)
    /\ UNCHANGED <<access, threadVars, observers>>

\* Grants change, a login is revoked or expires.
Administer(x, a) ==
    /\ a # access[x]
    /\ access' = [access EXCEPT ![x] = a]
    /\ entitled' = [t \in Clients |->
                       entitled[t] \/ (a = "editor" /\ reader[t].controller = x)]
    /\ UNCHANGED <<socket, peers, role, requestVars, threadVars, shown, leaked>>

\* The Deadline of a session or of a command passes.
SessionDeadline(s) ==
    /\ ~s.late
    /\ sessions' = (sessions \ {s}) \cup {[s EXCEPT !.late = TRUE]}
    /\ UNCHANGED <<socket, access, peers, role, commands, accepted, results,
                   threadVars, shown, observers>>

CommandDeadline(c) ==
    /\ ~c.late
    /\ commands' = (commands \ {c}) \cup {[c EXCEPT !.late = TRUE]}
    /\ UNCHANGED <<socket, access, peers, role, sessions, accepted, results,
                   threadVars, shown, observers>>

Sweep ==
    /\ Expired # {} \/ Late # {}
    /\ ExpireAndEnd({})
    /\ UNCHANGED <<socket, access, peers, role, accepted, threadVars, shown, observers>>

-----------------------------------------------------------------------------
(* The periodic Check of a configurator's writer.                          *)

Tick(x) ==
    /\ socket[x] = "open" /\ x \in peers /\ writer[x] = "none" /\ access[x] # "none"
    /\ writer' = [writer EXCEPT ![x] = access[x]]
    /\ UNCHANGED <<socket, access, peers, role, requestVars, reader, shown, observers>>

TickFails(x) ==
    /\ socket[x] = "open" /\ reader[x].at # "joining" /\ writer[x] = "none"
    /\ x \notin peers \/ access[x] = "none"
    /\ Shut(x)
    /\ UNCHANGED <<access, peers, role, requestVars, threadVars, shown, observers>>

TickApplies(x) ==
    /\ writer[x] # "none"
    /\ writer' = [writer EXCEPT ![x] = "none"]
    /\ IF x \in peers
       THEN ApplyCheck(x, writer[x]) /\ UNCHANGED socket
       ELSE Shut(x) /\ UNCHANGED <<peers, role, requestVars, shown>>
    /\ UNCHANGED <<access, reader, observers>>

-----------------------------------------------------------------------------
(* The messages of a configurator.                                         *)

\* A configurator connects and says hello.  Join: the authorization, then the
\* registration.
Hello(x) ==
    /\ socket[x] = "new" /\ access[x] # "none"
    /\ socket' = [socket EXCEPT ![x] = "open"]
    /\ reader' = [reader EXCEPT ![x] = [Idle EXCEPT !.at = "joining", !.answer = access[x]]]
    /\ UNCHANGED <<access, peers, role, requestVars, writer, shown, observers>>

Join(x) ==
    /\ reader[x].at = "joining"
    /\ reader' = [reader EXCEPT ![x] = Idle]
    /\ peers' = peers \cup {x}
    /\ role' = [role EXCEPT ![x] = reader[x].answer]
    /\ Broadcast(peers', role')
    /\ UNCHANGED <<socket, access, requestVars, writer, observers>>

\* Handle: its own Check, then the operation.
Receive(x) ==
    /\ socket[x] = "open" /\ x \in peers /\ reader[x] = Idle /\ access[x] # "none"
    /\ reader' = [reader EXCEPT ![x] = [Idle EXCEPT !.at = "checked", !.answer = access[x]]]
    /\ UNCHANGED <<socket, access, peers, role, requestVars, writer, shown, observers>>

Checked(x) ==
    /\ reader[x].at = "checked"
    /\ IF x \in peers
       THEN /\ reader' = [reader EXCEPT ![x] = [Idle EXCEPT !.at = "operate"]]
            /\ ApplyCheck(x, reader[x].answer)
       ELSE /\ reader' = [reader EXCEPT ![x] = Idle]
            /\ UNCHANGED <<peers, role, requestVars, shown>>
    /\ UNCHANGED <<socket, access, writer, observers>>

Operates(x) == reader[x].at = "operate" /\ reader' = [reader EXCEPT ![x] = Idle]

Busy(t) == \E s \in Live : s.client = t

RequestSession(x, t, id) ==
    /\ Operates(x) /\ x \in peers /\ t \in peers /\ id \notin accepted
    /\ CanDebug(x) /\ ~Busy(t)
    /\ sessions' = Live \cup {[id |-> id, configurator |-> x, client |-> t,
                               active |-> FALSE, late |-> FALSE]}
    /\ commands' = LiveCommands
    /\ Answer(AnsweredByExpiry)
    /\ accepted' = accepted \cup {id}
    /\ UNCHANGED <<socket, access, peers, role, writer, shown, observers>>

PendingIn(s) == {c \in LiveCommands : c.session = s.id}

RequestCommand(x, s, id) ==
    /\ Operates(x) /\ x \in peers /\ id \notin accepted
    /\ s \in Live /\ s.active /\ s.configurator = x /\ CanDebug(x)
    /\ Cardinality(PendingIn(s)) < MaxPending
    /\ accepted' = accepted \cup {id}
    /\ IF socket[s.client] = "open"
       THEN /\ sessions' = Live
            /\ commands' = LiveCommands \cup {[id |-> id, session |-> s.id, late |-> FALSE]}
            /\ Answer(AnsweredByExpiry)
       ELSE /\ sessions' = Live \ {s}
            /\ commands' = LiveCommands \ Waiting({s})
            /\ Answer(AnsweredByExpiry \cup AnsweredByEnd({s}) \cup {id})
    /\ UNCHANGED <<socket, access, peers, role, writer, shown, observers>>

EndSession(x, s) ==
    /\ Operates(x) /\ x \in peers
    /\ s \in Live /\ s.configurator = x
    /\ ExpireAndEnd({s})
    /\ UNCHANGED <<socket, access, peers, role, accepted, writer, shown, observers>>

\* The operation is refused, after expiry if the participant is still there.
Refuse(x) ==
    /\ Operates(x)
    /\ IF x \in peers THEN ExpireAndEnd({}) ELSE UNCHANGED <<sessions, commands, results>>
    /\ UNCHANGED <<socket, access, peers, role, accepted, writer, shown, observers>>

-----------------------------------------------------------------------------
(* The messages of a client.                                               *)

JoinClient(t) ==
    /\ socket[t] = "new"
    /\ socket' = [socket EXCEPT ![t] = "open"]
    /\ peers' = peers \cup {t}
    /\ Broadcast(peers', role)
    /\ UNCHANGED <<access, role, requestVars, threadVars, observers>>

MayReceive(t) == socket[t] = "open" /\ reader[t] = Idle

\* mutant: responses are taken without asking for the controller
WithoutController == "operate"

FirstStep == "controller"

\* A response names a session; its controller is looked up.  (One that names no
\* session has the effect of Sweep.)
Respond(t, s) ==
    /\ MayReceive(t)
    /\ reader' = [reader EXCEPT ![t] = [at |-> FirstStep, answer |-> "none",
                                        session |-> s.id, controller |-> s.configurator]]
    /\ entitled' = [entitled EXCEPT ![t] = access[s.configurator] = "editor"]
    /\ UNCHANGED <<socket, access, peers, role, requestVars, writer, shown, leaked>>

Controller(t) == reader[t].controller

\* Check of the controller; without an answer in time it counts as refused.
AskController(t) ==
    /\ reader[t].at = "controller"
    /\ \/ /\ Controller(t) \in peers /\ access[Controller(t)] # "none"
          /\ reader' = [reader EXCEPT ![t].at = "checked", ![t].answer = access[Controller(t)]]
       \/ reader' = [reader EXCEPT ![t].at = "leave"]
    /\ UNCHANGED <<socket, access, peers, role, requestVars, writer, shown, observers>>

ControllerChecked(t) ==
    /\ reader[t].at = "checked"
    /\ IF Controller(t) \in peers
       THEN /\ reader' = [reader EXCEPT ![t].at = "operate", ![t].answer = "none"]
            /\ ApplyCheck(Controller(t), reader[t].answer)
       ELSE /\ reader' = [reader EXCEPT ![t].at = "leave", ![t].answer = "none"]
            /\ UNCHANGED <<peers, role, requestVars, shown>>
    /\ UNCHANGED <<socket, access, writer, observers>>

ControllerLeaves(t) ==
    /\ reader[t].at = "leave"
    /\ reader' = [reader EXCEPT ![t].at = "close"]
    /\ Leave(Controller(t))
    /\ UNCHANGED <<socket, access, writer, observers>>

ControllerCloses(t) ==
    /\ reader[t].at = "close"
    /\ reader' = [reader EXCEPT ![t].at = "operate"]
    /\ Shut(Controller(t))
    /\ UNCHANGED <<access, peers, role, requestVars, writer, shown, observers>>

\* The session a response is about, if the client takes part in it.
Named(t) == {s \in Live : s.id = reader[t].session /\ s.client = t}

OperatesFor(t) ==
    /\ Operates(t)
    /\ entitled' = [entitled EXCEPT ![t] = FALSE]
    /\ UNCHANGED <<socket, access, peers, role, accepted, writer, shown>>

Forwarded(t) == leaked' = (leaked \/ ~entitled[t])

Accept(t) == \E s \in Named(t) :
    /\ OperatesFor(t) /\ ~s.active
    /\ sessions' = (Live \ {s}) \cup {[s EXCEPT !.active = TRUE]}
    /\ commands' = LiveCommands
    /\ Answer(AnsweredByExpiry \cup {s.id})
    /\ Forwarded(t)

Decline(t) == \E s \in Named(t) :
    /\ OperatesFor(t) /\ ~s.active
    /\ ExpireAndEnd({s})
    /\ UNCHANGED leaked

\* mutant: an answered command stays in the table
KeepCommand(c) == LiveCommands

Delivered(c) == LiveCommands \ {c}

CommandResult(t) == \E s \in Named(t) : \E c \in PendingIn(s) :
    /\ OperatesFor(t) /\ s.active
    /\ sessions' = Live
    /\ commands' = Delivered(c)
    /\ Answer(AnsweredByExpiry \cup {c.id})
    /\ Forwarded(t)

ForwardEvent(t) == \E s \in Named(t) :
    /\ OperatesFor(t) /\ s.active
    /\ IF socket[s.configurator] = "open"
       THEN ExpireAndEnd({}) /\ Forwarded(t)
       ELSE ExpireAndEnd({s}) /\ UNCHANGED leaked

RefuseResponse(t) ==
    /\ OperatesFor(t)
    /\ ExpireAndEnd({})
    /\ UNCHANGED leaked

\* endSession needs no controller.
ClientEnds(t, s) ==
    /\ MayReceive(t)
    /\ s \in Live /\ s.client = t
    /\ ExpireAndEnd({s})
    /\ UNCHANGED <<socket, access, peers, role, accepted, threadVars, shown, observers>>

-----------------------------------------------------------------------------
Init ==
    /\ socket = [x \in Connections |-> "new"]
    /\ access = [x \in Configurators |-> "editor"]
    /\ peers = {}
    /\ role = [x \in Configurators |-> "none"]
    /\ sessions = {} /\ commands = {}
    /\ reader = [x \in Connections |-> Idle]
    /\ writer = [x \in Configurators |-> "none"]
    /\ shown = [x \in Configurators |-> {}]
    /\ accepted = {}
    /\ results = [r \in Requests |-> 0]
    /\ entitled = [t \in Clients |-> FALSE]
    /\ leaked = FALSE

SocketStep == \E x \in Connections : Break(x) \/ CleanUp(x)

WriterStep(x) == Tick(x) \/ TickFails(x) \/ TickApplies(x)

Operation(x) ==
    \/ \E t \in Clients, id \in Sessions : RequestSession(x, t, id)
    \/ \E s \in sessions, id \in Commands : RequestCommand(x, s, id)
    \/ \E s \in sessions : EndSession(x, s)
    \/ Refuse(x)

Response(t) ==
    Accept(t) \/ Decline(t) \/ CommandResult(t) \/ ForwardEvent(t) \/ RefuseResponse(t)

ControllerStep(t) ==
    AskController(t) \/ ControllerChecked(t) \/ ControllerLeaves(t) \/ ControllerCloses(t)

Next ==
    \/ SocketStep
    \/ \E x \in Configurators, a \in Roles : Administer(x, a)
    \/ \E s \in sessions : SessionDeadline(s)
    \/ \E c \in commands : CommandDeadline(c)
    \/ Sweep
    \/ \E x \in Configurators :
          \/ WriterStep(x)
          \/ Hello(x) \/ Join(x) \/ Receive(x) \/ Checked(x) \/ Operation(x)
    \/ \E t \in Clients :
          \/ JoinClient(t)
          \/ \E s \in sessions : Respond(t, s) \/ ClientEnds(t, s)
          \/ ControllerStep(t) \/ Response(t)

Spec == Init /\ [][Next]_vars

\* Goroutines run: a message that was taken is handled to its end, the writer
\* ticks, a closed socket is cleaned up, the sweeper sweeps.  The deadlines of
\* requests and commands pass; nobody has to send anything, and no session in
\* use has to expire.
Fairness ==
    /\ WF_vars(Sweep)
    /\ \A x \in Connections : WF_vars(CleanUp(x))
    /\ \A x \in Configurators :
          /\ WF_vars(WriterStep(x))
          /\ WF_vars(Join(x)) /\ WF_vars(Checked(x)) /\ WF_vars(Operation(x))
    /\ \A t \in Clients : WF_vars(ControllerStep(t)) /\ WF_vars(Response(t))
    /\ \A id \in Sessions :
          WF_vars(\E s \in sessions : s.id = id /\ ~s.active /\ SessionDeadline(s))
    /\ \A id \in Commands :
          WF_vars(\E c \in commands : c.id = id /\ CommandDeadline(c))

FairSpec == Spec /\ Fairness

-----------------------------------------------------------------------------
SessionRecords == [id : Sessions, configurator : Configurators, client : Clients,
                   active : BOOLEAN, late : BOOLEAN]
CommandRecords == [id : Commands, session : Sessions, late : BOOLEAN]
ReaderRecords  == [at : {"idle", "joining", "controller", "checked", "leave", "close", "operate"},
                   answer : Roles,
                   session : Sessions \cup {Nobody},
                   controller : Configurators \cup {Nobody}]

\* The type of the state; a request is answered once at most.
TypeOK ==
    /\ socket \in [Connections -> {"new", "open", "closed", "gone"}]
    /\ access \in [Configurators -> Roles]
    /\ peers \subseteq Connections
    /\ role \in [Configurators -> Roles]
    /\ sessions \subseteq SessionRecords /\ commands \subseteq CommandRecords
    /\ reader \in [Connections -> ReaderRecords]
    /\ writer \in [Configurators -> Roles]
    /\ shown \in [Configurators -> SUBSET Connections]
    /\ accepted \subseteq Requests
    /\ results \in [Requests -> 0 .. 1]
    /\ entitled \in [Clients -> BOOLEAN]
    /\ leaked \in BOOLEAN

\* The requests nobody has answered yet: sessions that wait for the client's
\* consent and commands that wait for its result.
Open == Names({s \in sessions : ~s.active}) \cup Names(commands)

\* A configurator hears exactly once of every request the bridge took on,
\* whether the client answers, the deadline passes, the session ends, access is
\* revoked or a connection is lost, in whatever order these happen.
OneResultPerRequest ==
    \A r \in Requests : results[r] = IF r \in accepted \ Open THEN 1 ELSE 0

\* Sessions join registered participants, one at a time for a client, and a
\* command waits in a session the client has agreed to: nothing outlives a
\* participant that left.
SessionsAreHeld ==
    /\ \A s \in sessions : s.configurator \in peers /\ s.client \in peers
    /\ \A s, u \in sessions : s.client = u.client => s = u
    /\ \A c \in commands : \E s \in sessions : s.id = c.session /\ s.active

\* usecase.go:161: a late client response does not bypass the revocation of the
\* controlling identity.  Whatever a client's message brings a controller, that
\* controller had access at some moment while the message was handled.
NothingAfterRevocation == ~leaked

\* Every configurator has been told of exactly the participants it may see.
PresenceIsCurrent ==
    \A x \in peers \cap Configurators : shown[x] = Roster(x, peers, role)

\* Every request the bridge took on is answered, whatever the client does.
RequestsAreAnswered ==
    \A r \in Requests : r \in accepted ~> results[r] = 1

\* A configurator that lost its access for good loses its sessions for good,
\* although checks started before may still apply their old answer.
RevokedIsCutOff ==
    \A x \in Configurators : <>[](access[x] # "editor") => <>[](Controlled(x) = {})
=============================================================================
