-------------------------- MODULE WebSocketClients --------------------------
(***************************************************************************)
(* The clients of a WebSocketService that listens, and the subscriptions   *)
(* that the server's StateMachine keeps for them.  The library's threads   *)
(* run onOpen, onMessage, onClosed; the main thread runs queued commands   *)
(* and broadcasts.  clientsMutex_ guards the service's maps, one critical  *)
(* section at a time; subscribedClients_ and eventSubscribers_ have no     *)
(* mutex and are written by both threads.                                  *)
(*                                                                         *)
(* The callbacks of one socket run one after the other (the library).      *)
(***************************************************************************)
EXTENDS Naturals, Sequences, FiniteSets

CONSTANTS
  Clients,       \* sockets; a client that reconnects is another socket
  LocalClients,  \* those that connect from the loopback address
  Nobody,        \* an expired or absent entry of connectionRegistry_
  JsonClients,   \* those that send their commands as JSON
  HelloInputs, CommandInputs,  \* bound: the hellos and commands they send
  MaxMessages    \* bound: messages that all clients send

VARIABLES
  socket,             \* per socket: how far its life has come
  connectedClients, clientProtocols, clientHellos,
  connectionIds,      \* per socket its connection id, or 0
  connectionRegistry, \* per connection id its socket, or Nobody
  nextConnectionId, accessToken, listening,
  handler,            \* per socket: the command or the disconnect being handled
  sent,               \* messages received so far
  eventQueue,         \* commands queued for the main thread
  subscribedClients, eventSubscribers,
  main,               \* what the main thread is doing
  overtaken           \* ids whose disconnect ran between a command's check and its effect

registryVars == <<connectedClients, clientProtocols, clientHellos, connectionIds,
                  connectionRegistry, nextConnectionId>>
serverVars == <<accessToken, listening>>
subscriptionVars == <<eventQueue, subscribedClients, eventSubscribers, main, overtaken>>
vars == <<socket, registryVars, serverVars, handler, sent, subscriptionVars>>

Ids == 1..MaxMessages
Hello == [wantsRender : BOOLEAN, wantsEvents : BOOLEAN]
NoHello == [wantsRender |-> FALSE, wantsEvents |-> FALSE]

\* EventSubscribe, RenderFormatSet and RenderStreamConfigSet; "none" outside a handler.
Command == [type : {"none", "events", "format", "stream"}, enabled : BOOLEAN, everyN : 0..2]
NoCommand == [type |-> "none", enabled |-> FALSE, everyN |-> 0]
Commands == {k \in Command : /\ k.type # "none"
                             /\ k.type = "format" => k.enabled /\ k.everyN = 1
                             /\ k.type = "events" => k.everyN = 1}

ASSUME ClientsAssumption ==
  /\ LocalClients \subseteq Clients /\ JsonClients \subseteq Clients /\ Nobody \notin Clients
  /\ HelloInputs \subseteq Hello /\ CommandInputs \subseteq Commands
  /\ MaxMessages \in Nat

Idle == [command |-> NoCommand, id |-> 0]

SubscribedClient == [connectionId : Ids, renderEnabled : BOOLEAN, renderEveryN : 1..2]

\* `check' passed and the effect is still to come, or a broadcast of one kind is
\* under way: next element, end of the vector when the loop began, timestep,
\* the ids it has served and those it found eligible.
MainIdle == [op |-> "idle", command |-> NoCommand, id |-> 0, next |-> 0, end |-> 0,
             timestep |-> 0, served |-> {}, due |-> {}, disturbed |-> FALSE]

Init ==
  /\ socket = [c \in Clients |-> "new"]
  /\ connectedClients = {}
  /\ clientProtocols = [c \in Clients |-> "none"]
  /\ clientHellos = [c \in Clients |-> NoHello]
  /\ connectionIds = [c \in Clients |-> 0]
  /\ connectionRegistry = [i \in Ids |-> Nobody]
  /\ nextConnectionId = 1
  /\ accessToken \in BOOLEAN
  /\ listening = TRUE
  /\ handler = [c \in Clients |-> Idle]
  /\ sent = 0
  /\ eventQueue = <<>> /\ subscribedClients = <<>> /\ eventSubscribers = <<>>
  /\ main = MainIdle
  /\ overtaken = {}

-----------------------------------------------------------------------------
(* Connections: the library's threads.                                     *)

\* A local client, or a remote one after the delay that follows its check.
OnOpen(c) ==
  /\ \/ socket[c] = "new" /\ listening /\ c \in LocalClients
     \/ socket[c] = "authorizing"
  /\ socket' = [socket EXCEPT ![c] = "open"]
  /\ connectedClients' = connectedClients \union {c}
  /\ UNCHANGED <<clientProtocols, clientHellos, connectionIds, connectionRegistry,
                 nextConnectionId, serverVars, handler, sent, subscriptionVars>>

\* A remote client's token is checked against the access token of the moment.
OnOpenAuthorize(c) ==
  /\ socket[c] = "new" /\ listening /\ c \notin LocalClients
  /\ \/ accessToken /\ socket' = [socket EXCEPT ![c] = "authorizing"]
     \/ socket' = [socket EXCEPT ![c] = "closed"]
  /\ UNCHANGED <<registryVars, serverVars, handler, sent, subscriptionVars>>

\* The peer or the network ends the connection.
PeerClose(c) ==
  /\ socket[c] = "open"
  /\ socket' = [socket EXCEPT ![c] = "closing"]
  /\ UNCHANGED <<registryVars, serverVars, handler, sent, subscriptionVars>>

\* The socket handles a message, which its callbacks take one at a time.
Receives(c) ==
  /\ socket[c] \in {"open", "closing"} /\ handler[c] = Idle
  /\ sent < MaxMessages
  /\ sent' = sent + 1

UiElsewhereIgnored(c) == FALSE

\* Some other client than c has said that it wants render messages.
UiElsewhere(c) == \E d \in Clients \ {c} : clientHellos[d].wantsRender

\* A ClientHello of the protocol's version; a second UI client is closed.
OnClientHello(c, h) ==
  /\ Receives(c)
  /\ clientProtocols' = [clientProtocols EXCEPT ![c] = "BINARY"]
  /\ IF h.wantsRender /\ UiElsewhere(c)
     THEN /\ socket' = [socket EXCEPT ![c] = "closing"]
          /\ UNCHANGED <<clientHellos, main>>
     ELSE /\ clientHellos' = [clientHellos EXCEPT ![c] = h]
          /\ main' = [main EXCEPT !.disturbed = @ \/ main.next > 0]
          /\ UNCHANGED socket
  /\ UNCHANGED <<connectedClients, connectionIds, connectionRegistry, nextConnectionId,
                 serverVars, handler, eventQueue, subscribedClients, eventSubscribers,
                 overtaken>>

\* A ClientHello of another version.
OnClientHelloMismatch(c) ==
  /\ Receives(c)
  /\ clientProtocols' = [clientProtocols EXCEPT ![c] = "BINARY"]
  /\ socket' = [socket EXCEPT ![c] = "closing"]
  /\ UNCHANGED <<connectedClients, clientHellos, connectionIds, connectionRegistry,
                 nextConnectionId, serverVars, handler, subscriptionVars>>

\* What the service notes of a client when it sends a command.
Spoken(c) == [clientProtocols EXCEPT ![c] = IF c \in JsonClients THEN "JSON" ELSE "BINARY"]

Queued(command, id) == Append(eventQueue, [command |-> command, id |-> id])

\* A command that carries a connection id: getConnectionId finds the client's id
\* and the command is queued, or it draws a new one.
OnClientMessage(c, command) ==
  /\ Receives(c)
  /\ clientProtocols' = Spoken(c)
  /\ IF connectionIds[c] # 0
     THEN /\ eventQueue' = Queued(command, connectionIds[c])
          /\ UNCHANGED <<handler, nextConnectionId>>
     ELSE /\ handler' = [handler EXCEPT ![c] = [command |-> command, id |-> nextConnectionId]]
          /\ nextConnectionId' = nextConnectionId + 1
          /\ UNCHANGED eventQueue
  /\ UNCHANGED <<socket, connectedClients, clientHellos, connectionIds, connectionRegistry,
                 serverVars, subscribedClients, eventSubscribers, main, overtaken>>

\* The second critical section of getConnectionId; then the command is queued.
GetConnectionId(c) ==
  LET h == handler[c] IN
  /\ h.command # NoCommand
  /\ connectionIds' = [connectionIds EXCEPT ![c] = h.id]
  /\ connectionRegistry' = [connectionRegistry EXCEPT ![h.id] = c]
  /\ handler' = [handler EXCEPT ![c] = Idle]
  /\ eventQueue' = Queued(h.command, h.id)
  /\ UNCHANGED <<socket, connectedClients, clientProtocols, clientHellos, nextConnectionId,
                 serverVars, sent, subscribedClients, eventSubscribers, main, overtaken>>

\* WebSocketAccessSet runs on the client's thread: closeNonLocalClients when
\* access ends, and the listener restarts, which may fail to bind.
WebSocketAccessSet(c, enabled) ==
  /\ Receives(c)
  /\ accessToken' = enabled
  /\ socket' = [d \in Clients |->
       IF ~enabled /\ d \in connectedClients \ LocalClients /\ socket[d] = "open"
       THEN "closing" ELSE socket[d]]
  /\ listening' \in BOOLEAN
  /\ clientProtocols' = Spoken(c)
  /\ UNCHANGED <<connectedClients, clientHellos, connectionIds, connectionRegistry,
                 nextConnectionId, handler, subscriptionVars>>

RegistryKept(c) == connectionRegistry

\* The ids of the registry once onClosed has erased the client's own.
RegistryWithout(c) ==
  [i \in Ids |-> IF i = connectionIds[c] THEN Nobody ELSE connectionRegistry[i]]

\* onClosed erases the client in one critical section; what is left to do for
\* its id is the disconnect callback.
OnClosed(c) ==
  /\ socket[c] = "closing" /\ handler[c] = Idle
  /\ connectionRegistry' = RegistryWithout(c)
  /\ connectionIds' = [connectionIds EXCEPT ![c] = 0]
  /\ connectedClients' = connectedClients \ {c}
  /\ clientProtocols' = [clientProtocols EXCEPT ![c] = "none"]
  /\ clientHellos' = [clientHellos EXCEPT ![c] = NoHello]
  /\ IF connectionIds[c] = 0
     THEN socket' = [socket EXCEPT ![c] = "closed"] /\ UNCHANGED handler
     ELSE /\ socket' = [socket EXCEPT ![c] = "callback"]
          /\ handler' = [handler EXCEPT ![c].id = connectionIds[c]]
  /\ UNCHANGED <<nextConnectionId, serverVars, sent, subscriptionVars>>

-----------------------------------------------------------------------------
(* The disconnect callback of the StateMachine, still on the library's     *)
(* thread: one vector, then the other.                                     *)

\* std::remove_if and erase: the elements at the positions `gone' leave the vector.
Erased(v, gone) ==
  LET kept[i \in 0..Len(v)] == IF i = 0 THEN <<>>
                               ELSE IF i \in gone THEN kept[i - 1]
                               ELSE Append(kept[i - 1], v[i])
  IN kept[Len(v)]

\* The positions of a client in the vectors; a client is listed once.
Positions(id) == {i \in DOMAIN subscribedClients : subscribedClients[i].connectionId = id}
EventPositions(id) == {i \in DOMAIN eventSubscribers : eventSubscribers[i] = id}

\* The main thread is between the check and the effect of a command of client id.
Overtakes(id) == main.op = "store" /\ main.id = id

OnClientDisconnect(c) ==
  LET id == handler[c].id
      others == Erased(subscribedClients, Positions(id))
  IN
  /\ socket[c] = "callback"
  /\ subscribedClients' = others
  /\ main' = [main EXCEPT !.disturbed = @ \/ (main.op = "render" /\ others # subscribedClients)]
  /\ overtaken' = overtaken \union (IF Overtakes(id) THEN {id} ELSE {})
  /\ socket' = [socket EXCEPT ![c] = "callback events"]
  /\ UNCHANGED <<registryVars, serverVars, handler, sent, eventQueue, eventSubscribers>>

EventsKept(id) == eventSubscribers

WithoutEvents(id) == Erased(eventSubscribers, EventPositions(id))

OnClientDisconnectEvents(c) ==
  LET id == handler[c].id
      others == WithoutEvents(id)
  IN
  /\ socket[c] = "callback events"
  /\ eventSubscribers' = others
  /\ main' = [main EXCEPT !.disturbed = @ \/ (main.op = "broadcast" /\ others # eventSubscribers)]
  /\ overtaken' = overtaken \union (IF Overtakes(id) THEN {id} ELSE {})
  /\ socket' = [socket EXCEPT ![c] = "closed"]
  /\ handler' = [handler EXCEPT ![c] = Idle]
  /\ UNCHANGED <<registryVars, serverVars, sent, eventQueue, subscribedClients>>

-----------------------------------------------------------------------------
(* The main thread: commands.                                              *)

ClientWantsRender(id) ==
  connectionRegistry[id] # Nobody /\ clientHellos[connectionRegistry[id]].wantsRender
ClientWantsEvents(id) ==
  connectionRegistry[id] # Nobody /\ clientHellos[connectionRegistry[id]].wantsEvents

\* The conditions under which a command is not answered with an error at once.
Admissible(command, id) ==
  CASE command.type = "events" -> ClientWantsEvents(id)
    [] command.type = "format" -> ClientWantsRender(id)
    [] command.type = "stream" -> command.everyN > 0 /\ ClientWantsRender(id)

\* HandleEvent takes the next command and checks it.
HandleEvent ==
  /\ main = MainIdle /\ eventQueue # <<>>
  /\ eventQueue' = Tail(eventQueue)
  /\ LET e == Head(eventQueue) IN
       IF Admissible(e.command, e.id)
       THEN main' = [main EXCEPT !.op = "store", !.command = e.command, !.id = e.id]
       ELSE UNCHANGED main
  /\ UNCHANGED <<socket, registryVars, serverVars, handler, sent, subscribedClients,
                 eventSubscribers, overtaken>>

Stores(type) == main.op = "store" /\ main.command.type = type

CommandDone ==
  /\ main' = MainIdle
  /\ UNCHANGED <<socket, registryVars, serverVars, handler, sent, eventQueue, overtaken>>

EventSubscribe ==
  /\ Stores("events")
  /\ eventSubscribers' =
       IF ~main.command.enabled THEN Erased(eventSubscribers, EventPositions(main.id))
       ELSE IF EventPositions(main.id) # {} THEN eventSubscribers
       ELSE Append(eventSubscribers, main.id)
  /\ UNCHANGED subscribedClients
  /\ CommandDone

RenderFormatSet ==
  /\ Stores("format")
  /\ subscribedClients' =
       IF Positions(main.id) # {} THEN subscribedClients
       ELSE Append(subscribedClients, [connectionId |-> main.id, renderEnabled |-> TRUE,
                                       renderEveryN |-> 1])
  /\ UNCHANGED eventSubscribers
  /\ CommandDone

RenderStreamConfigSet ==
  /\ Stores("stream")
  /\ subscribedClients' =
       [i \in DOMAIN subscribedClients |->
          IF i \in Positions(main.id)
          THEN [subscribedClients[i] EXCEPT !.renderEnabled = main.command.enabled,
                                            !.renderEveryN = main.command.everyN]
          ELSE subscribedClients[i]]
  /\ UNCHANGED eventSubscribers
  /\ CommandDone

-----------------------------------------------------------------------------
(* The main thread: broadcasts.  A loop keeps the end it began with.       *)

ShouldSend(s, timestep) == s.renderEnabled /\ timestep % s.renderEveryN = 0

\* The ids of the vector that a broadcast of kind op is for.
Due(op, timestep) ==
  IF op = "render"
  THEN {s.connectionId : s \in {t \in {subscribedClients[i] : i \in DOMAIN subscribedClients} :
          ShouldSend(t, timestep) /\ ClientWantsRender(t.connectionId)}}
  ELSE {id \in {eventSubscribers[i] : i \in DOMAIN eventSubscribers} : ClientWantsEvents(id)}

Vector(op) == IF op = "render" THEN subscribedClients ELSE eventSubscribers

\* broadcastRenderMessage and broadcastEventData enter their loop.
BroadcastBegin(op, timestep) ==
  /\ main = MainIdle
  /\ op = "render" => Due(op, timestep) # {}
  /\ Vector(op) # <<>>
  /\ main' = [main EXCEPT !.op = op, !.next = 1, !.end = Len(Vector(op)),
                          !.timestep = timestep, !.due = Due(op, timestep)]
  /\ UNCHANGED <<socket, registryVars, serverVars, handler, sent, eventQueue,
                 subscribedClients, eventSubscribers, overtaken>>

\* The id that the loop sends to; 0 for an element it skips and for one behind the
\* vector's end, which a removal during the loop has emptied.
Target ==
  LET v == Vector(main.op) IN
  IF main.next > Len(v) THEN 0
  ELSE IF main.op = "broadcast" THEN (IF ClientWantsEvents(v[main.next]) THEN v[main.next] ELSE 0)
  ELSE IF ClientWantsRender(v[main.next].connectionId) /\ ShouldSend(v[main.next], main.timestep)
  THEN v[main.next].connectionId ELSE 0

AfterSendReturns(open) == IF open THEN main.next + 1 ELSE main.end + 1

\* The loop goes on whatever became of a send.
AfterSend(open) == main.next + 1

\* sendToClient forgets a connection that it finds closed; one that closes after
\* this check makes the send throw, and is not forgotten.
BroadcastStep ==
  LET id == Target
      open == id = 0 \/ socket[connectionRegistry[id]] = "open"
  IN
  /\ main.op \in {"render", "broadcast"} /\ main.next <= main.end
  /\ connectionRegistry' \in {connectionRegistry} \union
       (IF open THEN {} ELSE {[connectionRegistry EXCEPT ![id] = Nobody]})
  /\ main' = [main EXCEPT !.next = AfterSend(open),
                          !.served = IF id # 0 /\ open THEN @ \union {id} ELSE @]
  /\ UNCHANGED <<socket, connectedClients, clientProtocols, clientHellos, connectionIds,
                 nextConnectionId, serverVars, handler, sent, eventQueue, subscribedClients,
                 eventSubscribers, overtaken>>

BroadcastEnd ==
  /\ main.op \in {"render", "broadcast"} /\ main.next > main.end
  /\ main' = MainIdle
  /\ UNCHANGED <<socket, registryVars, serverVars, handler, sent, eventQueue,
                 subscribedClients, eventSubscribers, overtaken>>

-----------------------------------------------------------------------------

Network(c) ==
  \/ OnOpen(c) \/ OnOpenAuthorize(c) \/ PeerClose(c) \/ OnClosed(c)
  \/ OnClientHelloMismatch(c) \/ GetConnectionId(c)
  \/ \E h \in HelloInputs : OnClientHello(c, h)
  \/ \E command \in CommandInputs : OnClientMessage(c, command)
  \/ \E enabled \in BOOLEAN : WebSocketAccessSet(c, enabled)
  \/ OnClientDisconnect(c) \/ OnClientDisconnectEvents(c)

Main ==
  \/ HandleEvent \/ EventSubscribe \/ RenderFormatSet \/ RenderStreamConfigSet
  \/ \E op \in {"render", "broadcast"}, timestep \in 0..1 : BroadcastBegin(op, timestep)
  \/ BroadcastStep \/ BroadcastEnd

Next == Main \/ \E c \in Clients : Network(c)

Spec == Init /\ [][Next]_vars

-----------------------------------------------------------------------------
(* Properties.                                                             *)

\* The sockets, the maps of the service and the handlers under way keep their types.
RegistryTypeOK ==
  /\ socket \in [Clients -> {"new", "authorizing", "open", "closing", "callback",
                             "callback events", "closed"}]
  /\ connectedClients \subseteq Clients
  /\ clientProtocols \in [Clients -> {"none", "BINARY", "JSON"}]
  /\ clientHellos \in [Clients -> Hello]
  /\ connectionIds \in [Clients -> 0..MaxMessages]
  /\ connectionRegistry \in [Ids -> Clients \union {Nobody}]
  /\ nextConnectionId \in 1..MaxMessages + 1
  /\ handler \in [Clients -> [command : Command, id : 0..MaxMessages]]
  /\ sent \in 0..MaxMessages

\* At most one client that wants render messages is registered (onClientMessage
\* rejects a second UI client).
OneUiClient ==
  \A c, d \in Clients : clientHellos[c].wantsRender /\ clientHellos[d].wantsRender => c = d

\* A client that has closed leaves nothing behind in the maps of the service,
\* and an id leads to the one client that has it.
RegistryFollowsClients ==
  /\ \A c \in Clients \ connectedClients :
       connectionIds[c] = 0 /\ clientHellos[c] = NoHello /\ clientProtocols[c] = "none"
  /\ \A i \in Ids : connectionRegistry[i] # Nobody => connectionIds[connectionRegistry[i]] = i
  /\ \A c, d \in Clients : connectionIds[c] = connectionIds[d] /\ connectionIds[c] # 0 => c = d

\* The disconnect callback has yet to remove the id from this vector.
Leaving(id, phases) == \E c \in Clients : handler[c].id = id /\ socket[c] \in phases

\* A subscriber is a client with a connection or one whose disconnect is being
\* handled, each listed once.  The exception is a disconnect between the check and
\* the effect of the client's own command: what it subscribes to is kept for good.
SubscribersBacked ==
  /\ \A i \in DOMAIN subscribedClients :
       LET id == subscribedClients[i].connectionId IN
       /\ Positions(id) = {i}
       /\ \/ \E c \in Clients : connectionIds[c] = id
          \/ Leaving(id, {"callback"})
          \/ id \in overtaken
  /\ \A i \in DOMAIN eventSubscribers :
       LET id == eventSubscribers[i] IN
       /\ EventPositions(id) = {i}
       /\ \/ \E c \in Clients : connectionIds[c] = id
          \/ Leaving(id, {"callback", "callback events"})
          \/ id \in overtaken

\* A broadcast reaches every client it is for that is still open, also after a send
\* to another one failed.  The exception is a removal from the vector (or a new
\* hello) while the loop runs: its elements move under the loop.
BroadcastComplete ==
  main.next > main.end /\ ~main.disturbed =>
    \A id \in main.due \ main.served :
      connectionRegistry[id] = Nobody \/ socket[connectionRegistry[id]] # "open"
=============================================================================
