----------------------- MODULE WebSocketClientsProofs -----------------------
(***************************************************************************)
(* Proofs about WebSocketClients, for every number of clients, hellos,     *)
(* commands and messages.  RegistryInv is about the maps of the service:   *)
(* they keep their types, follow the clients that are connected, and know  *)
(* at most one UI client.  SubscriptionInv adds the vectors that both      *)
(* threads write and the loop of a broadcast: who is listed has somebody   *)
(* to remove it, and who is due is ahead of the loop, served or gone.      *)
(***************************************************************************)
EXTENDS WebSocketClients, IndexInduction, TLAPS

\* An id has been drawn for the client and is not registered yet.
Drawn(c) == handler[c].command # NoCommand

\* What makes RegistryFollowsClients inductive: ids are drawn once, and a client
\* whose callbacks run has not been erased.
IdsDrawnOnce ==
  /\ nextConnectionId <= sent + 1
  /\ \A c \in Clients : connectionIds[c] < nextConnectionId
  /\ \A c \in Clients : Drawn(c) => handler[c].id \in 1..nextConnectionId - 1
  /\ \A c, d \in Clients : Drawn(c) => connectionIds[d] # handler[c].id
  /\ \A c, d \in Clients : Drawn(c) /\ Drawn(d) /\ c # d => handler[c].id # handler[d].id

CallbacksInTurn ==
  /\ \A c \in Clients : c \in connectedClients <=> socket[c] \in {"open", "closing"}
  /\ \A c \in Clients : Drawn(c) => socket[c] \in {"open", "closing"} /\ connectionIds[c] = 0

RegistryInv ==
  RegistryTypeOK /\ IdsDrawnOnce /\ CallbacksInTurn /\ RegistryFollowsClients /\ OneUiClient

\* A hello is a record with two Boolean fields, and so is the absent one.
LEMMA HelloFacts ==
  /\ NoHello \in Hello /\ ~NoHello.wantsRender
  /\ NoCommand \in Command
  /\ Idle \in [command : Command, id : 0..MaxMessages] /\ Idle.command = NoCommand /\ Idle.id = 0
  /\ \A k \in CommandInputs : k \in Command /\ k # NoCommand
  /\ \A h \in HelloInputs : h \in Hello
<1>1. MaxMessages \in Nat BY ClientsAssumption
<1>2. NoHello \in Hello /\ ~NoHello.wantsRender BY DEF NoHello, Hello
<1>3. NoCommand \in Command BY DEF NoCommand, Command
<1>4. Idle \in [command : Command, id : 0..MaxMessages] /\ Idle.command = NoCommand /\ Idle.id = 0
  BY <1>1, <1>3 DEF Idle
<1>5. \A k \in CommandInputs : k \in Command /\ k # NoCommand
  BY ClientsAssumption DEF Commands, NoCommand
<1>6. \A h \in HelloInputs : h \in Hello
  BY ClientsAssumption
<1> QED BY <1>2, <1>3, <1>4, <1>5, <1>6

\* The numbers among the variables, for the arithmetic below.
LEMMA Numbers ==
  ASSUME RegistryTypeOK
  PROVE  /\ MaxMessages \in Nat /\ sent \in Nat /\ sent <= MaxMessages
         /\ nextConnectionId \in Nat /\ 1 <= nextConnectionId /\ nextConnectionId <= MaxMessages + 1
         /\ \A c \in Clients : connectionIds[c] \in Nat /\ connectionIds[c] <= MaxMessages
         /\ \A c \in Clients : handler[c].id \in Nat /\ handler[c].id <= MaxMessages
<1>1. MaxMessages \in Nat BY ClientsAssumption
<1>2. sent \in 0..MaxMessages BY DEF RegistryTypeOK
<1>3. nextConnectionId \in 1..MaxMessages + 1 BY DEF RegistryTypeOK
<1>4. \A c \in Clients : connectionIds[c] \in 0..MaxMessages BY DEF RegistryTypeOK
<1>5. \A c \in Clients : handler[c].id \in 0..MaxMessages BY DEF RegistryTypeOK
<1>6. sent \in Nat /\ sent <= MaxMessages BY <1>1, <1>2
<1>7. nextConnectionId \in Nat /\ 1 <= nextConnectionId /\ nextConnectionId <= MaxMessages + 1
  BY <1>1, <1>3
<1>8. \A c \in Clients : connectionIds[c] \in Nat /\ connectionIds[c] <= MaxMessages
  BY <1>1, <1>4
<1>9. \A c \in Clients : handler[c].id \in Nat /\ handler[c].id <= MaxMessages
  BY <1>1, <1>5
<1> QED BY <1>1, <1>6, <1>7, <1>8, <1>9

\* The initial state satisfies the invariant.
LEMMA RegistryInit == Init => RegistryInv
<1> SUFFICES ASSUME Init PROVE RegistryInv
  OBVIOUS
<1>1. MaxMessages \in Nat BY ClientsAssumption
<1>2. RegistryTypeOK
  BY <1>1, HelloFacts DEF Init, RegistryTypeOK, Ids
<1>3. IdsDrawnOnce
  BY <1>1, HelloFacts DEF Init, IdsDrawnOnce, Drawn
<1>4. CallbacksInTurn
  BY HelloFacts DEF Init, CallbacksInTurn, Drawn
<1>5. RegistryFollowsClients
  BY DEF Init, RegistryFollowsClients
<1>6. OneUiClient
  BY HelloFacts DEF Init, OneUiClient
<1> QED BY <1>2, <1>3, <1>4, <1>5, <1>6 DEF RegistryInv

\* The registry may lose entries, and nothing else that the invariant is about changes.
LEMMA EntriesForgotten ==
  ASSUME RegistryInv,
         UNCHANGED <<socket, connectedClients, clientProtocols, clientHellos, connectionIds,
                     nextConnectionId, handler, sent>>,
         connectionRegistry' \in [Ids -> Clients \union {Nobody}],
         \A i \in Ids : connectionRegistry'[i] \in {connectionRegistry[i], Nobody}
  PROVE  RegistryInv'
<1>1. RegistryTypeOK'
  BY DEF RegistryInv, RegistryTypeOK
<1>2. IdsDrawnOnce'
  BY DEF RegistryInv, IdsDrawnOnce, Drawn
<1>3. CallbacksInTurn'
  BY DEF RegistryInv, CallbacksInTurn, Drawn
<1>4. RegistryFollowsClients'
  BY DEF RegistryInv, RegistryFollowsClients
<1>5. OneUiClient'
  BY DEF RegistryInv, OneUiClient
<1> QED BY <1>1, <1>2, <1>3, <1>4, <1>5 DEF RegistryInv

\* Steps of the main thread.
LEMMA MainKeeps == RegistryInv /\ Main => RegistryInv'
<1> SUFFICES ASSUME RegistryInv, Main PROVE RegistryInv'
  OBVIOUS
<1>1. connectionRegistry \in [Ids -> Clients \union {Nobody}]
  BY DEF RegistryInv, RegistryTypeOK
<1>2. CASE BroadcastStep
  <2>1. PICK id : connectionRegistry' = connectionRegistry
                  \/ connectionRegistry' = [connectionRegistry EXCEPT ![id] = Nobody]
    BY <1>2 DEF BroadcastStep
  <2>2. /\ connectionRegistry' \in [Ids -> Clients \union {Nobody}]
        /\ \A i \in Ids : connectionRegistry'[i] \in {connectionRegistry[i], Nobody}
    BY <1>1, <2>1
  <2> QED BY <1>2, <2>2, EntriesForgotten DEF BroadcastStep
<1>3. CASE UNCHANGED <<socket, registryVars, handler, sent>>
  BY <1>1, <1>3, EntriesForgotten DEF registryVars
<1> QED BY <1>2, <1>3 DEF Main, HandleEvent, EventSubscribe, RenderFormatSet,
           RenderStreamConfigSet, CommandDone, BroadcastBegin, BroadcastEnd

\* Connecting, and the steps in which only the state of a socket changes.
LEMMA SocketKeeps ==
  ASSUME NEW c \in Clients, RegistryInv,
         \/ OnOpen(c) \/ OnOpenAuthorize(c) \/ PeerClose(c)
         \/ OnClientDisconnect(c) \/ OnClientDisconnectEvents(c)
  PROVE  RegistryInv'
<1>1. CASE OnOpen(c)
  <2>1. RegistryTypeOK'
    BY <1>1 DEF OnOpen, RegistryInv, RegistryTypeOK
  <2>2. IdsDrawnOnce'
    BY <1>1 DEF OnOpen, RegistryInv, IdsDrawnOnce, Drawn
  <2>3. CallbacksInTurn'
    BY <1>1 DEF OnOpen, RegistryInv, CallbacksInTurn, Drawn, RegistryTypeOK
  <2>4. RegistryFollowsClients'
    BY <1>1 DEF OnOpen, RegistryInv, RegistryFollowsClients
  <2>5. OneUiClient'
    BY <1>1 DEF OnOpen, RegistryInv, OneUiClient
  <2> QED BY <2>1, <2>2, <2>3, <2>4, <2>5 DEF RegistryInv
<1>2. CASE OnOpenAuthorize(c) \/ PeerClose(c)
  <2>1. RegistryTypeOK'
    BY <1>2 DEF OnOpenAuthorize, PeerClose, registryVars, RegistryInv, RegistryTypeOK
  <2>2. IdsDrawnOnce'
    BY <1>2 DEF OnOpenAuthorize, PeerClose, registryVars, RegistryInv, IdsDrawnOnce, Drawn
  <2>3. CallbacksInTurn'
    BY <1>2 DEF OnOpenAuthorize, PeerClose, registryVars, RegistryInv, CallbacksInTurn, Drawn,
                RegistryTypeOK
  <2>4. RegistryFollowsClients'
    BY <1>2 DEF OnOpenAuthorize, PeerClose, registryVars, RegistryInv, RegistryFollowsClients
  <2>5. OneUiClient'
    BY <1>2 DEF OnOpenAuthorize, PeerClose, registryVars, RegistryInv, OneUiClient
  <2> QED BY <2>1, <2>2, <2>3, <2>4, <2>5 DEF RegistryInv
<1>3. CASE OnClientDisconnect(c) \/ OnClientDisconnectEvents(c)
  <2>0. /\ socket[c] \in {"callback", "callback events"}
        /\ UNCHANGED <<registryVars, sent>>
        /\ \E v \in {"callback events", "closed"} : socket' = [socket EXCEPT ![c] = v]
        /\ handler' = handler \/ handler' = [handler EXCEPT ![c] = Idle]
    BY <1>3 DEF OnClientDisconnect, OnClientDisconnectEvents
  <2>a. handler' \in [Clients -> [command : Command, id : 0..MaxMessages]]
    BY <2>0, HelloFacts DEF RegistryInv, RegistryTypeOK
  <2>b. socket' \in [Clients -> {"new", "authorizing", "open", "closing", "callback",
                               "callback events", "closed"}]
    BY <2>0 DEF RegistryInv, RegistryTypeOK
  <2>1. RegistryTypeOK'
    BY <2>0, <2>a, <2>b DEF registryVars, RegistryInv, RegistryTypeOK
  <2>d. \A d \in Clients : Drawn(d)' => Drawn(d) /\ handler'[d] = handler[d]
    BY <2>0, HelloFacts DEF Drawn, RegistryInv, RegistryTypeOK
  <2>2. IdsDrawnOnce'
    BY <2>0, <2>d DEF registryVars, RegistryInv, IdsDrawnOnce
  <2>3. CallbacksInTurn'
    BY <2>0, <2>d DEF registryVars, RegistryInv, CallbacksInTurn, RegistryTypeOK
  <2>4. RegistryFollowsClients'
    BY <2>0 DEF registryVars, RegistryInv, RegistryFollowsClients
  <2>5. OneUiClient'
    BY <2>0 DEF registryVars, RegistryInv, OneUiClient
  <2> QED BY <2>1, <2>2, <2>3, <2>4, <2>5 DEF RegistryInv
<1> QED BY <1>1, <1>2, <1>3

\* A hello, accepted or not.
LEMMA HelloKeeps ==
  ASSUME NEW c \in Clients, RegistryInv,
         OnClientHelloMismatch(c) \/ \E h \in HelloInputs : OnClientHello(c, h)
  PROVE  RegistryInv'
<1>1. PICK h \in Hello :
        \/ clientHellos' = clientHellos
        \/ /\ clientHellos' = [clientHellos EXCEPT ![c] = h]
           /\ h.wantsRender => ~UiElsewhere(c)
  BY HelloFacts DEF OnClientHelloMismatch, OnClientHello
<1>2. /\ UNCHANGED <<connectedClients, connectionIds, connectionRegistry, nextConnectionId, handler>>
      /\ socket[c] \in {"open", "closing"} /\ sent < MaxMessages /\ sent' = sent + 1
      /\ socket' = socket \/ socket' = [socket EXCEPT ![c] = "closing"]
      /\ clientProtocols' = [clientProtocols EXCEPT ![c] = "BINARY"]
  BY DEF OnClientHelloMismatch, OnClientHello, Receives
<1>3. RegistryTypeOK /\ MaxMessages \in Nat
  BY ClientsAssumption DEF RegistryInv
<1>4. clientHellos' \in [Clients -> Hello]
  BY <1>1, <1>3 DEF RegistryTypeOK
<1>5. sent' \in 0..MaxMessages
  BY <1>2, <1>3, Numbers
<1>6. RegistryTypeOK'
  BY <1>2, <1>3, <1>4, <1>5 DEF RegistryTypeOK
<1>7. IdsDrawnOnce'
  <2>1. nextConnectionId' <= sent' + 1
    BY <1>2, <1>3, Numbers DEF RegistryInv, IdsDrawnOnce
  <2> QED BY <1>2, <2>1 DEF RegistryInv, IdsDrawnOnce, Drawn
<1>8. c \in connectedClients
  BY <1>2 DEF RegistryInv, CallbacksInTurn
<1>9. CallbacksInTurn'
  BY <1>2, <1>3 DEF RegistryInv, CallbacksInTurn, Drawn, RegistryTypeOK
<1>10. RegistryFollowsClients'
  <2>1. \A d \in Clients \ connectedClients :
          clientHellos'[d] = clientHellos[d] /\ clientProtocols'[d] = clientProtocols[d]
    BY <1>1, <1>2, <1>3, <1>8 DEF RegistryTypeOK
  <2> QED BY <1>2, <2>1 DEF RegistryInv, RegistryFollowsClients
<1>11. OneUiClient'
  <2>1. CASE clientHellos' = clientHellos
    BY <2>1 DEF RegistryInv, OneUiClient
  <2>2. CASE /\ clientHellos' = [clientHellos EXCEPT ![c] = h]
             /\ h.wantsRender => ~UiElsewhere(c)
    <3> SUFFICES ASSUME NEW a \in Clients, NEW b \in Clients, a # b,
                        clientHellos'[a].wantsRender, clientHellos'[b].wantsRender
                 PROVE  FALSE
      BY DEF OneUiClient
    <3>1. \A d \in Clients \ {c} : clientHellos'[d] = clientHellos[d]
      BY <2>2, <1>3 DEF RegistryTypeOK
    <3>2. clientHellos'[c] = h
      BY <2>2, <1>3 DEF RegistryTypeOK
    <3>3. CASE a # c /\ b # c
      BY <3>1, <3>3 DEF RegistryInv, OneUiClient
    <3>4. CASE a = c
      BY <3>1, <3>2, <3>4, <2>2 DEF UiElsewhere
    <3>5. CASE b = c
      BY <3>1, <3>2, <3>5, <2>2 DEF UiElsewhere
    <3> QED BY <3>3, <3>4, <3>5
  <2> QED BY <1>1, <2>1, <2>2
<1> QED BY <1>6, <1>7, <1>9, <1>10, <1>11 DEF RegistryInv

\* A command, up to the point where an id is drawn; and a change of the access.
LEMMA MessageKeeps ==
  ASSUME NEW c \in Clients, RegistryInv,
         \/ \E command \in CommandInputs : OnClientMessage(c, command)
         \/ \E enabled \in BOOLEAN : WebSocketAccessSet(c, enabled)
  PROVE  RegistryInv'
<1>1. /\ UNCHANGED <<connectedClients, clientHellos, connectionIds, connectionRegistry>>
      /\ socket[c] \in {"open", "closing"} /\ handler[c] = Idle
      /\ sent < MaxMessages /\ sent' = sent + 1
      /\ \E p \in {"BINARY", "JSON"} : clientProtocols' = [clientProtocols EXCEPT ![c] = p]
  BY DEF OnClientMessage, WebSocketAccessSet, Receives, Spoken
<1>2. RegistryTypeOK /\ MaxMessages \in Nat
  BY ClientsAssumption DEF RegistryInv
<1>3. c \in connectedClients /\ ~Drawn(c)
  BY <1>1, HelloFacts DEF RegistryInv, CallbacksInTurn, Drawn
<1>4. /\ DOMAIN socket' = Clients
      /\ \A d \in Clients : \/ socket'[d] = socket[d]
                            \/ d \in connectedClients /\ socket[d] = "open" /\ socket'[d] = "closing"
  <2>1. CASE \E command \in CommandInputs : OnClientMessage(c, command)
    BY <2>1, <1>2 DEF OnClientMessage, RegistryTypeOK
  <2>2. CASE \E enabled \in BOOLEAN : WebSocketAccessSet(c, enabled)
    BY <2>2, <1>2 DEF WebSocketAccessSet, RegistryTypeOK
  <2> QED BY <2>1, <2>2
<1>5. \/ UNCHANGED <<handler, nextConnectionId>>
      \/ /\ connectionIds[c] = 0
         /\ \E command \in CommandInputs :
              handler' = [handler EXCEPT ![c] = [command |-> command, id |-> nextConnectionId]]
         /\ nextConnectionId' = nextConnectionId + 1
  BY DEF OnClientMessage, WebSocketAccessSet
<1>6. sent' \in 0..MaxMessages /\ nextConnectionId <= sent + 1 /\ nextConnectionId \in Ids
  BY <1>1, <1>2, Numbers DEF RegistryInv, IdsDrawnOnce, Ids
<1>7. /\ handler' \in [Clients -> [command : Command, id : 0..MaxMessages]]
      /\ nextConnectionId' \in 1..MaxMessages + 1
  <2>1. \A command \in CommandInputs :
          [command |-> command, id |-> nextConnectionId] \in [command : Command, id : 0..MaxMessages]
    BY <1>2, <1>6, HelloFacts DEF Ids
  <2>2. nextConnectionId' \in 1..MaxMessages + 1
    BY <1>2, <1>5, <1>6, Numbers DEF Ids
  <2>3. handler' \in [Clients -> [command : Command, id : 0..MaxMessages]]
    <3>1. handler \in [Clients -> [command : Command, id : 0..MaxMessages]]
      BY <1>2 DEF RegistryTypeOK
    <3> QED BY <1>5, <2>1, <3>1
  <2> QED BY <2>2, <2>3
<1>8. RegistryTypeOK'
  <2>1. clientProtocols' \in [Clients -> {"none", "BINARY", "JSON"}]
    BY <1>1, <1>2 DEF RegistryTypeOK
  <2>2. socket' \in [Clients -> {"new", "authorizing", "open", "closing", "callback",
                                 "callback events", "closed"}]
    <3>1. socket' = [d \in Clients |-> socket'[d]]
      <4>1. CASE \E command \in CommandInputs : OnClientMessage(c, command)
        BY <4>1, <1>2 DEF OnClientMessage, RegistryTypeOK
      <4>2. CASE \E enabled \in BOOLEAN : WebSocketAccessSet(c, enabled)
        BY <4>2 DEF WebSocketAccessSet
      <4> QED BY <4>1, <4>2
    <3> QED BY <3>1, <1>4, <1>2, ZenonT(40) DEF RegistryTypeOK
  <2> QED BY <1>1, <1>2, <1>6, <1>7, <2>1, <2>2 DEF RegistryTypeOK
<1>9. \A d \in Clients \ {c} : handler'[d] = handler[d] /\ Drawn(d)' = Drawn(d)
  BY <1>5, <1>2 DEF RegistryTypeOK, Drawn
<1>10. CASE UNCHANGED <<handler, nextConnectionId>>
  <2>1. IdsDrawnOnce'
    <3>1. nextConnectionId' <= sent' + 1
      BY <1>1, <1>2, <1>10, Numbers DEF RegistryInv, IdsDrawnOnce
    <3> QED BY <1>1, <1>10, <3>1 DEF RegistryInv, IdsDrawnOnce, Drawn
  <2>2. CallbacksInTurn'
    BY <1>1, <1>4, <1>10 DEF RegistryInv, CallbacksInTurn, Drawn
  <2> QED BY <2>1, <2>2, <1>8, <1>1, <1>2, <1>3 DEF RegistryInv, RegistryFollowsClients,
             OneUiClient, RegistryTypeOK
<1>11. CASE /\ connectionIds[c] = 0
            /\ \E command \in CommandInputs :
                 handler' = [handler EXCEPT ![c] = [command |-> command, id |-> nextConnectionId]]
            /\ nextConnectionId' = nextConnectionId + 1
  <2>1. handler'[c].id = nextConnectionId
    <3>1. DOMAIN handler = Clients
      BY <1>2 DEF RegistryTypeOK
    <3> QED BY <1>11, <3>1
  <2>2. IdsDrawnOnce'
    <3>1. nextConnectionId' <= sent' + 1
      BY <1>1, <1>2, <1>6, <1>11, Numbers
    <3>2. \A d \in Clients : connectionIds'[d] < nextConnectionId'
      BY <1>1, <1>2, <1>11, Numbers DEF RegistryInv, IdsDrawnOnce
    <3>3. \A d \in Clients : Drawn(d)' => handler'[d].id \in 1..nextConnectionId' - 1
      BY <1>2, <1>9, <1>11, <2>1, Numbers DEF RegistryInv, IdsDrawnOnce
    <3>4. \A d, e \in Clients : Drawn(d)' => connectionIds'[e] # handler'[d].id
      BY <1>1, <1>2, <1>9, <2>1, Numbers DEF RegistryInv, IdsDrawnOnce
    <3>5. \A d, e \in Clients : Drawn(d)' /\ Drawn(e)' /\ d # e => handler'[d].id # handler'[e].id
      BY <1>2, <1>9, <2>1, Numbers DEF RegistryInv, IdsDrawnOnce
    <3> QED BY <3>1, <3>2, <3>3, <3>4, <3>5 DEF IdsDrawnOnce
  <2>3. CallbacksInTurn'
    BY <1>1, <1>4, <1>9, <1>11 DEF RegistryInv, CallbacksInTurn
  <2> QED BY <2>2, <2>3, <1>8, <1>1, <1>2, <1>3 DEF RegistryInv, RegistryFollowsClients,
             OneUiClient, RegistryTypeOK
<1> QED BY <1>5, <1>10, <1>11

\* The id that was drawn is registered.
LEMMA RegisterKeeps ==
  ASSUME NEW c \in Clients, RegistryInv, GetConnectionId(c)
  PROVE  RegistryInv'
<1> DEFINE id == handler[c].id
<1>1. /\ UNCHANGED <<socket, connectedClients, clientProtocols, clientHellos, nextConnectionId, sent>>
      /\ Drawn(c)
      /\ connectionIds' = [connectionIds EXCEPT ![c] = id]
      /\ connectionRegistry' = [connectionRegistry EXCEPT ![id] = c]
      /\ handler' = [handler EXCEPT ![c] = Idle]
  BY DEF GetConnectionId, Drawn
<1>2. RegistryTypeOK /\ MaxMessages \in Nat
  BY ClientsAssumption DEF RegistryInv
<1>3. id \in Ids /\ id < nextConnectionId /\ connectionIds[c] = 0 /\ c \in connectedClients
  <2>1. id \in 1..nextConnectionId - 1
    BY <1>1 DEF RegistryInv, IdsDrawnOnce
  <2>2. connectionIds[c] = 0 /\ c \in connectedClients
    BY <1>1 DEF RegistryInv, CallbacksInTurn
  <2> QED BY <1>2, <2>1, <2>2, Numbers DEF Ids
<1>4. ~Drawn(c)' /\ \A d \in Clients \ {c} : handler'[d] = handler[d] /\ Drawn(d)' = Drawn(d)
  BY <1>1, <1>2, HelloFacts DEF RegistryTypeOK, Drawn
<1>5. connectionIds'[c] = id /\ \A d \in Clients \ {c} : connectionIds'[d] = connectionIds[d]
  BY <1>1, <1>2 DEF RegistryTypeOK
<1>6. \A d \in Clients : connectionIds[d] # id
  BY <1>1 DEF RegistryInv, IdsDrawnOnce
<1> HIDE DEF id
<1>7. RegistryTypeOK'
  <2>1. handler' \in [Clients -> [command : Command, id : 0..MaxMessages]]
    BY <1>1, <1>2, HelloFacts DEF RegistryTypeOK
  <2>2. connectionIds' \in [Clients -> 0..MaxMessages]
    <3>1. connectionIds \in [Clients -> 0..MaxMessages]
      BY <1>2 DEF RegistryTypeOK
    <3>2. id \in 0..MaxMessages
      BY <1>2, <1>3 DEF Ids
    <3> QED BY <1>1, <3>1, <3>2
  <2>3. connectionRegistry' \in [Ids -> Clients \union {Nobody}]
    BY <1>1, <1>2, <1>3 DEF RegistryTypeOK
  <2> QED BY <1>1, <1>2, <2>1, <2>2, <2>3 DEF RegistryTypeOK
<1>8. IdsDrawnOnce'
  <2>1. \A d \in Clients \ {c} : Drawn(d) => handler[d].id # id
    BY <1>1 DEF RegistryInv, IdsDrawnOnce, id
  <2> QED BY <1>1, <1>3, <1>4, <1>5, <2>1 DEF RegistryInv, IdsDrawnOnce
<1>9. CallbacksInTurn'
  BY <1>1, <1>4, <1>5 DEF RegistryInv, CallbacksInTurn
<1>10. RegistryFollowsClients'
  <2>1. \A d \in Clients \ connectedClients' :
          connectionIds'[d] = 0 /\ clientHellos'[d] = NoHello /\ clientProtocols'[d] = "none"
    BY <1>1, <1>3, <1>5 DEF RegistryInv, RegistryFollowsClients
  <2>2. ASSUME NEW i \in Ids, connectionRegistry'[i] # Nobody
        PROVE  connectionIds'[connectionRegistry'[i]] = i
    <3>1. CASE i = id
      BY <3>1, <1>1, <1>2, <1>3, <1>5 DEF RegistryTypeOK
    <3>2. CASE i # id
      <4>1. connectionRegistry'[i] = connectionRegistry[i]
        BY <3>2, <1>1, <1>2 DEF RegistryTypeOK
      <4>2. connectionRegistry[i] \in Clients /\ connectionIds[connectionRegistry[i]] = i
        BY <4>1, <2>2, <1>2 DEF RegistryInv, RegistryFollowsClients, RegistryTypeOK
      <4>3. connectionRegistry[i] # c
        BY <4>2, <1>3, <1>2 DEF Ids
      <4> QED BY <4>1, <4>2, <4>3, <1>5
    <3> QED BY <3>1, <3>2
  <2>3. \A d, e \in Clients :
          connectionIds'[d] = connectionIds'[e] /\ connectionIds'[d] # 0 => d = e
    BY <1>5, <1>6 DEF RegistryInv, RegistryFollowsClients
  <2> QED BY <2>1, <2>2, <2>3 DEF RegistryFollowsClients
<1>11. OneUiClient'
  BY <1>1 DEF RegistryInv, OneUiClient
<1> QED BY <1>7, <1>8, <1>9, <1>10, <1>11 DEF RegistryInv

\* A client that closed is erased.
LEMMA ClosedKeeps ==
  ASSUME NEW c \in Clients, RegistryInv, OnClosed(c)
  PROVE  RegistryInv'
<1>1. RegistryTypeOK /\ MaxMessages \in Nat
  BY ClientsAssumption DEF RegistryInv
<1>2. /\ UNCHANGED <<nextConnectionId, sent>>
      /\ connectionRegistry' = RegistryWithout(c)
      /\ connectionIds' = [connectionIds EXCEPT ![c] = 0]
      /\ connectedClients' = connectedClients \ {c}
      /\ clientProtocols' = [clientProtocols EXCEPT ![c] = "none"]
      /\ clientHellos' = [clientHellos EXCEPT ![c] = NoHello]
      /\ \E v \in {"closed", "callback"} : socket' = [socket EXCEPT ![c] = v]
      /\ handler[c] = Idle
      /\ handler' = handler \/ handler' = [handler EXCEPT ![c].id = connectionIds[c]]
  BY DEF OnClosed
<1>3. /\ \A d \in Clients \ {c} : handler'[d] = handler[d] /\ Drawn(d)' = Drawn(d)
      /\ ~Drawn(c)'
  <2>1. handler \in [Clients -> [command : Command, id : 0..MaxMessages]]
    BY <1>1 DEF RegistryTypeOK
  <2>2. handler[c].command = NoCommand
    BY <1>2, HelloFacts
  <2>3. handler'[c].command = NoCommand
    BY <1>2, <2>1, <2>2
  <2> QED BY <1>2, <2>1, <2>3 DEF Drawn
<1>4. handler' \in [Clients -> [command : Command, id : 0..MaxMessages]]
  <2>1. handler \in [Clients -> [command : Command, id : 0..MaxMessages]]
    BY <1>1 DEF RegistryTypeOK
  <2>2. connectionIds[c] \in 0..MaxMessages
    BY <1>1 DEF RegistryTypeOK
  <2> QED BY <1>2, <2>1, <2>2
<1>5. connectionRegistry' \in [Ids -> Clients \union {Nobody}]
  BY <1>1, <1>2 DEF RegistryTypeOK, RegistryWithout
<1>6. RegistryTypeOK'
  BY <1>1, <1>2, <1>4, <1>5, HelloFacts DEF RegistryTypeOK
<1>7. /\ connectionIds'[c] = 0 /\ clientHellos'[c] = NoHello /\ clientProtocols'[c] = "none"
      /\ \A d \in Clients \ {c} : /\ connectionIds'[d] = connectionIds[d]
                                  /\ clientHellos'[d] = clientHellos[d]
                                  /\ clientProtocols'[d] = clientProtocols[d]
                                  /\ socket'[d] = socket[d]
      /\ socket'[c] \in {"closed", "callback"}
  BY <1>1, <1>2 DEF RegistryTypeOK
<1>8. IdsDrawnOnce'
  BY <1>1, <1>2, <1>3, <1>7, Numbers DEF RegistryInv, IdsDrawnOnce
<1>9. CallbacksInTurn'
  BY <1>2, <1>3, <1>7 DEF RegistryInv, CallbacksInTurn
<1>10. RegistryFollowsClients'
  <2>1. \A d \in Clients \ connectedClients' :
          connectionIds'[d] = 0 /\ clientHellos'[d] = NoHello /\ clientProtocols'[d] = "none"
    BY <1>2, <1>7 DEF RegistryInv, RegistryFollowsClients
  <2>2. ASSUME NEW i \in Ids, connectionRegistry'[i] # Nobody
        PROVE  connectionIds'[connectionRegistry'[i]] = i
    <3>1. i # connectionIds[c] /\ connectionRegistry'[i] = connectionRegistry[i]
      BY <2>2, <1>2 DEF RegistryWithout
    <3>2. connectionRegistry[i] \in Clients /\ connectionIds[connectionRegistry[i]] = i
      BY <3>1, <2>2, <1>1 DEF RegistryInv, RegistryFollowsClients, RegistryTypeOK
    <3> QED BY <3>1, <3>2, <1>7
  <2>3. \A d, e \in Clients :
          connectionIds'[d] = connectionIds'[e] /\ connectionIds'[d] # 0 => d = e
    BY <1>7 DEF RegistryInv, RegistryFollowsClients
  <2> QED BY <2>1, <2>2, <2>3 DEF RegistryFollowsClients
<1>11. OneUiClient'
  BY <1>7, HelloFacts DEF RegistryInv, OneUiClient
<1> QED BY <1>6, <1>8, <1>9, <1>10, <1>11 DEF RegistryInv

\* Every step keeps the invariant.
LEMMA RegistryStep == RegistryInv /\ [Next]_vars => RegistryInv'
<1> SUFFICES ASSUME RegistryInv, [Next]_vars PROVE RegistryInv'
  OBVIOUS
<1>1. CASE Main
  BY <1>1, MainKeeps
<1>2. ASSUME NEW c \in Clients, Network(c) PROVE RegistryInv'
  BY <1>2, SocketKeeps, HelloKeeps, MessageKeeps, RegisterKeeps, ClosedKeeps DEF Network
<1>3. CASE UNCHANGED vars
  BY <1>3, EntriesForgotten DEF vars, registryVars, RegistryInv, RegistryTypeOK
<1> QED BY <1>1, <1>2, <1>3 DEF Next

\* The maps of the service keep their types, however many clients and messages.
THEOREM RegistryTypeCorrect == Spec => []RegistryTypeOK
<1>1. RegistryInv => RegistryTypeOK BY DEF RegistryInv
<1> QED BY RegistryInit, RegistryStep, <1>1, PTL DEF Spec

\* onClientMessage never registers a second UI client.
THEOREM SingleUi == Spec => []OneUiClient
<1>1. RegistryInv => OneUiClient BY DEF RegistryInv
<1> QED BY RegistryInit, RegistryStep, <1>1, PTL DEF Spec

\* A closed client leaves no hello, protocol or id behind, and no two clients share an
\* id, although getConnectionId looks an id up and registers it in two critical sections.
THEOREM NothingLeftBehind == Spec => []RegistryFollowsClients
<1>1. RegistryInv => RegistryFollowsClients BY DEF RegistryInv
<1> QED BY RegistryInit, RegistryStep, <1>1, PTL DEF Spec
-----------------------------------------------------------------------------
(* What is left of a vector after std::remove_if and erase.                *)

\* One step of the loop.
Kept(v, gone, f, i) ==
  IF i = 0 THEN <<>> ELSE IF i \in gone THEN f[i - 1] ELSE Append(f[i - 1], v[i])

\* The loop comes to its end.
LEMMA KeptExists ==
  ASSUME NEW v, NEW gone, Len(v) \in Nat
  PROVE  \E f : f = [i \in 0..Len(v) |-> Kept(v, gone, f, i)]
<1> DEFINE Ok(k) == \E f : f = [i \in 0..k |-> Kept(v, gone, f, i)]
           S == {k \in Nat : Ok(k)}
<1>1. Ok(0)
  <2> DEFINE e == [i \in 0..0 |-> <<>>]
  <2>1. e = [i \in 0..0 |-> Kept(v, gone, e, i)]
    BY DEF Kept
  <2> QED
    BY <2>1
<1>2. ASSUME NEW k \in Nat, Ok(k) PROVE Ok(k + 1)
  <2> PICK f : f = [i \in 0..k |-> Kept(v, gone, f, i)]
    BY <1>2
  <2> DEFINE g == [i \in 0..(k + 1) |-> IF i <= k THEN f[i] ELSE Kept(v, gone, f, i)]
  <2>1. ASSUME NEW i \in 0..(k + 1) PROVE g[i] = Kept(v, gone, g, i)
    <3>1. i # 0 => i - 1 \in 0..(k + 1) /\ i - 1 <= k
      OBVIOUS
    <3>2. i # 0 => g[i - 1] = f[i - 1]
      BY <3>1
    <3>3. g[i] = IF i <= k THEN f[i] ELSE Kept(v, gone, f, i)
      OBVIOUS
    <3>4. i <= k => f[i] = Kept(v, gone, f, i)
      OBVIOUS
    <3>5. Kept(v, gone, g, i) = Kept(v, gone, f, i)
      <4> HIDE DEF g
      <4> QED
        BY <3>2 DEF Kept
    <3> QED
      BY <3>3, <3>4, <3>5
  <2>2. g = [i \in 0..(k + 1) |-> Kept(v, gone, g, i)]
    BY <2>1
  <2> QED
    BY <2>2
<1> HIDE DEF Ok
<1>3. \A k \in 0..Len(v) : k \in S
  <2>1. 0 \in S
    BY <1>1
  <2>2. \A k \in 0..Len(v) : k \in S /\ k + 1 <= Len(v) => k + 1 \in S
    BY <1>2
  <2> HIDE DEF S
  <2> QED
    BY <2>1, <2>2, IndicesUpTo
<1> QED
  BY <1>3 DEF Ok

\* The elements that are left are elements of the vector at positions that are not
\* gone, and no two of them come from the same position.
LEMMA ErasedKeeps ==
  ASSUME NEW T, NEW v \in Seq(T), NEW gone
  PROVE  /\ Erased(v, gone) \in Seq(T)
         /\ \E m \in [DOMAIN Erased(v, gone) -> DOMAIN v \ gone] :
              /\ \A a \in DOMAIN Erased(v, gone) : Erased(v, gone)[a] = v[m[a]]
              /\ \A a, b \in DOMAIN Erased(v, gone) : m[a] = m[b] => a = b
<1> DEFINE P(f) == f = [i \in 0..Len(v) |-> Kept(v, gone, f, i)]
           f == CHOOSE f : P(f)
<1>0. Len(v) \in Nat /\ DOMAIN v = 1..Len(v) /\ \A i \in 1..Len(v) : v[i] \in T
  OBVIOUS
<1>1. P(f)
  <2>1. \E g : P(g)
    BY <1>0, KeptExists
  <2> HIDE DEF P
  <2> QED
    BY <2>1
<1>2. Erased(v, gone) = f[Len(v)]
  BY DEF Erased, Kept
<1> HIDE DEF f
<1>3. \A i \in 0..Len(v) : f[i] = Kept(v, gone, f, i)
  BY <1>1
<1> HIDE DEF P
<1> DEFINE Good(n) ==
      /\ f[n] \in Seq(T)
      /\ \E m \in [1..Len(f[n]) -> (1..n) \ gone] :
           /\ \A a \in 1..Len(f[n]) : f[n][a] = v[m[a]]
           /\ \A a, b \in 1..Len(f[n]) : m[a] = m[b] => a = b
<1> DEFINE S == {n \in 0..Len(v) : Good(n)}
<1>4. Good(0)
  <2>1. f[0] = <<>>
    BY <1>0, <1>3 DEF Kept
  <2>2. f[0] \in Seq(T) /\ 1..Len(f[0]) = {}
    BY <2>1
  <2> DEFINE e == [a \in {} |-> 1]
  <2>3. e \in [1..Len(f[0]) -> (1..0) \ gone]
    BY <2>2
  <2> HIDE DEF e
  <2> QED
    BY <2>2, <2>3
<1>5. ASSUME NEW n \in 0..Len(v), n + 1 <= Len(v), Good(n) PROVE Good(n + 1)
  <2>0. n + 1 \in 1..Len(v) /\ n + 1 \in 0..Len(v) /\ (n + 1) - 1 = n /\ n \in Nat
    BY <1>0, <1>5
  <2>1. f[n + 1] = IF n + 1 \in gone THEN f[n] ELSE Append(f[n], v[n + 1])
    BY <1>3, <2>0 DEF Kept
  <2>2. f[n] \in Seq(T) /\ Len(f[n]) \in Nat
    BY <1>5
  <2> PICK m \in [1..Len(f[n]) -> (1..n) \ gone] :
           /\ \A a \in 1..Len(f[n]) : f[n][a] = v[m[a]]
           /\ \A a, b \in 1..Len(f[n]) : m[a] = m[b] => a = b
    BY <1>5
  <2>3. CASE n + 1 \in gone
    <3>1. m \in [1..Len(f[n]) -> (1..(n + 1)) \ gone]
      BY <2>0
    <3> QED
      BY <2>1, <2>2, <2>3, <3>1, SMTT(30)
  <2>4. CASE n + 1 \notin gone
    <3> DEFINE g == f[n]
               h == f[n + 1]
               k == [a \in 1..(Len(g) + 1) |-> IF a = Len(g) + 1 THEN n + 1 ELSE m[a]]
    <3>1. h = Append(g, v[n + 1]) /\ g \in Seq(T) /\ v[n + 1] \in T
      BY <1>0, <2>0, <2>1, <2>2, <2>4
    <3>2. /\ h \in Seq(T) /\ Len(h) = Len(g) + 1 /\ Len(g) \in Nat
          /\ h[Len(g) + 1] = v[n + 1] /\ \A a \in 1..Len(g) : h[a] = g[a]
      <4> HIDE DEF g, h
      <4> QED
        BY <3>1
    <3>3. /\ \A a \in 1..Len(g) : g[a] = v[m[a]] /\ m[a] \in (1..n) \ gone
          /\ \A a, b \in 1..Len(g) : m[a] = m[b] => a = b
      OBVIOUS
    <3> HIDE DEF g, h
    <3>4. ASSUME NEW a \in 1..(Len(g) + 1)
          PROVE  /\ k[a] \in (1..(n + 1)) \ gone /\ h[a] = v[k[a]]
                 /\ a = Len(g) + 1 => k[a] = n + 1
                 /\ a # Len(g) + 1 => a \in 1..Len(g) /\ k[a] = m[a] /\ k[a] \in 1..n
      <4>1. CASE a = Len(g) + 1
        BY <4>1, <2>0, <2>4, <3>2
      <4>2. CASE a # Len(g) + 1
        <5>1. a \in 1..Len(g)
          BY <4>2, <3>2
        <5> QED
          BY <4>2, <5>1, <2>0, <3>2, <3>3
      <4> QED
        BY <4>1, <4>2
    <3>5. DOMAIN k = 1..Len(h)
      BY <3>2
    <3>6. k = [a \in 1..Len(h) |-> k[a]]
      BY <3>5
    <3> HIDE DEF k
    <3>7. k \in [1..Len(h) -> (1..(n + 1)) \ gone]
      BY <3>2, <3>4, <3>6
    <3>8. ASSUME NEW a \in 1..Len(h), NEW b \in 1..Len(h), k[a] = k[b] PROVE a = b
      <4>1. a \in 1..(Len(g) + 1) /\ b \in 1..(Len(g) + 1)
        BY <3>2
      <4>2. n + 1 \notin 1..n
        BY <2>0
      <4>3. a = Len(g) + 1 <=> b = Len(g) + 1
        BY <3>4, <3>8, <4>1, <4>2
      <4>4. CASE a = Len(g) + 1
        BY <4>3, <4>4
      <4>5. CASE a # Len(g) + 1
        BY <3>3, <3>4, <3>8, <4>1, <4>3, <4>5
      <4> QED
        BY <4>4, <4>5
    <3>9. \A a \in 1..Len(h) : h[a] = v[k[a]]
      BY <3>2, <3>4
    <3> QED
      BY <3>2, <3>7, <3>8, <3>9 DEF h
  <2> QED
    BY <2>3, <2>4
<1> HIDE DEF Good
<1>6. \A n \in 0..Len(v) : n \in S
  <2>1. 0 \in S
    BY <1>0, <1>4
  <2>2. \A n \in 0..Len(v) : n \in S /\ n + 1 <= Len(v) => n + 1 \in S
    BY <1>0, <1>5
  <2> HIDE DEF S
  <2> QED
    BY <1>0, <2>1, <2>2, IndicesUpTo
<1>7. Good(Len(v))
  BY <1>0, <1>6
<1>8. DOMAIN f[Len(v)] = 1..Len(f[Len(v)])
  BY <1>7 DEF Good
<1> QED
  BY <1>0, <1>2, <1>7, <1>8 DEF Good
-----------------------------------------------------------------------------
(* The subscriptions and the broadcasts.                                   *)

Looping == main.op \in {"render", "broadcast"}

MainState ==
  [op : {"idle", "store", "render", "broadcast"}, command : Command, id : 0..MaxMessages,
   next : Nat, end : Nat, timestep : 0..1, served : SUBSET Ids, due : SUBSET Ids,
   disturbed : BOOLEAN]

\* Between the commands of the main thread nothing of a broadcast is left, and a command
\* that passed its check is one of those a client may send.
SubscriptionTypes ==
  /\ eventQueue \in Seq([command : Commands, id : Ids])
  /\ \A c \in Clients : Drawn(c) => handler[c].command \in Commands
  /\ subscribedClients \in Seq(SubscribedClient)
  /\ eventSubscribers \in Seq(Ids)
  /\ overtaken \in SUBSET Ids
  /\ main \in MainState
  /\ Looping => main.next > 0
  /\ ~Looping => main.next = 0 /\ main.end = 0
  /\ main.op = "store" => /\ main.id \in Ids /\ main.command \in Commands
                          /\ main.command.type = "stream" => main.command.everyN > 0

Connected(id) == \E c \in Clients : connectionIds[c] = id

\* Somebody is still to remove the id from the vector, or a disconnect came too early.
Backed(id, phases) == Connected(id) \/ Leaving(id, phases) \/ id \in overtaken

\* The two halves of SubscribersBacked.
ListedOnce ==
  /\ \A i, j \in DOMAIN subscribedClients :
       subscribedClients[i].connectionId = subscribedClients[j].connectionId => i = j
  /\ \A i, j \in DOMAIN eventSubscribers : eventSubscribers[i] = eventSubscribers[j] => i = j

AllBacked ==
  /\ \A i \in DOMAIN subscribedClients : Backed(subscribedClients[i].connectionId, {"callback"})
  /\ \A i \in DOMAIN eventSubscribers : Backed(eventSubscribers[i], {"callback", "callback events"})

\* The client of a command whose effect is to come is connected, or its disconnect
\* is still to come, or it has been overtaken.
CommandBacked == main.op = "store" => Backed(main.id, {"callback"})

\* A client that an id leads to is not open; sendToClient has nobody to send to.
Unreachable(id) ==
  connectionRegistry[id] = Nobody \/ socket[connectionRegistry[id]] # "open"

\* The loop sends to position i of its vector.
SendsTo(i, id) ==
  IF main.op = "render"
  THEN /\ subscribedClients[i].connectionId = id
       /\ ShouldSend(subscribedClients[i], main.timestep) /\ ClientWantsRender(id)
  ELSE eventSubscribers[i] = id /\ ClientWantsEvents(id)

\* A client that a broadcast is for and has not reached is ahead of it, or gone for
\* good: its id has been drawn long ago and nobody else gets it.
LoopCovers ==
  Looping /\ ~main.disturbed =>
    /\ main.next \in 1..main.end + 1
    /\ main.end = Len(Vector(main.op))
    /\ \A id \in main.due : id < nextConnectionId /\ \A c \in Clients : Drawn(c) => handler[c].id # id
    /\ \A id \in main.due \ main.served :
         Unreachable(id) \/ \E i \in main.next..main.end : SendsTo(i, id)

SubscriptionInv ==
  RegistryInv /\ SubscriptionTypes /\ ListedOnce /\ AllBacked /\ CommandBacked /\ LoopCovers

\* The commands that clients send, and the main thread with nothing to do.
LEMMA CommandFacts ==
  /\ Commands \subseteq Command /\ CommandInputs \subseteq Commands
  /\ \A k \in Commands : k.type \in {"events", "format", "stream"} /\ k.everyN \in 0..2
                         /\ k.enabled \in BOOLEAN
  /\ MainIdle \in MainState
  /\ MainIdle.op = "idle" /\ MainIdle.next = 0 /\ MainIdle.end = 0 /\ ~MainIdle.disturbed
  /\ MainIdle.due = {} /\ MainIdle.served = {}
<1>1. MaxMessages \in Nat BY ClientsAssumption
<1>2. Commands \subseteq Command /\ CommandInputs \subseteq Commands
  BY ClientsAssumption DEF Commands
<1>3. \A k \in Commands : k.type \in {"events", "format", "stream"} /\ k.everyN \in 0..2
                          /\ k.enabled \in BOOLEAN
  BY DEF Commands, Command
<1>4. MainIdle \in MainState
  BY <1>1, HelloFacts DEF MainIdle, MainState
<1>5. /\ MainIdle.op = "idle" /\ MainIdle.next = 0 /\ MainIdle.end = 0 /\ ~MainIdle.disturbed
      /\ MainIdle.due = {} /\ MainIdle.served = {}
  BY DEF MainIdle
<1> QED
  BY <1>2, <1>3, <1>4, <1>5

\* The initial state satisfies the invariant.
LEMMA SubscriptionInit == Init => SubscriptionInv
<1> SUFFICES ASSUME Init PROVE SubscriptionInv
  OBVIOUS
<1>1. RegistryInv
  BY RegistryInit
<1>2. main = MainIdle /\ eventQueue = <<>> /\ subscribedClients = <<>> /\ eventSubscribers = <<>>
      /\ overtaken = {} /\ \A c \in Clients : ~Drawn(c)
  BY HelloFacts DEF Init, Drawn
<1>3. SubscriptionTypes
  BY <1>2, CommandFacts DEF SubscriptionTypes, Looping
<1>4. ListedOnce /\ AllBacked
  BY <1>2 DEF ListedOnce, AllBacked
<1>5. CommandBacked /\ LoopCovers
  BY <1>2, CommandFacts DEF CommandBacked, LoopCovers, Looping
<1> QED
  BY <1>1, <1>3, <1>4, <1>5 DEF SubscriptionInv

-----------------------------------------------------------------------------
(* What a step of the library's threads may do to one client or one id.    *)

\* A connection that is being closed does not open again.
LEMMA SocketMoves ==
  ASSUME NEW c \in Clients, RegistryInv, Network(c), NEW d \in Clients, socket[d] = "closing"
  PROVE  socket'[d] # "open"
<1>1. socket \in [Clients -> {"new", "authorizing", "open", "closing", "callback",
                             "callback events", "closed"}]
  BY DEF RegistryInv, RegistryTypeOK
<1>2. CASE OnOpen(c) \/ OnOpenAuthorize(c) \/ PeerClose(c) \/ OnClosed(c)
  BY <1>1, <1>2 DEF OnOpen, OnOpenAuthorize, PeerClose, OnClosed
<1>3. CASE OnClientHelloMismatch(c) \/ GetConnectionId(c)
  BY <1>1, <1>3 DEF OnClientHelloMismatch, GetConnectionId
<1>4. CASE \E h \in HelloInputs : OnClientHello(c, h)
  BY <1>1, <1>4 DEF OnClientHello
<1>5. CASE \E command \in CommandInputs : OnClientMessage(c, command)
  BY <1>1, <1>5 DEF OnClientMessage
<1>6. CASE \E enabled \in BOOLEAN : WebSocketAccessSet(c, enabled)
  BY <1>1, <1>6 DEF WebSocketAccessSet
<1>7. CASE OnClientDisconnect(c) \/ OnClientDisconnectEvents(c)
  BY <1>1, <1>7 DEF OnClientDisconnect, OnClientDisconnectEvents
<1> QED
  BY <1>2, <1>3, <1>4, <1>5, <1>6, <1>7 DEF Network

\* An id that is not about to be registered keeps its client or loses it.
LEMMA RegistryMoves ==
  ASSUME NEW c \in Clients, RegistryInv, Network(c), NEW id \in Ids,
         \A d \in Clients : Drawn(d) => handler[d].id # id
  PROVE  /\ connectionRegistry'[id] = connectionRegistry[id] \/ connectionRegistry'[id] = Nobody
         /\ OnClosed(c) /\ connectionRegistry[id] = c => connectionRegistry'[id] = Nobody
<1>1. connectionRegistry \in [Ids -> Clients \union {Nobody}]
  BY DEF RegistryInv, RegistryTypeOK
<1>2. CASE OnClosed(c)
  <2>1. connectionRegistry' = RegistryWithout(c)
    BY <1>2 DEF OnClosed
  <2>2. connectionRegistry[id] = c => connectionIds[c] = id
    BY ClientsAssumption DEF RegistryInv, RegistryFollowsClients
  <2> QED
    BY <2>1, <2>2 DEF RegistryWithout
<1>3. CASE GetConnectionId(c)
  <2>1. ~OnClosed(c)
    BY <1>3, HelloFacts DEF GetConnectionId, OnClosed
  <2> QED
    BY <1>1, <1>3, <2>1 DEF GetConnectionId, Drawn
<1>4. CASE UNCHANGED connectionRegistry /\ ~OnClosed(c)
  BY <1>4
<1> QED
  BY <1>2, <1>3, <1>4 DEF Network, OnOpen, OnOpenAuthorize, PeerClose, OnClientHelloMismatch,
     OnClientHello, OnClientMessage, WebSocketAccessSet, OnClientDisconnect,
     OnClientDisconnectEvents, registryVars

\* Who cannot be reached stays so, and an id that stays registered keeps its hello
\* unless one arrives.
LEMMA ReachMoves ==
  ASSUME NEW c \in Clients, RegistryInv, Network(c), NEW id \in Ids,
         \A d \in Clients : Drawn(d) => handler[d].id # id
  PROVE  /\ Unreachable(id) => Unreachable(id)'
         /\ UNCHANGED clientHellos \/ OnClosed(c) =>
              /\ ClientWantsRender(id) => ClientWantsRender(id)' \/ Unreachable(id)'
              /\ ClientWantsEvents(id) => ClientWantsEvents(id)' \/ Unreachable(id)'
<1>1. /\ connectionRegistry'[id] = connectionRegistry[id] \/ connectionRegistry'[id] = Nobody
      /\ OnClosed(c) /\ connectionRegistry[id] = c => connectionRegistry'[id] = Nobody
  BY RegistryMoves
<1>2. connectionRegistry[id] \in Clients \union {Nobody}
  BY DEF RegistryInv, RegistryTypeOK
<1>3. Unreachable(id) => Unreachable(id)'
  <2> SUFFICES ASSUME Unreachable(id), connectionRegistry'[id] # Nobody
               PROVE  socket'[connectionRegistry'[id]] # "open"
    BY DEF Unreachable
  <2>1. /\ connectionRegistry'[id] = connectionRegistry[id] /\ connectionRegistry[id] \in Clients
        /\ socket[connectionRegistry[id]] # "open"
    BY <1>1, <1>2 DEF Unreachable
  <2>2. connectionIds[connectionRegistry[id]] = id /\ id # 0
    BY <2>1, ClientsAssumption DEF RegistryInv, RegistryFollowsClients, Ids
  <2>3. connectionRegistry[id] \in connectedClients
    BY <2>1, <2>2 DEF RegistryInv, RegistryFollowsClients
  <2>4. socket[connectionRegistry[id]] = "closing"
    BY <2>1, <2>3 DEF RegistryInv, CallbacksInTurn
  <2> QED
    BY <2>1, <2>4, SocketMoves
<1>4. ASSUME UNCHANGED clientHellos \/ OnClosed(c), connectionRegistry[id] # Nobody,
             connectionRegistry'[id] # Nobody
      PROVE  /\ connectionRegistry'[id] = connectionRegistry[id]
             /\ clientHellos'[connectionRegistry[id]] = clientHellos[connectionRegistry[id]]
  <2>1. clientHellos \in [Clients -> Hello]
    BY DEF RegistryInv, RegistryTypeOK
  <2> QED
    BY <1>1, <1>2, <1>4, <2>1 DEF OnClosed
<1> QED
  BY <1>3, <1>4 DEF ClientWantsRender, ClientWantsEvents, Unreachable

\* What backs an id passes from the connection to the callback, phase by phase.
LEMMA BackingMoves ==
  ASSUME NEW c \in Clients, RegistryInv, Network(c), NEW id \in Ids
  PROVE  /\ Connected(id) => Connected(id)' \/ Leaving(id, {"callback"})'
         /\ Leaving(id, {"callback"}) =>
              \/ Leaving(id, {"callback"})'
              \/ /\ OnClientDisconnect(c) /\ handler[c].id = id
                 /\ Leaving(id, {"callback", "callback events"})'
         /\ Leaving(id, {"callback", "callback events"}) =>
              \/ Leaving(id, {"callback", "callback events"})'
              \/ OnClientDisconnectEvents(c) /\ handler[c].id = id
<1>1. RegistryTypeOK /\ id # 0
  BY ClientsAssumption DEF RegistryInv, Ids
<1>2. CASE OnClosed(c)
  <2>1. connectionIds'[c] = 0 /\ \A d \in Clients \ {c} : connectionIds'[d] = connectionIds[d]
    BY <1>1, <1>2 DEF OnClosed, RegistryTypeOK
  <2>2. /\ socket[c] = "closing"
        /\ \A d \in Clients \ {c} : socket'[d] = socket[d] /\ handler'[d] = handler[d]
    BY <1>1, <1>2 DEF OnClosed, RegistryTypeOK
  <2>3. connectionIds[c] # 0 => socket'[c] = "callback" /\ handler'[c].id = connectionIds[c]
    <3>1. handler \in [Clients -> [command : Command, id : 0..MaxMessages]]
      BY <1>1 DEF RegistryTypeOK
    <3>2. connectionIds[c] # 0 => handler' = [handler EXCEPT ![c].id = connectionIds[c]]
      BY <1>2 DEF OnClosed
    <3>3. connectionIds[c] # 0 => socket'[c] = "callback"
      BY <1>1, <1>2 DEF OnClosed, RegistryTypeOK
    <3> QED
      BY <3>1, <3>2, <3>3
  <2> QED
    BY <1>1, <2>1, <2>2, <2>3 DEF Connected, Leaving
<1>3. CASE OnClientDisconnect(c) \/ OnClientDisconnectEvents(c)
  <2>1. connectionIds' = connectionIds
    BY <1>3 DEF OnClientDisconnect, OnClientDisconnectEvents, registryVars
  <2>2. \A d \in Clients \ {c} : socket'[d] = socket[d] /\ handler'[d] = handler[d]
    BY <1>1, <1>3 DEF OnClientDisconnect, OnClientDisconnectEvents, RegistryTypeOK
  <2>3. CASE OnClientDisconnect(c)
    <3>1. socket[c] = "callback" /\ socket'[c] = "callback events" /\ handler'[c] = handler[c]
      BY <1>1, <2>3 DEF OnClientDisconnect, RegistryTypeOK
    <3> QED
      BY <2>1, <2>2, <2>3, <3>1 DEF Connected, Leaving
  <2>4. CASE OnClientDisconnectEvents(c)
    <3>1. socket[c] = "callback events"
      BY <2>4 DEF OnClientDisconnectEvents
    <3> QED
      BY <2>1, <2>2, <2>4, <3>1 DEF Connected, Leaving
  <2> QED
    BY <1>3, <2>3, <2>4
<1>4. CASE GetConnectionId(c)
  <2>1. /\ \A d \in Clients : connectionIds[d] # 0 => connectionIds'[d] = connectionIds[d]
        /\ \A d \in Clients \ {c} : handler'[d] = handler[d]
        /\ socket' = socket /\ socket[c] \in {"open", "closing"}
    BY <1>1, <1>4 DEF GetConnectionId, RegistryTypeOK, RegistryInv, CallbacksInTurn, Drawn
  <2> QED
    BY <1>1, <2>1 DEF Connected, Leaving
<1>5. CASE /\ connectionIds' = connectionIds
           /\ \A d \in Clients : socket[d] \in {"callback", "callback events"} =>
                                   socket'[d] = socket[d] /\ handler'[d] = handler[d]
  BY <1>5 DEF Connected, Leaving
<1>6. CASE OnOpen(c) \/ OnOpenAuthorize(c) \/ PeerClose(c)
  BY <1>1, <1>5, <1>6 DEF OnOpen, OnOpenAuthorize, PeerClose, registryVars, RegistryTypeOK
<1>7. CASE OnClientHelloMismatch(c) \/ \E h \in HelloInputs : OnClientHello(c, h)
  BY <1>1, <1>5, <1>7 DEF OnClientHelloMismatch, OnClientHello, Receives, RegistryTypeOK
<1>8. CASE \E command \in CommandInputs : OnClientMessage(c, command)
  BY <1>1, <1>5, <1>8 DEF OnClientMessage, Receives, RegistryTypeOK
<1>9. CASE \E enabled \in BOOLEAN : WebSocketAccessSet(c, enabled)
  BY <1>1, <1>5, <1>9 DEF WebSocketAccessSet, Receives, RegistryTypeOK
<1> QED
  BY <1>2, <1>3, <1>4, <1>6, <1>7, <1>8, <1>9 DEF Network
-----------------------------------------------------------------------------
(* Steps of the library's threads.                                         *)

\* They do nothing to the main thread but disturb it: with a hello, or by taking an
\* element out of the vector that a loop runs over.
LEMMA NetworkDisturbs ==
  ASSUME NEW c \in Clients, SubscriptionTypes, Network(c)
  PROVE  \E b \in BOOLEAN :
           /\ main' = [main EXCEPT !.disturbed = b]
           /\ ~b => ~main.disturbed
           /\ ~b /\ main.op = "render" => subscribedClients' = subscribedClients
           /\ ~b /\ main.op = "broadcast" => eventSubscribers' = eventSubscribers
           /\ ~b /\ main.next > 0 => UNCHANGED clientHellos \/ OnClosed(c)
<1>1. main \in MainState /\ main.disturbed \in BOOLEAN
  BY DEF SubscriptionTypes, MainState
<1>2. CASE \E h \in HelloInputs : OnClientHello(c, h)
  <2>1. UNCHANGED <<subscribedClients, eventSubscribers>>
    BY <1>2 DEF OnClientHello
  <2>2. CASE UNCHANGED <<clientHellos, main>>
    <3>1. main' = [main EXCEPT !.disturbed = main.disturbed]
      BY <1>1, <2>2 DEF MainState
    <3> QED
      BY <1>1, <2>1, <2>2, <3>1
  <2>3. CASE main' = [main EXCEPT !.disturbed = main.disturbed \/ main.next > 0]
    <3>1. (main.disturbed \/ main.next > 0) \in BOOLEAN
      OBVIOUS
    <3> QED
      BY <2>1, <2>3, <3>1
  <2> QED
    BY <1>2, <2>2, <2>3 DEF OnClientHello
<1>3. CASE OnClientDisconnect(c)
  <2> DEFINE others == Erased(subscribedClients, Positions(handler[c].id))
             b == main.disturbed \/ (main.op = "render" /\ others # subscribedClients)
  <2>1. /\ main' = [main EXCEPT !.disturbed = b] /\ b \in BOOLEAN
        /\ subscribedClients' = others /\ UNCHANGED <<eventSubscribers, clientHellos>>
    BY <1>3 DEF OnClientDisconnect, registryVars
  <2> QED
    BY <2>1
<1>4. CASE OnClientDisconnectEvents(c)
  <2> DEFINE others == WithoutEvents(handler[c].id)
             b == main.disturbed \/ (main.op = "broadcast" /\ others # eventSubscribers)
  <2>1. /\ main' = [main EXCEPT !.disturbed = b] /\ b \in BOOLEAN
        /\ eventSubscribers' = others /\ UNCHANGED <<subscribedClients, clientHellos>>
    BY <1>4 DEF OnClientDisconnectEvents, registryVars
  <2> QED
    BY <2>1
<1>5. CASE /\ UNCHANGED <<main, subscribedClients, eventSubscribers>>
           /\ UNCHANGED clientHellos \/ OnClosed(c)
  <2>1. main' = [main EXCEPT !.disturbed = main.disturbed]
    BY <1>1, <1>5 DEF MainState
  <2> QED
    BY <1>1, <1>5, <2>1
<1>6. CASE OnOpen(c) \/ OnOpenAuthorize(c) \/ PeerClose(c) \/ OnClosed(c)
  BY <1>5, <1>6 DEF OnOpen, OnOpenAuthorize, PeerClose, OnClosed, registryVars, subscriptionVars
<1>7. CASE \/ OnClientHelloMismatch(c) \/ GetConnectionId(c)
           \/ \E command \in CommandInputs : OnClientMessage(c, command)
           \/ \E enabled \in BOOLEAN : WebSocketAccessSet(c, enabled)
  BY <1>5, <1>7 DEF OnClientHelloMismatch, GetConnectionId, OnClientMessage, WebSocketAccessSet,
     subscriptionVars
<1> QED
  BY <1>2, <1>3, <1>4, <1>6, <1>7 DEF Network

\* A command enters the queue with the id of its client, which is drawn at most once.
LEMMA NetworkQueues ==
  ASSUME NEW c \in Clients, RegistryInv, SubscriptionTypes, Network(c)
  PROVE  /\ eventQueue' \in Seq([command : Commands, id : Ids])
         /\ nextConnectionId <= nextConnectionId'
         /\ \A d \in Clients : Drawn(d)' =>
              /\ handler'[d].command \in Commands
              /\ \/ Drawn(d) /\ handler'[d].id = handler[d].id
                 \/ handler'[d].id = nextConnectionId
<1>1. /\ eventQueue \in Seq([command : Commands, id : Ids])
      /\ \A d \in Clients : Drawn(d) => handler[d].command \in Commands
  BY DEF SubscriptionTypes
<1>2. /\ RegistryTypeOK /\ nextConnectionId \in Nat /\ MaxMessages \in Nat
      /\ handler \in [Clients -> [command : Command, id : 0..MaxMessages]]
  BY Numbers DEF RegistryInv, RegistryTypeOK
<1>3. CASE \E command \in CommandInputs : OnClientMessage(c, command)
  <2> PICK command \in CommandInputs : OnClientMessage(c, command)
    BY <1>3
  <2>1. command \in Commands
    BY CommandFacts
  <2>2. CASE connectionIds[c] # 0
    <3>1. connectionIds[c] \in Ids
      BY <1>2, <2>2, Numbers DEF Ids
    <3>2. [command |-> command, id |-> connectionIds[c]] \in [command : Commands, id : Ids]
      BY <2>1, <3>1
    <3>3. /\ eventQueue' = Append(eventQueue, [command |-> command, id |-> connectionIds[c]])
          /\ UNCHANGED <<handler, nextConnectionId>>
      BY <2>2 DEF OnClientMessage, Queued
    <3>4. eventQueue' \in Seq([command : Commands, id : Ids])
      BY <1>1, <3>2, <3>3
    <3> QED
      BY <1>1, <1>2, <3>3, <3>4 DEF Drawn
  <2>3. CASE connectionIds[c] = 0
    <3>1. /\ handler' = [handler EXCEPT ![c] = [command |-> command, id |-> nextConnectionId]]
          /\ nextConnectionId' = nextConnectionId + 1 /\ UNCHANGED eventQueue
      BY <2>3 DEF OnClientMessage
    <3>2. /\ handler'[c].command = command /\ handler'[c].id = nextConnectionId
          /\ \A d \in Clients \ {c} : handler'[d] = handler[d]
      BY <1>2, <3>1
    <3> QED
      BY <1>1, <1>2, <2>1, <3>1, <3>2 DEF Drawn
  <2> QED
    BY <2>2, <2>3
<1>4. CASE GetConnectionId(c)
  <2>1. /\ Drawn(c) /\ eventQueue' = Append(eventQueue, [command |-> handler[c].command, id |-> handler[c].id])
        /\ handler' = [handler EXCEPT ![c] = Idle] /\ UNCHANGED nextConnectionId
    BY <1>4 DEF GetConnectionId, Queued, Drawn
  <2>2. handler[c].command \in Commands /\ handler[c].id \in 1..nextConnectionId - 1
    BY <1>1, <2>1 DEF RegistryInv, IdsDrawnOnce
  <2>3. handler[c].id \in Ids
    BY <1>2, <2>2, Numbers DEF Ids
  <2>4. [command |-> handler[c].command, id |-> handler[c].id] \in [command : Commands, id : Ids]
    BY <2>2, <2>3
  <2>5. eventQueue' \in Seq([command : Commands, id : Ids])
    BY <1>1, <2>1, <2>4
  <2>6. \A d \in Clients : Drawn(d)' => Drawn(d) /\ handler'[d] = handler[d]
    BY <1>2, <2>1, HelloFacts DEF Drawn
  <2> QED
    BY <1>1, <1>2, <2>1, <2>5, <2>6
<1>5. CASE /\ UNCHANGED <<eventQueue, nextConnectionId>>
           /\ \A d \in Clients : Drawn(d)' => Drawn(d) /\ handler'[d] = handler[d]
  BY <1>1, <1>2, <1>5
<1>6. CASE OnClosed(c)
  <2>1. /\ UNCHANGED <<eventQueue, nextConnectionId>> /\ handler[c].command = NoCommand
        /\ handler' = handler \/ handler' = [handler EXCEPT ![c].id = connectionIds[c]]
    BY <1>6, HelloFacts DEF OnClosed, subscriptionVars
  <2>2. handler'[c].command = NoCommand /\ \A d \in Clients \ {c} : handler'[d] = handler[d]
    BY <1>2, <2>1
  <2> QED
    BY <1>5, <2>1, <2>2 DEF Drawn
<1>7. CASE OnClientDisconnect(c) \/ OnClientDisconnectEvents(c)
  <2>1. /\ UNCHANGED <<eventQueue, nextConnectionId>>
        /\ handler' = handler \/ handler' = [handler EXCEPT ![c] = Idle]
    BY <1>7 DEF OnClientDisconnect, OnClientDisconnectEvents, registryVars
  <2>2. \A d \in Clients : Drawn(d)' => Drawn(d) /\ handler'[d] = handler[d]
    BY <1>2, <2>1, HelloFacts DEF Drawn
  <2> QED
    BY <1>5, <2>1, <2>2
<1>8. CASE UNCHANGED <<eventQueue, nextConnectionId, handler>>
  BY <1>5, <1>8 DEF Drawn
<1>9. CASE OnOpen(c) \/ OnOpenAuthorize(c) \/ PeerClose(c) \/ OnClientHelloMismatch(c)
  BY <1>8, <1>9 DEF OnOpen, OnOpenAuthorize, PeerClose, OnClientHelloMismatch, registryVars,
     subscriptionVars
<1>10. CASE \/ \E h \in HelloInputs : OnClientHello(c, h)
            \/ \E enabled \in BOOLEAN : WebSocketAccessSet(c, enabled)
  BY <1>8, <1>10 DEF OnClientHello, WebSocketAccessSet, subscriptionVars
<1> QED
  BY <1>3, <1>4, <1>6, <1>7, <1>9, <1>10 DEF Network

\* Only the disconnect callback touches the vectors, and only to take elements out.
LEMMA NetworkVectors ==
  ASSUME NEW c \in Clients, SubscriptionTypes, Network(c)
  PROVE  /\ \/ UNCHANGED subscribedClients
            \/ /\ OnClientDisconnect(c)
               /\ subscribedClients' = Erased(subscribedClients, Positions(handler[c].id))
         /\ OnClientDisconnect(c) =>
              subscribedClients' = Erased(subscribedClients, Positions(handler[c].id))
         /\ \/ UNCHANGED eventSubscribers
            \/ /\ OnClientDisconnectEvents(c)
               /\ eventSubscribers' = Erased(eventSubscribers, EventPositions(handler[c].id))
         /\ OnClientDisconnectEvents(c) =>
              eventSubscribers' = Erased(eventSubscribers, EventPositions(handler[c].id))
         /\ overtaken \subseteq overtaken' /\ overtaken' \subseteq Ids
         /\ OnClientDisconnect(c) /\ main.op = "store" /\ main.id = handler[c].id =>
              main.id \in overtaken'
<1>1. overtaken \subseteq Ids /\ (main.op = "store" => main.id \in Ids)
  BY DEF SubscriptionTypes
<1>2. CASE OnClientDisconnect(c)
  <2>1. ~OnClientDisconnectEvents(c)
    BY <1>2 DEF OnClientDisconnect, OnClientDisconnectEvents
  <2> QED
    BY <1>1, <1>2, <2>1 DEF OnClientDisconnect, Overtakes
<1>3. CASE OnClientDisconnectEvents(c)
  <2>1. ~OnClientDisconnect(c)
    BY <1>3 DEF OnClientDisconnect, OnClientDisconnectEvents
  <2> QED
    BY <1>1, <1>3, <2>1 DEF OnClientDisconnectEvents, Overtakes, WithoutEvents
<1>4. CASE /\ UNCHANGED <<subscribedClients, eventSubscribers, overtaken>>
           /\ ~OnClientDisconnect(c) /\ ~OnClientDisconnectEvents(c)
  BY <1>1, <1>4
<1>5. CASE \/ OnOpen(c) \/ OnOpenAuthorize(c) \/ PeerClose(c) \/ OnClosed(c)
           \/ OnClientHelloMismatch(c) \/ GetConnectionId(c)
           \/ \E h \in HelloInputs : OnClientHello(c, h)
           \/ \E command \in CommandInputs : OnClientMessage(c, command)
           \/ \E enabled \in BOOLEAN : WebSocketAccessSet(c, enabled)
  <2>1. UNCHANGED <<subscribedClients, eventSubscribers, overtaken>>
    BY <1>5 DEF OnOpen, OnOpenAuthorize, PeerClose, OnClosed, OnClientHelloMismatch,
       GetConnectionId, OnClientHello, OnClientMessage, WebSocketAccessSet, subscriptionVars
  <2> QED
    BY <1>2, <1>3, <1>4, <2>1
<1> QED
  BY <1>2, <1>3, <1>5 DEF Network
\* The subscribers that are left once those of one client have been erased.
LEMMA SubscribersErased ==
  ASSUME SubscriptionTypes, ListedOnce, NEW id,
         NEW w, w = Erased(subscribedClients, Positions(id))
  PROVE  /\ w \in Seq(SubscribedClient)
         /\ \A i \in DOMAIN w :
              w[i].connectionId # id /\ \E j \in DOMAIN subscribedClients : w[i] = subscribedClients[j]
         /\ \A i, j \in DOMAIN w : w[i].connectionId = w[j].connectionId => i = j
<1>1. subscribedClients \in Seq(SubscribedClient)
  BY DEF SubscriptionTypes
<1>2. w \in Seq(SubscribedClient)
  BY <1>1, ErasedKeeps
<1>3. PICK m \in [DOMAIN w -> DOMAIN subscribedClients \ Positions(id)] :
        /\ \A a \in DOMAIN w : w[a] = subscribedClients[m[a]]
        /\ \A a, b \in DOMAIN w : m[a] = m[b] => a = b
  BY <1>1, ErasedKeeps
<1>4. \A i \in DOMAIN w : m[i] \in DOMAIN subscribedClients /\ m[i] \notin Positions(id)
  BY <1>3
<1>5. \A i \in DOMAIN w :
        w[i].connectionId # id /\ \E j \in DOMAIN subscribedClients : w[i] = subscribedClients[j]
  BY <1>3, <1>4 DEF Positions
<1>6. \A i, j \in DOMAIN w : w[i].connectionId = w[j].connectionId => i = j
  BY <1>3, <1>4 DEF ListedOnce
<1> QED
  BY <1>2, <1>5, <1>6

LEMMA EventSubscribersErased ==
  ASSUME SubscriptionTypes, ListedOnce, NEW id,
         NEW w, w = Erased(eventSubscribers, EventPositions(id))
  PROVE  /\ w \in Seq(Ids)
         /\ \A i \in DOMAIN w :
              w[i] # id /\ \E j \in DOMAIN eventSubscribers : w[i] = eventSubscribers[j]
         /\ \A i, j \in DOMAIN w : w[i] = w[j] => i = j
<1>1. eventSubscribers \in Seq(Ids)
  BY DEF SubscriptionTypes
<1>2. w \in Seq(Ids)
  BY <1>1, ErasedKeeps
<1>3. PICK m \in [DOMAIN w -> DOMAIN eventSubscribers \ EventPositions(id)] :
        /\ \A a \in DOMAIN w : w[a] = eventSubscribers[m[a]]
        /\ \A a, b \in DOMAIN w : m[a] = m[b] => a = b
  BY <1>1, ErasedKeeps
<1>4. \A i \in DOMAIN w : m[i] \in DOMAIN eventSubscribers /\ m[i] \notin EventPositions(id)
  BY <1>3
<1>5. \A i \in DOMAIN w :
        w[i] # id /\ \E j \in DOMAIN eventSubscribers : w[i] = eventSubscribers[j]
  BY <1>3, <1>4 DEF EventPositions
<1>6. \A i, j \in DOMAIN w : w[i] = w[j] => i = j
  BY <1>3, <1>4 DEF ListedOnce
<1> QED
  BY <1>2, <1>5, <1>6

\* The steps of the library's threads keep the types and list nobody twice.
LEMMA NetworkTypes ==
  ASSUME NEW c \in Clients, SubscriptionInv, Network(c)
  PROVE  SubscriptionTypes' /\ ListedOnce'
<1>1. RegistryInv /\ SubscriptionTypes /\ ListedOnce
  BY DEF SubscriptionInv
<1>2. PICK b \in BOOLEAN : main' = [main EXCEPT !.disturbed = b]
  BY <1>1, NetworkDisturbs
<1>3. main \in MainState
  BY <1>1 DEF SubscriptionTypes
<1>4. /\ main' \in MainState
      /\ main'.op = main.op /\ main'.next = main.next /\ main'.end = main.end
      /\ main'.id = main.id /\ main'.command = main.command
  BY <1>2, <1>3 DEF MainState
<1>5. /\ subscribedClients' \in Seq(SubscribedClient)
      /\ \A i, j \in DOMAIN subscribedClients' :
           subscribedClients'[i].connectionId = subscribedClients'[j].connectionId => i = j
  <2>1. CASE UNCHANGED subscribedClients
    BY <1>1, <2>1 DEF SubscriptionTypes, ListedOnce
  <2>2. CASE subscribedClients' = Erased(subscribedClients, Positions(handler[c].id))
    BY <1>1, <2>2, SubscribersErased
  <2> QED
    BY <1>1, <2>1, <2>2, NetworkVectors
<1>6. /\ eventSubscribers' \in Seq(Ids)
      /\ \A i, j \in DOMAIN eventSubscribers' : eventSubscribers'[i] = eventSubscribers'[j] => i = j
  <2>1. CASE UNCHANGED eventSubscribers
    BY <1>1, <2>1 DEF SubscriptionTypes, ListedOnce
  <2>2. CASE eventSubscribers' = Erased(eventSubscribers, EventPositions(handler[c].id))
    BY <1>1, <2>2, EventSubscribersErased
  <2> QED
    BY <1>1, <2>1, <2>2, NetworkVectors
<1>7. overtaken' \in SUBSET Ids
  BY <1>1, NetworkVectors
<1>8. /\ eventQueue' \in Seq([command : Commands, id : Ids])
      /\ \A d \in Clients : Drawn(d)' => handler'[d].command \in Commands
  BY <1>1, NetworkQueues
<1>9. SubscriptionTypes'
  BY <1>1, <1>4, <1>5, <1>6, <1>7, <1>8 DEF SubscriptionTypes, Looping
<1> QED
  BY <1>5, <1>6, <1>9 DEF ListedOnce

\* They leave no subscriber and no command behind without somebody to remove it.
LEMMA NetworkBacked ==
  ASSUME NEW c \in Clients, SubscriptionInv, Network(c)
  PROVE  AllBacked' /\ CommandBacked'
<1>1. RegistryInv /\ SubscriptionTypes /\ ListedOnce /\ AllBacked /\ CommandBacked
  BY DEF SubscriptionInv
<1>2. PICK b \in BOOLEAN : main' = [main EXCEPT !.disturbed = b]
  BY <1>1, NetworkDisturbs
<1>3. main'.op = main.op /\ main'.id = main.id /\ (main.op = "store" => main.id \in Ids)
  BY <1>1, <1>2 DEF SubscriptionTypes, MainState
<1>4. overtaken \subseteq overtaken'
  BY <1>1, NetworkVectors
<1>5. ASSUME NEW id \in Ids, Backed(id, {"callback"}), ~(OnClientDisconnect(c) /\ handler[c].id = id)
      PROVE  Backed(id, {"callback"})'
  BY <1>1, <1>4, <1>5, BackingMoves DEF Backed
<1>6. ASSUME NEW id \in Ids, Backed(id, {"callback", "callback events"}),
             ~(OnClientDisconnectEvents(c) /\ handler[c].id = id)
      PROVE  Backed(id, {"callback", "callback events"})'
  <2>1. Leaving(id, {"callback"})' => Leaving(id, {"callback", "callback events"})'
    BY DEF Leaving
  <2> QED
    BY <1>1, <1>4, <1>6, <2>1, BackingMoves DEF Backed
<1>7. ASSUME NEW i \in DOMAIN subscribedClients'
      PROVE  Backed(subscribedClients[i].connectionId, {"callback"})'
  <2>1. PICK j \in DOMAIN subscribedClients : subscribedClients'[i] = subscribedClients[j]
    BY <1>1, NetworkVectors, SubscribersErased
  <2>2. ~(OnClientDisconnect(c) /\ handler[c].id = subscribedClients'[i].connectionId)
    BY <1>1, NetworkVectors, SubscribersErased
  <2>3. subscribedClients[j] \in SubscribedClient
    BY <1>1 DEF SubscriptionTypes
  <2>4. PICK id \in Ids : id = subscribedClients'[i].connectionId /\ Backed(id, {"callback"})
    BY <1>1, <2>1, <2>3 DEF AllBacked, SubscribedClient
  <2>5. Backed(id, {"callback"})'
    BY <1>5, <2>2, <2>4
  <2> QED
    BY <2>4, <2>5
<1>8. ASSUME NEW i \in DOMAIN eventSubscribers'
      PROVE  Backed(eventSubscribers[i], {"callback", "callback events"})'
  <2>1. PICK j \in DOMAIN eventSubscribers : eventSubscribers'[i] = eventSubscribers[j]
    BY <1>1, NetworkVectors, EventSubscribersErased
  <2>2. ~(OnClientDisconnectEvents(c) /\ handler[c].id = eventSubscribers'[i])
    BY <1>1, NetworkVectors, EventSubscribersErased
  <2>a. eventSubscribers[j] \in Ids
    BY <1>1 DEF SubscriptionTypes
  <2>3. PICK id \in Ids : id = eventSubscribers'[i] /\ Backed(id, {"callback", "callback events"})
    BY <1>1, <2>1, <2>a DEF AllBacked
  <2>4. Backed(id, {"callback", "callback events"})'
    BY <1>6, <2>2, <2>3
  <2> QED
    BY <2>3, <2>4
<1>9. CommandBacked'
  <2> SUFFICES ASSUME main'.op = "store" PROVE Backed(main.id, {"callback"})'
    BY DEF CommandBacked
  <2>1. PICK id \in Ids : id = main.id /\ id = main'.id /\ main.op = "store" /\ Backed(id, {"callback"})
    BY <1>1, <1>3 DEF CommandBacked
  <2>2. CASE ~(OnClientDisconnect(c) /\ handler[c].id = id)
    <3>1. Backed(id, {"callback"})'
      BY <1>5, <2>1, <2>2
    <3> QED
      BY <2>1, <3>1
  <2>3. CASE OnClientDisconnect(c) /\ handler[c].id = id
    <3>1. id \in overtaken'
      BY <1>1, <2>1, <2>3, NetworkVectors
    <3> QED
      BY <2>1, <3>1 DEF Backed
  <2> QED
    BY <2>2, <2>3
<1> QED
  BY <1>7, <1>8, <1>9 DEF AllBacked

\* They leave the clients that a broadcast has yet to reach ahead of it, unless they
\* disturb it.
LEMMA NetworkLoop ==
  ASSUME NEW c \in Clients, SubscriptionInv, Network(c)
  PROVE  LoopCovers'
<1>1. RegistryInv /\ SubscriptionTypes /\ LoopCovers
  BY DEF SubscriptionInv
<1>2. PICK b \in BOOLEAN :
           /\ main' = [main EXCEPT !.disturbed = b]
           /\ ~b => ~main.disturbed
           /\ ~b /\ main.op = "render" => subscribedClients' = subscribedClients
           /\ ~b /\ main.op = "broadcast" => eventSubscribers' = eventSubscribers
           /\ ~b /\ main.next > 0 => UNCHANGED clientHellos \/ OnClosed(c)
  BY <1>1, NetworkDisturbs
<1>3. main \in MainState
  BY <1>1 DEF SubscriptionTypes
<1>4. /\ main'.op = main.op /\ main'.next = main.next /\ main'.end = main.end
      /\ main'.timestep = main.timestep /\ main'.due = main.due /\ main'.served = main.served
      /\ main'.disturbed = b /\ main.due \subseteq Ids
  BY <1>2, <1>3 DEF MainState
<1> SUFFICES ASSUME Looping, ~b PROVE LoopCovers'
  BY <1>4 DEF LoopCovers, Looping
<1>5. /\ main.next \in 1..main.end + 1 /\ main.end = Len(Vector(main.op))
      /\ \A id \in main.due : id < nextConnectionId /\ \A d \in Clients : Drawn(d) => handler[d].id # id
      /\ \A id \in main.due \ main.served :
           Unreachable(id) \/ \E i \in main.next..main.end : SendsTo(i, id)
  BY <1>1, <1>2 DEF LoopCovers
<1>6. /\ main.op = "render" => subscribedClients' = subscribedClients
      /\ main.op = "broadcast" => eventSubscribers' = eventSubscribers
      /\ UNCHANGED clientHellos \/ OnClosed(c)
  <2>1. main.next > 0
    BY <1>3, <1>5 DEF MainState
  <2> QED
    BY <1>2, <2>1
<1>7. Vector(main.op)' = Vector(main.op)
  BY <1>4, <1>6 DEF Vector, Looping
<1>8. ASSUME NEW id \in main.due
      PROVE  id < nextConnectionId' /\ \A d \in Clients : Drawn(d)' => handler'[d].id # id
  <2>1. /\ id \in Nat /\ nextConnectionId \in Nat /\ nextConnectionId' \in Nat
        /\ nextConnectionId <= nextConnectionId' /\ id < nextConnectionId
    <3>1. RegistryTypeOK'
      BY <1>1, RegistryStep DEF RegistryInv, Next
    <3>2. nextConnectionId' \in Nat
      <4>1. nextConnectionId' \in 1..MaxMessages + 1
        BY <3>1 DEF RegistryTypeOK
      <4> QED
        BY <4>1, ClientsAssumption
    <3>3. id \in Nat
      <4>1. id \in Ids
        BY <1>4
      <4> QED
        BY <4>1, ClientsAssumption DEF Ids
    <3> QED
      BY <1>1, <1>5, <3>2, <3>3, Numbers, NetworkQueues DEF RegistryInv
  <2>2. \A d \in Clients : Drawn(d)' =>
              \/ Drawn(d) /\ handler'[d].id = handler[d].id
              \/ handler'[d].id = nextConnectionId
    BY <1>1, NetworkQueues
  <2>3. id < nextConnectionId' /\ id # nextConnectionId
    BY <2>1
  <2> QED
    BY <1>5, <2>2, <2>3
<1>9. ASSUME NEW id \in main.due \ main.served
      PROVE  Unreachable(id)' \/ \E i \in main.next..main.end : SendsTo(i, id)'
  <2>1. /\ Unreachable(id) => Unreachable(id)'
        /\ ClientWantsRender(id) => ClientWantsRender(id)' \/ Unreachable(id)'
        /\ ClientWantsEvents(id) => ClientWantsEvents(id)' \/ Unreachable(id)'
    BY <1>1, <1>4, <1>5, <1>6, ReachMoves
  <2>2. CASE Unreachable(id)
    BY <2>1, <2>2
  <2>3. CASE \E i \in main.next..main.end : SendsTo(i, id)
    <3> PICK i \in main.next..main.end : SendsTo(i, id)
      BY <2>3
    <3>1. CASE main.op = "render"
      BY <1>4, <1>6, <2>1, <3>1 DEF SendsTo, ShouldSend
    <3>2. CASE main.op = "broadcast"
      BY <1>4, <1>6, <2>1, <3>2 DEF SendsTo
    <3> QED
      BY <3>1, <3>2 DEF Looping
  <2> QED
    BY <1>5, <2>2, <2>3
<1> QED
  BY <1>4, <1>5, <1>7, <1>8, <1>9 DEF LoopCovers

\* Every step of the library's threads keeps the invariant.
LEMMA NetworkKeeps ==
  ASSUME NEW c \in Clients, SubscriptionInv, Network(c)
  PROVE  SubscriptionInv'
<1>1. RegistryInv'
  BY RegistryStep DEF SubscriptionInv, Next
<1> QED
  BY <1>1, NetworkTypes, NetworkBacked, NetworkLoop DEF SubscriptionInv

-----------------------------------------------------------------------------
(* Steps of the main thread.                                               *)

\* They leave the connections alone, so what backs an id still does.
LEMMA MainBacks ==
  ASSUME Main
  PROVE  /\ UNCHANGED <<socket, connectionIds, handler, overtaken, nextConnectionId, clientHellos>>
         /\ \A id : \A phases : Backed(id, phases) => Backed(id, phases)'
         /\ \A d : Drawn(d)' = Drawn(d)
<1>1. UNCHANGED <<socket, connectionIds, handler, overtaken, nextConnectionId, clientHellos>>
  BY DEF Main, HandleEvent, EventSubscribe, RenderFormatSet, RenderStreamConfigSet, CommandDone,
     BroadcastBegin, BroadcastStep, BroadcastEnd, registryVars
<1> QED
  BY <1>1 DEF Backed, Connected, Leaving, Drawn

\* A command that is allowed comes from a client with a connection.
LEMMA AdmissibleConnected ==
  ASSUME RegistryInv, NEW command \in Commands, NEW id \in Ids, Admissible(command, id)
  PROVE  /\ Connected(id)
         /\ command.type = "stream" => command.everyN > 0
<1>1. command.type \in {"events", "format", "stream"}
  BY CommandFacts
<1>2. connectionRegistry[id] # Nobody /\ (command.type = "stream" => command.everyN > 0)
  BY <1>1 DEF Admissible, ClientWantsRender, ClientWantsEvents
<1>3. connectionRegistry[id] \in Clients /\ connectionIds[connectionRegistry[id]] = id
  BY <1>2 DEF RegistryInv, RegistryTypeOK, RegistryFollowsClients
<1> QED
  BY <1>2, <1>3 DEF Connected

LEMMA QueueParts ==
  ASSUME NEW T, NEW s \in Seq(T), s # <<>>
  PROVE  Head(s) \in T /\ Tail(s) \in Seq(T)
OBVIOUS

\* A command is taken off the queue and checked.
LEMMA HandleEventKeeps ==
  ASSUME SubscriptionInv, HandleEvent
  PROVE  SubscriptionInv'
<1>1. RegistryInv /\ SubscriptionTypes /\ ListedOnce /\ AllBacked /\ LoopCovers
  BY DEF SubscriptionInv
<1>2. RegistryInv'
  BY <1>1, RegistryStep DEF Next, Main
<1>3. /\ main = MainIdle /\ eventQueue # <<>> /\ eventQueue' = Tail(eventQueue)
      /\ UNCHANGED <<subscribedClients, eventSubscribers, overtaken>>
  BY DEF HandleEvent
<1>4. eventQueue \in Seq([command : Commands, id : Ids])
  BY <1>1 DEF SubscriptionTypes
<1>5. PICK e \in [command : Commands, id : Ids] :
        \/ main' = main
        \/ /\ Admissible(e.command, e.id)
           /\ main' = [main EXCEPT !.op = "store", !.command = e.command, !.id = e.id]
  <2>1. Head(eventQueue) \in [command : Commands, id : Ids]
    BY <1>3, <1>4, QueueParts
  <2> QED
    BY <2>1 DEF HandleEvent
<1>6. eventQueue' \in Seq([command : Commands, id : Ids])
  BY <1>3, <1>4, QueueParts
<1>7. /\ main' \in MainState /\ main'.op \in {"idle", "store"} /\ main'.next = 0 /\ main'.end = 0
      /\ main'.op = "store" => /\ main'.id \in Ids /\ main'.command \in Commands /\ Connected(main'.id)
                               /\ main'.command.type = "stream" => main'.command.everyN > 0
  <2>1. CASE main' = main
    BY <1>3, <2>1, CommandFacts
  <2>2. CASE /\ Admissible(e.command, e.id)
             /\ main' = [main EXCEPT !.op = "store", !.command = e.command, !.id = e.id]
    <3>1. main \in MainState /\ main.next = 0 /\ main.end = 0
      BY <1>3, CommandFacts
    <3>2. e.command \in Commands /\ e.id \in Ids /\ e.command \in Command /\ e.id \in 0..MaxMessages
      BY CommandFacts, ClientsAssumption DEF Ids
    <3>3. main' \in MainState /\ main'.op = "store" /\ main'.id = e.id /\ main'.command = e.command
          /\ main'.next = 0 /\ main'.end = 0
      BY <2>2, <3>1, <3>2 DEF MainState
    <3>4. Connected(e.id) /\ (e.command.type = "stream" => e.command.everyN > 0)
      BY <1>1, <2>2, <3>2, AdmissibleConnected
    <3> QED
      BY <3>2, <3>3, <3>4
  <2> QED
    BY <1>5, <2>1, <2>2
<1>8. SubscriptionTypes' /\ LoopCovers'
  BY <1>1, <1>3, <1>6, <1>7, MainBacks DEF SubscriptionTypes, LoopCovers, Looping, Main
<1>9. ListedOnce' /\ AllBacked'
  BY <1>1, <1>3, MainBacks DEF ListedOnce, AllBacked, Main
<1>10. CommandBacked'
  <2> SUFFICES ASSUME main'.op = "store" PROVE Backed(main.id, {"callback"})'
    BY DEF CommandBacked
  <2>1. PICK id \in Ids : id = main'.id /\ Connected(id)
    BY <1>7
  <2>2. Backed(id, {"callback"})'
    BY <2>1, MainBacks DEF Backed, Main
  <2> QED
    BY <2>1, <2>2
<1> QED
  BY <1>2, <1>8, <1>9, <1>10 DEF SubscriptionInv
\* A step that puts the main thread to rest needs only its vectors looked after.
LEMMA AtRest ==
  ASSUME SubscriptionInv, Main, main' = MainIdle, UNCHANGED eventQueue,
         subscribedClients' \in Seq(SubscribedClient), eventSubscribers' \in Seq(Ids),
         ListedOnce', AllBacked'
  PROVE  SubscriptionInv'
<1>1. RegistryInv /\ SubscriptionTypes
  BY DEF SubscriptionInv
<1>2. RegistryInv'
  BY <1>1, RegistryStep DEF Next
<1>3. main' \in MainState /\ main'.op = "idle" /\ main'.next = 0 /\ main'.end = 0
  BY CommandFacts
<1>4. SubscriptionTypes' /\ CommandBacked' /\ LoopCovers'
  BY <1>1, <1>3, MainBacks DEF SubscriptionTypes, CommandBacked, LoopCovers, Looping
<1> QED
  BY <1>2, <1>4 DEF SubscriptionInv

\* Subscribing to events and leaving them.
LEMMA EventSubscribeKeeps ==
  ASSUME SubscriptionInv, EventSubscribe
  PROVE  SubscriptionInv'
<1>1. SubscriptionTypes /\ ListedOnce /\ AllBacked /\ CommandBacked
  BY DEF SubscriptionInv
<1>2. /\ main' = MainIdle /\ main.op = "store"
      /\ UNCHANGED <<subscribedClients, eventQueue>>
  BY DEF EventSubscribe, CommandDone, Stores
<1>3. Main
  BY DEF Main
<1>4. /\ subscribedClients \in Seq(SubscribedClient) /\ eventSubscribers \in Seq(Ids)
      /\ main.id \in Ids /\ Backed(main.id, {"callback"})
  BY <1>1, <1>2 DEF SubscriptionTypes, CommandBacked
<1>5. ASSUME eventSubscribers' \in Seq(Ids),
             \A i, j \in DOMAIN eventSubscribers' : eventSubscribers'[i] = eventSubscribers'[j] => i = j,
             \A i \in DOMAIN eventSubscribers' :
               \/ eventSubscribers'[i] = main.id
               \/ \E j \in DOMAIN eventSubscribers : eventSubscribers'[i] = eventSubscribers[j]
      PROVE  SubscriptionInv'
  <2>1. ListedOnce'
    BY <1>1, <1>2, <1>5 DEF ListedOnce
  <2>2. ASSUME NEW i \in DOMAIN eventSubscribers'
        PROVE  Backed(eventSubscribers[i], {"callback", "callback events"})'
    <3>1. Backed(main.id, {"callback", "callback events"})
      BY <1>4 DEF Backed, Leaving
    <3>2. PICK id : id = eventSubscribers'[i] /\ Backed(id, {"callback", "callback events"})
      BY <1>1, <1>5, <3>1 DEF AllBacked
    <3>3. Backed(id, {"callback", "callback events"})'
      BY <1>3, <3>2, MainBacks
    <3> QED
      BY <3>2, <3>3
  <2>3. AllBacked'
    BY <1>1, <1>2, <1>3, <2>2, MainBacks DEF AllBacked
  <2> QED
    BY <1>2, <1>3, <1>4, <1>5, <2>1, <2>3, AtRest
<1>6. CASE eventSubscribers' = Erased(eventSubscribers, EventPositions(main.id))
  BY <1>1, <1>5, <1>6, EventSubscribersErased
<1>7. CASE UNCHANGED eventSubscribers
  BY <1>1, <1>4, <1>5, <1>7 DEF ListedOnce
<1>8. CASE EventPositions(main.id) = {} /\ eventSubscribers' = Append(eventSubscribers, main.id)
  <2>1. /\ eventSubscribers' \in Seq(Ids) /\ Len(eventSubscribers) \in Nat
        /\ DOMAIN eventSubscribers' = 1..Len(eventSubscribers) + 1
        /\ DOMAIN eventSubscribers = 1..Len(eventSubscribers)
        /\ eventSubscribers'[Len(eventSubscribers) + 1] = main.id
        /\ \A i \in 1..Len(eventSubscribers) : eventSubscribers'[i] = eventSubscribers[i]
    BY <1>4, <1>8
  <2>2. \A i \in 1..Len(eventSubscribers) : eventSubscribers[i] # main.id
    BY <1>8, <2>1 DEF EventPositions
  <2>3. \A i \in DOMAIN eventSubscribers' : i \in 1..Len(eventSubscribers) \/ i = Len(eventSubscribers) + 1
    BY <2>1
  <2>4. \A i, j \in DOMAIN eventSubscribers' : eventSubscribers'[i] = eventSubscribers'[j] => i = j
    BY <1>1, <2>1, <2>2, <2>3 DEF ListedOnce
  <2>5. \A i \in DOMAIN eventSubscribers' :
               \/ eventSubscribers'[i] = main.id
               \/ \E j \in DOMAIN eventSubscribers : eventSubscribers'[i] = eventSubscribers[j]
    BY <2>1, <2>3
  <2> QED
    BY <1>5, <2>1, <2>4, <2>5
<1> QED
  BY <1>6, <1>7, <1>8 DEF EventSubscribe

\* Subscribing to render messages, and changing how many of them are sent.
LEMMA RenderSetKeeps ==
  ASSUME SubscriptionInv, RenderFormatSet \/ RenderStreamConfigSet
  PROVE  SubscriptionInv'
<1>1. SubscriptionTypes /\ ListedOnce /\ AllBacked /\ CommandBacked
  BY DEF SubscriptionInv
<1>2. /\ main' = MainIdle /\ main.op = "store"
      /\ UNCHANGED <<eventSubscribers, eventQueue>>
  BY DEF RenderFormatSet, RenderStreamConfigSet, CommandDone, Stores
<1>3. Main
  BY DEF Main
<1>4. /\ subscribedClients \in Seq(SubscribedClient) /\ eventSubscribers \in Seq(Ids)
      /\ main.id \in Ids /\ Backed(main.id, {"callback"})
      /\ DOMAIN subscribedClients = 1..Len(subscribedClients) /\ Len(subscribedClients) \in Nat
  BY <1>1, <1>2 DEF SubscriptionTypes, CommandBacked
<1>5. ASSUME subscribedClients' \in Seq(SubscribedClient),
             \A i, j \in DOMAIN subscribedClients' :
               subscribedClients'[i].connectionId = subscribedClients'[j].connectionId => i = j,
             \A i \in DOMAIN subscribedClients' :
               \/ subscribedClients'[i].connectionId = main.id
               \/ \E j \in DOMAIN subscribedClients :
                    subscribedClients'[i].connectionId = subscribedClients[j].connectionId
      PROVE  SubscriptionInv'
  <2>1. ListedOnce'
    BY <1>1, <1>2, <1>5 DEF ListedOnce
  <2>2. ASSUME NEW i \in DOMAIN subscribedClients'
        PROVE  Backed(subscribedClients[i].connectionId, {"callback"})'
    <3>1. PICK id : id = subscribedClients'[i].connectionId /\ Backed(id, {"callback"})
      BY <1>1, <1>4, <1>5 DEF AllBacked
    <3>2. Backed(id, {"callback"})'
      BY <1>3, <3>1, MainBacks
    <3> QED
      BY <3>1, <3>2
  <2>3. AllBacked'
    BY <1>1, <1>2, <1>3, <2>2, MainBacks DEF AllBacked
  <2> QED
    BY <1>2, <1>3, <1>4, <1>5, <2>1, <2>3, AtRest
<1>6. CASE RenderFormatSet
  <2> DEFINE s == [connectionId |-> main.id, renderEnabled |-> TRUE, renderEveryN |-> 1]
  <2>1. s \in SubscribedClient /\ s.connectionId = main.id
    BY <1>4 DEF SubscribedClient
  <2>2. CASE UNCHANGED subscribedClients
    BY <1>1, <1>4, <1>5, <2>2 DEF ListedOnce
  <2>3. CASE Positions(main.id) = {} /\ subscribedClients' = Append(subscribedClients, s)
    <3> HIDE DEF s
    <3>1. /\ subscribedClients' \in Seq(SubscribedClient)
          /\ DOMAIN subscribedClients' = 1..Len(subscribedClients) + 1
          /\ subscribedClients'[Len(subscribedClients) + 1] = s
          /\ \A i \in 1..Len(subscribedClients) : subscribedClients'[i] = subscribedClients[i]
      BY <1>4, <2>1, <2>3
    <3>2. \A i \in 1..Len(subscribedClients) : subscribedClients[i].connectionId # main.id
      BY <1>4, <2>3 DEF Positions
    <3>3. \A i \in DOMAIN subscribedClients' :
            i \in 1..Len(subscribedClients) \/ i = Len(subscribedClients) + 1
      BY <1>4, <3>1
    <3>4. \A i, j \in DOMAIN subscribedClients' :
            subscribedClients'[i].connectionId = subscribedClients'[j].connectionId => i = j
      BY <1>1, <1>4, <2>1, <3>1, <3>2, <3>3 DEF ListedOnce
    <3>5. \A i \in DOMAIN subscribedClients' :
            \/ subscribedClients'[i].connectionId = main.id
            \/ \E j \in DOMAIN subscribedClients :
                 subscribedClients'[i].connectionId = subscribedClients[j].connectionId
      BY <1>4, <2>1, <3>1, <3>3
    <3> QED
      BY <1>5, <3>1, <3>4, <3>5
  <2> QED
    BY <1>6, <2>2, <2>3 DEF RenderFormatSet
<1>7. CASE RenderStreamConfigSet
  <2>1. main.command.enabled \in BOOLEAN /\ main.command.everyN \in 1..2
    <3>1. main.command \in Commands /\ main.command.everyN > 0
      BY <1>1, <1>2, <1>7 DEF SubscriptionTypes, RenderStreamConfigSet, Stores
    <3> QED
      BY <3>1, CommandFacts
  <2>2. ASSUME NEW s \in SubscribedClient
        PROVE  LET t == [s EXCEPT !.renderEnabled = main.command.enabled,
                                  !.renderEveryN = main.command.everyN]
               IN  t \in SubscribedClient /\ t.connectionId = s.connectionId
    BY <2>1 DEF SubscribedClient
  <2>3. DOMAIN subscribedClients' = 1..Len(subscribedClients)
    BY <1>4, <1>7 DEF RenderStreamConfigSet
  <2>4. ASSUME NEW i \in 1..Len(subscribedClients)
        PROVE  /\ subscribedClients'[i] \in SubscribedClient
               /\ subscribedClients'[i].connectionId = subscribedClients[i].connectionId
    <3>1. subscribedClients[i] \in SubscribedClient
      BY <1>4
    <3>2. \/ subscribedClients'[i] = subscribedClients[i]
          \/ subscribedClients'[i] = [subscribedClients[i] EXCEPT
               !.renderEnabled = main.command.enabled, !.renderEveryN = main.command.everyN]
      BY <1>4, <1>7 DEF RenderStreamConfigSet
    <3> QED
      BY <2>2, <3>1, <3>2
  <2>5. subscribedClients' \in [1..Len(subscribedClients) -> SubscribedClient]
    <3>1. subscribedClients' = [i \in 1..Len(subscribedClients) |-> subscribedClients'[i]]
      BY <1>4, <1>7 DEF RenderStreamConfigSet
    <3> QED
      BY <2>4, <3>1
  <2>6. subscribedClients' \in Seq(SubscribedClient)
    BY <1>4, <2>5
  <2> QED
    BY <1>1, <1>4, <1>5, <2>3, <2>4, <2>6 DEF ListedOnce
<1> QED
  BY <1>6, <1>7

\* Who is due is listed, and somewhere in the vector.
LEMMA DueListed ==
  ASSUME SubscriptionTypes, NEW op \in {"render", "broadcast"}, NEW timestep \in 0..1,
         NEW id \in Due(op, timestep)
  PROVE  /\ id \in Ids /\ connectionRegistry[id] # Nobody
         /\ Len(Vector(op)) \in Nat
         /\ \E i \in 1..Len(Vector(op)) :
              IF op = "render"
              THEN /\ subscribedClients[i].connectionId = id
                   /\ ShouldSend(subscribedClients[i], timestep) /\ ClientWantsRender(id)
              ELSE eventSubscribers[i] = id /\ ClientWantsEvents(id)
<1>1. subscribedClients \in Seq(SubscribedClient) /\ eventSubscribers \in Seq(Ids)
  BY DEF SubscriptionTypes
<1>2. CASE op = "render"
  <2>1. PICK i \in DOMAIN subscribedClients :
          /\ subscribedClients[i].connectionId = id
          /\ ShouldSend(subscribedClients[i], timestep) /\ ClientWantsRender(id)
    BY <1>2 DEF Due
  <2>2. subscribedClients[i] \in SubscribedClient /\ DOMAIN subscribedClients = 1..Len(subscribedClients)
        /\ Len(subscribedClients) \in Nat
    BY <1>1
  <2>3. id \in Ids
    BY <2>1, <2>2 DEF SubscribedClient
  <2> QED
    BY <1>2, <2>1, <2>2, <2>3 DEF Vector, ClientWantsRender
<1>3. CASE op = "broadcast"
  <2>1. PICK i \in DOMAIN eventSubscribers : eventSubscribers[i] = id /\ ClientWantsEvents(id)
    BY <1>3 DEF Due
  <2>2. eventSubscribers[i] \in Ids /\ DOMAIN eventSubscribers = 1..Len(eventSubscribers)
        /\ Len(eventSubscribers) \in Nat
    BY <1>1
  <2> QED
    BY <1>3, <2>1, <2>2 DEF Vector, ClientWantsEvents
<1> QED
  BY <1>2, <1>3

\* A loop begins with everybody ahead of it.
LEMMA BroadcastBeginKeeps ==
  ASSUME SubscriptionInv, NEW op \in {"render", "broadcast"}, NEW timestep \in 0..1,
         BroadcastBegin(op, timestep)
  PROVE  SubscriptionInv'
<1>1. RegistryInv /\ SubscriptionTypes /\ ListedOnce /\ AllBacked
  BY DEF SubscriptionInv
<1>2. Main
  BY DEF Main
<1>3. RegistryInv'
  BY <1>1, <1>2, RegistryStep DEF Next
<1>4. /\ main = MainIdle
      /\ main' = [main EXCEPT !.op = op, !.next = 1, !.end = Len(Vector(op)),
                              !.timestep = timestep, !.due = Due(op, timestep)]
      /\ UNCHANGED <<subscribedClients, eventSubscribers, eventQueue, registryVars>>
  BY DEF BroadcastBegin
<1>5. Len(Vector(op)) \in Nat
  BY <1>1 DEF SubscriptionTypes, Vector
<1>6. Due(op, timestep) \in SUBSET Ids
  BY <1>1, DueListed
<1>7. /\ main' \in MainState /\ main'.op = op /\ main'.next = 1 /\ main'.end = Len(Vector(op))
      /\ main'.timestep = timestep /\ main'.due = Due(op, timestep)
  <2> DEFINE n == Len(Vector(op))
             ids == Due(op, timestep)
  <2>1. n \in Nat /\ ids \in SUBSET Ids /\ main \in MainState
        /\ main' = [main EXCEPT !.op = op, !.next = 1, !.end = n, !.timestep = timestep, !.due = ids]
    BY <1>4, <1>5, <1>6, CommandFacts
  <2> HIDE DEF n, ids
  <2>2. /\ main' \in MainState /\ main'.op = op /\ main'.next = 1 /\ main'.end = n
        /\ main'.timestep = timestep /\ main'.due = ids
    BY <2>1 DEF MainState
  <2> QED
    BY <2>2 DEF n, ids
<1>8. SubscriptionTypes'
  BY <1>1, <1>2, <1>4, <1>7, MainBacks DEF SubscriptionTypes, Looping
<1>9. ListedOnce' /\ AllBacked'
  BY <1>1, <1>2, <1>4, MainBacks DEF ListedOnce, AllBacked
<1>10. CommandBacked'
  BY <1>7 DEF CommandBacked
<1>11. LoopCovers'
  <2>1. main'.next \in 1..main'.end + 1
    BY <1>5, <1>7
  <2>2. main'.end = Len(Vector(main.op)')
    BY <1>4, <1>7 DEF Vector
  <2>3. ASSUME NEW id \in main'.due
        PROVE  id < nextConnectionId' /\ \A c \in Clients : Drawn(c)' => handler'[c].id # id
    <3>1. id \in Ids /\ connectionRegistry[id] # Nobody
      BY <1>1, <1>7, DueListed
    <3>2. connectionRegistry[id] \in Clients /\ connectionIds[connectionRegistry[id]] = id
      BY <1>1, <3>1 DEF RegistryInv, RegistryTypeOK, RegistryFollowsClients
    <3>3. id < nextConnectionId /\ \A c \in Clients : Drawn(c) => handler[c].id # id
      BY <1>1, <3>2 DEF RegistryInv, IdsDrawnOnce
    <3> QED
      BY <1>2, <3>3, MainBacks
  <2>4. ASSUME NEW id \in main'.due
        PROVE  \E i \in main'.next..main'.end : SendsTo(i, id)'
    <3>1. PICK i \in 1..Len(Vector(op)) :
              IF op = "render"
              THEN /\ subscribedClients[i].connectionId = id
                   /\ ShouldSend(subscribedClients[i], timestep) /\ ClientWantsRender(id)
              ELSE eventSubscribers[i] = id /\ ClientWantsEvents(id)
      BY <1>1, <1>7, DueListed
    <3>2. ClientWantsRender(id)' = ClientWantsRender(id) /\ ClientWantsEvents(id)' = ClientWantsEvents(id)
      BY <1>4 DEF ClientWantsRender, ClientWantsEvents, registryVars
    <3>3. SendsTo(i, id)'
      BY <1>4, <1>7, <3>1, <3>2 DEF SendsTo, ShouldSend
    <3> QED
      BY <1>7, <3>3
  <2> QED
    BY <2>1, <2>2, <2>3, <2>4 DEF LoopCovers
<1> QED
  BY <1>3, <1>8, <1>9, <1>10, <1>11 DEF SubscriptionInv

\* The id that the loop sends to, in the terms of the invariant.
LEMMA TargetFacts ==
  ASSUME SubscriptionInv, Looping, main.next <= main.end
  PROVE  /\ Target \in {0} \cup Ids
         /\ ~main.disturbed => \A id \in Ids : SendsTo(main.next, id) => Target = id
         /\ Target # 0 => connectionRegistry[Target] \in Clients
<1>1. RegistryInv /\ SubscriptionTypes /\ LoopCovers
  BY DEF SubscriptionInv
<1>2. /\ main.next \in Nat /\ main.end \in Nat
      /\ subscribedClients \in Seq(SubscribedClient) /\ eventSubscribers \in Seq(Ids)
  BY <1>1 DEF SubscriptionTypes, MainState
<1>3. ~main.disturbed => main.next \in 1..main.end + 1 /\ main.end = Len(Vector(main.op))
  BY <1>1 DEF LoopCovers
<1>4. CASE Target = 0
  <2>1. CASE main.op = "render"
    <3>1. ASSUME ~main.disturbed, NEW id \in Ids, SendsTo(main.next, id) PROVE Target = id
      BY <1>2, <1>3, <2>1, <3>1 DEF Target, Vector, SendsTo
    <3> QED
      BY <1>4, <3>1
  <2>2. CASE main.op = "broadcast"
    <3>1. ASSUME ~main.disturbed, NEW id \in Ids, SendsTo(main.next, id) PROVE Target = id
      BY <1>2, <1>3, <2>2, <3>1 DEF Target, Vector, SendsTo
    <3> QED
      BY <1>4, <3>1
  <2> QED
    BY <2>1, <2>2 DEF Looping
<1>5. CASE Target # 0
  <2>1. main.next >= 1
    BY <1>1, <1>2 DEF SubscriptionTypes
  <2>2. CASE main.op = "render"
    <3>1. /\ main.next <= Len(subscribedClients) /\ Target = subscribedClients[main.next].connectionId
          /\ ClientWantsRender(Target)
      BY <1>2, <1>5, <2>2 DEF Target, Vector
    <3>2. subscribedClients[main.next] \in SubscribedClient
      BY <1>2, <2>1, <3>1
    <3>3. Target \in Ids
      BY <3>1, <3>2 DEF SubscribedClient
    <3> QED
      BY <1>1, <2>2, <3>1, <3>3 DEF SendsTo, ClientWantsRender, RegistryInv, RegistryTypeOK
  <2>3. CASE main.op = "broadcast"
    <3>1. /\ main.next <= Len(eventSubscribers) /\ Target = eventSubscribers[main.next]
          /\ ClientWantsEvents(Target)
      BY <1>2, <1>5, <2>3 DEF Target, Vector
    <3>2. Target \in Ids
      BY <1>2, <2>1, <3>1
    <3> QED
      BY <1>1, <2>3, <3>1, <3>2 DEF SendsTo, ClientWantsEvents, RegistryInv, RegistryTypeOK
  <2> QED
    BY <2>2, <2>3 DEF Looping
<1> QED
  BY <1>4, <1>5

\* One element: the client is served, or sendToClient forgets it, or it is skipped.
LEMMA BroadcastStepKeeps ==
  ASSUME SubscriptionInv, BroadcastStep
  PROVE  SubscriptionInv'
<1> DEFINE open == Target = 0 \/ socket[connectionRegistry[Target]] = "open"
<1>1. RegistryInv /\ SubscriptionTypes /\ ListedOnce /\ AllBacked /\ LoopCovers
  BY DEF SubscriptionInv
<1>2. Main
  BY DEF Main
<1>3. RegistryInv'
  BY <1>1, <1>2, RegistryStep DEF Next
<1>4. /\ Looping /\ main.next <= main.end
      /\ \/ connectionRegistry' = connectionRegistry
         \/ ~open /\ connectionRegistry' = [connectionRegistry EXCEPT ![Target] = Nobody]
      /\ main' = [main EXCEPT !.next = main.next + 1,
                              !.served = IF Target # 0 /\ open THEN main.served \union {Target}
                                         ELSE main.served]
      /\ UNCHANGED <<socket, subscribedClients, eventSubscribers, eventQueue>>
  BY DEF BroadcastStep, AfterSend, Looping
<1>5. /\ Target \in {0} \cup Ids
      /\ ~main.disturbed => \A id \in Ids : SendsTo(main.next, id) => Target = id
      /\ Target # 0 => connectionRegistry[Target] \in Clients
  BY <1>4, TargetFacts
<1>0. Target # 0 /\ ~open => socket[connectionRegistry[Target]] # "open"
  OBVIOUS
<1> HIDE DEF open
<1>6. main \in MainState /\ main.next \in Nat /\ main.end \in Nat /\ main.served \in SUBSET Ids
      /\ main.due \in SUBSET Ids
  BY <1>1 DEF SubscriptionTypes, MainState
<1>7. PICK ids \in SUBSET Ids :
        /\ main' = [main EXCEPT !.next = main.next + 1, !.served = ids]
        /\ main.served \subseteq ids
        /\ Target # 0 /\ open => Target \in ids
  <2>1. (IF Target # 0 /\ open THEN main.served \union {Target} ELSE main.served) \in SUBSET Ids
    BY <1>5, <1>6
  <2> QED
    BY <1>4, <2>1
<1>8. /\ main' \in MainState /\ main'.next = main.next + 1 /\ main'.served = ids
      /\ main'.op = main.op /\ main'.end = main.end /\ main'.timestep = main.timestep
      /\ main'.due = main.due /\ main'.disturbed = main.disturbed
  <2> DEFINE n == main.next + 1
  <2>1. n \in Nat /\ main' = [main EXCEPT !.next = n, !.served = ids]
    BY <1>6, <1>7
  <2> HIDE DEF n
  <2>2. main' \in MainState
    BY <1>6, <2>1 DEF MainState
  <2>3. /\ main'.next = n /\ main'.served = ids
        /\ main'.op = main.op /\ main'.end = main.end /\ main'.timestep = main.timestep
        /\ main'.due = main.due /\ main'.disturbed = main.disturbed
    BY <1>6, <2>1 DEF MainState
  <2> QED
    BY <2>2, <2>3 DEF n
<1>9. SubscriptionTypes'
  BY <1>1, <1>2, <1>4, <1>6, <1>8, MainBacks DEF SubscriptionTypes, Looping
<1>10. ListedOnce' /\ AllBacked'
  BY <1>1, <1>2, <1>4, MainBacks DEF ListedOnce, AllBacked
<1>11. CommandBacked'
  BY <1>4, <1>8 DEF CommandBacked, Looping
<1>12. LoopCovers'
  <2> SUFFICES ASSUME ~main.disturbed PROVE LoopCovers'
    BY <1>8 DEF LoopCovers
  <2>1. /\ main.next \in 1..main.end + 1 /\ main.end = Len(Vector(main.op))
        /\ \A id \in main.due : id < nextConnectionId /\ \A c \in Clients : Drawn(c) => handler[c].id # id
        /\ \A id \in main.due \ main.served :
             Unreachable(id) \/ \E i \in main.next..main.end : SendsTo(i, id)
    BY <1>1, <1>4 DEF LoopCovers
  <2>2. main'.next \in 1..main'.end + 1
    BY <1>4, <1>6, <1>8
  <2>3. main'.end = Len(Vector(main.op)')
    BY <1>4, <1>8, <2>1 DEF Vector
  <2>4. \A id \in main'.due : id < nextConnectionId' /\ \A c \in Clients : Drawn(c)' => handler'[c].id # id
    BY <1>2, <1>8, <2>1, MainBacks
  <2>5. ASSUME NEW id \in main'.due \ main'.served
        PROVE  Unreachable(id)' \/ \E i \in main'.next..main'.end : SendsTo(i, id)'
    <3>1. id \in Ids /\ id \in main.due \ main.served
      BY <1>6, <1>7, <1>8
    <3>2. connectionRegistry \in [Ids -> Clients \union {Nobody}]
      BY <1>1 DEF RegistryInv, RegistryTypeOK
    <3>3. CASE id = Target
      <4>1. id # 0
        BY <3>1, ClientsAssumption DEF Ids
      <4>2. ~open
        BY <1>7, <1>8, <3>3, <4>1
      <4>3. connectionRegistry'[id] \in {connectionRegistry[id], Nobody}
        BY <1>4, <3>1, <3>2, <3>3
      <4>4. connectionRegistry'[id] = Nobody \/ socket'[connectionRegistry'[id]] # "open"
        BY <1>0, <1>4, <3>3, <4>1, <4>2, <4>3
      <4> QED
        BY <4>4 DEF Unreachable
    <3>4. CASE id # Target
      <4>1. connectionRegistry'[id] = connectionRegistry[id]
        BY <1>4, <3>1, <3>2, <3>4
      <4>2. /\ ClientWantsRender(id)' = ClientWantsRender(id)
            /\ ClientWantsEvents(id)' = ClientWantsEvents(id)
            /\ Unreachable(id)' = Unreachable(id)
        BY <1>2, <4>1, MainBacks DEF ClientWantsRender, ClientWantsEvents, Unreachable
      <4>3. \A i : SendsTo(i, id)' = SendsTo(i, id)
        BY <1>4, <1>8, <4>2 DEF SendsTo, ShouldSend
      <4>4. CASE Unreachable(id)
        BY <4>2, <4>4
      <4>5. ASSUME NEW i \in main.next..main.end, SendsTo(i, id)
            PROVE  \E j \in main'.next..main'.end : SendsTo(j, id)'
        <5>1. i # main.next
          BY <1>5, <3>1, <3>4, <4>5
        <5>2. i \in main'.next..main'.end
          BY <1>6, <1>8, <5>1
        <5> QED
          BY <4>3, <4>5, <5>2
      <4> QED
        BY <2>1, <3>1, <4>4, <4>5
    <3> QED
      BY <3>3, <3>4
  <2> QED
    BY <2>2, <2>3, <2>4, <2>5 DEF LoopCovers
<1> QED
  BY <1>3, <1>9, <1>10, <1>11, <1>12 DEF SubscriptionInv

\* Every step keeps the invariant.
LEMMA SubscriptionStep == SubscriptionInv /\ [Next]_vars => SubscriptionInv'
<1> SUFFICES ASSUME SubscriptionInv, [Next]_vars PROVE SubscriptionInv'
  OBVIOUS
<1>1. ASSUME NEW c \in Clients, Network(c) PROVE SubscriptionInv'
  BY <1>1, NetworkKeeps
<1>2. CASE HandleEvent
  BY <1>2, HandleEventKeeps
<1>3. CASE EventSubscribe
  BY <1>3, EventSubscribeKeeps
<1>4. CASE RenderFormatSet \/ RenderStreamConfigSet
  BY <1>4, RenderSetKeeps
<1>5. ASSUME NEW op \in {"render", "broadcast"}, NEW timestep \in 0..1, BroadcastBegin(op, timestep)
      PROVE  SubscriptionInv'
  BY <1>5, BroadcastBeginKeeps
<1>6. CASE BroadcastStep
  BY <1>6, BroadcastStepKeeps
<1>7. CASE BroadcastEnd
  <2>1. Main /\ main' = MainIdle /\ UNCHANGED <<eventQueue, subscribedClients, eventSubscribers>>
    BY <1>7 DEF Main, BroadcastEnd
  <2>2. /\ subscribedClients' \in Seq(SubscribedClient) /\ eventSubscribers' \in Seq(Ids)
        /\ ListedOnce' /\ AllBacked'
    BY <2>1, MainBacks DEF SubscriptionInv, SubscriptionTypes, ListedOnce, AllBacked
  <2> QED
    BY <2>1, <2>2, AtRest
<1>8. CASE UNCHANGED vars
  <2>1. RegistryInv'
    BY <1>8, RegistryStep DEF SubscriptionInv
  <2>2. SubscriptionTypes' /\ ListedOnce'
    BY <1>8 DEF SubscriptionInv, SubscriptionTypes, ListedOnce, vars, subscriptionVars, Drawn, Looping
  <2>3. AllBacked' /\ CommandBacked'
    BY <1>8 DEF SubscriptionInv, AllBacked, CommandBacked, Backed, Connected, Leaving, vars,
       registryVars, subscriptionVars
  <2>4. LoopCovers'
    BY <1>8 DEF SubscriptionInv, LoopCovers, Looping, Vector, Unreachable, SendsTo, ShouldSend, Drawn,
       ClientWantsRender, ClientWantsEvents, vars, registryVars, subscriptionVars
  <2> QED
    BY <2>1, <2>2, <2>3, <2>4 DEF SubscriptionInv
<1> QED
  BY <1>1, <1>2, <1>3, <1>4, <1>5, <1>6, <1>7, <1>8 DEF Next, Main

\* subscribedClients_ and eventSubscribers_ list a client once, and never one that nobody
\* will remove, except after a disconnect that overtook the client's own command.
THEOREM SubscribersAreBacked == Spec => []SubscribersBacked
<1>1. SubscriptionInv => SubscribersBacked
  <2> SUFFICES ASSUME ListedOnce, AllBacked PROVE SubscribersBacked
    BY DEF SubscriptionInv
  <2> QED
    BY DEF ListedOnce, AllBacked, Backed, Connected, SubscribersBacked, Positions, EventPositions
<1> QED
  BY SubscriptionInit, SubscriptionStep, <1>1, PTL DEF Spec

\* broadcastRenderMessage and broadcastEventData reach every client that they are for
\* and that is still open, whatever else connects and disconnects meanwhile.
THEOREM BroadcastsAreComplete == Spec => []BroadcastComplete
<1>1. SubscriptionInv => BroadcastComplete
  <2> SUFFICES ASSUME SubscriptionInv, main.next > main.end, ~main.disturbed,
                      NEW id \in main.due \ main.served
               PROVE  Unreachable(id)
    BY DEF BroadcastComplete, Unreachable
  <2>0. SubscriptionTypes
    BY DEF SubscriptionInv
  <2>a. main.next \in Nat /\ main.end \in Nat
    BY <2>0 DEF SubscriptionTypes, MainState
  <2>1. main.next \in Nat /\ main.end \in Nat /\ Looping
    BY <2>0, <2>a DEF SubscriptionTypes
  <2>2. Unreachable(id) \/ \E i \in main.next..main.end : SendsTo(i, id)
    BY <2>1 DEF SubscriptionInv, LoopCovers
  <2> QED
    BY <2>1, <2>2
<1> QED
  BY SubscriptionInit, SubscriptionStep, <1>1, PTL DEF Spec
=============================================================================
