------------------------- MODULE WebSocketRequests -------------------------
(***************************************************************************)
(* core/network/WebSocketService.cpp: blocking requests over a WebSocket.  *)
(*                                                                         *)
(* Threads of one service: the Requesters, which block in                  *)
(* sendBinaryAndReceive or sendJsonAndReceive until the response arrives   *)
(* or the timeout expires, and the Receivers, the WebSocket library's      *)
(* callback threads, which route a response to the request that waits for  *)
(* it by its correlation id.  The peer is a service of the same code       *)
(* (server, UI, audio, os-manager); it answers a request at most once, at  *)
(* any time and in any order, or never.                                    *)
(*                                                                         *)
(* Two levels of mutex are modelled: pendingMutex_, which guards the map   *)
(* of pending requests, and the mutex of each PendingRequest, which guards *)
(* its response.  A step is a critical section, or the stretch of one that *)
(* ends where the next mutex is requested.  The PendingRequest's condition *)
(* variable is notified with its mutex held, so a wake-up cannot be lost   *)
(* and waiting is a guard.                                                 *)
(*                                                                         *)
(* A message is its correlation id, its encoding and, as history, the      *)
(* number of the call it belongs to.                                       *)
(***************************************************************************)
EXTENDS Integers, Sequences, FiniteSets

CONSTANTS
  Requesters,  \* threads that call the service
  Receivers,   \* callback threads, one per connection
  MaxCalls,    \* bound on the number of calls
  None         \* no owner, no message

ASSUME RequestsAssumption ==
  /\ MaxCalls \in Nat
  /\ Requesters \cap Receivers = {}
  /\ None \notin Requesters \cup Receivers

Ids == 1..MaxCalls
Kinds == {"binary", "text"}
Messages == [id : Nat, call : Nat, kind : Kinds]
Statuses == {"none", "answer", "timeout", "send failed", "not connected", "wrong kind"}

\* What a call returns: a status and, with a response, the call it answers.
Results == [status : Statuses, call : Nat]
Without(status) == [status |-> status, call |-> 0]

ASSUME MessagesAssumption == None \notin Messages

VARIABLES
  connected,        \* ws_ is open (client), a UI client is connected (server)
  nextId,           \* nextId_, atomic
  calls,            \* number of calls made so far (history)
  pendingMutex,     \* owner of pendingMutex_ between steps
  pendingRequests,  \* ids in pendingRequests_
  response,         \* response[i]: what PendingRequest i has received
  reqMutex,         \* reqMutex[i]: owner of PendingRequest i's mutex
  pc,               \* where each requester is
  reqId,            \* id of each requester's latest request
  reqCall,          \* number of each requester's latest call (history)
  reqKind,          \* encoding of each requester's latest request
  result,           \* what each requester's latest call returned
  rpc,              \* where each receiver is
  hand,             \* the message each receiver is routing
  requests,         \* requests on the wire, in order
  handling,         \* requests the peer has accepted and not answered yet
  peerProtocol,     \* the peer's clientProtocols_ entry for this connection
  answers           \* responses on the wire

mapVars == <<pendingMutex, pendingRequests>>
slotVars == <<response, reqMutex>>
callVars == <<pc, reqId, reqCall, reqKind, result>>
recvVars == <<rpc, hand>>
wireVars == <<requests, handling, peerProtocol, answers>>
countVars == <<nextId, calls>>
vars == <<connected, countVars, mapVars, slotVars, callVars, recvVars, wireVars>>

\* The requester states in which its PendingRequest is in the map.
Registered == {"send", "failed", "lock", "waiting", "cleanup"}
RequesterStates == Registered \cup {"idle", "register"}
-----------------------------------------------------------------------------
Init ==
  /\ connected = FALSE /\ nextId = 1 /\ calls = 0
  /\ pendingMutex = None /\ pendingRequests = {}
  /\ response = [i \in Ids |-> None] /\ reqMutex = [i \in Ids |-> None]
  /\ pc = [r \in Requesters |-> "idle"]
  /\ reqId = [r \in Requesters |-> 0] /\ reqCall = [r \in Requesters |-> 0]
  /\ reqKind = [r \in Requesters |-> "binary"]
  /\ result = [r \in Requesters |-> Without("none")]
  /\ rpc = [v \in Receivers |-> "idle"] /\ hand = [v \in Receivers |-> None]
  /\ requests = <<>> /\ handling = {} /\ peerProtocol = "binary" /\ answers = {}
-----------------------------------------------------------------------------
(* The connection.                                                         *)

\* connect() makes a new WebSocket, of which the peer has seen no text message;
\* pending requests and the id counter are kept.
Connect ==
  /\ ~connected
  /\ connected' = TRUE
  /\ peerProtocol' = "binary"
  /\ UNCHANGED <<countVars, mapVars, slotVars, callVars, recvVars, requests,
                 handling, answers>>

\* disconnect(), or the connection is lost: what is on the wire is gone, and the
\* peer's response callbacks find a closed WebSocket.  Nobody fails the requests
\* that wait; they run into their timeouts.
Disconnect ==
  /\ connected
  /\ connected' = FALSE
  /\ requests' = <<>> /\ handling' = {} /\ answers' = {}
  /\ UNCHANGED <<countVars, mapVars, slotVars, callVars, recvVars, peerProtocol>>
-----------------------------------------------------------------------------
(* A requester, in sendBinaryAndReceive or sendJsonAndReceive.             *)

IdNotAdvanced == nextId

\* nextId_.fetch_add(1)
IdAdvanced == nextId + 1

\* sendJsonAndReceive refuses at once, without an id, when there is no connection.
Refuse(r) ==
  /\ pc[r] = "idle" /\ ~connected
  /\ result' = [result EXCEPT ![r] = Without("not connected")]
  /\ UNCHANGED <<connected, countVars, mapVars, slotVars, pc, reqId, reqCall,
                 reqKind, recvVars, wireVars>>

\* The correlation id is allocated.
Allocate(r, k) ==
  /\ pc[r] = "idle" /\ calls < MaxCalls
  /\ k = "text" => connected
  /\ calls' = calls + 1
  /\ nextId' = IdAdvanced
  /\ reqId' = [reqId EXCEPT ![r] = nextId]
  /\ reqCall' = [reqCall EXCEPT ![r] = calls + 1]
  /\ reqKind' = [reqKind EXCEPT ![r] = k]
  /\ result' = [result EXCEPT ![r] = Without("none")]
  /\ pc' = [pc EXCEPT ![r] = "register"]
  /\ UNCHANGED <<connected, mapVars, slotVars, recvVars, wireVars>>

\* pendingRequests_[id] = pending, a fresh PendingRequest.
Register(r) ==
  /\ pc[r] = "register" /\ pendingMutex = None
  /\ pendingRequests' = pendingRequests \cup {reqId[r]}
  /\ response' = [response EXCEPT ![reqId[r]] = None]
  /\ pc' = [pc EXCEPT ![r] = "send"]
  /\ UNCHANGED <<connected, countVars, pendingMutex, reqMutex, reqId, reqCall,
                 reqKind, result, recvVars, wireVars>>

\* The request goes on the wire, or sending fails (no connection, no UI peer, an
\* exception of the library).
Send(r) ==
  /\ pc[r] = "send"
  /\ \/ /\ connected
        /\ requests' = Append(requests,
                         [id |-> reqId[r], call |-> reqCall[r], kind |-> reqKind[r]])
        /\ pc' = [pc EXCEPT ![r] = "lock"]
     \/ /\ pc' = [pc EXCEPT ![r] = "failed"]
        /\ UNCHANGED requests
  /\ UNCHANGED <<connected, countVars, mapVars, slotVars, reqId, reqCall, reqKind,
                 result, recvVars, handling, peerProtocol, answers>>

EntryKept(i) == pendingRequests

\* pendingRequests_.erase(id)
EntryErased(i) == pendingRequests \ {i}

\* The failed send takes its entry out of the map and returns the error.
Unregister(r) ==
  /\ pc[r] = "failed" /\ pendingMutex = None
  /\ pendingRequests' = EntryErased(reqId[r])
  /\ result' = [result EXCEPT ![r] = Without("send failed")]
  /\ pc' = [pc EXCEPT ![r] = "idle"]
  /\ UNCHANGED <<connected, countVars, pendingMutex, slotVars, reqId, reqCall,
                 reqKind, recvVars, wireVars>>

\* unique_lock(pending->mutex), and wait_for's first look at pending->received:
\* a response that is already there is taken without waiting.
Lock(r) ==
  /\ pc[r] = "lock" /\ reqMutex[reqId[r]] = None
  /\ \/ /\ response[reqId[r]] = None
        /\ pc' = [pc EXCEPT ![r] = "waiting"]
        /\ UNCHANGED reqMutex
     \/ /\ response[reqId[r]] # None
        /\ pc' = [pc EXCEPT ![r] = "cleanup"]
        /\ reqMutex' = [reqMutex EXCEPT ![reqId[r]] = r]
  /\ UNCHANGED <<connected, countVars, mapVars, response, reqId, reqCall, reqKind,
                 result, recvVars, wireVars>>

NotifiedOnly(r) == response[reqId[r]] # None

\* wait_for has been notified, or its time is up, which may be at any moment.
WaitOver(r) == TRUE

\* wait_for returns, either way with the mutex held and pending->received looked
\* at once more.
WaitEnds(r) ==
  /\ pc[r] = "waiting" /\ WaitOver(r) /\ reqMutex[reqId[r]] = None
  /\ reqMutex' = [reqMutex EXCEPT ![reqId[r]] = r]
  /\ pc' = [pc EXCEPT ![r] = "cleanup"]
  /\ UNCHANGED <<connected, countVars, mapVars, response, reqId, reqCall, reqKind,
                 result, recvVars, wireVars>>

OutcomeOnceConnected(r) ==
  LET got == response[reqId[r]] IN
  IF got = None \/ ~connected THEN Without("timeout")
  ELSE IF got.kind # reqKind[r] THEN Without("wrong kind")
  ELSE [status |-> "answer", call |-> got.call]

\* What the call returns.  reqMutex has been held since pending->received was
\* last looked at, so looking at the response here is the same.
Outcome(r) ==
  LET got == response[reqId[r]] IN
  IF got = None THEN Without("timeout")
  ELSE IF got.kind # reqKind[r] THEN Without("wrong kind")
  ELSE [status |-> "answer", call |-> got.call]

\* With pending->mutex still held, pendingMutex_ is taken to erase the entry;
\* then the call returns and pending->mutex is released.
Cleanup(r) ==
  /\ pc[r] = "cleanup" /\ pendingMutex = None
  /\ pendingRequests' = EntryErased(reqId[r])
  /\ result' = [result EXCEPT ![r] = Outcome(r)]
  /\ reqMutex' = [reqMutex EXCEPT ![reqId[r]] = None]
  /\ pc' = [pc EXCEPT ![r] = "idle"]
  /\ UNCHANGED <<connected, countVars, pendingMutex, response, reqId, reqCall,
                 reqKind, recvVars, wireVars>>
-----------------------------------------------------------------------------
(* A receiver, in the onMessage callback of a client or in onClientMessage. *)

\* With pendingMutex_ held: a response nobody waits for is dropped; otherwise the
\* entry's own mutex is requested, and pendingMutex_ stays held meanwhile.
Route(v, m) ==
  /\ rpc[v] = "idle" /\ pendingMutex = None
  /\ answers' = answers \ {m}
  /\ \/ /\ m.id \notin pendingRequests
        /\ UNCHANGED <<rpc, hand, pendingMutex>>
     \/ /\ m.id \in pendingRequests
        /\ pendingMutex' = v
        /\ hand' = [hand EXCEPT ![v] = m]
        /\ rpc' = [rpc EXCEPT ![v] = "routed"]
  /\ UNCHANGED <<connected, countVars, pendingRequests, slotVars, callVars,
                 requests, handling, peerProtocol>>

\* With both mutexes held: the response is stored and the requester notified.
Deliver(v) ==
  /\ rpc[v] = "routed" /\ reqMutex[hand[v].id] = None
  /\ response' = [response EXCEPT ![hand[v].id] = hand[v]]
  /\ pendingMutex' = None
  /\ hand' = [hand EXCEPT ![v] = None]
  /\ rpc' = [rpc EXCEPT ![v] = "idle"]
  /\ UNCHANGED <<connected, countVars, pendingRequests, reqMutex, callVars, wireVars>>
-----------------------------------------------------------------------------
(* The peer.                                                               *)

\* The peer notes the encoding of the connection's latest message, and hands the
\* command to its handler, or drops it (no handler, unreadable message).
PeerReceive ==
  /\ requests # <<>>
  /\ peerProtocol' = Head(requests).kind
  /\ requests' = Tail(requests)
  /\ \/ handling' = handling \cup {Head(requests)}
     \/ UNCHANGED handling
  /\ UNCHANGED <<connected, countVars, mapVars, slotVars, callVars, recvVars, answers>>

AnsweredAgain(m) == handling

\* A handler calls sendResponse once.
AnsweredOnce(m) == handling \ {m}

\* The handler answers, in the encoding the connection used last.
PeerAnswer(m) ==
  /\ m \in handling
  /\ handling' = AnsweredOnce(m)
  /\ answers' = answers \cup {[m EXCEPT !.kind = peerProtocol]}
  /\ UNCHANGED <<connected, countVars, mapVars, slotVars, callVars, recvVars,
                 requests, peerProtocol>>
-----------------------------------------------------------------------------
Requester(r) ==
  \/ Refuse(r) \/ \E k \in Kinds : Allocate(r, k)
  \/ Register(r) \/ Send(r) \/ Unregister(r)
  \/ Lock(r) \/ WaitEnds(r) \/ Cleanup(r)

Receiver(v) == (\E m \in answers : Route(v, m)) \/ Deliver(v)

Peer == PeerReceive \/ \E m \in handling : PeerAnswer(m)

Next ==
  \/ Connect \/ Disconnect \/ Peer
  \/ \E r \in Requesters : Requester(r)
  \/ \E v \in Receivers : Receiver(v)

Spec == Init /\ [][Next]_vars

\* Threads that can run do run, and the timer of wait_for expires.  Nothing is
\* assumed of the peer, the network, or the order in which a mutex is handed on.
Fairness ==
  /\ \A r \in Requesters :
       WF_vars(Register(r) \/ Send(r) \/ Unregister(r) \/ Lock(r) \/ WaitEnds(r)
               \/ Cleanup(r))
  /\ \A v \in Receivers : WF_vars(Receiver(v))

FairSpec == Spec /\ Fairness
-----------------------------------------------------------------------------
(* Properties.                                                             *)

TypeOK ==
  /\ connected \in BOOLEAN
  /\ nextId \in 1..MaxCalls + 1 /\ calls \in 0..MaxCalls
  /\ pendingMutex \in Receivers \cup {None}
  /\ pendingRequests \subseteq Ids
  /\ response \in [Ids -> Messages \cup {None}]
  /\ reqMutex \in [Ids -> Requesters \cup {None}]
  /\ pc \in [Requesters -> RequesterStates]
  /\ reqId \in [Requesters -> 0..MaxCalls] /\ reqCall \in [Requesters -> 0..MaxCalls]
  /\ reqKind \in [Requesters -> Kinds]
  /\ result \in [Requesters -> Results]
  /\ rpc \in [Receivers -> {"idle", "routed"}]
  /\ hand \in [Receivers -> Messages \cup {None}]
  /\ requests \in Seq(Messages)
  /\ handling \subseteq Messages /\ answers \subseteq Messages
  /\ peerProtocol \in Kinds

\* A call returns the response to its own request or an error: a response that
\* comes late, after its own request has timed out, is never handed to another
\* request, on the same thread or on another, before or after a reconnection.
OwnAnswer ==
  \A r \in Requesters : result[r].status = "answer" => result[r].call = reqCall[r]

\* pendingRequests_ holds exactly the requests under way: neither a failed send,
\* nor a timeout, nor a disconnection leaves an entry behind.
NoLeak == pendingRequests = {reqId[r] : r \in {q \in Requesters : pc[q] \in Registered}}

\* A response that reached its PendingRequest in time is not thrown away: a call
\* that reports a timeout has received nothing, and never will.
TimeoutMeansNoAnswer ==
  \A r \in Requesters : pc[r] = "idle" /\ result[r].status = "timeout" =>
    response[reqId[r]] = None

\* The two orders in which the two mutexes are taken: the receiver holds
\* pendingMutex_ and wants the mutex of a PendingRequest that the requester holds
\* while it wants pendingMutex_.
Inverted(v, r) ==
  rpc[v] = "routed" /\ pc[r] = "cleanup" /\ hand[v].id = reqId[r]

\* The inversion needs a timeout: a requester that has its response never meets
\* the receiver, because a request is answered at most once.
InversionNeedsTimeout ==
  \A v \in Receivers, r \in Requesters :
    Inverted(v, r) => response[reqId[r]] = None

\* Every call returns.
RequestReturns == \A r \in Requesters : (pc[r] # "idle") ~> (pc[r] = "idle")

\* Every call returns, unless a timeout has met a late response of the same
\* request: no other interleaving of requests, receivers, reconnections and a
\* silent peer blocks anybody.
ReturnsUnlessInverted ==
  \A r \in Requesters :
    (pc[r] # "idle") ~> (pc[r] = "idle" \/ \E v \in Receivers, q \in Requesters : Inverted(v, q))
=============================================================================
