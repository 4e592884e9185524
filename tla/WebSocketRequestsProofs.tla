---------------------- MODULE WebSocketRequestsProofs ----------------------
(***************************************************************************)
(* Proofs about WebSocketRequests, for any number of requesters, receivers *)
(* and calls.                                                              *)
(***************************************************************************)
EXTENDS WebSocketRequests, SequenceTheorems, TLAPS

\* Who holds which mutex: a receiver keeps pendingMutex_ exactly while it routes
\* a response to an entry of the map, a requester keeps its PendingRequest's
\* mutex exactly while it cleans up.
LockInv ==
  /\ \A v \in Receivers : rpc[v] = "routed" <=> pendingMutex = v
  /\ \A v \in Receivers : rpc[v] = "routed" =>
       hand[v] \in Messages /\ hand[v].id \in pendingRequests
  /\ \A r \in Requesters : pc[r] = "cleanup" => reqMutex[reqId[r]] = r
  /\ \A i \in Ids, r \in Requesters : reqMutex[i] = r => pc[r] = "cleanup" /\ reqId[r] = i

\* The ids: each is allocated once, numbers its call, and is in the map exactly
\* while the call is under way.
IdInv ==
  /\ nextId = calls + 1
  /\ \A r \in Requesters : reqId[r] < nextId /\ reqCall[r] = reqId[r]
  /\ \A r \in Requesters : pc[r] # "idle" => reqId[r] # 0
  /\ \A q, r \in Requesters : reqId[q] = reqId[r] /\ reqId[q] # 0 => q = r
  /\ NoLeak

Sent(m) == 0 < m.id /\ m.id < nextId /\ m.call = m.id
Routing(i) == \E v \in Receivers : rpc[v] = "routed" /\ hand[v].id = i
InRequests(i) == \E k \in DOMAIN requests : requests[k].id = i
InHandling(i) == \E m \in handling : m.id = i
InAnswers(i) == \E m \in answers : m.id = i
NotYetSent(i) == \E r \in Requesters : reqId[r] = i /\ pc[r] \in {"register", "send"}

\* Every message carries the number of the call it belongs to ...
LabelInv ==
  /\ \A k \in DOMAIN requests : Sent(requests[k])
  /\ \A m \in handling : Sent(m)
  /\ \A m \in answers : Sent(m)
  /\ \A v \in Receivers : rpc[v] = "routed" => Sent(hand[v])
  /\ \A i \in Ids : response[i] # None => response[i].id = i /\ Sent(response[i])

\* ... and a request and its response are in at most one place: on the wire to the
\* peer, with the peer, on the way back, with a receiver, or delivered.
OnceInv ==
  /\ \A j, k \in DOMAIN requests : requests[j].id = requests[k].id => j = k
  /\ \A m, n \in handling : m.id = n.id => m = n
  /\ \A m, n \in answers : m.id = n.id => m = n
  /\ \A i \in Ids : NotYetSent(i) =>
       ~InRequests(i) /\ ~InHandling(i) /\ ~InAnswers(i) /\ ~Routing(i) /\ response[i] = None
  /\ \A i \in Ids : InRequests(i) => ~InHandling(i) /\ ~InAnswers(i) /\ ~Routing(i) /\ response[i] = None
  /\ \A i \in Ids : InHandling(i) => ~InAnswers(i) /\ ~Routing(i) /\ response[i] = None
  /\ \A i \in Ids : InAnswers(i) => ~Routing(i) /\ response[i] = None
  /\ \A i \in Ids : Routing(i) => response[i] = None

ResultInv ==
  /\ OwnAnswer
  /\ \A r \in Requesters : pc[r] = "idle" /\ result[r].status = "timeout" =>
       reqId[r] # 0 /\ response[reqId[r]] = None

RequestsInv == TypeOK /\ LockInv /\ IdInv /\ LabelInv /\ OnceInv /\ ResultInv

LEMMA Constants ==
  /\ MaxCalls \in Nat /\ None \notin Messages
  /\ \A r \in Requesters : r # None
  /\ \A v \in Receivers : v # None
PROOF BY RequestsAssumption, MessagesAssumption DEF RequestsAssumption, MessagesAssumption

LEMMA AppendMessage ==
  ASSUME NEW q \in Seq(Messages), NEW m \in Messages
  PROVE  /\ Append(q, m) \in Seq(Messages)
         /\ DOMAIN Append(q, m) = DOMAIN q \cup {Len(q) + 1}
         /\ Len(q) + 1 \notin DOMAIN q
         /\ \A k \in DOMAIN q : Append(q, m)[k] = q[k]
         /\ Append(q, m)[Len(q) + 1] = m
PROOF BY AppendProperties, LenProperties

LEMMA TailMessages ==
  ASSUME NEW q \in Seq(Messages), q # <<>>
  PROVE  /\ Head(q) \in Messages /\ Tail(q) \in Seq(Messages)
         /\ 1 \in DOMAIN q /\ q[1] = Head(q)
         /\ \A k \in DOMAIN Tail(q) : k + 1 \in DOMAIN q /\ k + 1 # 1 /\ Tail(q)[k] = q[k + 1]
PROOF BY HeadTailProperties, LenProperties

LEMMA WithoutFacts ==
  ASSUME NEW s \in Statuses
  PROVE  Without(s) \in Results /\ Without(s).status = s
PROOF BY DEF Without, Results, Statuses

LEMMA Basics ==
  ASSUME RequestsInv, NEW r \in Requesters
  PROVE  /\ reqId[r] \in Nat /\ (reqId[r] # 0 => reqId[r] \in Ids)
         /\ pc[r] # "idle" => reqId[r] \in Ids
         /\ pc[r] \in Registered => reqId[r] \in pendingRequests
         /\ pc[r] = "idle" => reqId[r] \notin pendingRequests
         /\ \A q \in Requesters : reqId[q] = reqId[r] /\ reqId[r] # 0 => q = r
PROOF
<1> USE Constants DEF RequestsInv, TypeOK, IdInv
<1>1. reqId[r] \in 0..MaxCalls OBVIOUS
<1>2. pc[r] \in Registered => reqId[r] \in pendingRequests BY DEF NoLeak
<1>3. pc[r] = "idle" => reqId[r] \notin pendingRequests
  <2> SUFFICES ASSUME pc[r] = "idle", reqId[r] \in pendingRequests PROVE FALSE OBVIOUS
  <2>1. PICK q \in Requesters : pc[q] \in Registered /\ reqId[q] = reqId[r] BY DEF NoLeak
  <2>2. q = r BY <2>1 DEF Registered
  <2> QED BY <2>1, <2>2 DEF Registered
<1> QED BY <1>1, <1>2, <1>3 DEF Ids

\* A step that moves no message keeps OnceInv unless it makes up an unsent id.
LEMMA OnceFrame ==
  ASSUME RequestsInv, UNCHANGED <<requests, handling, answers, rpc, hand, response>>,
         \A i \in Ids : NotYetSent(i)' => NotYetSent(i)
  PROVE  OnceInv'
PROOF BY DEF RequestsInv, OnceInv, InRequests, InHandling, InAnswers, Routing

LEMMA InvInit == Init => RequestsInv
PROOF
<1> SUFFICES ASSUME Init PROVE RequestsInv OBVIOUS
<1> USE Constants
<1>0. requests = <<>> /\ requests \in Seq(Messages) /\ DOMAIN requests = {}
  BY EmptySeq DEF Init
<1>1. TypeOK
  <2>1. connected \in BOOLEAN BY Zenon DEF Init
  <2>2. result \in [Requesters -> Results] BY WithoutFacts DEF Init, Statuses
  <2>3. pc \in [Requesters -> RequesterStates] BY DEF Init, RequesterStates
  <2>4. reqKind \in [Requesters -> Kinds] /\ peerProtocol \in Kinds BY DEF Init, Kinds
  <2>5. reqId \in [Requesters -> 0..MaxCalls] /\ reqCall \in [Requesters -> 0..MaxCalls]
    BY DEF Init
  <2>6. nextId \in 1..MaxCalls + 1 /\ calls \in 0..MaxCalls BY DEF Init
  <2>7. /\ response \in [Ids -> Messages \cup {None}] /\ reqMutex \in [Ids -> Requesters \cup {None}]
        /\ rpc \in [Receivers -> {"idle", "routed"}] /\ hand \in [Receivers -> Messages \cup {None}]
    BY DEF Init
  <2> QED BY <1>0, <2>1, <2>2, <2>3, <2>4, <2>5, <2>6, <2>7 DEF Init, TypeOK
<1>2. LockInv BY DEF Init, LockInv
<1>3. IdInv BY DEF Init, IdInv, NoLeak, Registered
<1>4. LabelInv BY <1>0 DEF Init, LabelInv
<1>5. OnceInv
  BY <1>0 DEF Init, OnceInv, NotYetSent, InRequests, InHandling, InAnswers, Routing
<1>6. ResultInv BY WithoutFacts DEF Init, ResultInv, OwnAnswer, Statuses
<1> QED BY <1>1, <1>2, <1>3, <1>4, <1>5, <1>6 DEF RequestsInv

LEMMA InvConnect ==
  ASSUME RequestsInv, Connect
  PROVE  RequestsInv'
PROOF
<1> USE Constants DEF RequestsInv, mapVars, slotVars, callVars, recvVars, wireVars, countVars, Connect
<1>1. TypeOK'
  <2>1. connected' \in BOOLEAN BY Zenon
  <2>2. peerProtocol' \in Kinds BY DEF Kinds
  <2> QED BY <2>1, <2>2 DEF TypeOK
<1>2. LockInv' BY DEF LockInv
<1>3. IdInv' BY DEF IdInv, NoLeak
<1>4. LabelInv' BY DEF LabelInv, Sent
<1>5. OnceInv' BY DEF OnceInv, NotYetSent, InRequests, InHandling, InAnswers, Routing
<1>6. ResultInv' BY DEF ResultInv, OwnAnswer
<1> QED BY <1>1, <1>2, <1>3, <1>4, <1>5, <1>6

LEMMA InvDisconnect ==
  ASSUME RequestsInv, Disconnect
  PROVE  RequestsInv'
PROOF
<1> USE Constants DEF RequestsInv, mapVars, slotVars, callVars, recvVars, wireVars, countVars, Disconnect
<1>0. requests' \in Seq(Messages) /\ DOMAIN requests' = {} BY EmptySeq
<1>1. TypeOK'
  <2>1. connected' \in BOOLEAN BY Zenon
  <2> QED BY <1>0, <2>1 DEF TypeOK
<1>2. LockInv' BY DEF LockInv
<1>3. IdInv' BY DEF IdInv, NoLeak
<1>4. LabelInv' BY <1>0 DEF LabelInv, Sent
<1>5. OnceInv'
  BY <1>0 DEF OnceInv, NotYetSent, InRequests, InHandling, InAnswers, Routing
<1>6. ResultInv' BY DEF ResultInv, OwnAnswer
<1> QED BY <1>1, <1>2, <1>3, <1>4, <1>5, <1>6

LEMMA InvRefuse ==
  ASSUME RequestsInv, NEW r \in Requesters, Refuse(r)
  PROVE  RequestsInv'
PROOF
<1> USE Constants DEF RequestsInv, mapVars, slotVars, callVars, recvVars, wireVars, countVars, Refuse
<1>1. TypeOK'
  <2>1. Without("not connected") \in Results BY WithoutFacts DEF Statuses
  <2>2. result' \in [Requesters -> Results] BY <2>1 DEF TypeOK
  <2> QED BY <2>2 DEF TypeOK
<1>2. LockInv'
  <2>1. UNCHANGED <<rpc, hand, pendingMutex, pendingRequests, pc, reqMutex, reqId>> OBVIOUS
  <2> HIDE DEF Refuse
  <2> QED BY <2>1 DEF LockInv
<1>3. IdInv' BY DEF IdInv, NoLeak
<1>4. LabelInv' BY DEF LabelInv, Sent
<1>5. OnceInv' BY DEF OnceInv, NotYetSent, InRequests, InHandling, InAnswers, Routing
<1>6. ResultInv'
  <2>1. Without("not connected").status = "not connected" BY WithoutFacts DEF Statuses
  <2>2. \A q \in Requesters : result'[q] = result[q] \/ result'[q].status = "not connected"
    BY <2>1 DEF TypeOK
  <2> QED BY <2>2 DEF ResultInv, OwnAnswer
<1> QED BY <1>1, <1>2, <1>3, <1>4, <1>5, <1>6

LEMMA InvAllocate ==
  ASSUME RequestsInv, NEW r \in Requesters, NEW k \in Kinds, Allocate(r, k)
  PROVE  RequestsInv'
PROOF
<1> USE Constants DEF RequestsInv, mapVars, slotVars, callVars, recvVars, wireVars, countVars, Allocate, IdAdvanced
<1>1. TypeOK'
  <2>1. Without("none") \in Results BY WithoutFacts DEF Statuses
  <2>2. result' \in [Requesters -> Results] BY <2>1 DEF TypeOK
  <2>3. pc' \in [Requesters -> RequesterStates] BY DEF TypeOK, RequesterStates
  <2>4. /\ nextId' \in 1..MaxCalls + 1 /\ calls' \in 0..MaxCalls
        /\ reqId' \in [Requesters -> 0..MaxCalls] /\ reqCall' \in [Requesters -> 0..MaxCalls]
    BY DEF TypeOK, IdInv
  <2> QED BY <2>2, <2>3, <2>4 DEF TypeOK
<1>2. LockInv'
  <2>1. \A i \in Ids : reqMutex[i] # r BY DEF LockInv
  <2>2. \A q \in Requesters : q # r => pc'[q] = pc[q] /\ reqId'[q] = reqId[q] BY DEF TypeOK
  <2>3. pc'[r] = "register" BY DEF TypeOK
  <2> QED BY <2>1, <2>2, <2>3 DEF LockInv
<1>3. IdInv'
  <2>1. \A q \in Requesters : q # r => pc'[q] = pc[q] /\ reqId'[q] = reqId[q] /\ reqCall'[q] = reqCall[q]
    BY DEF TypeOK
  <2>2. pc'[r] = "register" /\ reqId'[r] = nextId /\ reqCall'[r] = calls + 1 BY DEF TypeOK
  <2>3. nextId' = nextId + 1 /\ calls' = calls + 1 /\ nextId \in Nat /\ nextId # 0 BY DEF TypeOK
  <2>4. NoLeak'
    <3>1. {q \in Requesters : pc'[q] \in Registered} = {q \in Requesters : pc[q] \in Registered}
      BY <2>1, <2>2 DEF Registered
    <3>2. r \notin {q \in Requesters : pc[q] \in Registered} BY DEF Registered
    <3> QED BY <2>1, <3>1, <3>2 DEF NoLeak, IdInv
  <2>5. \A q \in Requesters : reqId[q] \in Nat BY Basics
  <2>6. \A q \in Requesters : reqId'[q] < nextId' /\ reqCall'[q] = reqId'[q]
    BY <2>1, <2>2, <2>3, <2>5 DEF IdInv
  <2>7. \A q, p \in Requesters : reqId'[q] = reqId'[p] /\ reqId'[q] # 0 => q = p
    BY <2>1, <2>2, <2>3, <2>5 DEF IdInv
  <2> QED BY <2>1, <2>2, <2>3, <2>4, <2>6, <2>7 DEF IdInv
<1>4. LabelInv'
  <2>1. nextId' = nextId + 1 /\ nextId \in Nat BY DEF TypeOK
  <2>2. ASSUME NEW m \in Messages, Sent(m) PROVE Sent(m)' BY <2>1, <2>2 DEF Sent, Messages
  <2>3. \A j \in DOMAIN requests : requests[j] \in Messages BY LenProperties DEF TypeOK
  <2>4. \A i \in Ids : response[i] # None => response[i] \in Messages BY DEF TypeOK
  <2>5. \A v \in Receivers : rpc[v] = "routed" => hand[v] \in Messages BY DEF LockInv
  <2> QED BY <2>2, <2>3, <2>4, <2>5 DEF LabelInv, TypeOK
<1>5. OnceInv'
  <2>1. \A i \in Ids : NotYetSent(i)' => NotYetSent(i) \/ i = nextId BY DEF NotYetSent, TypeOK
  <2>2. nextId \in Nat BY DEF TypeOK
  <2>3. /\ ~InRequests(nextId) /\ ~InHandling(nextId) /\ ~InAnswers(nextId) /\ ~Routing(nextId)
        /\ nextId \in Ids => response[nextId] = None
    BY <2>2 DEF LabelInv, Sent, InRequests, InHandling, InAnswers, Routing
  <2> QED BY <2>1, <2>3 DEF OnceInv, InRequests, InHandling, InAnswers, Routing
<1>6. ResultInv'
  <2>1. Without("none").status = "none" BY WithoutFacts DEF Statuses
  <2>2. result'[r].status = "none" BY <2>1 DEF TypeOK
  <2>3. \A q \in Requesters : q # r => /\ result'[q] = result[q] /\ pc'[q] = pc[q]
                                       /\ reqId'[q] = reqId[q] /\ reqCall'[q] = reqCall[q]
    BY DEF TypeOK
  <2> QED BY <2>2, <2>3 DEF ResultInv, OwnAnswer
<1> QED BY <1>1, <1>2, <1>3, <1>4, <1>5, <1>6

LEMMA InvRegister ==
  ASSUME RequestsInv, NEW r \in Requesters, Register(r)
  PROVE  RequestsInv'
PROOF
<1> USE Constants DEF RequestsInv, mapVars, slotVars, callVars, recvVars, wireVars, countVars, Register
<1>1. TypeOK'
  <2>1. pc' \in [Requesters -> RequesterStates] BY DEF TypeOK, RequesterStates, Registered
  <2>2. reqId[r] \in Ids BY Basics
  <2> QED BY <2>1, <2>2 DEF TypeOK
<1>2. LockInv'
  <2>1. \A q \in Requesters : q # r => pc'[q] = pc[q] BY DEF TypeOK
  <2>2. pc'[r] = "send" BY DEF TypeOK
  <2> QED BY <2>1, <2>2 DEF LockInv
<1>3. IdInv'
  <2>1. \A q \in Requesters : q # r => pc'[q] = pc[q] BY DEF TypeOK
  <2>2. pc'[r] = "send" BY DEF TypeOK
  <2>3. {q \in Requesters : pc'[q] \in Registered} = {q \in Requesters : pc[q] \in Registered} \cup {r}
    BY <2>1, <2>2 DEF Registered
  <2>4. NoLeak' BY <2>3 DEF NoLeak, IdInv
  <2> QED BY <2>1, <2>2, <2>4 DEF IdInv
<1>4. LabelInv'
  <2>1. reqId[r] \in Ids BY Basics
  <2>2. \A i \in Ids : response'[i] = response[i] \/ response'[i] = None BY <2>1 DEF TypeOK
  <2> QED BY <2>2 DEF LabelInv, Sent
<1>5. OnceInv'
  <2>1. NotYetSent(reqId[r]) /\ reqId[r] \in Ids BY Basics DEF NotYetSent
  <2>2. response[reqId[r]] = None BY <2>1 DEF OnceInv
  <2>3. response' = response BY <2>1, <2>2 DEF TypeOK
  <2>4. \A i \in Ids : NotYetSent(i)' => NotYetSent(i) BY DEF NotYetSent, TypeOK
  <2> QED BY <2>3, <2>4, OnceFrame
<1>6. ResultInv'
  <2>1. NotYetSent(reqId[r]) /\ reqId[r] \in Ids BY Basics DEF NotYetSent
  <2>2. response' = response BY <2>1 DEF TypeOK, OnceInv
  <2>3. \A q \in Requesters : pc'[q] = "idle" => pc[q] = "idle" BY DEF TypeOK
  <2> QED BY <2>2, <2>3 DEF ResultInv, OwnAnswer
<1> QED BY <1>1, <1>2, <1>3, <1>4, <1>5, <1>6

LEMMA InvSend ==
  ASSUME RequestsInv, NEW r \in Requesters, Send(r)
  PROVE  RequestsInv'
PROOF
<1> USE Constants DEF RequestsInv, mapVars, slotVars, callVars, recvVars, wireVars, countVars, Send
<1> DEFINE msg == [id |-> reqId[r], call |-> reqCall[r], kind |-> reqKind[r]]
<1>0. /\ msg \in Messages /\ requests' \in {requests, Append(requests, msg)}
      /\ requests' \in Seq(Messages)
  <2>1. msg \in Messages BY Basics DEF Messages, TypeOK, IdInv
  <2>2. requests \in Seq(Messages) BY DEF TypeOK
  <2>3. Append(requests, msg) \in Seq(Messages) BY <2>1, <2>2, AppendMessage
  <2>4. requests' \in {requests, Append(requests, msg)} OBVIOUS
  <2> QED BY <2>1, <2>2, <2>3, <2>4
<1>1. TypeOK'
  <2>1. pc' \in [Requesters -> RequesterStates] BY DEF TypeOK, RequesterStates, Registered
  <2> QED BY <1>0, <2>1 DEF TypeOK
<1>2. LockInv'
  <2>1. \A q \in Requesters : q # r => pc'[q] = pc[q] BY DEF TypeOK
  <2>2. pc'[r] \in Registered \ {"cleanup"} /\ pc[r] \in Registered \ {"cleanup"} BY DEF TypeOK, Registered
  <2> QED BY <2>1, <2>2 DEF LockInv
<1>3. IdInv'
  <2>1. \A q \in Requesters : q # r => pc'[q] = pc[q] BY DEF TypeOK
  <2>2. pc'[r] \in Registered \ {"cleanup"} /\ pc[r] \in Registered \ {"cleanup"} BY DEF TypeOK, Registered
  <2>3. {q \in Requesters : pc'[q] \in Registered} = {q \in Requesters : pc[q] \in Registered}
    BY <2>1, <2>2
  <2>4. NoLeak' BY <2>3 DEF NoLeak, IdInv
  <2> QED BY <2>1, <2>2, <2>4 DEF IdInv, Registered
<1>4. LabelInv'
  <2>1. Sent(msg) BY Basics DEF Sent, IdInv
  <2>2. \A j \in DOMAIN requests' : requests'[j] = msg \/ (j \in DOMAIN requests /\ requests'[j] = requests[j])
    BY SMTT(30), <1>0, AppendMessage DEF TypeOK
  <2> QED BY <2>1, <2>2 DEF LabelInv, Sent
<1>5. OnceInv'
  <2>1. reqId[r] \in Ids /\ NotYetSent(reqId[r]) BY Basics DEF NotYetSent
  <2>2. \A i \in Ids : NotYetSent(i)' => NotYetSent(i) /\ i # reqId[r]
    <3> SUFFICES ASSUME NEW i \in Ids, NEW q \in Requesters, reqId[q] = i, pc'[q] \in {"register", "send"}
                 PROVE  NotYetSent(i) /\ i # reqId[r]
      BY DEF NotYetSent
    <3>1. q # r BY DEF TypeOK
    <3>2. pc[q] = pc'[q] BY <3>1 DEF TypeOK
    <3>3. i # reqId[r] BY <2>1, <3>1, Basics DEF Ids
    <3> QED BY <3>2, <3>3 DEF NotYetSent
  <2>3. CASE UNCHANGED requests BY <2>2, <2>3, OnceFrame
  <2>4. CASE requests' = Append(requests, msg)
    <3>1. /\ DOMAIN requests' = DOMAIN requests \cup {Len(requests) + 1}
          /\ \A j \in DOMAIN requests : requests'[j] = requests[j]
          /\ requests'[Len(requests) + 1] = msg
      BY <1>0, <2>4, AppendMessage DEF TypeOK
    <3>2. \A i : InRequests(i)' <=> InRequests(i) \/ i = reqId[r] BY <3>1 DEF InRequests
    <3>3. ~InRequests(reqId[r]) /\ ~InHandling(reqId[r]) /\ ~InAnswers(reqId[r])
          /\ ~Routing(reqId[r]) /\ response[reqId[r]] = None
      BY <2>1 DEF OnceInv
    <3>4. \A j, k \in DOMAIN requests' : requests'[j].id = requests'[k].id => j = k
      BY <3>1, <3>3 DEF InRequests, OnceInv
    <3>5. \A i : /\ InHandling(i)' <=> InHandling(i)
                 /\ InAnswers(i)' <=> InAnswers(i)
                 /\ Routing(i)' <=> Routing(i)
      BY DEF InHandling, InAnswers, Routing
    <3> QED BY <2>2, <3>2, <3>3, <3>4, <3>5 DEF OnceInv
  <2> QED BY <2>3, <2>4
<1>6. ResultInv'
  <2>1. \A q \in Requesters : pc'[q] = "idle" => pc[q] = "idle" BY DEF TypeOK
  <2> QED BY <2>1 DEF ResultInv, OwnAnswer
<1> QED BY <1>1, <1>2, <1>3, <1>4, <1>5, <1>6

LEMMA InvUnregister ==
  ASSUME RequestsInv, NEW r \in Requesters, Unregister(r)
  PROVE  RequestsInv'
PROOF
<1> USE Constants DEF RequestsInv, mapVars, slotVars, callVars, recvVars, wireVars, countVars, Unregister, EntryErased
<1>1. TypeOK'
  <2>1. Without("send failed") \in Results BY WithoutFacts DEF Statuses
  <2>2. result' \in [Requesters -> Results] BY <2>1 DEF TypeOK
  <2>3. pc' \in [Requesters -> RequesterStates] BY DEF TypeOK, RequesterStates
  <2> QED BY <2>2, <2>3 DEF TypeOK
<1>2. LockInv'
  <2>1. \A q \in Requesters : q # r => pc'[q] = pc[q] BY DEF TypeOK
  <2>2. pc'[r] = "idle" /\ pc[r] \in Registered BY DEF TypeOK, Registered
  <2>3. \A v \in Receivers : rpc[v] # "routed" BY DEF LockInv
  <2>4. \A i \in Ids : reqMutex[i] # r BY DEF LockInv
  <2>5. reqMutex' = reqMutex /\ reqId' = reqId /\ rpc' = rpc /\ pendingMutex' = pendingMutex OBVIOUS
  <2> HIDE DEF Unregister
  <2>6. \A q \in Requesters : pc'[q] = "cleanup" => reqMutex[reqId[q]] = q
    BY <2>1, <2>2 DEF LockInv
  <2>7. \A i \in Ids, q \in Requesters : reqMutex[i] = q => pc'[q] = "cleanup" /\ reqId[q] = i
    BY <2>1, <2>4 DEF LockInv
  <2>8. \A v \in Receivers : rpc[v] = "routed" <=> pendingMutex = v BY DEF LockInv
  <2> QED BY <2>3, <2>5, <2>6, <2>7, <2>8 DEF LockInv
<1>3. IdInv'
  <2>1. \A q \in Requesters : q # r => pc'[q] = pc[q] BY DEF TypeOK
  <2>2. pc'[r] = "idle" /\ pc[r] \in Registered BY DEF TypeOK, Registered
  <2>3. {q \in Requesters : pc'[q] \in Registered} = {q \in Requesters : pc[q] \in Registered} \ {r}
    BY <2>1, <2>2 DEF Registered
  <2>4. reqId[r] # 0 BY <2>2 DEF Registered, IdInv
  <2>5. \A q \in Requesters : q # r => reqId[q] # reqId[r] BY <2>4 DEF IdInv
  <2>6. pendingRequests' = pendingRequests \ {reqId[r]} /\ reqId' = reqId OBVIOUS
  <2>7. pendingRequests = {reqId[q] : q \in {p \in Requesters : pc[p] \in Registered}}
    BY DEF IdInv, NoLeak
  <2>8. NoLeak' BY <2>3, <2>5, <2>6, <2>7 DEF NoLeak
  <2> QED BY <2>1, <2>2, <2>8 DEF IdInv
<1>4. LabelInv' BY DEF LabelInv, Sent
<1>5. OnceInv'
  <2>1. \A i \in Ids : NotYetSent(i)' => NotYetSent(i) BY DEF NotYetSent, TypeOK
  <2> QED BY <2>1, OnceFrame
<1>6. ResultInv'
  <2>1. \A q \in Requesters : q # r => pc'[q] = pc[q] BY DEF TypeOK
  <2>2. pc'[r] = "idle" /\ pc[r] \in Registered BY DEF TypeOK, Registered
  <2>3. Without("send failed").status = "send failed" BY WithoutFacts DEF Statuses
  <2>4. result'[r].status = "send failed" /\ \A q \in Requesters : q # r => result'[q] = result[q]
    BY <2>3 DEF TypeOK
  <2>5. UNCHANGED <<reqId, reqCall, response>> OBVIOUS
  <2> HIDE DEF Unregister
  <2> QED BY <2>1, <2>4, <2>5 DEF ResultInv, OwnAnswer
<1> QED BY <1>1, <1>2, <1>3, <1>4, <1>5, <1>6

LEMMA InvLock ==
  ASSUME RequestsInv, NEW r \in Requesters, Lock(r)
  PROVE  RequestsInv'
PROOF
<1> USE Constants DEF RequestsInv, mapVars, slotVars, callVars, recvVars, wireVars, countVars, Lock
<1>1. TypeOK'
  <2>1. pc' \in [Requesters -> RequesterStates] BY DEF TypeOK, RequesterStates, Registered
  <2>2. reqMutex' \in {reqMutex, [reqMutex EXCEPT ![reqId[r]] = r]} OBVIOUS
  <2>3. reqMutex' \in [Ids -> Requesters \cup {None}] BY <2>2 DEF TypeOK
  <2> QED BY <2>1, <2>3 DEF TypeOK
<1>2. LockInv'
  <2>1. \A q \in Requesters : q # r => pc'[q] = pc[q] /\ reqId[q] # reqId[r]
    BY Basics DEF TypeOK, Ids
  <2>2. reqId[r] \in Ids BY Basics
  <2>3. \A i \in Ids : i # reqId[r] => reqMutex'[i] = reqMutex[i] BY DEF TypeOK
  <2>4. \A i \in Ids : reqMutex[i] # r BY DEF LockInv
  <2>5. \/ reqMutex'[reqId[r]] = r /\ pc'[r] = "cleanup"
        \/ reqMutex'[reqId[r]] = None /\ pc'[r] = "waiting"
    BY <2>2 DEF TypeOK
  <2>6. \A q \in Requesters : pc'[q] = "cleanup" => reqMutex'[reqId[q]] = q
    BY <2>1, <2>2, <2>3, <2>5, Basics DEF LockInv
  <2>7. \A i \in Ids, q \in Requesters : reqMutex'[i] = q => pc'[q] = "cleanup" /\ reqId[q] = i
    BY <2>1, <2>3, <2>4, <2>5 DEF LockInv
  <2> QED BY <2>6, <2>7 DEF LockInv
<1>3. IdInv'
  <2>1. \A q \in Requesters : q # r => pc'[q] = pc[q] BY DEF TypeOK
  <2>2. pc'[r] \in Registered /\ pc[r] \in Registered BY DEF TypeOK, Registered
  <2>3. {q \in Requesters : pc'[q] \in Registered} = {q \in Requesters : pc[q] \in Registered}
    BY <2>1, <2>2
  <2>4. NoLeak' BY <2>3 DEF NoLeak, IdInv
  <2> QED BY <2>1, <2>2, <2>4 DEF IdInv, Registered
<1>4. LabelInv' BY DEF LabelInv, Sent
<1>5. OnceInv'
  <2>1. \A i \in Ids : NotYetSent(i)' => NotYetSent(i) BY DEF NotYetSent, TypeOK
  <2> QED BY <2>1, OnceFrame
<1>6. ResultInv'
  <2>1. \A q \in Requesters : pc'[q] = "idle" => pc[q] = "idle" BY DEF TypeOK
  <2> QED BY <2>1 DEF ResultInv, OwnAnswer
<1> QED BY <1>1, <1>2, <1>3, <1>4, <1>5, <1>6

LEMMA InvWaitEnds ==
  ASSUME RequestsInv, NEW r \in Requesters, WaitEnds(r)
  PROVE  RequestsInv'
PROOF
<1> USE Constants DEF RequestsInv, mapVars, slotVars, callVars, recvVars, wireVars, countVars, WaitEnds, WaitOver
<1>1. TypeOK'
  <2>1. pc' \in [Requesters -> RequesterStates] BY DEF TypeOK, RequesterStates, Registered
  <2>2. reqMutex' \in {reqMutex, [reqMutex EXCEPT ![reqId[r]] = r]} OBVIOUS
  <2>3. reqMutex' \in [Ids -> Requesters \cup {None}] BY <2>2 DEF TypeOK
  <2> QED BY <2>1, <2>3 DEF TypeOK
<1>2. LockInv'
  <2>1. \A q \in Requesters : q # r => pc'[q] = pc[q] /\ reqId[q] # reqId[r]
    BY Basics DEF TypeOK, Ids
  <2>2. reqId[r] \in Ids BY Basics
  <2>3. \A i \in Ids : i # reqId[r] => reqMutex'[i] = reqMutex[i] BY DEF TypeOK
  <2>4. \A i \in Ids : reqMutex[i] # r BY DEF LockInv
  <2>5. \/ reqMutex'[reqId[r]] = r /\ pc'[r] = "cleanup"
        \/ reqMutex'[reqId[r]] = None /\ pc'[r] = "waiting"
    BY <2>2 DEF TypeOK
  <2>6. \A q \in Requesters : pc'[q] = "cleanup" => reqMutex'[reqId[q]] = q
    BY <2>1, <2>2, <2>3, <2>5, Basics DEF LockInv
  <2>7. \A i \in Ids, q \in Requesters : reqMutex'[i] = q => pc'[q] = "cleanup" /\ reqId[q] = i
    BY <2>1, <2>3, <2>4, <2>5 DEF LockInv
  <2> QED BY <2>6, <2>7 DEF LockInv
<1>3. IdInv'
  <2>1. \A q \in Requesters : q # r => pc'[q] = pc[q] BY DEF TypeOK
  <2>2. pc'[r] \in Registered /\ pc[r] \in Registered BY DEF TypeOK, Registered
  <2>3. {q \in Requesters : pc'[q] \in Registered} = {q \in Requesters : pc[q] \in Registered}
    BY <2>1, <2>2
  <2>4. NoLeak' BY <2>3 DEF NoLeak, IdInv
  <2> QED BY <2>1, <2>2, <2>4 DEF IdInv, Registered
<1>4. LabelInv' BY DEF LabelInv, Sent
<1>5. OnceInv'
  <2>1. \A i \in Ids : NotYetSent(i)' => NotYetSent(i) BY DEF NotYetSent, TypeOK
  <2> QED BY <2>1, OnceFrame
<1>6. ResultInv'
  <2>1. \A q \in Requesters : pc'[q] = "idle" => pc[q] = "idle" BY DEF TypeOK
  <2> QED BY <2>1 DEF ResultInv, OwnAnswer
<1> QED BY <1>1, <1>2, <1>3, <1>4, <1>5, <1>6

LEMMA InvCleanup ==
  ASSUME RequestsInv, NEW r \in Requesters, Cleanup(r)
  PROVE  RequestsInv'
PROOF
<1> USE Constants DEF RequestsInv, mapVars, slotVars, callVars, recvVars, wireVars, countVars, Cleanup, EntryErased
<1>0. /\ Outcome(r) \in Results /\ reqId[r] \in Ids
      /\ Outcome(r).status = "timeout" => reqId[r] # 0 /\ response[reqId[r]] = None
      /\ Outcome(r).status = "answer" => Outcome(r).call = reqCall[r]
  <2>1. reqId[r] \in Ids /\ reqId[r] # 0 BY Basics DEF Ids
  <2>2. response[reqId[r]] \in Messages \cup {None} BY <2>1 DEF TypeOK
  <2>3. CASE response[reqId[r]] = None
    BY <2>1, <2>3, WithoutFacts DEF Outcome, Statuses
  <2>4. CASE response[reqId[r]] # None /\ response[reqId[r]].kind # reqKind[r]
    BY <2>1, <2>4, WithoutFacts DEF Outcome, Statuses
  <2>5. CASE response[reqId[r]] # None /\ response[reqId[r]].kind = reqKind[r]
    <3>1. response[reqId[r]].call = reqCall[r] BY <2>1, <2>5 DEF LabelInv, Sent, IdInv
    <3>2. Outcome(r) = [status |-> "answer", call |-> response[reqId[r]].call] BY <2>5 DEF Outcome
    <3>3. response[reqId[r]].call \in Nat BY <2>2, <2>5 DEF Messages
    <3> QED BY <2>1, <3>1, <3>2, <3>3 DEF Results, Statuses
  <2> QED BY <2>3, <2>4, <2>5
<1>1. TypeOK'
  <2>1. result' \in [Requesters -> Results] BY <1>0 DEF TypeOK
  <2>2. pc' \in [Requesters -> RequesterStates] BY DEF TypeOK, RequesterStates
  <2> QED BY <2>1, <2>2 DEF TypeOK
<1>2. LockInv'
  <2>1. \A q \in Requesters : q # r => pc'[q] = pc[q] BY DEF TypeOK
  <2>2. pc'[r] = "idle" /\ pc[r] \in Registered BY DEF TypeOK, Registered
  <2>3. \A v \in Receivers : rpc[v] # "routed" BY DEF LockInv
  <2>4. \A i \in Ids : reqMutex'[i] = IF i = reqId[r] THEN None ELSE reqMutex[i] BY DEF TypeOK
  <2>5. \A q \in Requesters : q # r => reqId[q] # reqId[r] BY <2>2, Basics DEF Registered, Ids
  <2>6. \A q \in Requesters : pc'[q] = "cleanup" => reqMutex'[reqId[q]] = q
    BY <2>1, <2>2, <2>4, <2>5, Basics DEF LockInv
  <2>7. \A i \in Ids, q \in Requesters : reqMutex'[i] = q => pc'[q] = "cleanup" /\ reqId[q] = i
    BY <2>1, <2>4, <2>5 DEF LockInv
  <2> QED BY <2>3, <2>6, <2>7 DEF LockInv
<1>3. IdInv'
  <2>1. \A q \in Requesters : q # r => pc'[q] = pc[q] BY DEF TypeOK
  <2>2. pc'[r] = "idle" /\ pc[r] \in Registered BY DEF TypeOK, Registered
  <2>3. {q \in Requesters : pc'[q] \in Registered} = {q \in Requesters : pc[q] \in Registered} \ {r}
    BY <2>1, <2>2 DEF Registered
  <2>4. reqId[r] # 0 BY <2>2 DEF Registered, IdInv
  <2>5. \A q \in Requesters : q # r => reqId[q] # reqId[r] BY <2>4 DEF IdInv
  <2>6. pendingRequests' = pendingRequests \ {reqId[r]} /\ reqId' = reqId OBVIOUS
  <2>7. pendingRequests = {reqId[q] : q \in {p \in Requesters : pc[p] \in Registered}}
    BY DEF IdInv, NoLeak
  <2>8. NoLeak' BY <2>3, <2>5, <2>6, <2>7 DEF NoLeak
  <2> QED BY <2>1, <2>2, <2>8 DEF IdInv
<1>4. LabelInv' BY DEF LabelInv, Sent
<1>5. OnceInv'
  <2>1. \A i \in Ids : NotYetSent(i)' => NotYetSent(i) BY DEF NotYetSent, TypeOK
  <2> QED BY <2>1, OnceFrame
<1>6. ResultInv'
  <2>1. \A q \in Requesters : q # r => pc'[q] = pc[q] BY DEF TypeOK
  <2>2. pc'[r] = "idle" /\ pc[r] \in Registered BY DEF TypeOK, Registered
  <2>3. result'[r] = Outcome(r) /\ \A q \in Requesters : q # r => result'[q] = result[q] BY DEF TypeOK
  <2> QED BY <1>0, <2>1, <2>3 DEF ResultInv, OwnAnswer
<1> QED BY <1>1, <1>2, <1>3, <1>4, <1>5, <1>6

LEMMA InvRoute ==
  ASSUME RequestsInv, NEW v \in Receivers, NEW m \in answers, Route(v, m)
  PROVE  RequestsInv'
PROOF
<1> USE Constants DEF RequestsInv, mapVars, slotVars, callVars, recvVars, wireVars, countVars, Route
<1>1. TypeOK' BY DEF TypeOK
<1>2. LockInv'
  <2>1. CASE m.id \notin pendingRequests BY <2>1 DEF LockInv
  <2>2. CASE m.id \in pendingRequests
    <3>1. m \in Messages BY DEF TypeOK
    <3>2. rpc'[v] = "routed" /\ hand'[v] = m /\ pendingMutex' = v BY <2>2 DEF TypeOK
    <3>3. \A u \in Receivers : u # v => rpc'[u] = rpc[u] /\ rpc[u] # "routed" BY <2>2 DEF TypeOK, LockInv
    <3> QED BY <2>2, <3>1, <3>2, <3>3 DEF LockInv
  <2> QED BY <2>1, <2>2
<1>3. IdInv' BY DEF IdInv, NoLeak
<1>4. LabelInv'
  <2>1. \A u \in Receivers : rpc'[u] = "routed" => (rpc[u] = "routed" /\ hand'[u] = hand[u]) \/ hand'[u] = m
    BY DEF TypeOK
  <2> QED BY <2>1 DEF LabelInv, Sent
<1>5. OnceInv'
  <2>1. m.id \in Ids BY DEF LabelInv, Sent, TypeOK, Messages, Ids
  <2>2. \A i : InAnswers(i)' => InAnswers(i) /\ i # m.id BY DEF InAnswers, OnceInv
  <2>3. \A i : Routing(i)' => Routing(i) \/ i = m.id BY DEF Routing, TypeOK
  <2>4. InAnswers(m.id) BY DEF InAnswers
  <2>5. ~InRequests(m.id) /\ ~InHandling(m.id) /\ ~NotYetSent(m.id) /\ response[m.id] = None
    BY <2>1, <2>4 DEF OnceInv
  <2>6. \A i : /\ InRequests(i)' <=> InRequests(i)
               /\ InHandling(i)' <=> InHandling(i)
               /\ NotYetSent(i)' <=> NotYetSent(i)
    BY DEF InRequests, InHandling, NotYetSent
  <2> QED BY <2>2, <2>3, <2>5, <2>6 DEF OnceInv
<1>6. ResultInv' BY DEF ResultInv, OwnAnswer
<1> QED BY <1>1, <1>2, <1>3, <1>4, <1>5, <1>6

LEMMA InvDeliver ==
  ASSUME RequestsInv, NEW v \in Receivers, Deliver(v)
  PROVE  RequestsInv'
PROOF
<1> USE Constants DEF RequestsInv, mapVars, slotVars, callVars, recvVars, wireVars, countVars, Deliver
<1>0. hand[v] \in Messages /\ hand[v].id \in pendingRequests /\ hand[v].id \in Ids
  BY DEF LockInv, TypeOK
<1>1. TypeOK' BY <1>0 DEF TypeOK
<1>2. LockInv'
  <2>1. \A u \in Receivers : rpc'[u] = "idle" BY DEF TypeOK, LockInv
  <2> QED BY <2>1 DEF LockInv
<1>3. IdInv' BY DEF IdInv, NoLeak
<1>4. LabelInv'
  <2>1. \A i \in Ids : response'[i] = IF i = hand[v].id THEN hand[v] ELSE response[i] BY DEF TypeOK
  <2>2. \A u \in Receivers : rpc'[u] = "routed" => rpc[u] = "routed" /\ hand'[u] = hand[u] BY DEF TypeOK
  <2> QED BY <1>0, <2>1, <2>2 DEF LabelInv, Sent
<1>5. OnceInv'
  <2>1. \A i \in Ids : response'[i] = IF i = hand[v].id THEN hand[v] ELSE response[i] BY DEF TypeOK
  <2>2. \A u \in Receivers : rpc'[u] = "idle" BY DEF TypeOK, LockInv
  <2>3. \A i : ~Routing(i)' BY <2>2 DEF Routing
  <2>4. Routing(hand[v].id) BY DEF Routing
  <2>5. ~InRequests(hand[v].id) /\ ~InHandling(hand[v].id) /\ ~InAnswers(hand[v].id) /\ ~NotYetSent(hand[v].id)
    BY <1>0, <2>4 DEF OnceInv
  <2>6. \A i : /\ InRequests(i)' <=> InRequests(i)
               /\ InHandling(i)' <=> InHandling(i)
               /\ InAnswers(i)' <=> InAnswers(i)
               /\ NotYetSent(i)' <=> NotYetSent(i)
    BY DEF InRequests, InHandling, InAnswers, NotYetSent
  <2> QED BY <2>1, <2>3, <2>5, <2>6 DEF OnceInv
<1>6. ResultInv'
  <2>1. \A q \in Requesters : pc[q] = "idle" => reqId[q] # hand[v].id BY <1>0, Basics
  <2>2. \A q \in Requesters : pc[q] = "idle" /\ reqId[q] # 0 => response'[reqId[q]] = response[reqId[q]]
    BY <2>1, Basics DEF TypeOK
  <2> QED BY <2>2 DEF ResultInv, OwnAnswer
<1> QED BY <1>1, <1>2, <1>3, <1>4, <1>5, <1>6

LEMMA InvPeerReceive ==
  ASSUME RequestsInv, PeerReceive
  PROVE  RequestsInv'
PROOF
<1> USE Constants DEF RequestsInv, mapVars, slotVars, callVars, recvVars, wireVars, countVars, PeerReceive
<1>0. /\ Head(requests) \in Messages /\ requests' \in Seq(Messages)
      /\ 1 \in DOMAIN requests /\ requests[1] = Head(requests)
      /\ \A k \in DOMAIN requests' : k + 1 \in DOMAIN requests /\ k + 1 # 1 /\ requests'[k] = requests[k + 1]
  BY TailMessages DEF TypeOK
<1>1. TypeOK'
  <2>1. Head(requests).kind \in Kinds BY <1>0 DEF Messages
  <2> QED BY <1>0, <2>1 DEF TypeOK
<1>2. LockInv' BY DEF LockInv
<1>3. IdInv' BY DEF IdInv, NoLeak
<1>4. LabelInv'
  <2>1. Sent(Head(requests)) BY <1>0 DEF LabelInv
  <2>2. \A k \in DOMAIN requests' : Sent(requests'[k]) BY <1>0 DEF LabelInv
  <2>3. \A n \in handling' : Sent(n) BY <2>1 DEF LabelInv
  <2> QED BY <2>2, <2>3 DEF LabelInv, Sent
<1>5. OnceInv'
  <2> DEFINE h == Head(requests)
  <2>1. InRequests(h.id) /\ h.id \in Ids
    BY <1>0 DEF InRequests, LabelInv, Sent, TypeOK, Messages, Ids
  <2>2. ~InHandling(h.id) /\ ~InAnswers(h.id) /\ ~Routing(h.id) /\ response[h.id] = None /\ ~NotYetSent(h.id)
    BY <2>1 DEF OnceInv
  <2>3. \A i : InRequests(i)' => InRequests(i) /\ i # h.id BY <1>0 DEF InRequests, OnceInv
  <2>4. \A i : InHandling(i)' => InHandling(i) \/ i = h.id BY DEF InHandling
  <2>5. \A j, k \in DOMAIN requests' : requests'[j].id = requests'[k].id => j = k
    <3> SUFFICES ASSUME NEW j \in DOMAIN requests', NEW k \in DOMAIN requests',
                        requests'[j].id = requests'[k].id
                 PROVE  j = k
      OBVIOUS
    <3>1. j + 1 = k + 1 BY <1>0 DEF OnceInv
    <3>2. j \in Int /\ k \in Int BY <1>0, LenProperties
    <3> QED BY <3>1, <3>2
  <2>6. \A n, p \in handling' : n.id = p.id => n = p BY <2>2 DEF InHandling, OnceInv
  <2>7. \A i : /\ InAnswers(i)' <=> InAnswers(i)
               /\ Routing(i)' <=> Routing(i)
               /\ NotYetSent(i)' <=> NotYetSent(i)
    BY DEF InAnswers, Routing, NotYetSent
  <2> QED BY <2>2, <2>3, <2>4, <2>5, <2>6, <2>7 DEF OnceInv
<1>6. ResultInv' BY DEF ResultInv, OwnAnswer
<1> QED BY <1>1, <1>2, <1>3, <1>4, <1>5, <1>6

LEMMA InvPeerAnswer ==
  ASSUME RequestsInv, NEW m \in handling, PeerAnswer(m)
  PROVE  RequestsInv'
PROOF
<1> USE Constants DEF RequestsInv, mapVars, slotVars, callVars, recvVars, wireVars, countVars, PeerAnswer, AnsweredOnce
<1> DEFINE answer == [m EXCEPT !.kind = peerProtocol]
<1>0. answer \in Messages /\ answer.id = m.id /\ answer.call = m.call /\ answers' = answers \cup {answer}
  <2>1. m \in Messages /\ peerProtocol \in Kinds BY DEF TypeOK
  <2>2. answers' = answers \cup {answer} OBVIOUS
  <2> HIDE DEF PeerAnswer, RequestsInv
  <2> QED BY <2>1, <2>2 DEF Messages
<1>1. TypeOK' BY <1>0 DEF TypeOK
<1>2. LockInv' BY DEF LockInv
<1>3. IdInv' BY DEF IdInv, NoLeak
<1>4. LabelInv'
  <2>1. Sent(m) BY DEF LabelInv
  <2>2. Sent(answer) BY <1>0, <2>1 DEF Sent
  <2> QED BY <2>2 DEF LabelInv, Sent
<1>5. OnceInv'
  <2>1. InHandling(m.id) /\ m.id \in Ids BY DEF InHandling, LabelInv, Sent, TypeOK, Messages, Ids
  <2>2. ~InRequests(m.id) /\ ~InAnswers(m.id) /\ ~Routing(m.id) /\ response[m.id] = None /\ ~NotYetSent(m.id)
    BY <2>1 DEF OnceInv
  <2>3. \A i : InHandling(i)' => InHandling(i) /\ i # m.id BY DEF InHandling, OnceInv
  <2>4. \A i : InAnswers(i)' => InAnswers(i) \/ i = m.id BY <1>0 DEF InAnswers
  <2>5. \A n, p \in answers' : n.id = p.id => n = p BY <1>0, <2>2 DEF InAnswers, OnceInv
  <2>6. \A i : /\ InRequests(i)' <=> InRequests(i)
               /\ Routing(i)' <=> Routing(i)
               /\ NotYetSent(i)' <=> NotYetSent(i)
    BY DEF InRequests, Routing, NotYetSent
  <2> QED BY <2>2, <2>3, <2>4, <2>5, <2>6 DEF OnceInv
<1>6. ResultInv' BY DEF ResultInv, OwnAnswer
<1> QED BY <1>1, <1>2, <1>3, <1>4, <1>5, <1>6

\* Every step keeps the invariant.
LEMMA InvNext == RequestsInv /\ [Next]_vars => RequestsInv'
PROOF
<1> SUFFICES ASSUME RequestsInv, [Next]_vars PROVE RequestsInv' OBVIOUS
<1>1. CASE Next
  <2>1. CASE Connect BY <2>1, InvConnect
  <2>2. CASE Disconnect BY <2>2, InvDisconnect
  <2>3. CASE Peer BY <2>3, InvPeerReceive, InvPeerAnswer DEF Peer
  <2>4. ASSUME NEW r \in Requesters, Requester(r) PROVE RequestsInv'
    BY <2>4, InvRefuse, InvAllocate, InvRegister, InvSend, InvUnregister, InvLock,
       InvWaitEnds, InvCleanup DEF Requester
  <2>5. ASSUME NEW v \in Receivers, Receiver(v) PROVE RequestsInv'
    BY <2>5, InvRoute, InvDeliver DEF Receiver
  <2> QED BY <1>1, <2>1, <2>2, <2>3, <2>4, <2>5 DEF Next
<1>2. CASE UNCHANGED vars
  BY <1>2 DEF vars, mapVars, slotVars, callVars, recvVars, wireVars, countVars, RequestsInv,
     TypeOK, LockInv, IdInv, NoLeak, LabelInv, Sent, OnceInv, NotYetSent, InRequests, InHandling,
     InAnswers, Routing, ResultInv, OwnAnswer
<1> QED BY <1>1, <1>2

LEMMA RequestsInvariant == Spec => []RequestsInv
PROOF BY InvInit, InvNext, PTL DEF Spec

\* The variables keep their types; in particular pendingMutex_ is never left
\* locked by a requester, nor a PendingRequest's mutex by a receiver.
THEOREM RequestsTypeCorrect == Spec => []TypeOK
PROOF
<1>1. RequestsInv => TypeOK BY DEF RequestsInv
<1> QED BY <1>1, RequestsInvariant, PTL

\* sendBinaryAndReceive and sendJsonAndReceive return only the response to their
\* own request, whatever comes late, in another order or after a reconnection.
THEOREM CorrelationSafe == Spec => []OwnAnswer
PROOF
<1>1. RequestsInv => OwnAnswer BY DEF RequestsInv, ResultInv
<1> QED BY <1>1, RequestsInvariant, PTL

\* pendingRequests_ holds exactly the requests under way.
THEOREM MapDoesNotLeak == Spec => []NoLeak
PROOF
<1>1. RequestsInv => NoLeak BY DEF RequestsInv, IdInv
<1> QED BY <1>1, RequestsInvariant, PTL

\* A call that reports a timeout has received nothing and never will.
THEOREM TimeoutIsFinal == Spec => []TimeoutMeansNoAnswer
PROOF
<1>1. RequestsInv => TimeoutMeansNoAnswer
  BY DEF RequestsInv, ResultInv, TimeoutMeansNoAnswer
<1> QED BY <1>1, RequestsInvariant, PTL

\* The two mutexes are requested in opposite orders only when a timeout meets a
\* late response to the same request.
THEOREM OnlyLateAnswersInvert == Spec => []InversionNeedsTimeout
PROOF
<1>1. RequestsInv => InversionNeedsTimeout
  BY DEF RequestsInv, InversionNeedsTimeout, Inverted, OnceInv, Routing, LabelInv, Sent, TypeOK, Ids,
         LockInv
<1> QED BY <1>1, RequestsInvariant, PTL
=============================================================================
