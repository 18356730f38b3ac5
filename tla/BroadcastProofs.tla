-------------------------- MODULE BroadcastProofs --------------------------
(***************************************************************************)
(* The network layer keeps its books, for any number of calls and peers.   *)
(*                                                                         *)
(* BooksMatch and AckDeliverable are nearly inductive; ResultsSound needs  *)
(* to know that a call in the worker's queue has not been sent before      *)
(* (QueueFresh), that a request that is not closed has no result yet and   *)
(* that whatever carries an answer was answered (Traced), and that a       *)
(* caller has heard of every target whose request is gone (Heard).         *)
(*                                                                         *)
(* What a call owes stands because a call is made once (Addressed).        *)
(*                                                                         *)
(* From the same invariant, and that only what was sent arrives (Begun),   *)
(* the layer implements RequestResponse.                                   *)
(***************************************************************************)
EXTENDS Broadcast, TLAPS

QueueFresh ==
    /\ \A k \in DOMAIN from_service : listener[from_service[k]] # "unmade"
    /\ \A j, k \in DOMAIN from_service : from_service[j] = from_service[k] => j = k
    /\ \A q \in Requests :
          \/ listener[q[1]] = "unmade"
          \/ \E k \in DOMAIN from_service : from_service[k] = q[1]
          => out[q] = "idle"

Traced ==
    \A q \in Requests :
        /\ out[q] # "closed" => delivered[q] = <<>>
        /\ Len(delivered[q]) <= 1
        /\ delivered[q] = <<"ok">> => tx[q] = "answered"
        /\ out[q] = "ok" => tx[q] = "answered"
        /\ inn[q] \in {"responding", "sent"} => tx[q] = "answered"
        /\ inn[q] \in {"idle", "request"} => tx[q] = "none"

Heard ==
    \A c \in Calls :
        /\ listener[c] = "open"
        /\ \A k \in DOMAIN from_service : from_service[k] # c
        => \A p \in targets[c] : <<c, p>> \in pending_requests \/ delivered[<<c, p>>] # <<>>

IndInv == TypeOK /\ BooksMatch /\ AckDeliverable /\ QueueFresh /\ Traced /\ Heard

-----------------------------------------------------------------------------

(* Nothing is called, requested or answered initially. *)
LEMMA InitInd == Init => IndInv
  BY BootAssumption, SMT DEF Init, KnownAtStart, IndInv, TypeOK, BooksMatch, AckDeliverable, QueueFresh, Traced, Heard,
     OutStates, InnStates, Results

(* A request is a call and its target. *)
LEMMA RequestPairs == \A q \in Requests : q = <<q[1], q[2]>> /\ q[1] \in Calls /\ q[2] \in Peers \cup {Local}
  BY DEF Requests

(* What Append and Tail do to the worker's queue. *)
LEMMA QueueAppend ==
  ASSUME NEW s \in Seq(Calls), NEW c \in Calls
  PROVE  /\ Append(s, c) \in Seq(Calls)
         /\ DOMAIN Append(s, c) = 1 .. Len(s) + 1
         /\ DOMAIN s = 1 .. Len(s)
         /\ Len(s) \in Nat
         /\ \A k \in 1 .. Len(s) : Append(s, c)[k] = s[k]
         /\ Append(s, c)[Len(s) + 1] = c
  BY SMT

(* Taking the head of the worker's queue removes that call only. *)
LEMMA QueueTail ==
  ASSUME NEW s \in Seq(Calls), s # <<>>
  PROVE  /\ Tail(s) \in Seq(Calls)
         /\ Head(s) = s[1] /\ Head(s) \in Calls
         /\ Len(s) \in Nat /\ Len(s) >= 1
         /\ DOMAIN s = 1 .. Len(s)
         /\ DOMAIN Tail(s) = 1 .. Len(s) - 1
         /\ \A k \in 1 .. Len(s) - 1 : Tail(s)[k] = s[k + 1]
  BY SMT

(* A new call is not yet pending anywhere. *)
LEMMA SubmitInd ==
  ASSUME IndInv, NEW c \in Calls, NEW T \in SUBSET (Peers \cup {Local}), Submit(c, T),
         wide' \subseteq Calls
  PROVE  IndInv'
  <1> USE DEF Submit, IndInv, server
  <1>1. TypeOK' BY QueueAppend, SMT DEF TypeOK
  <1>2. BooksMatch' /\ AckDeliverable' /\ Traced'
    BY SMT DEF BooksMatch, AckDeliverable, Traced
  <1>3. QueueFresh' BY QueueAppend, RequestPairs, SMTT(30) DEF QueueFresh, TypeOK
  <1>4. Heard'
    <2> SUFFICES ASSUME NEW d \in Calls, listener'[d] = "open",
                        \A k \in DOMAIN from_service' : from_service'[k] # d,
                        NEW p \in targets'[d]
                 PROVE  <<d, p>> \in pending_requests' \/ delivered'[<<d, p>>] # <<>>
      BY DEF Heard
    <2>1. /\ from_service \in Seq(Calls) /\ DOMAIN from_service = 1 .. Len(from_service)
          /\ \A k \in 1 .. Len(from_service) : k \in DOMAIN from_service' /\ from_service'[k] = from_service[k]
          /\ Len(from_service) + 1 \in DOMAIN from_service'
          /\ from_service'[Len(from_service) + 1] = c
      BY QueueAppend, SMT DEF TypeOK
    <2>2. d # c BY <2>1
    <2>3. listener[d] = "open" /\ targets'[d] = targets[d] BY <2>2, SMT DEF TypeOK
    <2>4. \A k \in DOMAIN from_service : from_service[k] # d BY <2>1, SMT
    <2>5. <<d, p>> \in pending_requests \/ delivered[<<d, p>>] # <<>>
      BY <2>3, <2>4 DEF Heard
    <2> QED BY <2>5
  <1> QED BY <1>1, <1>2, <1>3, <1>4

(* Every request of the call taken is entered as it is opened. *)
LEMMA SendWireMessagesInd ==
  ASSUME IndInv, SendWireMessages
  PROVE  IndInv'
  <1> USE DEF SendWireMessages, IndInv, server
  <1> DEFINE c == Head(from_service)
             sent == {c} \X TargetsOf(c)
  <1>1. /\ c \in Calls /\ c = from_service[1] /\ 1 \in DOMAIN from_service
        /\ from_service \in Seq(Calls) /\ from_service # <<>>
    BY QueueTail, SMT DEF TypeOK
  <1>11. TargetsOf(c) \in SUBSET (Peers \cup {Local})
    BY <1>1, SMT DEF TypeOK, TargetsOf
  <1>12. targets' = [targets EXCEPT ![c] = TargetsOf(c)]
    OBVIOUS
  <1>2. /\ sent \subseteq Requests
        /\ \A q \in sent : q[1] = c /\ out[q] = "idle"
    BY <1>1, <1>11, SMT DEF TypeOK, Requests, QueueFresh
  <1>3. \A q \in Requests : out'[q] = IF q \in sent THEN "open" ELSE out[q]
    BY SMT
  <1>4. pending_requests' = pending_requests \cup sent
    BY SMT
  <1> HIDE DEF sent
  <1>5. TypeOK'
    <2>1. out' \in [Requests -> OutStates] BY <1>2, SMT DEF TypeOK, OutStates, sent
    <2>2. targets' \in [Calls -> SUBSET (Peers \cup {Local})]
      BY <1>1, <1>11, <1>12, SMT DEF TypeOK
    <2> QED BY <1>1, <1>2, <1>4, <2>1, <2>2, QueueTail, SMT DEF TypeOK
  <1>6. BooksMatch' BY <1>2, <1>3, <1>4, SMT DEF BooksMatch
  <1>7. AckDeliverable' BY SMT DEF AckDeliverable
  <1>8. Traced' BY <1>2, <1>3, SMT DEF Traced
  <1>9. QueueFresh'
    <2> USE <1>1, QueueTail
    <2>1. \A k \in DOMAIN from_service' : k + 1 \in DOMAIN from_service /\ from_service'[k] = from_service[k + 1]
      BY SMT
    <2>2. \A k \in DOMAIN from_service' : listener'[from_service'[k]] # "unmade"
      BY <2>1, SMT DEF QueueFresh
    <2>3. \A j, k \in DOMAIN from_service' : from_service'[j] = from_service'[k] => j = k
      <3>1. \A k \in DOMAIN from_service' : k \in Nat BY SMT
      <3> QED BY <2>1, <3>1, SMT DEF QueueFresh
    <2>4. \A k \in DOMAIN from_service' : from_service'[k] # c
      <3>1. \A k \in DOMAIN from_service' : k + 1 # 1 BY SMT
      <3> QED BY <2>1, <3>1, SMT DEF QueueFresh
    <2>5. ASSUME NEW q \in Requests,
                 \/ listener'[q[1]] = "unmade"
                 \/ \E k \in DOMAIN from_service' : from_service'[k] = q[1]
          PROVE  out'[q] = "idle"
      <3>1. listener[c] # "unmade" BY SMT DEF QueueFresh
      <3>2. q[1] # c BY <2>4, <2>5, <3>1, SMT
      <3>3. out[q] = "idle" BY <2>1, <2>5, SMT DEF QueueFresh
      <3> QED BY <1>2, <1>3, <3>2, <3>3
    <2> QED BY <2>2, <2>3, <2>5, SMT DEF QueueFresh
  <1>10. Heard'
    <2> SUFFICES ASSUME NEW d \in Calls, listener'[d] = "open",
                        \A k \in DOMAIN from_service' : from_service'[k] # d,
                        NEW p \in targets'[d]
                 PROVE  <<d, p>> \in pending_requests' \/ delivered'[<<d, p>>] # <<>>
      BY DEF Heard
    <2>1. CASE d = c
      <3>1. targets'[c] = TargetsOf(c) BY <1>1, <1>12, SMT DEF TypeOK
      <3> QED BY <1>4, <2>1, <3>1, SMT DEF sent
    <2>2. CASE d # c
      <3>1. \A k \in DOMAIN from_service : from_service[k] # d
        <4> SUFFICES ASSUME NEW k \in DOMAIN from_service, from_service[k] = d PROVE FALSE
          OBVIOUS
        <4>1. /\ DOMAIN from_service = 1 .. Len(from_service) /\ Len(from_service) \in Nat
              /\ DOMAIN from_service' = 1 .. Len(from_service) - 1
              /\ \A j \in 1 .. Len(from_service) - 1 : from_service'[j] = from_service[j + 1]
          BY <1>1, QueueTail
        <4>2. k # 1 BY <1>1, <2>2
        <4>3. k - 1 \in 1 .. Len(from_service) - 1 /\ (k - 1) + 1 = k BY <4>1, <4>2, SMT
        <4> QED BY <4>1, <4>3
      <3>2. targets'[d] = targets[d] BY <1>12, <2>2, SMT DEF TypeOK
      <3> QED BY <1>4, <3>1, <3>2, SMT DEF Heard
    <2> QED BY <2>1, <2>2
  <1> QED BY <1>5, <1>6, <1>7, <1>8, <1>9, <1>10

(* A receiver that is gone is owed nothing. *)
LEMMA DropReceiverInd ==
  ASSUME IndInv, NEW c \in Calls, DropReceiver(c)
  PROVE  IndInv'
  <1> USE DEF DropReceiver, IndInv, server
  <1>1. TypeOK' /\ BooksMatch' /\ AckDeliverable' /\ Traced'
    BY SMT DEF TypeOK, BooksMatch, AckDeliverable, Traced
  <1>2. QueueFresh' BY SMT DEF QueueFresh, TypeOK
  <1>3. Heard'
    <2> SUFFICES ASSUME NEW d \in Calls, listener'[d] = "open",
                        \A k \in DOMAIN from_service : from_service[k] # d,
                        NEW p \in targets[d]
                 PROVE  <<d, p>> \in pending_requests \/ delivered[<<d, p>>] # <<>>
      BY DEF Heard
    <2>1. listener[d] = "open" BY SMT DEF TypeOK
    <2> QED BY <2>1 DEF Heard
  <1> QED BY <1>1, <1>2, <1>3

(* Who is known matters only to the calls that are sent. *)
LEMMA InjectConnectedInd ==
  ASSUME IndInv, NEW p \in Peers, InjectConnected(p)
  PROVE  IndInv'
  <1>1. UNCHANGED <<from_service, targets, wide, listener, pending_requests, delivered, out,
                    inn, arrival, pending_responses, tx, up>>
    BY DEF InjectConnected, server
  <1>2. known' \subseteq Peers \cup {Local}
    BY SMT DEF InjectConnected, IndInv, TypeOK
  <1>3. TypeOK' BY <1>1, <1>2, SMT DEF IndInv, TypeOK
  <1>4. BooksMatch' /\ AckDeliverable' /\ Traced'
    BY <1>1, SMT DEF IndInv, BooksMatch, AckDeliverable, Traced
  <1>5. QueueFresh' /\ Heard'
    <2>1. QueueFresh' BY <1>1, SMT DEF IndInv, QueueFresh
    <2>2. Heard' BY <1>1, SMT DEF IndInv, Heard
    <2> QED BY <2>1, <2>2
  <1> QED BY <1>3, <1>4, <1>5 DEF IndInv

(* Both ways a request is resolved. *)
LEMMA ResolveInd ==
  ASSUME IndInv, NEW q \in Requests, NEW result \in Results, Resolve(q, result),
         out[q] \in {"ok", "refused", "failed"}, result = "ok" => out[q] = "ok"
  PROVE  IndInv'
  <1> USE DEF Resolve, IndInv, server
  <1>1. q \in pending_requests BY SMT DEF BooksMatch
  <1>2. delivered[q] = <<>> BY SMT DEF Traced
  <1>3. /\ Append(<<>>, result) = <<result>>
        /\ Len(<<result>>) = 1 /\ <<result>> # <<>>
        /\ <<result>> \in Seq(Results)
        /\ <<result>> = <<"ok">> => result = "ok"
    BY SMT
  <1>4. \A r \in Requests : delivered'[r] = IF r = q /\ listener[q[1]] = "open"
                                           THEN <<result>> ELSE delivered[r]
    BY <1>1, <1>2, <1>3, SMT DEF TypeOK
  <1>5. \A r \in Requests : out'[r] = IF r = q THEN "closed" ELSE out[r]
    BY SMT DEF TypeOK
  <1>6. TypeOK'
    <2>1. delivered' \in [Requests -> Seq(Results)]
      BY <1>1, <1>2, <1>3, SMT DEF TypeOK
    <2> QED BY <2>1, SMT DEF TypeOK, OutStates
  <1>7. BooksMatch' BY <1>1, <1>5, SMT DEF BooksMatch
  <1>8. AckDeliverable' BY SMT DEF AckDeliverable
  <1>9. Traced' BY <1>2, <1>3, <1>4, <1>5, SMT DEF Traced
  <1>10. QueueFresh' BY <1>5, SMT DEF QueueFresh
  <1>11. Heard'
    <2> SUFFICES ASSUME NEW d \in Calls, listener[d] = "open",
                        \A k \in DOMAIN from_service : from_service[k] # d,
                        NEW p \in targets[d]
                 PROVE  <<d, p>> \in pending_requests' \/ delivered'[<<d, p>>] # <<>>
      BY DEF Heard
    <2>1. <<d, p>> \in Requests BY SMT DEF TypeOK, Requests
    <2>2. <<d, p>> \in pending_requests \/ delivered[<<d, p>>] # <<>>
      BY SMT DEF Heard
    <2>3. CASE <<d, p>> = q
      <3>1. q[1] = d BY <2>3, SMT
      <3> QED BY <1>3, <1>4, <2>1, <2>3, <3>1
    <2>4. CASE <<d, p>> # q BY <1>4, <2>1, <2>2, <2>4, SMT
    <2> QED BY <2>3, <2>4
  <1> QED BY <1>6, <1>7, <1>8, <1>9, <1>10, <1>11

(* The caller's part of the invariant survives whatever leaves the caller,  *)
(* and requests not yet sent, alone.                                        *)
LEMMA CallerFrame ==
  ASSUME QueueFresh, Heard, UNCHANGED caller,
         \A r \in Requests : out[r] = "idle" => out'[r] = "idle"
  PROVE  QueueFresh' /\ Heard'
  <1>1. QueueFresh' BY SMT DEF QueueFresh, caller
  <1>2. Heard' BY SMT DEF Heard, caller
  <1> QED BY <1>1, <1>2

(* The handlers of a server's events. *)
LEMMA ServerInd ==
  ASSUME IndInv, NEW q \in Requests,
         \/ OnRequest(q) \/ PollPendingResponse(q) \/ OnResponseSent(q) \/ OnInboundFailure(q)
         \/ Answer(q)
  PROVE  IndInv'
  <1>1. QueueFresh' /\ Heard'
    <2>1. UNCHANGED <<caller, out>>
      BY DEF OnRequest, PollPendingResponse, OnResponseSent, OnInboundFailure, Answer
    <2> QED BY <2>1, CallerFrame DEF IndInv
  <1>2. UNCHANGED <<from_service, targets, wide, known, listener, pending_requests, delivered, out>>
    BY DEF OnRequest, PollPendingResponse, OnResponseSent, OnInboundFailure, Answer, caller
  <1>3. TypeOK'
    <2> USE <1>2 DEF IndInv, TypeOK
    <2>1. CASE OnRequest(q) BY <2>1, SMT DEF OnRequest, InnStates
    <2>2. CASE PollPendingResponse(q) BY <2>2, SMT DEF PollPendingResponse, InnStates
    <2>3. CASE OnResponseSent(q) BY <2>3, SMT DEF OnResponseSent, InnStates
    <2>4. CASE OnInboundFailure(q) BY <2>4, SMT DEF OnInboundFailure, InnStates
    <2>5. CASE Answer(q) BY <2>5, SMT DEF Answer
    <2> QED BY <2>1, <2>2, <2>3, <2>4, <2>5
  <1>4. BooksMatch'
    BY <1>2, SMT DEF IndInv, TypeOK, BooksMatch, OnRequest, PollPendingResponse, OnResponseSent,
       OnInboundFailure, Answer
  <1>5. AckDeliverable'
    BY SMT DEF IndInv, TypeOK, AckDeliverable, OnRequest, PollPendingResponse, OnResponseSent,
       OnInboundFailure, Answer
  <1>6. Traced'
    <2> USE DEF IndInv, TypeOK, Traced
    <2>1. CASE OnRequest(q) BY <1>2, <2>1, SMT DEF OnRequest
    <2>2. CASE PollPendingResponse(q) BY <1>2, <2>2, SMT DEF PollPendingResponse
    <2>3. CASE OnResponseSent(q) BY <1>2, <2>3, SMT DEF OnResponseSent
    <2>4. CASE OnInboundFailure(q) BY <1>2, <2>4, SMT DEF OnInboundFailure
    <2>5. CASE Answer(q) BY <1>2, <2>5, SMT DEF Answer
    <2> QED BY <2>1, <2>2, <2>3, <2>4, <2>5
  <1> QED BY <1>1, <1>3, <1>4, <1>5, <1>6 DEF IndInv

(* A daemon that dies drops its senders; their futures stay. *)
LEMMA DaemonDiesInd ==
  ASSUME IndInv, NEW p \in Peers, DaemonDies(p)
  PROVE  IndInv'
  <1>1. UNCHANGED <<caller, out, inn, arrival, pending_responses>>
    BY DEF DaemonDies
  <1>2. UNCHANGED <<from_service, targets, wide, known, listener, pending_requests, delivered>>
    BY <1>1 DEF caller
  <1>3. QueueFresh' /\ Heard' BY <1>1, CallerFrame DEF IndInv
  <1>4. TypeOK' BY <1>1, <1>2, SMT DEF IndInv, TypeOK, DaemonDies
  <1>5. BooksMatch' BY <1>1, <1>2, SMT DEF IndInv, BooksMatch
  <1>6. AckDeliverable' BY SMT DEF IndInv, AckDeliverable, DaemonDies
  <1>7. Traced' BY <1>1, <1>2, SMT DEF IndInv, Traced, DaemonDies
  <1> QED BY <1>3, <1>4, <1>5, <1>6, <1>7 DEF IndInv

(* The library's own steps. *)
LEMMA NetworkInd ==
  ASSUME IndInv, NEW q \in Requests,
         Arrive(q) \/ WriteResponse(q) \/ FailInbound(q) \/ FailOutbound(q)
  PROVE  IndInv'
  <1>1. ASSUME NEW event \in {"ok", "refused"}, CallerSees(q, event)
        PROVE  /\ out' \in [Requests -> OutStates]
               /\ \A r \in Requests : \/ out'[r] = out[r]
                                      \/ r = q /\ out[q] = "open" /\ out'[q] = event
    <2>1. out \in [Requests -> OutStates] BY DEF IndInv, TypeOK
    <2>2. out' = out \/ (out[q] = "open" /\ out' = [out EXCEPT ![q] = event])
      BY <1>1, SMT DEF CallerSees
    <2>3. CASE out' = out BY <2>1, <2>3
    <2>4. CASE out[q] = "open" /\ out' = [out EXCEPT ![q] = event]
      BY <2>1, <2>4, SMT DEF OutStates
    <2> QED BY <2>2, <2>3, <2>4
  <1>2. UNCHANGED <<caller, server>>
    BY DEF Arrive, WriteResponse, FailInbound, FailOutbound
  <1>3. UNCHANGED <<from_service, targets, wide, known, listener, pending_requests, delivered,
                    arrival, pending_responses, tx, up>>
    BY <1>2 DEF caller, server
  <1>4. /\ out' \in [Requests -> OutStates]
        /\ \A r \in Requests :
              \/ out'[r] = out[r]
              \/ /\ r = q /\ out[q] = "open" /\ out'[q] \in {"ok", "refused", "failed"}
                 /\ out'[q] = "ok" => inn[q] = "responding"
    <2>1. CASE Arrive(q) BY <2>1, SMT DEF Arrive, IndInv, TypeOK
    <2>2. CASE WriteResponse(q) BY <1>1, <2>2, SMT DEF WriteResponse
    <2>3. CASE FailInbound(q)
      <3>1. CASE CallerSees(q, "refused") BY <1>1, <3>1, SMT
      <3>2. CASE inn[q] = "responding" /\ CallerSees(q, "ok") BY <1>1, <3>2, SMT
      <3> QED BY <2>3, <3>1, <3>2 DEF FailInbound
    <2>4. CASE FailOutbound(q) BY <2>4, SMT DEF FailOutbound, IndInv, TypeOK, OutStates
    <2> QED BY <2>1, <2>2, <2>3, <2>4
  <1>5. /\ inn' \in [Requests -> InnStates]
        /\ \A r \in Requests :
              \/ inn'[r] = inn[r]
              \/ /\ r = q
                 /\ \/ inn[q] = "idle" /\ inn'[q] = "request"
                    \/ inn[q] = "responding" /\ inn'[q] = "sent"
                    \/ inn[q] \in {"open", "responding", "omitted"} /\ inn'[q] = "failed"
    <2>1. inn \in [Requests -> InnStates] BY DEF IndInv, TypeOK
    <2>2. CASE Arrive(q) BY <2>1, <2>2, SMT DEF Arrive, InnStates
    <2>3. CASE WriteResponse(q) BY <2>1, <2>3, SMT DEF WriteResponse, InnStates
    <2>4. CASE FailInbound(q)
      <3>1. inn[q] \in {"open", "responding", "omitted"} /\ inn' = [inn EXCEPT ![q] = "failed"]
        BY <2>4 DEF FailInbound
      <3> QED BY <2>1, <3>1, SMT DEF InnStates
    <2>5. CASE FailOutbound(q) BY <2>1, <2>5, SMT DEF FailOutbound
    <2> QED BY <2>2, <2>3, <2>4, <2>5
  <1>6. QueueFresh' /\ Heard' BY <1>2, <1>4, CallerFrame DEF IndInv
  <1>7. TypeOK' BY <1>3, <1>4, <1>5, SMT DEF IndInv, TypeOK
  <1>8. BooksMatch' BY <1>3, <1>4, <1>5, SMT DEF IndInv, BooksMatch
  <1>9. AckDeliverable' BY <1>3, SMT DEF IndInv, AckDeliverable
  <1>10. Traced' BY <1>3, <1>4, <1>5, SMT DEF IndInv, Traced
  <1> QED BY <1>6, <1>7, <1>8, <1>9, <1>10 DEF IndInv

(* Every step of the network preserves the invariant. *)
LEMMA NextInd == IndInv /\ [Next]_vars => IndInv'
  <1> SUFFICES ASSUME IndInv, [Next]_vars PROVE IndInv'
    OBVIOUS
  <1>1. ASSUME NEW c \in Calls PROVE /\ \A T \in Multicasts : MulticastMessage(c, T) => IndInv'
                                     /\ BroadcastMessage(c) => IndInv'
    <2>1. ASSUME NEW T \in Multicasts, MulticastMessage(c, T) PROVE IndInv'
      <3>1. wide' \subseteq Calls BY <2>1, SMT DEF MulticastMessage, IndInv, TypeOK
      <3>2. T \in SUBSET (Peers \cup {Local}) BY MulticastsAssumption
      <3> QED BY <2>1, <3>1, <3>2, SubmitInd DEF MulticastMessage
    <2>2. ASSUME BroadcastMessage(c) PROVE IndInv'
      <3>1. wide' \subseteq Calls BY <2>2, SMT DEF BroadcastMessage, IndInv, TypeOK
      <3> QED BY <2>2, <3>1, SubmitInd DEF BroadcastMessage
    <2> QED BY <2>1, <2>2
  <1>2. ASSUME NEW c \in Calls, DropReceiver(c) PROVE IndInv'
    BY <1>2, DropReceiverInd
  <1>3. CASE SendWireMessages BY <1>3, SendWireMessagesInd
  <1>4. ASSUME NEW q \in Requests, OnResponse(q) PROVE IndInv'
    BY <1>4, ResolveInd DEF OnResponse, Results
  <1>5. ASSUME NEW q \in Requests, OnOutboundFailure(q) PROVE IndInv'
    BY <1>5, ResolveInd DEF OnOutboundFailure, Results
  <1>6. ASSUME NEW p \in Peers, DaemonDies(p) \/ InjectConnected(p) PROVE IndInv'
    BY <1>6, DaemonDiesInd, InjectConnectedInd
  <1>7. CASE UNCHANGED vars
    <2>1. UNCHANGED <<caller, out>> BY <1>7 DEF vars, caller
    <2>2. QueueFresh' /\ Heard' BY <2>1, CallerFrame DEF IndInv
    <2>3. TypeOK' /\ BooksMatch' /\ AckDeliverable' /\ Traced'
      BY <1>7, SMT DEF vars, IndInv, TypeOK, BooksMatch, AckDeliverable, Traced
    <2> QED BY <2>2, <2>3 DEF IndInv
  <1> QED BY <1>1, <1>2, <1>3, <1>4, <1>5, <1>6, <1>7, ServerInd, NetworkInd DEF Next, Rest

-----------------------------------------------------------------------------

(* The inductive invariant behind the four theorems below. *)
THEOREM BroadcastInvInductive == Spec => []IndInv
  BY InitInd, NextInd, PTL DEF Spec

(* The network layer's maps, channels and queues keep their types. *)
THEOREM BroadcastTypeCorrect == Spec => []TypeOK
  <1>1. IndInv => TypeOK BY DEF IndInv
  <1> QED BY <1>1, BroadcastInvInductive, PTL

(* No event of the library meets a missing entry: neither debug_assert nor  *)
(* the expect on the arrival time of broadcast.rs can fire.                 *)
THEOREM BooksMatchCorrect == Spec => []BooksMatch
  <1>1. IndInv => BooksMatch BY DEF IndInv
  <1> QED BY <1>1, BroadcastInvInductive, PTL

(* A late acknowledgment always finds its receiver (echo.rs:88). *)
THEOREM AckDeliverableCorrect == Spec => []AckDeliverable
  <1>1. IndInv => AckDeliverable BY DEF IndInv
  <1> QED BY <1>1, BroadcastInvInductive, PTL

(* A caller gets one result per target, a positive one only for an answer,  *)
(* and has heard of every target once nothing is pending.                   *)
THEOREM ResultsSoundCorrect == Spec => []ResultsSound
  <1>1. IndInv => ResultsSound
    <2> SUFFICES ASSUME IndInv PROVE ResultsSound
      OBVIOUS
    <2>1. \A q \in Requests : Len(delivered[q]) <= 1 /\ (delivered[q] = <<"ok">> => tx[q] = "answered")
      BY DEF IndInv, Traced
    <2>2. \A c \in Calls : \A p \in targets[c] : <<c, p>> \in pending_requests => <<c, p>> \in Of(c) \cap pending_requests
      BY SMT DEF IndInv, TypeOK, Of, Requests
    <2> QED BY <2>1, <2>2, SMT DEF IndInv, Heard, ResultsSound
  <1> QED BY <1>1, BroadcastInvInductive, PTL

-----------------------------------------------------------------------------
(* Debts. *)

(* A call that is not made has no targets, and a broadcast none that are    *)
(* not known.                                                               *)
Addressed ==
    /\ \A c \in Calls : listener[c] = "unmade" => targets[c] = {} /\ c \notin wide
    /\ \A c \in wide : targets[c] \subseteq known

Debt == \A q \in Requests : Owed(q) => Owed(q)'

(* Only three kinds of step say whom a call is for. *)
LEMMA DebtKept ==
  ASSUME Addressed, UNCHANGED <<from_service, targets, wide, known>>,
         \A c \in Calls : listener'[c] = "unmade" => listener[c] = "unmade"
  PROVE  Addressed' /\ Debt
  BY DEF Addressed, Debt, Owed

LEMMA SubmitOwes ==
  ASSUME IndInv, Addressed, NEW c \in Calls, NEW T \in SUBSET (Peers \cup {Local}), Submit(c, T),
         wide' = wide \/ (wide' = wide \cup {c} /\ T = {})
  PROVE  Addressed' /\ Debt
  <1>1. /\ TypeOK /\ listener[c] = "unmade" /\ targets[c] = {} /\ c \notin wide
        /\ targets'[c] = T /\ listener'[c] # "unmade" /\ known' = known
        /\ \A d \in Calls \ {c} : targets'[d] = targets[d] /\ listener'[d] = listener[d]
        /\ from_service' = Append(from_service, c) /\ wide \subseteq wide'
    BY DEF IndInv, TypeOK, Submit, Addressed
  <1>2. \A k \in DOMAIN from_service : k \in DOMAIN from_service' /\ from_service'[k] = from_service[k]
    BY <1>1, QueueAppend, SMT DEF TypeOK
  <1>3. Addressed'
    <2>1. ASSUME NEW d \in Calls, listener'[d] = "unmade" PROVE targets'[d] = {} /\ d \notin wide'
      BY <2>1, <1>1 DEF Addressed
    <2>2. ASSUME NEW d \in wide' PROVE targets'[d] \subseteq known'
      <3>1. CASE d = c
        BY <2>2, <3>1, <1>1
      <3>2. CASE d # c
        BY <2>2, <3>2, <1>1 DEF Addressed, TypeOK
      <3> QED
        BY <3>1, <3>2
    <2> QED
      BY <2>1, <2>2 DEF Addressed
  <1>4. Debt
    <2> SUFFICES ASSUME NEW q \in Requests, Owed(q) PROVE Owed(q)'
      BY DEF Debt
    <2>1. q[1] \in Calls \ {c}
      BY <1>1, RequestPairs DEF Owed
    <2> QED
      BY <2>1, <1>1, <1>2 DEF Owed
  <1> QED
    BY <1>3, <1>4

LEMMA SendOwes ==
  ASSUME IndInv, Addressed, SendWireMessages
  PROVE  Addressed' /\ Debt
  <1>1. PICK c : c = Head(from_service)
    OBVIOUS
  <1>2. /\ TypeOK /\ from_service \in Seq(Calls) /\ from_service # <<>>
        /\ from_service' = Tail(from_service)
        /\ UNCHANGED <<wide, known, listener>>
    BY DEF IndInv, TypeOK, SendWireMessages
  <1>3. c \in Calls /\ c = from_service[1] /\ 1 \in DOMAIN from_service
    BY <1>1, <1>2, QueueTail, SMT
  <1>4. /\ targets'[c] = TargetsOf(c)
        /\ \A d \in Calls \ {c} : targets'[d] = targets[d]
    BY <1>1, <1>2, <1>3 DEF SendWireMessages, TypeOK
  <1>5. \A k \in DOMAIN from_service :
           from_service[k] # c => \E j \in DOMAIN from_service' : from_service'[j] = from_service[k]
    <2> SUFFICES ASSUME NEW k \in DOMAIN from_service, from_service[k] # c
                 PROVE  \E j \in DOMAIN from_service' : from_service'[j] = from_service[k]
      OBVIOUS
    <2>1. k - 1 \in DOMAIN from_service' /\ from_service'[k - 1] = from_service[k]
      BY <1>2, <1>3, QueueTail, SMT
    <2> QED
      BY <2>1
  <1>6. listener[c] # "unmade"
    BY <1>3 DEF IndInv, QueueFresh
  <1>7. Addressed'
    BY <1>2, <1>4, <1>6 DEF Addressed, TargetsOf, TypeOK
  <1>8. Debt
    <2> SUFFICES ASSUME NEW q \in Requests, Owed(q) PROVE Owed(q)'
      BY DEF Debt
    <2>1. q[1] \in Calls
      BY RequestPairs
    <2>2. CASE q[1] = c
      <3>1. q[2] \in TargetsOf(c)
        BY <2>2 DEF Owed, Addressed, TargetsOf
      <3> QED
        BY <2>2, <3>1, <1>4 DEF Owed
    <2>3. CASE q[1] # c
      BY <2>1, <2>3, <1>2, <1>4, <1>5 DEF Owed
    <2> QED
      BY <2>2, <2>3
  <1> QED
    BY <1>7, <1>8

(* No step strikes out a debt (service.rs:168-203, discovery.rs:164): calls *)
(* are made once, the worker takes each from its queue as it is, and peers  *)
(* that are known stay known.                                               *)
THEOREM DebtsStandCorrect == Spec => DebtsStand
  <1>1. Init => Addressed
    BY DEF Init, Addressed
  <1>2. IndInv /\ Addressed /\ [Next]_vars => Addressed' /\ Debt
    <2> SUFFICES ASSUME IndInv, Addressed, [Next]_vars PROVE Addressed' /\ Debt
      OBVIOUS
    <2>1. ASSUME NEW c \in Calls, NEW T \in Multicasts, MulticastMessage(c, T)
          PROVE  Addressed' /\ Debt
      BY <2>1, MulticastsAssumption, SubmitOwes DEF MulticastMessage
    <2>2. ASSUME NEW c \in Calls, BroadcastMessage(c) PROVE Addressed' /\ Debt
      BY <2>2, SubmitOwes DEF BroadcastMessage
    <2>3. ASSUME NEW c \in Calls, DropReceiver(c) PROVE Addressed' /\ Debt
      <3>1. UNCHANGED <<from_service, targets, wide, known>>
        BY <2>3 DEF DropReceiver
      <3>2. \A d \in Calls : listener'[d] = "unmade" => listener[d] = "unmade"
        BY <2>3 DEF DropReceiver, IndInv, TypeOK
      <3> QED
        BY <3>1, <3>2, DebtKept
    <2>4. CASE SendWireMessages
      BY <2>4, SendOwes
    <2>5. ASSUME NEW p \in Peers, InjectConnected(p) PROVE Addressed' /\ Debt
      <3>1. UNCHANGED <<from_service, targets, wide, listener>> /\ known \subseteq known'
        BY <2>5 DEF InjectConnected
      <3> QED
        BY <3>1 DEF Addressed, Debt, Owed
    <2>6. CASE UNCHANGED vars
      BY <2>6, DebtKept DEF vars
    <2>7. ASSUME NEW q \in Requests,
                 \/ OnResponse(q) \/ OnOutboundFailure(q)
                 \/ OnRequest(q) \/ PollPendingResponse(q)
                 \/ OnResponseSent(q) \/ OnInboundFailure(q)
                 \/ Answer(q)
                 \/ Arrive(q) \/ WriteResponse(q) \/ FailInbound(q) \/ FailOutbound(q)
          PROVE  Addressed' /\ Debt
      <3>1. UNCHANGED <<from_service, targets, wide, known, listener>>
        BY <2>7 DEF OnResponse, OnOutboundFailure, Resolve, OnRequest, PollPendingResponse,
                    OnResponseSent, OnInboundFailure, Answer, Arrive, WriteResponse, FailInbound,
                    FailOutbound, caller
      <3> QED
        BY <3>1, DebtKept
    <2>8. ASSUME NEW p \in Peers, DaemonDies(p) PROVE Addressed' /\ Debt
      BY <2>8, DebtKept DEF DaemonDies, caller
    <2> QED
      BY <2>1, <2>2, <2>3, <2>4, <2>5, <2>6, <2>7, <2>8 DEF Next, Rest
  <1> QED
    BY <1>1, <1>2, BroadcastInvInductive, PTL DEF Spec, DebtsStand, Debt

-----------------------------------------------------------------------------
(* The refinement of RequestResponse. *)

(* Only what was sent arrives. *)
Begun == \A q \in Requests : inn[q] # "idle" => out[q] # "idle"

(* Nothing that was sent is ever unsent, and only Arrive begins. *)
LEMMA NextBegun == IndInv /\ Begun /\ [Next]_vars => Begun'
  <1> SUFFICES ASSUME IndInv, Begun, [Next]_vars PROVE Begun'
    OBVIOUS
  <1>1. ASSUME UNCHANGED <<out, inn>> PROVE Begun'
    BY <1>1 DEF Begun
  <1>2. CASE SendWireMessages
    <2>1. inn' = inn /\ \A q \in Requests : out'[q] = out[q] \/ out'[q] = "open"
      BY <1>2, SMT DEF SendWireMessages
    <2> QED
      BY <2>1, SMT DEF Begun
  <1>3. ASSUME NEW q \in Requests, OnResponse(q) \/ OnOutboundFailure(q) PROVE Begun'
    BY <1>3, SMT DEF OnResponse, OnOutboundFailure, Resolve, Begun, IndInv, TypeOK
  <1>4. ASSUME NEW q \in Requests,
               \/ OnRequest(q) \/ PollPendingResponse(q) \/ OnResponseSent(q)
               \/ OnInboundFailure(q) \/ Answer(q)
        PROVE  Begun'
    <2>1. out' = out /\ \A x \in Requests : inn[x] = "idle" => inn'[x] = "idle"
      BY <1>4, SMT DEF OnRequest, PollPendingResponse, OnResponseSent, OnInboundFailure, Answer,
                       IndInv, TypeOK
    <2> QED
      BY <2>1 DEF Begun
  <1>5. ASSUME NEW q \in Requests, WriteResponse(q) \/ FailInbound(q) \/ FailOutbound(q)
        PROVE  Begun'
    <2>1. \A x \in Requests : inn[x] = "idle" => inn'[x] = "idle"
      BY <1>5, SMT DEF WriteResponse, FailInbound, FailOutbound, IndInv, TypeOK
    <2>2. \A x \in Requests : out[x] # "idle" => out'[x] # "idle"
      BY <1>5, SMT DEF WriteResponse, FailInbound, FailOutbound, CallerSees, IndInv, TypeOK
    <2> QED
      BY <2>1, <2>2 DEF Begun
  <1>6. ASSUME NEW q \in Requests, Arrive(q) PROVE Begun'
    BY <1>6, SMT DEF Arrive, Begun, IndInv, TypeOK
  <1>7. ASSUME NEW p \in Peers, DaemonDies(p) \/ InjectConnected(p) PROVE Begun'
    BY <1>1, <1>7 DEF DaemonDies, InjectConnected
  <1>8. ASSUME NEW c \in Calls,
               \/ \E T \in Multicasts : MulticastMessage(c, T)
               \/ BroadcastMessage(c) \/ DropReceiver(c)
        PROVE  Begun'
    BY <1>1, <1>8 DEF MulticastMessage, BroadcastMessage, Submit, DropReceiver
  <1>9. CASE UNCHANGED vars
    BY <1>1, <1>9 DEF vars
  <1> QED
    BY <1>2, <1>3, <1>4, <1>5, <1>6, <1>7, <1>8, <1>9 DEF Next, Rest

Phase(q) == IF out[q] = "idle" THEN "idle" ELSE IF out[q] = "closed" THEN "done" ELSE "pending"
Answered == {q \in Requests : tx[q] = "answered"}

(* What leaves phases, answers and results alone is a stutter. *)
LEMMA PromiseStutter ==
  ASSUME \A q \in Requests : Phase(q)' = Phase(q), Answered' = Answered, delivered' = delivered
  PROVE  UNCHANGED Promise!vars
  BY DEF Promise!vars, Phase, Answered

(* The worker makes the requests of a call all at once. *)
LEMMA SendCalls ==
  ASSUME IndInv, SendWireMessages PROVE Promise!Next
  <1>1. PICK c, sent : c = Head(from_service) /\ sent = {c} \X TargetsOf(c)
    OBVIOUS
  <1>2. /\ from_service \in Seq(Calls) /\ from_service # <<>>
        /\ out' = [q \in Requests |-> IF q \in sent THEN "open" ELSE out[q]]
        /\ delivered' = delivered /\ tx' = tx
    BY <1>1 DEF SendWireMessages, IndInv, TypeOK, server
  <1>3. c \in Calls /\ 1 \in DOMAIN from_service /\ from_service[1] = c
    BY <1>1, <1>2, QueueTail, SMT
  <1>4. sent \in SUBSET Requests
    BY <1>1, <1>3, SMT DEF TargetsOf, IndInv, TypeOK, Requests
  <1>5. ASSUME NEW q \in sent PROVE out[q] = "idle"
    <2>1. q \in Requests /\ q[1] = c
      BY <1>1, <1>4
    <2> QED
      BY <1>3, <2>1 DEF IndInv, QueueFresh
  <1>6. Promise!Call(sent)
    <2>1. \A q \in sent : Phase(q) = "idle"
      BY <1>5 DEF Phase
    <2>2. \A q \in Requests : Phase(q)' = IF q \in sent THEN "pending" ELSE Phase(q)
      BY <1>2, SMT DEF Phase
    <2> QED
      BY <1>2, <1>4, <2>1, <2>2 DEF Promise!Call, Phase
  <1> QED
    BY <1>4, <1>6 DEF Promise!Next

(* A response or failure resolves its request, once, and only an answered   *)
(* one positively; a caller that stopped listening is told nothing.         *)
LEMMA EventResolves ==
  ASSUME IndInv, NEW q \in Requests, OnResponse(q) \/ OnOutboundFailure(q)
  PROVE  Promise!Next
  <1>1. PICK result \in Results :
           /\ out[q] \in {"ok", "refused", "failed"} /\ (result = "ok" => out[q] = "ok")
           /\ Resolve(q, result)
    BY DEF OnResponse, OnOutboundFailure, Results
  <1>2. Phase(q) = "pending" /\ (result = "ok" => q \in Answered)
    BY <1>1 DEF Phase, Answered, IndInv, Traced
  <1>3. \A x \in Requests : Phase(x)' = IF x = q THEN "done" ELSE Phase(x)
    BY <1>1, SMT DEF Resolve, Phase, IndInv, TypeOK
  <1>4. Append(delivered[q], result) = <<result>>
    <2>1. delivered[q] = <<>>
      BY <1>1 DEF IndInv, Traced
    <2> QED
      BY <2>1, SMT
  <1>5. delivered' \in {delivered, [delivered EXCEPT ![q] = <<result>>]}
    BY <1>1, <1>4 DEF Resolve
  <1>6. Answered' = Answered
    BY <1>1 DEF Resolve, Answered, server
  <1>7. Promise!Resolve(q, result)
    BY <1>2, <1>3, <1>5, <1>6 DEF Promise!Resolve, Phase, Answered
  <1> QED
    BY <1>1, <1>7 DEF Promise!Next, Results

(* A daemon answers only requests that were made. *)
LEMMA AnswerAnswers ==
  ASSUME IndInv, Begun, NEW q \in Requests, Answer(q)
  PROVE  Promise!Next \/ UNCHANGED Promise!vars
  <1>1. tx[q] = "held" /\ UNCHANGED <<out, delivered>> /\ tx \in [Requests -> {"none", "held", "answered", "dropped"}]
    BY DEF Answer, caller, IndInv, TypeOK
  <1>2. \A x \in Requests : Phase(x)' = Phase(x)
    BY <1>1 DEF Phase
  <1>3. CASE tx' = [tx EXCEPT ![q] = "answered"]
    <2>1. Phase(q) # "idle"
      BY <1>1 DEF IndInv, Traced, Begun, Phase
    <2>2. Answered' = Answered \cup {q}
      BY <1>1, <1>3 DEF Answered
    <2>3. Promise!Answer(q)
      BY <1>1, <1>2, <2>1, <2>2 DEF Promise!Answer, Phase, Answered
    <2> QED
      BY <2>3 DEF Promise!Next
  <1>4. CASE tx' = [tx EXCEPT ![q] = "dropped"]
    <2>1. Answered' = Answered
      BY <1>1, <1>4 DEF Answered
    <2> QED
      BY <1>1, <1>2, <2>1, PromiseStutter
  <1> QED
    BY <1>3, <1>4 DEF Answer

(* The books of both sides and the library's own steps are internal. *)
LEMMA InternalStutters ==
  ASSUME IndInv, NEW q \in Requests,
         \/ OnRequest(q) \/ PollPendingResponse(q) \/ OnResponseSent(q) \/ OnInboundFailure(q)
         \/ Arrive(q) \/ WriteResponse(q) \/ FailInbound(q) \/ FailOutbound(q)
  PROVE  UNCHANGED Promise!vars
  <1>1. delivered' = delivered
    BY DEF OnRequest, PollPendingResponse, OnResponseSent, OnInboundFailure, Arrive,
           WriteResponse, FailInbound, FailOutbound, caller
  <1>2. \A x \in Requests : Phase(x)' = Phase(x)
    <2>1. CASE UNCHANGED out
      BY <2>1 DEF Phase
    <2>2. CASE WriteResponse(q) \/ FailInbound(q) \/ FailOutbound(q)
      <3>1. \A x \in Requests : \/ out'[x] = out[x]
                                \/ out[x] = "open" /\ out'[x] \in {"ok", "refused", "failed"}
        BY <2>2, SMT DEF WriteResponse, FailInbound, FailOutbound, CallerSees, IndInv, TypeOK
      <3> QED
        BY <3>1, SMT DEF Phase
    <2> QED
      BY <2>1, <2>2 DEF OnRequest, PollPendingResponse, OnResponseSent, OnInboundFailure, Arrive
  <1>3. Answered' = Answered
    <2>1. CASE OnRequest(q)
      <3>1. tx[q] = "none" /\ tx'[q] \in {"held", "dropped"}
        BY <2>1, SMT DEF OnRequest, IndInv, Traced, TypeOK
      <3>2. \A x \in Requests : x # q => tx'[x] = tx[x]
        BY <2>1, SMT DEF OnRequest, IndInv, TypeOK
      <3> QED
        BY <3>1, <3>2 DEF Answered
    <2>2. CASE UNCHANGED tx
      BY <2>2 DEF Answered
    <2> QED
      BY <2>1, <2>2 DEF PollPendingResponse, OnResponseSent, OnInboundFailure, Arrive,
                        WriteResponse, FailInbound, FailOutbound, server
  <1> QED
    BY <1>1, <1>2, <1>3, PromiseStutter

(* A daemon that dies takes nothing back: what it holds is dropped. *)
LEMMA OtherStutters ==
  ASSUME IndInv,
         \/ \E p \in Peers : DaemonDies(p) \/ InjectConnected(p)
         \/ \E c \in Calls :
               \/ \E T \in Multicasts : MulticastMessage(c, T)
               \/ BroadcastMessage(c) \/ DropReceiver(c)
         \/ UNCHANGED vars
  PROVE  UNCHANGED Promise!vars
  <1>1. UNCHANGED <<out, delivered>>
    BY DEF DaemonDies, InjectConnected, MulticastMessage, BroadcastMessage, Submit, DropReceiver,
           caller, vars
  <1>2. \A x \in Requests : Phase(x)' = Phase(x)
    BY <1>1 DEF Phase
  <1>3. Answered' = Answered
    <2>1. ASSUME NEW p \in Peers, DaemonDies(p) PROVE Answered' = Answered
      <3>1. \A x \in Requests : tx'[x] = tx[x] \/ (tx[x] = "held" /\ tx'[x] = "dropped")
        BY <2>1 DEF DaemonDies
      <3> QED
        BY <3>1 DEF Answered
    <2>2. CASE UNCHANGED tx
      BY <2>2 DEF Answered
    <2> QED
      BY <2>1, <2>2 DEF InjectConnected, MulticastMessage, BroadcastMessage, Submit, DropReceiver,
                        server, vars
  <1> QED
    BY <1>1, <1>2, <1>3, PromiseStutter

(* The network layer implements RequestResponse: calls, answers and results *)
(* are its only visible steps, whatever crosses on the wire                 *)
(* (broadcast.rs:719-833).                                                  *)
THEOREM KeepsPromiseCorrect == Spec => KeepsPromise
  <1>1. Init => Promise!Init /\ Begun
    BY DEF Init, Promise!Init, Begun
  <1>2. IndInv /\ Begun /\ [Next]_vars => [Promise!Next]_(Promise!vars)
    <2> SUFFICES ASSUME IndInv, Begun, [Next]_vars PROVE Promise!Next \/ UNCHANGED Promise!vars
      OBVIOUS
    <2>1. CASE SendWireMessages
      BY <2>1, SendCalls
    <2>2. ASSUME NEW q \in Requests, OnResponse(q) \/ OnOutboundFailure(q)
          PROVE  Promise!Next
      BY <2>2, EventResolves
    <2>3. ASSUME NEW q \in Requests, Answer(q)
          PROVE  Promise!Next \/ UNCHANGED Promise!vars
      BY <2>3, AnswerAnswers
    <2> QED
      BY <2>1, <2>2, <2>3, InternalStutters, OtherStutters DEF Next, Rest
  <1> QED
    BY <1>1, <1>2, NextBegun, BroadcastInvInductive, PTL DEF Spec, KeepsPromise, Promise!Spec
=============================================================================
