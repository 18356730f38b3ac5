----------------------------- MODULE Broadcast -----------------------------
(***************************************************************************)
(* The network layer of node/network: NetworkService and the select loop   *)
(* of NetworkWorker::run (service.rs), and the Broadcast behaviour, which  *)
(* keeps the book of requests in both directions (broadcast.rs), with the  *)
(* set of known peers that DiscoveryBehaviour keeps for it (discovery.rs). *)
(*                                                                         *)
(* One node calls; every other node serves.  A call is one message handed  *)
(* to NetworkService; it becomes one libp2p request per target.  The       *)
(* libp2p RequestResponse behaviour is external: it is modelled by the     *)
(* events it may raise (variables out and inn), with requests, responses   *)
(* and failures delayed, lost and crossing each other.                     *)
(*                                                                         *)
(* Every caller passes IfDisconnected::TryConnect, a registered room, and  *)
(* every handler answers Ok without asking for sent_feedback, so the       *)
(* branches for the other cases are dead in this program.  An inbound      *)
(* queue never refuses a message for lack of room: each try_send goes      *)
(* through a fresh clone of the sender, and a clone owns a slot.           *)
(***************************************************************************)
EXTENDS Naturals, Sequences

CONSTANTS
    Calls,  \* messages handed to NetworkService
    Peers,  \* the nodes that serve
    Local,  \* the calling node: a multicast may name it too (negotiation.rs:110)
    Boot,       \* the boot peers it is configured with
    Kademlia,   \* whether it is deployed with Kademlia
    Multicasts  \* the targets multicasts and direct sends are given

ASSUME LocalAssumption == Local \notin Peers
ASSUME BootAssumption == Boot \subseteq Peers \cup {Local} /\ Kademlia \in BOOLEAN
ASSUME MulticastsAssumption == Multicasts \subseteq SUBSET (Peers \cup {Local})

VARIABLES
    from_service,      \* the worker's queue of calls
    targets,           \* peers each call is for: of a broadcast, once it is sent
    wide,              \* the calls that are broadcasts, to all known peers
    known,             \* DiscoveryBehaviour's peers
    listener,          \* the caller's receiver for responses: not made yet,
                       \* none wanted, open, or dropped
    pending_requests,  \* requests that await a reply
    delivered,         \* results put into the caller's receiver, per request
    out,               \* external: the caller's side of a request
    inn,               \* external: the server's side of a request
    arrival,           \* pending_responses_arrival_time of all servers
    pending_responses, \* requests whose response future is still polled
    tx,                \* the response sender of a request: none yet, held by
                       \* the runtime daemon, answered or dropped
    up                 \* servers whose runtime daemon still receives

vars == <<from_service, targets, wide, known, listener, pending_requests, delivered,
          out, inn, arrival, pending_responses, tx, up>>

caller == <<from_service, targets, wide, known, listener, pending_requests, delivered>>
server == <<arrival, pending_responses, tx, up>>

Requests == Calls \X (Peers \cup {Local})
Of(c) == {q \in Requests : q[1] = c}
Results == {"ok", "refused", "network"}

OutStates == {"idle", "open", "ok", "refused", "failed", "closed"}
InnStates == {"idle", "request", "open", "responding", "omitted", "sent", "failed", "closed"}

TypeOK ==
    /\ from_service \in Seq(Calls)
    /\ targets \in [Calls -> SUBSET (Peers \cup {Local})]
    /\ wide \subseteq Calls
    /\ known \subseteq Peers \cup {Local}
    /\ listener \in [Calls -> {"unmade", "none", "open", "gone"}]
    /\ pending_requests \subseteq Requests
    /\ delivered \in [Requests -> Seq(Results)]
    /\ out \in [Requests -> OutStates]
    /\ inn \in [Requests -> InnStates]
    /\ arrival \subseteq Requests
    /\ pending_responses \subseteq Requests
    /\ tx \in [Requests -> {"none", "held", "answered", "dropped"}]
    /\ up \subseteq Peers

(* DiscoveryBehaviour::new: only Kademlia is told of the boot peers. *)
KnownAtStart == IF Kademlia THEN Boot ELSE {}

Init ==
    /\ from_service = <<>>
    /\ targets = [c \in Calls |-> {}]
    /\ wide = {}
    /\ known = KnownAtStart
    /\ listener = [c \in Calls |-> "unmade"]
    /\ pending_requests = {}
    /\ delivered = [q \in Requests |-> <<>>]
    /\ out = [q \in Requests |-> "idle"]
    /\ inn = [q \in Requests |-> "idle"]
    /\ arrival = {}
    /\ pending_responses = {}
    /\ tx = [q \in Requests |-> "none"]
    /\ up = Peers

-----------------------------------------------------------------------------
(* The caller.                                                              *)

(* NetworkService::*_message: into to_worker, with or without a sender for  *)
(* the responses.                                                           *)
Submit(c, T) ==
    /\ listener[c] = "unmade"
    /\ targets' = [targets EXCEPT ![c] = T]
    /\ \E l \in {"none", "open"} : listener' = [listener EXCEPT ![c] = l]
    /\ from_service' = Append(from_service, c)
    /\ UNCHANGED <<known, pending_requests, delivered, out, inn, server>>

MulticastMessage(c, T) == Submit(c, T) /\ UNCHANGED wide

(* A broadcast is not for anybody in particular yet. *)
BroadcastMessage(c) == Submit(c, {}) /\ wide' = wide \cup {c}

(* inject_connected: a peer that connects becomes known, and stays so when  *)
(* it disconnects.                                                          *)
InjectConnected(p) ==
    /\ known' = known \cup {p}
    /\ UNCHANGED <<from_service, targets, wide, listener, pending_requests, delivered,
                   out, inn, server>>

(* Faulty variant: a broadcast is for the configured peers. *)
TargetsOfBoot(c) == IF c \in wide THEN Boot ELSE targets[c]

(* A broadcast is for the peers known when the worker comes to it. *)
TargetsOf(c) == IF c \in wide THEN known ELSE targets[c]

(* The worker takes a call and sends a request to every target:             *)
(* send_wire_message enters each into pending_requests.                     *)
SendWireMessages ==
    LET c == Head(from_service)
        sent == {c} \X TargetsOf(c)
    IN  /\ from_service # <<>>
        /\ from_service' = Tail(from_service)
        /\ targets' = [targets EXCEPT ![c] = TargetsOf(c)]
        /\ pending_requests' = pending_requests \cup sent
        /\ out' = [q \in Requests |-> IF q \in sent THEN "open" ELSE out[q]]
        /\ UNCHANGED <<wide, known, listener, delivered, inn, server>>

(* The owner of the receiver is done with it: a negotiation that started or *)
(* timed out, an execution that ended.                                      *)
DropReceiver(c) ==
    /\ listener[c] = "open"
    /\ listener' = [listener EXCEPT ![c] = "gone"]
    /\ UNCHANGED <<from_service, targets, wide, known, pending_requests, delivered, out, inn,
                   server>>

(* try_send on the request's own clone of the sender: it has a slot of its  *)
(* own, so only a dropped receiver (or none) loses the result.              *)
Resolve(q, result) ==
    /\ pending_requests' = pending_requests \ {q}
    /\ delivered' = IF q \in pending_requests /\ listener[q[1]] = "open"
                    THEN [delivered EXCEPT ![q] = Append(@, result)]
                    ELSE delivered
    /\ out' = [out EXCEPT ![q] = "closed"]
    /\ UNCHANGED <<from_service, targets, wide, known, listener, inn, server>>

(* Faulty variant: an empty response passes for a positive one. *)
OnResponseLenient(q) == out[q] \in {"ok", "refused"} /\ Resolve(q, "ok")

(* RequestResponseMessage::Response; Err(()) is mapped to Refused. *)
OnResponse(q) == out[q] \in {"ok", "refused"} /\ Resolve(q, out[q])

(* Faulty variants of OnOutboundFailure: the library's error is passed on   *)
(* as it is; the caller is not told at all.                                 *)
OnOutboundFailureRaw(q) == out[q] = "failed" /\ Resolve(q, out[q])

OnOutboundFailureSilent(q) ==
    /\ out[q] = "failed"
    /\ pending_requests' = pending_requests \ {q}
    /\ out' = [out EXCEPT ![q] = "closed"]
    /\ UNCHANGED <<from_service, targets, wide, known, listener, delivered, inn, server>>

OnOutboundFailure(q) == out[q] = "failed" /\ Resolve(q, "network")

-----------------------------------------------------------------------------
(* A server.                                                                *)

(* RequestResponseMessage::Request: note the arrival, hand the message to   *)
(* the room's queue (which fails only if the runtime daemon is gone, and    *)
(* drops the sender), and push the future that waits for the answer.        *)
OnRequest(q) ==
    /\ inn[q] = "request"
    /\ inn' = [inn EXCEPT ![q] = "open"]
    /\ arrival' = arrival \cup {q}
    /\ tx' = [tx EXCEPT ![q] = IF q[2] \in up THEN "held" ELSE "dropped"]
    /\ pending_responses' = pending_responses \cup {q}
    /\ UNCHANGED <<caller, out, up>>

(* Faulty variant: a sender that was dropped yields an empty response. *)
PollPendingResponseAlways(q) ==
    /\ q \in pending_responses
    /\ tx[q] \in {"answered", "dropped"}
    /\ pending_responses' = pending_responses \ {q}
    /\ inn' = [inn EXCEPT ![q] = IF @ # "open" THEN @ ELSE "responding"]
    /\ UNCHANGED <<caller, out, arrival, tx, up>>

(* The response future is ready: send_response, which fails if the stream   *)
(* is gone; without an answer the response channel is dropped.              *)
PollPendingResponse(q) ==
    /\ q \in pending_responses
    /\ tx[q] \in {"answered", "dropped"}
    /\ pending_responses' = pending_responses \ {q}
    /\ inn' = [inn EXCEPT ![q] = IF @ # "open" THEN @
                                 ELSE IF tx[q] = "answered" THEN "responding" ELSE "omitted"]
    /\ UNCHANGED <<caller, out, arrival, tx, up>>

(* ResponseSent: the arrival time is removed and expected to be there. *)
OnResponseSent(q) ==
    /\ inn[q] = "sent"
    /\ inn' = [inn EXCEPT ![q] = "closed"]
    /\ arrival' = arrival \ {q}
    /\ UNCHANGED <<caller, out, pending_responses, tx, up>>

(* Faulty variants of OnInboundFailure: the arrival time stays behind; the  *)
(* response future is dropped as well.                                      *)
OnInboundFailureLeak(q) ==
    /\ inn[q] = "failed"
    /\ inn' = [inn EXCEPT ![q] = "closed"]
    /\ UNCHANGED <<caller, out, arrival, pending_responses, tx, up>>

OnInboundFailureDrop(q) ==
    /\ inn[q] = "failed"
    /\ inn' = [inn EXCEPT ![q] = "closed"]
    /\ arrival' = arrival \ {q}
    /\ pending_responses' = pending_responses \ {q}
    /\ UNCHANGED <<caller, out, tx, up>>

(* InboundFailure: the response future is left alone. *)
OnInboundFailure(q) ==
    /\ inn[q] = "failed"
    /\ inn' = [inn EXCEPT ![q] = "closed"]
    /\ arrival' = arrival \ {q}
    /\ UNCHANGED <<caller, out, pending_responses, tx, up>>

(* The runtime daemon answers a message it holds, or drops it (an aborted   *)
(* phase, a full proxy channel, an execution that is dropped).              *)
Answer(q) ==
    /\ tx[q] = "held"
    /\ \E a \in {"answered", "dropped"} : tx' = [tx EXCEPT ![q] = a]
    /\ UNCHANGED <<caller, out, inn, arrival, pending_responses, up>>

(* The runtime daemon panics: its queue and all it holds are dropped. *)
DaemonDies(p) ==
    /\ p \in up
    /\ up' = up \ {p}
    /\ tx' = [q \in Requests |-> IF q[2] = p /\ tx[q] = "held" THEN "dropped" ELSE tx[q]]
    /\ UNCHANGED <<caller, out, inn, arrival, pending_responses>>

-----------------------------------------------------------------------------
(* External: the RequestResponse behaviour and the network under it.        *)

(* A request reaches its target, perhaps after the caller gave up on it.    *)
(* One to the caller itself never does: a node does not dial itself.        *)
Arrive(q) ==
    /\ out[q] # "idle"
    /\ inn[q] = "idle"
    /\ q[2] # Local
    /\ inn' = [inn EXCEPT ![q] = "request"]
    /\ UNCHANGED <<caller, out, server>>

(* The caller's side of the stream ends, or does not hear of it. *)
CallerSees(q, event) ==
    out' \in {out, IF out[q] = "open" THEN [out EXCEPT ![q] = event] ELSE out}

(* The response is written to the stream. *)
WriteResponse(q) ==
    /\ inn[q] = "responding"
    /\ inn' = [inn EXCEPT ![q] = "sent"]
    /\ CallerSees(q, "ok")
    /\ UNCHANGED <<caller, server>>

(* Timeout, omission or loss of the connection on the server's side.  The   *)
(* caller may see a closed stream, or the response if it was already out.   *)
FailInbound(q) ==
    /\ inn[q] \in {"open", "responding", "omitted"}
    /\ inn' = [inn EXCEPT ![q] = "failed"]
    /\ \/ CallerSees(q, "refused")
       \/ inn[q] = "responding" /\ CallerSees(q, "ok")
    /\ UNCHANGED <<caller, server>>

(* Timeout, dial failure or loss of the connection on the caller's side. *)
FailOutbound(q) ==
    /\ out[q] = "open"
    /\ out' = [out EXCEPT ![q] = "failed"]
    /\ UNCHANGED <<caller, inn, server>>

(* Every call is made and resolved: a network at rest. *)
Rest ==
    /\ \A c \in Calls : listener[c] # "unmade"
    /\ from_service = <<>>
    /\ pending_requests = {} /\ arrival = {} /\ pending_responses = {}
    /\ UNCHANGED vars

-----------------------------------------------------------------------------
Next ==
    \/ \E c \in Calls :
          \/ \E T \in Multicasts : MulticastMessage(c, T)
          \/ BroadcastMessage(c)
          \/ DropReceiver(c)
    \/ SendWireMessages
    \/ \E q \in Requests :
          \/ OnResponse(q) \/ OnOutboundFailure(q)
          \/ OnRequest(q) \/ PollPendingResponse(q)
          \/ OnResponseSent(q) \/ OnInboundFailure(q)
          \/ Answer(q)
          \/ Arrive(q) \/ WriteResponse(q) \/ FailInbound(q) \/ FailOutbound(q)
    \/ \E p \in Peers : DaemonDies(p) \/ InjectConnected(p)
    \/ Rest

Spec == Init /\ [][Next]_vars

(* Fairness: the worker's select loop serves its queue and its swarm, and   *)
(* the swarm's timers fire: an open request ends within request_timeout     *)
(* (20 s) on either side.  Nothing is assumed of the runtime daemons.       *)
Fairness ==
    /\ WF_vars(SendWireMessages)
    /\ \A q \in Requests :
          /\ WF_vars(OnResponse(q))
          /\ WF_vars(OnOutboundFailure(q))
          /\ WF_vars(FailOutbound(q))
          /\ WF_vars(OnRequest(q))
          /\ WF_vars(WriteResponse(q))
          /\ WF_vars(FailInbound(q))
          /\ WF_vars(OnResponseSent(q))
          /\ WF_vars(OnInboundFailure(q))

FairSpec == Spec /\ Fairness

-----------------------------------------------------------------------------
(* Properties.                                                              *)

(* The book of requests matches the library's: an event for a request finds *)
(* its entry.  So the "unexpected request id" branches (broadcast.rs:737,   *)
(* 786) and the expect on the arrival time (broadcast.rs:833) never fire,   *)
(* whatever crosses on the wire.                                            *)
BooksMatch ==
    \A q \in Requests :
        /\ out[q] \in {"open", "ok", "refused", "failed"} <=> q \in pending_requests
        /\ inn[q] \in {"open", "responding", "omitted", "sent", "failed"} <=> q \in arrival

(* A response sender the runtime daemon still holds has its receiver: the   *)
(* response future outlives the request's timeout, so sending an            *)
(* acknowledgment late never fails (the expect of echo.rs:88).              *)
AckDeliverable == \A q \in Requests : tx[q] = "held" => q \in pending_responses

(* What a caller may rely on (negotiation.rs:93, echo.rs:92): no request    *)
(* yields two results, a positive one only if the target's daemon answered  *)
(* that very request, and a listening caller of a sent call that has no     *)
(* request pending has heard of every target.                               *)
ResultsSound ==
    /\ \A q \in Requests :
          /\ Len(delivered[q]) <= 1
          /\ delivered[q] = <<"ok">> => tx[q] = "answered"
    /\ \A c \in Calls :
          /\ listener[c] = "open"
          /\ \A k \in DOMAIN from_service : from_service[k] # c
          /\ Of(c) \cap pending_requests = {}
          => \A p \in targets[c] : delivered[<<c, p>>] # <<>>

(* A caller is owed a result from each target of its call.  Those of a      *)
(* broadcast include every peer that connected before the worker came to    *)
(* it, configured or not, and still connected or not (discovery.rs:164,     *)
(* :174).                                                                   *)
Owed(q) ==
    \/ q[2] \in targets[q[1]]
    \/ q[1] \in wide /\ q[2] \in known /\ \E k \in DOMAIN from_service : from_service[k] = q[1]

(* A debt stands: no connection, no other call, and not the worker when it  *)
(* comes to a broadcast (service.rs:177) strikes out a peer.  So, by        *)
(* ResultsSound, it is paid once the call is sent and nothing is pending.   *)
DebtsStand == [][\A q \in Requests : Owed(q) => Owed(q)']_vars

(* And every debt is settled, whatever the servers do: a daemon that never  *)
(* answers cannot keep a caller waiting (request_timeout, broadcast.rs:91). *)
EventuallyResolved ==
    \A q \in Requests :
        (listener[q[1]] = "open" /\ Owed(q)) ~> (listener[q[1]] = "gone" \/ delivered[q] # <<>>)

(* The books, timers, channels and crossing failures of both sides together *)
(* implement RequestResponse.                                               *)
Promise == INSTANCE RequestResponse WITH
    phase <- [q \in Requests |-> IF out[q] = "idle" THEN "idle"
                                 ELSE IF out[q] = "closed" THEN "done" ELSE "pending"],
    answered <- {q \in Requests : tx[q] = "answered"},
    told <- delivered
KeepsPromise == Promise!Spec

(* Arrival times are not leaked for requests that are never answered: a     *)
(* node that has nothing more to serve keeps none.                          *)
ArrivalsForgotten == []<>(arrival = {})

=============================================================================
