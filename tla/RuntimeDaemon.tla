--------------------------- MODULE RuntimeDaemon ---------------------------
(***************************************************************************)
(* The runtime daemon of one node (node/runtime): the select loop of       *)
(* RuntimeDaemon::run and the four futures that own a room's receiver in   *)
(* turn, Phase1Channel, Phase2Chan, NegotiationChan and ReceiverProxy.     *)
(*                                                                         *)
(* The daemon is one cooperative task, so every poll is one atomic step.   *)
(* `channel.await` and `negotiation.await` sit inside a branch of the      *)
(* select loop: while a room is in one of them no other future of the      *)
(* daemon is polled (operator Idle).                                       *)
(*                                                                         *)
(* A peer is any other node; what peers send, and when, is the             *)
(* environment (action Deliver).  Payloads are abstracted to the kinds of  *)
(* message the handlers tell apart.                                        *)
(***************************************************************************)
EXTENDS Naturals, Sequences, FiniteSets

CONSTANTS
    Rooms,      \* rooms the node was deployed with
    Requests,   \* identities of RPC calls; an answered one may be used again
    Peers,      \* the other nodes
    Size,       \* Size[q]: the `n` of request q, the local node included
    MaxInbox    \* bound: messages waiting in a room's receiver

ASSUME RequestsAssumption == {"empty", "closed", "none", "remote"} \cap Requests = {}
ASSUME SizeAssumption == Size \in [Requests -> Nat]
ASSUME MaxInboxAssumption == MaxInbox \in Nat

VARIABLES
    daemon, \* "running", or "panicked" once its task has
    chan,   \* which future owns the room's receiver
    inbox,  \* the room's receiver: messages the network worker queued
    rpc,    \* the room's entry of rooms_rpc: no entry, a sender whose
            \* Phase1Channel still listens, or one whose receiver is gone
    slot,   \* the oneshot of the room's Phase1Channel: nothing sent yet, the
            \* request that was sent, or sender dropped / no Phase1Channel
    peers,  \* NegotiationState.peers or ReceiverProxy.parties, without self
    exec,   \* the room's entry of protocol_executions; "poisoned" once a
            \* message that is not the protocol's waits for the agent
    holder, \* the request whose on_done the negotiation or execution holds
    reply   \* per request: "none", "queued" (in from_service), "held"
            \* (on_done owned by a slot or a holder), or its answer

vars == <<daemon, chan, inbox, rpc, slot, peers, exec, holder, reply>>

-----------------------------------------------------------------------------
(* Messages.  All but "p2p" carry MessageType::Coordination: proposals and  *)
(* start messages, but MPC broadcasts ("round") too.  "foreign" is a        *)
(* proposal whose protocol id the agent factory does not know.  A start     *)
(* message names the other chosen parties, its sender among them.           *)

Plain == [kind : {"proposal", "foreign", "round", "p2p"}, from : Peers]
Starts == [kind : {"start"}, from : Peers, parties : SUBSET Peers]
Messages == Plain \cup {m \in Starts : m.from \in m.parties}

Answers == {"ok", "failed", "busy", "unknown", "canceled"}

Alive == daemon = "running"

(* The daemon is in its select loop, not inside channel.await/negotiation.await. *)
Idle == Alive /\ \A r \in Rooms : chan[r] \notin {"phase2", "negotiation"}

(* Dropping an on_done cancels its request. *)
Drop(q) == IF q \in Requests THEN [reply EXCEPT ![q] = "canceled"] ELSE reply

(* A panic ends the task: every on_done it owns, and every one still queued *)
(* for it, is dropped with it.                                              *)
Panic ==
    /\ daemon' = "panicked"
    /\ reply' = [q \in Requests |->
                    IF reply[q] \in {"queued", "held"} THEN "canceled" ELSE reply[q]]
    /\ UNCHANGED <<chan, inbox, rpc, slot, peers, exec, holder>>

(* A new Phase1Channel whose sender is inserted into rooms_rpc. *)
Reopen(r) ==
    /\ chan' = [chan EXCEPT ![r] = "phase1"]
    /\ slot' = [slot EXCEPT ![r] = "empty"]
    /\ rpc' = [rpc EXCEPT ![r] = "live"]

Receive(r) == inbox' = [inbox EXCEPT ![r] = Tail(@)]

TypeOK ==
    /\ daemon \in {"running", "panicked"}
    /\ chan \in [Rooms -> {"phase1", "phase2", "negotiation", "proxy"}]
    /\ inbox \in [Rooms -> Seq(Messages)]
    /\ rpc \in [Rooms -> {"absent", "live", "canceled"}]
    /\ slot \in [Rooms -> Requests \cup {"empty", "closed"}]
    /\ peers \in [Rooms -> SUBSET Peers]
    /\ exec \in [Rooms -> {"none", "running", "poisoned"}]
    /\ holder \in [Rooms -> Requests \cup {"none"}]
    /\ reply \in [Requests -> {"none", "queued", "held"} \cup Answers]

Init ==
    /\ daemon = "running"
    /\ chan = [r \in Rooms |-> "phase1"]
    /\ inbox = [r \in Rooms |-> <<>>]
    /\ rpc = [r \in Rooms |-> "live"]
    /\ slot = [r \in Rooms |-> "empty"]
    /\ peers = [r \in Rooms |-> {}]
    /\ exec = [r \in Rooms |-> "none"]
    /\ holder = [r \in Rooms |-> "none"]
    /\ reply = [q \in Requests |-> "none"]

-----------------------------------------------------------------------------
(* Environment: RPC clients and the network worker.                         *)

(* RuntimeService::request_computation.  Once the daemon is gone the send   *)
(* panics in the RPC task, which drops on_done.                             *)
Submit(q) ==
    /\ reply[q] \in {"none"} \cup Answers
    /\ reply' = [reply EXCEPT ![q] = IF Alive THEN "queued" ELSE "canceled"]
    /\ UNCHANGED <<daemon, chan, inbox, rpc, slot, peers, exec, holder>>

(* The network worker queues a request of a peer on the room's channel. *)
Deliver(r, m) ==
    /\ Alive
    /\ Len(inbox[r]) < MaxInbox
    /\ inbox' = [inbox EXCEPT ![r] = Append(@, m)]
    /\ UNCHANGED <<daemon, chan, rpc, slot, peers, exec, holder, reply>>

-----------------------------------------------------------------------------
(* The service branch of the select loop.  The room, and whether the agent  *)
(* factory knows the protocol, are parameters of the call that are read     *)
(* here for the first time.                                                 *)

(* rooms_rpc has no entry for the room, or for no such room. *)
ServeVacant(q, r) ==
    /\ r \in Rooms => rpc[r] = "absent"
    /\ reply' = [reply EXCEPT ![q] = "busy"]
    /\ UNCHANGED <<rpc, slot>>

(* agents_factory.make fails: the entry stays. *)
ServeUnknown(q, r) ==
    /\ r \in Rooms /\ rpc[r] # "absent"
    /\ reply' = [reply EXCEPT ![q] = "unknown"]
    /\ UNCHANGED <<rpc, slot>>

(* e.remove(), then the canceled check on the sender that was removed. *)
ServeOccupied(q, r) ==
    /\ r \in Rooms /\ rpc[r] # "absent"
    /\ rpc' = [rpc EXCEPT ![r] = "absent"]
    /\ \/ /\ rpc[r] = "canceled"
          /\ reply' = [reply EXCEPT ![q] = "busy"]
          /\ UNCHANGED slot
       \/ /\ rpc[r] = "live"
          /\ reply' = [reply EXCEPT ![q] = "held"]
          /\ slot' = [slot EXCEPT ![r] = q]

HandleService(q) ==
    /\ Idle
    /\ reply[q] = "queued"
    /\ \E r \in Rooms \cup {"none"} :
          ServeVacant(q, r) \/ ServeUnknown(q, r) \/ ServeOccupied(q, r)
    /\ UNCHANGED <<daemon, chan, inbox, peers, exec, holder>>

-----------------------------------------------------------------------------
(* Phase1Channel::poll and what the coordination branch does with its       *)
(* result before the next await.  The queue is looked at first.             *)

(* Faulty variants of Phase1FromRemote: the sender in rooms_rpc passes for  *)
(* a live one; a request already in the oneshot is not dropped with it.     *)
Phase1FromRemoteStaleSender(r) ==
    /\ Head(inbox[r]).kind \in {"proposal", "start", "round"}
    /\ Receive(r)
    /\ chan' = [chan EXCEPT ![r] = "phase2"]
    /\ slot' = [slot EXCEPT ![r] = "closed"]
    /\ reply' = Drop(slot[r])
    /\ UNCHANGED <<daemon, rpc, peers, exec, holder>>

Phase1FromRemoteForgets(r) ==
    /\ Head(inbox[r]).kind \in {"proposal", "start", "round"}
    /\ Receive(r)
    /\ chan' = [chan EXCEPT ![r] = "phase2"]
    /\ rpc' = [rpc EXCEPT ![r] = IF @ = "live" THEN "canceled" ELSE @]
    /\ slot' = [slot EXCEPT ![r] = "closed"]
    /\ UNCHANGED <<daemon, peers, exec, holder, reply>>

(* FromRemote: the Phase1Channel is consumed, its oneshot receiver dropped  *)
(* with whatever was sent into it, and the proposal answered.               *)
Phase1FromRemote(r) ==
    /\ Head(inbox[r]).kind \in {"proposal", "start", "round"}
    /\ Receive(r)
    /\ chan' = [chan EXCEPT ![r] = "phase2"]
    /\ rpc' = [rpc EXCEPT ![r] = IF @ = "live" THEN "canceled" ELSE @]
    /\ slot' = [slot EXCEPT ![r] = "closed"]
    /\ reply' = Drop(slot[r])
    /\ UNCHANGED <<daemon, peers, exec, holder>>

(* FromRemote with an unknown protocol: channel.abort() and a fresh entry. *)
Phase1Foreign(r) ==
    /\ Head(inbox[r]).kind = "foreign"
    /\ Receive(r)
    /\ Reopen(r)
    /\ reply' = Drop(slot[r])
    /\ UNCHANGED <<daemon, peers, exec, holder>>

(* MessageType::Computation in Phase 1. *)
Phase1Unexpected(r) == Head(inbox[r]).kind = "p2p" /\ Panic

(* Faulty variant: a oneshot with nothing in it is taken for a request. *)
Phase1FromLocalEmpty(r) ==
    /\ slot[r] # "closed"
    /\ chan' = [chan EXCEPT ![r] = "negotiation"]
    /\ holder' = [holder EXCEPT ![r] = slot[r]]
    /\ slot' = [slot EXCEPT ![r] = "closed"]
    /\ UNCHANGED <<daemon, inbox, rpc, peers, exec, reply>>

(* FromLocal: the request moves into a NegotiationChan. *)
Phase1FromLocal(r) ==
    /\ slot[r] \in Requests
    /\ chan' = [chan EXCEPT ![r] = "negotiation"]
    /\ holder' = [holder EXCEPT ![r] = slot[r]]
    /\ slot' = [slot EXCEPT ![r] = "closed"]
    /\ UNCHANGED <<daemon, inbox, rpc, peers, exec, reply>>

(* try_recv().unwrap() on a oneshot whose sender was dropped. *)
Phase1SenderDropped(r) == slot[r] = "closed" /\ Panic

Phase1Poll(r) ==
    /\ Idle
    /\ chan[r] = "phase1"
    /\ \/ /\ inbox[r] # <<>>
          /\ Phase1FromRemote(r) \/ Phase1Foreign(r) \/ Phase1Unexpected(r)
       \/ /\ inbox[r] = <<>>
          /\ Phase1FromLocal(r) \/ Phase1SenderDropped(r)

-----------------------------------------------------------------------------
(* Phase2Chan::poll and the two arms of `match channel.await`.              *)

(* Abort: a new Phase1Channel, but and_modify stores its sender only if the *)
(* room still has an entry; otherwise the sender is dropped.                *)
Phase2Abort(r) ==
    /\ chan' = [chan EXCEPT ![r] = "phase1"]
    /\ IF rpc[r] = "absent"
       THEN UNCHANGED <<rpc, slot>>
       ELSE /\ rpc' = [rpc EXCEPT ![r] = "live"]
            /\ slot' = [slot EXCEPT ![r] = "empty"]

(* The start message decodes: proxy and execution, no on_done to serve. *)
Phase2Start(r) ==
    /\ Head(inbox[r]).kind = "start"
    /\ Receive(r)
    /\ chan' = [chan EXCEPT ![r] = "proxy"]
    /\ peers' = [peers EXCEPT ![r] = Head(inbox[r]).parties]
    /\ exec' = [exec EXCEPT ![r] = "running"]
    /\ UNCHANGED <<daemon, rpc, slot, holder, reply>>

(* Another coordination message does not decode as a start message. *)
Phase2Undecodable(r) ==
    /\ Head(inbox[r]).kind \in {"proposal", "foreign", "round"}
    /\ Receive(r)
    /\ Phase2Abort(r)
    /\ UNCHANGED <<daemon, peers, exec, holder, reply>>

(* A direct message panics; so may the payload of an MPC broadcast, when    *)
(* its bytes pass for a peerset and PeerId::from_bytes(..).unwrap() fails.   *)
Phase2Unexpected(r) == Head(inbox[r]).kind \in {"p2p", "round"} /\ Panic

(* Faulty variant: a proposer that stays away is waited for without end. *)
Phase2TimeoutNever(r) == FALSE /\ Phase2Abort(r)

Phase2Timeout(r) ==
    /\ Phase2Abort(r)
    /\ UNCHANGED <<daemon, inbox, peers, exec, holder, reply>>

Phase2Poll(r) ==
    /\ Alive
    /\ chan[r] = "phase2"
    /\ \/ /\ inbox[r] # <<>>
          /\ Phase2Start(r) \/ Phase2Undecodable(r) \/ Phase2Unexpected(r)
       \/ inbox[r] = <<>> /\ Phase2Timeout(r)

-----------------------------------------------------------------------------
(* NegotiationChan::poll and the two arms of `match negotiation.await`.     *)

(* One positive response; the one that completes the set starts the         *)
(* execution.  Every peer is asked once, so it answers at most once.        *)
NegotiationJoin(r, p) ==
    LET joined == peers[r] \cup {p} IN
    /\ Alive
    /\ chan[r] = "negotiation"
    /\ p \notin peers[r]
    /\ peers' = [peers EXCEPT ![r] = joined]
    /\ \/ /\ Cardinality(joined) + 1 = Size[holder[r]]
          /\ chan' = [chan EXCEPT ![r] = "proxy"]
          /\ exec' = [exec EXCEPT ![r] = "running"]
       \/ /\ Cardinality(joined) + 1 # Size[holder[r]]
          /\ UNCHANGED <<chan, exec>>
    /\ UNCHANGED <<daemon, inbox, rpc, slot, holder, reply>>

(* Faulty variant: the client of a negotiation that timed out hears nothing. *)
NegotiationTimeoutSilent(r) ==
    /\ Alive
    /\ chan[r] = "negotiation"
    /\ Reopen(r)
    /\ peers' = [peers EXCEPT ![r] = {}]
    /\ holder' = [holder EXCEPT ![r] = "none"]
    /\ UNCHANGED <<daemon, inbox, exec, reply>>

(* The 15 s interval fires: on_done is dropped with the negotiation state. *)
NegotiationTimeout(r) ==
    /\ Alive
    /\ chan[r] = "negotiation"
    /\ Reopen(r)
    /\ peers' = [peers EXCEPT ![r] = {}]
    /\ holder' = [holder EXCEPT ![r] = "none"]
    /\ reply' = Drop(holder[r])
    /\ UNCHANGED <<daemon, inbox, exec>>

(* First poll with n = 0: `n - 1` panics where overflow checks are on.  With *)
(* them off it wraps, and the negotiation goes on until it times out.        *)
NegotiationUnderflow(r) ==
    /\ Alive
    /\ chan[r] = "negotiation"
    /\ Size[holder[r]] = 0
    /\ peers[r] = {}
    /\ Panic

-----------------------------------------------------------------------------
(* ReceiverProxy::poll, and the execution as the daemon sees it.            *)

(* A message of a party is forwarded (or lost, if the execution's channel   *)
(* is full); one that is not the protocol's will make the agent panic.      *)
ProxyForward(r) ==
    LET m == Head(inbox[r]) IN
    /\ Idle
    /\ chan[r] = "proxy" /\ exec[r] # "none"
    /\ inbox[r] # <<>>
    /\ \/ /\ m.from \in peers[r]
          /\ Receive(r)
          /\ \/ UNCHANGED exec
             \/ /\ m.kind \in {"proposal", "foreign", "start"}
                /\ exec' = [exec EXCEPT ![r] = "poisoned"]
          /\ UNCHANGED <<daemon, chan, rpc, slot, peers, holder, reply>>
       \/ m.from \notin peers[r] /\ Panic

(* Faulty variant: the proxy returns while its execution still runs. *)
ProxyReturnEarly(r) ==
    /\ Idle
    /\ chan[r] = "proxy"
    /\ Reopen(r)
    /\ peers' = [peers EXCEPT ![r] = {}]
    /\ UNCHANGED <<daemon, inbox, exec, holder, reply>>

(* tx.is_closed(): the execution is gone, back to Phase 1. *)
ProxyReturn(r) ==
    /\ Idle
    /\ chan[r] = "proxy" /\ exec[r] = "none"
    /\ Reopen(r)
    /\ peers' = [peers EXCEPT ![r] = {}]
    /\ UNCHANGED <<daemon, inbox, exec, holder, reply>>

(* The agent returns Ok or Err, or the echo gadget fails, which drops the   *)
(* execution and on_done with it.                                           *)
ExecFinish(r, outcome) ==
    /\ Idle
    /\ exec[r] # "none"
    /\ exec' = [exec EXCEPT ![r] = "none"]
    /\ holder' = [holder EXCEPT ![r] = "none"]
    /\ reply' = IF holder[r] \in Requests
                THEN [reply EXCEPT ![holder[r]] = outcome] ELSE reply
    /\ UNCHANGED <<daemon, chan, inbox, rpc, slot, peers>>

(* The agent decodes a message that is not the protocol's and unwraps. *)
ExecPanic(r) == Idle /\ exec[r] = "poisoned" /\ Panic

-----------------------------------------------------------------------------
Next ==
    \/ \E q \in Requests : Submit(q) \/ HandleService(q)
    \/ \E r \in Rooms :
          \/ \E m \in Messages : Deliver(r, m)
          \/ Phase1Poll(r)
          \/ Phase2Poll(r)
          \/ \E p \in Peers : NegotiationJoin(r, p)
          \/ NegotiationTimeout(r)
          \/ NegotiationUnderflow(r)
          \/ ProxyForward(r)
          \/ ProxyReturn(r)
          \/ \E outcome \in {"ok", "failed", "canceled"} : ExecFinish(r, outcome)
          \/ ExecPanic(r)

Spec == Init /\ [][Next]_vars

(* Fairness.  Every future wakes its task again, so an awaited room is      *)
(* polled until it is done (WF), and the intervals fire.  In the select     *)
(* loop the branches are polled in random order and compete with each       *)
(* other and with awaits that block all of them: strong fairness.  Nothing  *)
(* is assumed of executions, of peers or of clients.                        *)
Fairness ==
    /\ \A q \in Requests : SF_vars(HandleService(q))
    /\ \A r \in Rooms :
          /\ SF_vars(Phase1Poll(r))
          /\ WF_vars(Phase2Poll(r))
          /\ WF_vars(NegotiationTimeout(r))
          /\ SF_vars(ProxyReturn(r))

FairSpec == Spec /\ Fairness

-----------------------------------------------------------------------------
(* Properties.                                                              *)

(* The room's entry of rooms_rpc is usable exactly when somebody listens:   *)
(* a sender that would be accepted belongs to a Phase1Channel that is       *)
(* waiting with an empty oneshot, and every such channel has its sender in  *)
(* the map.  This is what makes `is_canceled` (runtime.rs:136) a correct    *)
(* busy test over all the places that remove, insert and modify entries.    *)
RpcHandle ==
    Alive => \A r \in Rooms :
                /\ rpc[r] = "live" <=> chan[r] = "phase1" /\ slot[r] = "empty"
                /\ rpc[r] = "canceled" => chan[r] # "phase1"

Owns(r, q) == slot[r] = q \/ holder[r] = q

(* Every accepted request's on_done is owned by exactly one room, either by *)
(* its Phase1Channel or by its negotiation or execution, and an on_done     *)
(* that somebody owns has not been answered: no client waits for a sender   *)
(* that is gone, and none is answered twice (the moves of LocalRpcMsg       *)
(* through coordination.rs, negotiation.rs and execution.rs).               *)
OnDoneOwned ==
    Alive => \A q \in Requests :
                /\ reply[q] = "held" <=> \E r \in Rooms : Owns(r, q)
                /\ \A r1, r2 \in Rooms :
                      Owns(r1, q) /\ Owns(r2, q) => r1 = r2
                /\ \A r \in Rooms : ~(slot[r] = q /\ holder[r] = q)

(* "parties synchronously run MPC (one at the time)" in a room              *)
(* (README.md:22): while an execution runs the room's receiver stays with   *)
(* its proxy, so no coordination can start another one, and a proposer's    *)
(* execution has exactly the n parties its client asked for.                *)
OneAtATime ==
    Alive => \A r \in Rooms :
                exec[r] # "none" =>
                   /\ chan[r] = "proxy"
                   /\ peers[r] # {}
                   /\ holder[r] \in Requests =>
                         Cardinality(peers[r]) + 1 = Size[holder[r]]

(* What all this comes to for the clients of a node: the daemon implements  *)
(* RoomService, the moves of on_done and of a room's receiver being         *)
(* internal (runtime.rs:114-258).                                           *)
Service == INSTANCE RoomService WITH
    reply <- [q \in Requests |->
                 IF reply[q] \in {"queued", "held"} THEN "waiting" ELSE reply[q]],
    running <- [r \in Rooms |->
                 IF ~Alive \/ exec[r] = "none" THEN "none"
                 ELSE IF holder[r] = "none" THEN "remote" ELSE holder[r]]
ServesRooms == Service!Spec

(* Every request is eventually answered or its computation is running: no   *)
(* order of remote proposals, timeouts and other requests starves it        *)
(* (select loop, runtime.rs:114-258).                                       *)
EventuallyServed ==
    \A q \in Requests :
        (reply[q] \in {"queued", "held"}) ~>
            (reply[q] \in Answers \/ \E r \in Rooms : holder[r] = q /\ exec[r] # "none")

(* A Phase1Channel always has its sender: the unwrap of coordination.rs:77  *)
(* never meets a canceled oneshot, and a room that is "returning to Phase   *)
(* 1" (coordination.rs:172) takes RPC calls again.                          *)
PhaseOneListens ==
    Alive => \A r \in Rooms : chan[r] = "phase1" => slot[r] # "closed"

=============================================================================
