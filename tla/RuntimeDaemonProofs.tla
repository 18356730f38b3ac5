------------------------ MODULE RuntimeDaemonProofs ------------------------
(***************************************************************************)
(* Safety of RuntimeDaemon for every set of rooms, requests and peers.     *)
(*                                                                         *)
(* None of the three properties is inductive alone.  That an on_done has   *)
(* one owner depends on which future may own one in which phase (a slot    *)
(* with a request exists only in Phase 1, a holder only in negotiation or  *)
(* behind a proxy), and that in turn on when an execution can exist.       *)
(* IndInv collects these facts.                                            *)
(*                                                                         *)
(* The same facts make the daemon a RoomService: that no computation goes  *)
(* on for a request when it is refused is again a question of ownership.   *)
(***************************************************************************)
EXTENDS RuntimeDaemon, TLAPS

(* Which parts of a room's state may coexist. *)
RoomShape(r) ==
    /\ rpc[r] = "live" <=> chan[r] = "phase1" /\ slot[r] = "empty"
    /\ rpc[r] = "canceled" => chan[r] # "phase1"
    /\ chan[r] # "phase1" => slot[r] = "closed"
    /\ chan[r] = "negotiation" <=> holder[r] \in Requests /\ exec[r] = "none"
    /\ exec[r] # "none" => chan[r] = "proxy" /\ peers[r] # {}
    /\ exec[r] # "none" /\ holder[r] \in Requests =>
          Cardinality(peers[r]) + 1 = Size[holder[r]]

(* The owner of an on_done is unique, and owned means held. *)
Ownership ==
    /\ \A q \in Requests : reply[q] = "held" => \E r \in Rooms : Owns(r, q)
    /\ \A r \in Rooms, q \in Requests : Owns(r, q) => reply[q] = "held"
    /\ \A r1, r2 \in Rooms, q \in Requests : Owns(r1, q) /\ Owns(r2, q) => r1 = r2

IndInv == TypeOK /\ (Alive => Ownership /\ \A r \in Rooms : RoomShape(r))

(* The initial state of run(): every room in Phase 1, nothing requested. *)
LEMMA InitIndInv == Init => IndInv
  BY RequestsAssumption
     DEF Init, IndInv, TypeOK, Ownership, RoomShape, Owns, Answers

(* A panic of the daemon's task. *)
LEMMA PanicIndInv == ASSUME IndInv, Panic PROVE IndInv'
  <1>1. TypeOK'
    BY DEF IndInv, Alive, TypeOK, Panic, Answers
  <1>2. ~Alive'
    BY DEF Panic, Alive
  <1>3. QED
    BY <1>1, <1>2 DEF IndInv, Alive

(* Requests and messages entering the node. *)
LEMMA SubmitIndInv ==
  ASSUME IndInv, NEW q \in Requests, Submit(q) PROVE IndInv'
  BY RequestsAssumption
     DEF IndInv, Alive, TypeOK, Ownership, RoomShape, Owns, Answers, Submit

(* The network worker queues a message: only the room's inbox grows. *)
LEMMA DeliverIndInv ==
  ASSUME IndInv, NEW r \in Rooms, NEW m \in Messages, Deliver(r, m) PROVE IndInv'
  <1>1. TypeOK'
    BY DEF IndInv, Alive, TypeOK, Deliver
  <1>2. Ownership' /\ \A x \in Rooms : RoomShape(x)'
    BY DEF IndInv, Alive, Ownership, RoomShape, Owns, Deliver
  <1>3. QED
    BY <1>1, <1>2 DEF IndInv, Alive

(* The service branch. *)
LEMMA HandleServiceIndInv ==
  ASSUME IndInv, NEW q \in Requests, HandleService(q) PROVE IndInv'
  <1> USE RequestsAssumption
  <1>1. Alive /\ TypeOK /\ Ownership /\ \A x \in Rooms : RoomShape(x)
    BY DEF IndInv, HandleService, Idle
  <1>2. PICK r \in Rooms \cup {"none"} :
          ServeVacant(q, r) \/ ServeUnknown(q, r) \/ ServeOccupied(q, r)
    BY DEF HandleService
  <1>3. UNCHANGED <<daemon, chan, inbox, peers, exec, holder>> /\ reply[q] = "queued"
    BY DEF HandleService
  <1>4. CASE ServeVacant(q, r) \/ ServeUnknown(q, r)
    <2>1. UNCHANGED <<rpc, slot>>
      BY <1>4 DEF ServeVacant, ServeUnknown
    <2>2. PICK a \in Answers : reply' = [reply EXCEPT ![q] = a]
      BY <1>4 DEF ServeVacant, ServeUnknown, Answers
    <2>3. TypeOK'
      BY <1>1, <1>3, <2>1, <2>2 DEF TypeOK
    <2>4. Ownership'
      BY <1>1, <1>3, <2>1, <2>2 DEF Ownership, Owns, TypeOK, Answers
    <2>5. ASSUME NEW x \in Rooms PROVE RoomShape(x)'
      BY <1>1, <1>3, <2>1 DEF RoomShape
    <2>6. QED
      BY <2>3, <2>4, <2>5 DEF IndInv
  <1>5. CASE ServeOccupied(q, r)
    <2>1. r \in Rooms /\ rpc' = [rpc EXCEPT ![r] = "absent"]
      BY <1>5 DEF ServeOccupied
    <2>2. CASE rpc[r] = "canceled"
      <3>1. reply' = [reply EXCEPT ![q] = "busy"] /\ slot' = slot
        BY <1>5, <2>2 DEF ServeOccupied
      <3>2. TypeOK'
        BY <1>1, <1>3, <2>1, <3>1 DEF TypeOK, Answers
      <3>3. Ownership'
        BY <1>1, <1>3, <3>1 DEF Ownership, Owns, TypeOK
      <3>4. ASSUME NEW x \in Rooms PROVE RoomShape(x)'
        BY <1>1, <1>3, <2>1, <2>2, <3>1 DEF RoomShape, TypeOK
      <3>5. QED
        BY <3>2, <3>3, <3>4 DEF IndInv
    <2>3. CASE rpc[r] = "live"
      <3>1. reply' = [reply EXCEPT ![q] = "held"] /\ slot' = [slot EXCEPT ![r] = q]
        BY <1>5, <2>3 DEF ServeOccupied
      <3>2. TypeOK'
        BY <1>1, <1>3, <2>1, <3>1 DEF TypeOK
      <3>3. Ownership'
        <4>1. slot[r] = "empty"
          BY <1>1, <2>1, <2>3 DEF RoomShape
        <4>2. \A x \in Rooms : ~Owns(x, q)
          BY <1>1, <1>3 DEF Ownership
        <4>3. QED
          BY <1>1, <1>3, <2>1, <3>1, <4>1, <4>2 DEF Ownership, Owns, TypeOK
      <3>4. ASSUME NEW x \in Rooms PROVE RoomShape(x)'
        BY <1>1, <1>3, <2>1, <2>3, <3>1 DEF RoomShape, TypeOK
      <3>5. QED
        BY <3>2, <3>3, <3>4 DEF IndInv
    <2>4. QED
      BY <1>1, <1>5, <2>2, <2>3 DEF ServeOccupied
  <1>6. QED
    BY <1>2, <1>4, <1>5

(* Taking the head of a room's receiver. *)
LEMMA ReceiveTyped ==
  ASSUME TypeOK, NEW r \in Rooms, inbox[r] # <<>>, Receive(r)
  PROVE  /\ inbox' \in [Rooms -> Seq(Messages)]
         /\ Head(inbox[r]) \in Messages
  <1>1. inbox[r] \in Seq(Messages)
    BY DEF TypeOK
  <1>2. Head(inbox[r]) \in Messages /\ Tail(inbox[r]) \in Seq(Messages)
    BY <1>1
  <1>3. QED
    BY <1>2 DEF Receive, TypeOK

(* A Phase1Channel that goes away takes the request in its oneshot with it. *)
LEMMA ReleaseSlot ==
  ASSUME TypeOK, Ownership, NEW r \in Rooms,
         NEW s \in {"empty", "closed"}, slot' = [slot EXCEPT ![r] = s],
         holder' = holder, holder[r] \notin Requests, reply' = Drop(slot[r])
  PROVE  /\ Ownership'
         /\ reply' \in [Requests -> {"none", "queued", "held"} \cup Answers]
         /\ slot' \in [Rooms -> Requests \cup {"empty", "closed"}]
  <1> USE RequestsAssumption
  <1>1. s \notin Requests
    OBVIOUS
  <1>2. CASE slot[r] \in Requests
    <2>1. reply' = [reply EXCEPT ![slot[r]] = "canceled"]
      BY <1>2 DEF Drop
    <2>2. Ownership'
      BY <1>1, <1>2, <2>1 DEF Ownership, Owns, TypeOK
    <2>3. QED
      BY <1>2, <2>1, <2>2 DEF TypeOK, Answers
  <1>3. CASE slot[r] \notin Requests
    <2>1. reply' = reply
      BY <1>3 DEF Drop
    <2>2. Ownership'
      BY <1>1, <1>3, <2>1 DEF Ownership, Owns, TypeOK
    <2>3. QED
      BY <2>1, <2>2 DEF TypeOK
  <1>4. QED
    BY <1>2, <1>3

(* A negotiation or execution that ends gives its on_done an answer. *)
LEMMA ReleaseHolder ==
  ASSUME TypeOK, Ownership, NEW r \in Rooms, NEW a \in Answers,
         slot' = slot \/ (slot' = [slot EXCEPT ![r] = "empty"]),
         slot[r] \notin Requests,
         holder' = [holder EXCEPT ![r] = "none"],
         reply' = IF holder[r] \in Requests
                  THEN [reply EXCEPT ![holder[r]] = a] ELSE reply
  PROVE  /\ Ownership'
         /\ reply' \in [Requests -> {"none", "queued", "held"} \cup Answers]
         /\ holder' \in [Rooms -> Requests \cup {"none"}]
  <1> USE RequestsAssumption
  <1>0. a # "held"
    BY DEF Answers
  <1>1. \A x \in Rooms, q \in Requests : slot'[x] = q <=> slot[x] = q
    BY DEF TypeOK
  <1>2. CASE holder[r] \in Requests
    <2>1. reply' = [reply EXCEPT ![holder[r]] = a]
      BY <1>2
    <2>2. Ownership'
      BY <1>0, <1>1, <1>2, <2>1 DEF Ownership, Owns, TypeOK
    <2>3. QED
      BY <1>2, <2>1, <2>2 DEF TypeOK
  <1>3. CASE holder[r] \notin Requests
    <2>1. Ownership'
      BY <1>1, <1>3 DEF Ownership, Owns, TypeOK
    <2>2. QED
      BY <1>3, <2>1 DEF TypeOK
  <1>4. QED
    BY <1>2, <1>3

(* Phase1Channel::poll. *)
LEMMA Phase1PollIndInv ==
  ASSUME IndInv, NEW r \in Rooms, Phase1Poll(r) PROVE IndInv'
  <1> USE RequestsAssumption
  <1>1. Alive /\ TypeOK /\ Ownership /\ \A x \in Rooms : RoomShape(x)
    BY DEF IndInv, Phase1Poll, Idle
  <1>2. chan[r] = "phase1" /\ holder[r] \notin Requests /\ exec[r] = "none"
    BY <1>1 DEF Phase1Poll, RoomShape, TypeOK
  <1>3. CASE inbox[r] # <<>> /\ Phase1FromRemote(r)
    <2>1. Ownership' /\ inbox' \in [Rooms -> Seq(Messages)]
      BY <1>1, <1>2, <1>3, ReleaseSlot, ReceiveTyped DEF Phase1FromRemote
    <2>2. TypeOK'
      BY <1>1, <1>2, <1>3, <2>1, ReleaseSlot DEF TypeOK, Phase1FromRemote
    <2>3. ASSUME NEW x \in Rooms PROVE RoomShape(x)'
      BY <1>1, <1>2, <1>3 DEF RoomShape, TypeOK, Phase1FromRemote
    <2>4. QED
      BY <2>1, <2>2, <2>3 DEF IndInv
  <1>4. CASE inbox[r] # <<>> /\ Phase1Foreign(r)
    <2>1. Ownership' /\ inbox' \in [Rooms -> Seq(Messages)]
      BY <1>1, <1>2, <1>4, ReleaseSlot, ReceiveTyped DEF Phase1Foreign, Reopen
    <2>2. TypeOK'
      BY <1>1, <1>2, <1>4, <2>1, ReleaseSlot DEF TypeOK, Phase1Foreign, Reopen
    <2>3. ASSUME NEW x \in Rooms PROVE RoomShape(x)'
      BY <1>1, <1>2, <1>4 DEF RoomShape, TypeOK, Phase1Foreign, Reopen
    <2>4. QED
      BY <2>1, <2>2, <2>3 DEF IndInv
  <1>5. CASE Phase1FromLocal(r)
    <2>1. TypeOK'
      BY <1>1, <1>5 DEF TypeOK, Phase1FromLocal
    <2>2. Ownership'
      BY <1>1, <1>2, <1>5 DEF Ownership, Owns, TypeOK, Phase1FromLocal
    <2>3. ASSUME NEW x \in Rooms PROVE RoomShape(x)'
      BY <1>1, <1>2, <1>5 DEF RoomShape, TypeOK, Phase1FromLocal
    <2>4. QED
      BY <2>1, <2>2, <2>3 DEF IndInv
  <1>6. CASE Phase1Unexpected(r) \/ Phase1SenderDropped(r)
    BY <1>6, PanicIndInv DEF Phase1Unexpected, Phase1SenderDropped
  <1>7. QED
    BY <1>3, <1>4, <1>5, <1>6 DEF Phase1Poll

(* Phase2Chan::poll; in the abort with no rooms_rpc entry the room stays    *)
(* with a closed oneshot, which IndInv allows.                              *)
LEMMA Phase2PollIndInv ==
  ASSUME IndInv, NEW r \in Rooms, Phase2Poll(r) PROVE IndInv'
  <1> USE RequestsAssumption
  <1>1. Alive /\ TypeOK /\ Ownership /\ \A x \in Rooms : RoomShape(x)
    BY DEF IndInv, Phase2Poll
  <1>2. /\ chan[r] = "phase2" /\ slot[r] = "closed" /\ exec[r] = "none"
        /\ holder[r] \notin Requests /\ rpc[r] # "live"
    BY <1>1 DEF Phase2Poll, RoomShape, TypeOK
  <1>3. CASE inbox[r] # <<>> /\ Phase2Start(r)
    <2>1. inbox' \in [Rooms -> Seq(Messages)] /\ Head(inbox[r]) \in Messages
      BY <1>1, <1>3, ReceiveTyped DEF Phase2Start
    <2>2. Head(inbox[r]).parties \in SUBSET Peers /\ Head(inbox[r]).parties # {}
      <3>1. Head(inbox[r]).kind = "start"
        BY <1>3 DEF Phase2Start
      <3>2. Head(inbox[r]) \in {m \in Starts : m.from \in m.parties}
        BY <2>1, <3>1 DEF Messages, Plain
      <3>3. QED
        BY <3>2 DEF Starts
    <2>3. TypeOK'
      BY <1>1, <1>3, <2>1, <2>2 DEF TypeOK, Phase2Start
    <2>4. Ownership'
      BY <1>1, <1>3 DEF Ownership, Owns, Phase2Start
    <2>5. ASSUME NEW x \in Rooms PROVE RoomShape(x)'
      BY <1>1, <1>2, <1>3, <2>2 DEF RoomShape, TypeOK, Phase2Start
    <2>6. QED
      BY <2>3, <2>4, <2>5 DEF IndInv
  <1>4. ASSUME Phase2Abort(r), UNCHANGED <<daemon, peers, exec, holder, reply>>,
               inbox' \in [Rooms -> Seq(Messages)]
        PROVE  IndInv'
    <2>1. TypeOK'
      BY <1>1, <1>4 DEF TypeOK, Phase2Abort
    <2>2. Ownership'
      BY <1>1, <1>2, <1>4 DEF Ownership, Owns, TypeOK, Phase2Abort
    <2>3. ASSUME NEW x \in Rooms PROVE RoomShape(x)'
      BY <1>1, <1>2, <1>4 DEF RoomShape, TypeOK, Phase2Abort
    <2>4. QED
      BY <2>1, <2>2, <2>3 DEF IndInv
  <1>5. CASE inbox[r] # <<>> /\ Phase2Undecodable(r)
    BY <1>1, <1>4, <1>5, ReceiveTyped DEF Phase2Undecodable
  <1>6. CASE Phase2Timeout(r)
    BY <1>1, <1>4, <1>6 DEF Phase2Timeout, TypeOK
  <1>7. CASE Phase2Unexpected(r)
    BY <1>7, PanicIndInv DEF Phase2Unexpected
  <1>8. QED
    BY <1>3, <1>5, <1>6, <1>7 DEF Phase2Poll

(* NegotiationChan::poll. *)
LEMMA NegotiationJoinIndInv ==
  ASSUME IndInv, NEW r \in Rooms, NEW p \in Peers, NegotiationJoin(r, p)
  PROVE  IndInv'
  <1> USE RequestsAssumption
  <1>1. Alive /\ TypeOK /\ Ownership /\ \A x \in Rooms : RoomShape(x)
    BY DEF IndInv, NegotiationJoin
  <1>2. chan[r] = "negotiation" /\ holder[r] \in Requests /\ exec[r] = "none"
    BY <1>1 DEF NegotiationJoin, RoomShape
  <1>3. TypeOK'
    BY <1>1 DEF TypeOK, NegotiationJoin
  <1>4. Ownership'
    BY <1>1 DEF Ownership, Owns, NegotiationJoin
  <1>5. ASSUME NEW x \in Rooms PROVE RoomShape(x)'
    BY <1>1, <1>2 DEF RoomShape, TypeOK, NegotiationJoin
  <1>6. QED
    BY <1>3, <1>4, <1>5 DEF IndInv

(* The negotiation is given up: its on_done is released and the room reopens. *)
LEMMA NegotiationTimeoutIndInv ==
  ASSUME IndInv, NEW r \in Rooms, NegotiationTimeout(r) PROVE IndInv'
  <1> USE RequestsAssumption
  <1>1. Alive /\ TypeOK /\ Ownership /\ \A x \in Rooms : RoomShape(x)
    BY DEF IndInv, NegotiationTimeout
  <1>2. /\ chan[r] = "negotiation" /\ holder[r] \in Requests
        /\ exec[r] = "none" /\ slot[r] = "closed"
    BY <1>1 DEF NegotiationTimeout, RoomShape
  <1>3. Ownership' /\ TypeOK'
    <2>1. "canceled" \in Answers /\ slot[r] \notin Requests
      BY <1>2 DEF Answers
    <2>2. reply' = [reply EXCEPT ![holder[r]] = "canceled"]
      BY <1>2 DEF NegotiationTimeout, Drop
    <2>3. /\ Ownership'
          /\ reply' \in [Requests -> {"none", "queued", "held"} \cup Answers]
          /\ holder' \in [Rooms -> Requests \cup {"none"}]
      BY <1>1, <1>2, <2>1, <2>2, ReleaseHolder DEF NegotiationTimeout, Reopen
    <2>4. TypeOK'
      BY <1>1, <2>3 DEF TypeOK, NegotiationTimeout, Reopen
    <2>5. QED
      BY <2>3, <2>4
  <1>4. ASSUME NEW x \in Rooms PROVE RoomShape(x)'
    BY <1>1, <1>2 DEF RoomShape, TypeOK, NegotiationTimeout, Reopen
  <1>5. QED
    BY <1>3, <1>4 DEF IndInv

(* ReceiverProxy::poll: forwarding, and the return of the receiver. *)
LEMMA ProxyForwardIndInv ==
  ASSUME IndInv, NEW r \in Rooms, ProxyForward(r) PROVE IndInv'
  <1>1. CASE Panic
    BY <1>1, PanicIndInv
  <1>2. CASE ~Panic
    <2>1. Alive /\ TypeOK /\ Ownership /\ \A x \in Rooms : RoomShape(x)
      BY DEF IndInv, ProxyForward, Idle
    <2>2. /\ inbox[r] # <<>> /\ Receive(r) /\ exec[r] # "none"
          /\ exec' = exec \/ exec' = [exec EXCEPT ![r] = "poisoned"]
          /\ UNCHANGED <<daemon, chan, rpc, slot, peers, holder, reply>>
      BY <1>2 DEF ProxyForward
    <2>3. TypeOK'
      BY <2>1, <2>2, ReceiveTyped DEF TypeOK
    <2>4. Ownership'
      BY <2>1, <2>2 DEF Ownership, Owns
    <2>5. ASSUME NEW x \in Rooms PROVE RoomShape(x)'
      BY <2>1, <2>2 DEF RoomShape, TypeOK
    <2>6. QED
      BY <2>3, <2>4, <2>5 DEF IndInv
  <1>3. QED
    BY <1>1, <1>2

(* The proxy returns once its execution is gone, and the room reopens. *)
LEMMA ProxyReturnIndInv ==
  ASSUME IndInv, NEW r \in Rooms, ProxyReturn(r) PROVE IndInv'
  <1> USE RequestsAssumption
  <1>1. Alive /\ TypeOK /\ Ownership /\ \A x \in Rooms : RoomShape(x)
    BY DEF IndInv, ProxyReturn, Idle
  <1>2. /\ chan[r] = "proxy" /\ exec[r] = "none" /\ slot[r] = "closed"
        /\ holder[r] \notin Requests
    BY <1>1 DEF ProxyReturn, RoomShape
  <1>3. TypeOK'
    BY <1>1 DEF TypeOK, ProxyReturn, Reopen
  <1>4. Ownership'
    BY <1>1, <1>2 DEF Ownership, Owns, TypeOK, ProxyReturn, Reopen
  <1>5. ASSUME NEW x \in Rooms PROVE RoomShape(x)'
    BY <1>1, <1>2 DEF RoomShape, TypeOK, ProxyReturn, Reopen
  <1>6. QED
    BY <1>3, <1>4, <1>5 DEF IndInv

(* The end of an execution. *)
LEMMA ExecFinishIndInv ==
  ASSUME IndInv, NEW r \in Rooms, NEW outcome \in {"ok", "failed", "canceled"},
         ExecFinish(r, outcome)
  PROVE  IndInv'
  <1> USE RequestsAssumption
  <1>1. Alive /\ TypeOK /\ Ownership /\ \A x \in Rooms : RoomShape(x)
    BY DEF IndInv, ExecFinish, Idle
  <1>2. chan[r] = "proxy" /\ exec[r] # "none" /\ slot[r] = "closed"
    BY <1>1 DEF ExecFinish, RoomShape
  <1>3. /\ Ownership'
        /\ reply' \in [Requests -> {"none", "queued", "held"} \cup Answers]
        /\ holder' \in [Rooms -> Requests \cup {"none"}]
    <2>1. outcome \in Answers /\ slot[r] \notin Requests
      BY <1>2 DEF Answers
    <2>2. QED
      BY <1>1, <2>1, ReleaseHolder DEF ExecFinish
  <1>4. TypeOK'
    BY <1>1, <1>3 DEF TypeOK, ExecFinish
  <1>5. ASSUME NEW x \in Rooms PROVE RoomShape(x)'
    BY <1>1, <1>2 DEF RoomShape, TypeOK, ExecFinish
  <1>6. QED
    BY <1>3, <1>4, <1>5 DEF IndInv

-----------------------------------------------------------------------------
(* Every step of the daemon and of its environment keeps IndInv. *)
THEOREM IndInvInductive == Spec => []IndInv
  <1>1. IndInv /\ [Next]_vars => IndInv'
    <2> SUFFICES ASSUME IndInv, [Next]_vars PROVE IndInv'
      OBVIOUS
    <2>1. CASE UNCHANGED vars
      BY <2>1 DEF vars, IndInv, TypeOK, Alive, Ownership, Owns, RoomShape
    <2>2. ASSUME NEW q \in Requests, Submit(q) \/ HandleService(q) PROVE IndInv'
      BY <2>2, SubmitIndInv, HandleServiceIndInv
    <2>3. ASSUME NEW r \in Rooms, NEW m \in Messages, Deliver(r, m) PROVE IndInv'
      BY <2>3, DeliverIndInv
    <2>4. ASSUME NEW r \in Rooms,
                 \/ Phase1Poll(r) \/ Phase2Poll(r)
                 \/ \E p \in Peers : NegotiationJoin(r, p)
                 \/ NegotiationTimeout(r)
          PROVE  IndInv'
      BY <2>4, Phase1PollIndInv, Phase2PollIndInv, NegotiationJoinIndInv,
         NegotiationTimeoutIndInv
    <2>5. ASSUME NEW r \in Rooms, NegotiationUnderflow(r) \/ ExecPanic(r)
          PROVE  IndInv'
      BY <2>5, PanicIndInv DEF NegotiationUnderflow, ExecPanic
    <2>6. ASSUME NEW r \in Rooms,
                 \/ ProxyForward(r) \/ ProxyReturn(r)
                 \/ \E outcome \in {"ok", "failed", "canceled"} : ExecFinish(r, outcome)
          PROVE  IndInv'
      BY <2>6, ProxyForwardIndInv, ProxyReturnIndInv, ExecFinishIndInv
    <2>7. QED
      BY <2>1, <2>2, <2>3, <2>4, <2>5, <2>6 DEF Next
  <1>2. QED
    BY <1>1, InitIndInv, PTL DEF Spec

(* The daemon's state keeps its types. *)
THEOREM TypeCorrect == Spec => []TypeOK
  <1>1. IndInv => TypeOK
    BY DEF IndInv
  <1>2. QED
    BY <1>1, IndInvInductive, PTL

(* A sender found in rooms_rpc is live exactly when its Phase1Channel waits. *)
THEOREM RpcHandleCorrect == Spec => []RpcHandle
  <1>1. IndInv => RpcHandle
    BY DEF IndInv, RpcHandle, RoomShape
  <1>2. QED
    BY <1>1, IndInvInductive, PTL

(* Every accepted request has exactly one owner of its on_done. *)
THEOREM OnDoneOwnedCorrect == Spec => []OnDoneOwned
  <1>1. ASSUME IndInv, Alive, NEW q \in Requests, NEW r \in Rooms,
               slot[r] = q, holder[r] = q
        PROVE  FALSE
    BY <1>1, RequestsAssumption DEF IndInv, RoomShape, TypeOK
  <1>2. IndInv => OnDoneOwned
    BY <1>1 DEF IndInv, OnDoneOwned, Ownership
  <1>3. QED
    BY <1>2, IndInvInductive, PTL

(* One execution per room, behind its proxy, with the requested parties. *)
THEOREM OneAtATimeCorrect == Spec => []OneAtATime
  <1>1. IndInv => OneAtATime
    BY DEF IndInv, OneAtATime, RoomShape
  <1>2. QED
    BY <1>1, IndInvInductive, PTL

-----------------------------------------------------------------------------
(* The refinement of RoomService. *)

(* What a client and a room look like from outside. *)
Waits(q) == IF reply[q] \in {"queued", "held"} THEN "waiting" ELSE reply[q]
Computes(r) ==
    IF ~Alive \/ exec[r] = "none" THEN "none"
    ELSE IF holder[r] = "none" THEN "remote" ELSE holder[r]

ServiceVars == <<[q \in Requests |-> Waits(q)], [r \in Rooms |-> Computes(r)]>>

(* A step that shows at no client and in no room. *)
LEMMA ServiceStutter ==
  ASSUME \A q \in Requests : Waits(q)' = Waits(q), \A r \in Rooms : Computes(r)' = Computes(r)
  PROVE  UNCHANGED ServiceVars
  BY DEF ServiceVars

(* A room computes for a request only as its owner. *)
LEMMA ComputesForOwned ==
  ASSUME IndInv, Alive, NEW r \in Rooms, NEW q \in Requests, Computes(r) = q
  PROVE  holder[r] = q /\ exec[r] # "none" /\ reply[q] = "held" /\ chan[r] = "proxy"
  <1>1. holder[r] = q /\ exec[r] # "none"
    BY RequestsAssumption DEF Computes
  <1> QED
    BY <1>1 DEF IndInv, Ownership, Owns, RoomShape

(* A panic is a crash: nobody waits and nothing runs any more. *)
LEMMA PanicCrashes ==
  ASSUME IndInv, Panic PROVE Service!Next
  <1>1. \A q \in Requests : Waits(q)' = IF Waits(q) = "waiting" THEN "canceled" ELSE Waits(q)
    BY DEF Panic, Waits, IndInv, TypeOK, Answers
  <1>2. \A r \in Rooms : Computes(r)' = "none"
    BY DEF Panic, Computes, Alive
  <1>3. Service!Crash
    BY <1>1, <1>2 DEF Service!Crash, Waits, Computes
  <1> QED
    BY <1>3 DEF Service!Next

(* A request that nobody computes is answered without a result. *)
LEMMA AnswerRefuses ==
  ASSUME IndInv, NEW q \in Requests, reply[q] \in {"queued", "held"},
         \A r \in Rooms : Computes(r) # q,
         NEW a \in {"busy", "unknown", "canceled"}, reply' = [reply EXCEPT ![q] = a],
         \A r \in Rooms : Computes(r)' = Computes(r)
  PROVE  Service!Next
  <1>1. \A x \in Requests : Waits(x)' = IF x = q THEN a ELSE Waits(x)
    BY DEF Waits, IndInv, TypeOK
  <1>2. Waits(q) = "waiting"
    BY DEF Waits
  <1>3. Service!Refuse(q)
    BY <1>1, <1>2, ZenonT(60) DEF Service!Refuse, Service!Refusals, Service!Computing, Waits, Computes
  <1> QED
    BY <1>3 DEF Service!Next

(* A room whose own request, in its oneshot or its negotiation, is dropped. *)
LEMMA DropRefuses ==
  ASSUME IndInv, Alive, NEW r \in Rooms, NEW q, q = slot[r] \/ q = holder[r],
         chan[r] # "proxy", reply' = Drop(q),
         \A x \in Rooms : Computes(x)' = Computes(x)
  PROVE  Service!Next \/ UNCHANGED ServiceVars
  <1>1. CASE q \in Requests
    <2>1. reply[q] = "held" /\ Owns(r, q)
      BY <1>1 DEF IndInv, Ownership, Owns
    <2>2. ASSUME NEW x \in Rooms, Computes(x) = q PROVE FALSE
      <3>1. Owns(x, q) /\ chan[x] = "proxy"
        BY <1>1, <2>2, ComputesForOwned DEF Owns
      <3>2. x = r
        BY <1>1, <2>1, <3>1 DEF IndInv, Ownership
      <3> QED
        BY <3>1, <3>2
    <2>3. reply' = [reply EXCEPT ![q] = "canceled"]
      BY <1>1 DEF Drop
    <2> QED
      BY <1>1, <2>1, <2>2, <2>3, AnswerRefuses
  <1>2. CASE q \notin Requests
    <2>1. reply' = reply
      BY <1>2 DEF Drop
    <2> QED
      BY <2>1, ServiceStutter DEF Waits
  <1> QED
    BY <1>1, <1>2

(* A call enters, or is turned away by a daemon that is gone. *)
LEMMA SubmitAsks ==
  ASSUME IndInv, NEW q \in Requests, Submit(q) PROVE Service!Next
  <1>1. PICK a \in {"waiting", "canceled"} :
           \A x \in Requests : Waits(x)' = IF x = q THEN a ELSE Waits(x)
    <2>1. CASE Alive
      <3>1. \A x \in Requests : Waits(x)' = IF x = q THEN "waiting" ELSE Waits(x)
        BY <2>1 DEF Submit, Waits, IndInv, TypeOK
      <3> QED
        BY <3>1
    <2>2. CASE ~Alive
      <3>1. \A x \in Requests : Waits(x)' = IF x = q THEN "canceled" ELSE Waits(x)
        BY <2>2 DEF Submit, Waits, IndInv, TypeOK
      <3> QED
        BY <3>1
    <2> QED
      BY <2>1, <2>2
  <1>2. Waits(q) # "waiting"
    BY DEF Submit, Waits, Answers
  <1>3. \A r \in Rooms : Computes(r)' = Computes(r)
    BY DEF Submit, Computes, Alive
  <1>4. Service!Ask(q)
    BY <1>1, <1>2, <1>3 DEF Service!Ask, Waits, Computes
  <1> QED
    BY <1>4 DEF Service!Next

(* The service branch refuses a call or hands it to a Phase1Channel. *)
LEMMA HandleServiceRefuses ==
  ASSUME IndInv, NEW q \in Requests, HandleService(q)
  PROVE  Service!Next \/ UNCHANGED ServiceVars
  <1>1. /\ Alive /\ reply[q] = "queued" /\ UNCHANGED <<daemon, exec, holder>>
        /\ reply' \in {[reply EXCEPT ![q] = a] : a \in {"busy", "unknown", "held"}}
    BY DEF HandleService, Idle, ServeVacant, ServeUnknown, ServeOccupied
  <1>2. \A r \in Rooms : Computes(r)' = Computes(r)
    BY <1>1 DEF Computes, Alive
  <1>3. ASSUME NEW r \in Rooms, Computes(r) = q PROVE FALSE
    BY <1>1, <1>3, ComputesForOwned
  <1>4. CASE reply' = [reply EXCEPT ![q] = "held"]
    <2>1. \A x \in Requests : Waits(x)' = Waits(x)
      BY <1>1, <1>4 DEF Waits, IndInv, TypeOK
    <2> QED
      BY <1>2, <2>1, ServiceStutter
  <1>5. ASSUME NEW a \in {"busy", "unknown"}, reply' = [reply EXCEPT ![q] = a]
        PROVE  Service!Next
    BY <1>1, <1>2, <1>3, <1>5, AnswerRefuses
  <1> QED
    BY <1>1, <1>4, <1>5

(* A computation begins in a room that has none, for a remote client or for *)
(* the request the room owns.                                               *)
LEMMA ExecStarts ==
  ASSUME IndInv, Alive, Alive', NEW r \in Rooms, exec[r] = "none",
         exec' = [exec EXCEPT ![r] = "running"], UNCHANGED <<reply, holder>>
  PROVE  Service!Next
  <1>1. PICK who : who = IF holder[r] = "none" THEN "remote" ELSE holder[r]
    OBVIOUS
  <1>2. /\ who \in Requests \cup {"remote"} /\ Computes(r) = "none"
        /\ \A x \in Rooms : Computes(x)' = IF x = r THEN who ELSE Computes(x)
        /\ \A q \in Requests : Waits(q)' = Waits(q)
    BY <1>1 DEF Computes, Waits, IndInv, TypeOK
  <1>3. ASSUME who \in Requests
        PROVE  Waits(who) = "waiting" /\ \A x \in Rooms : Computes(x) # who
    <2>1. Owns(r, who) /\ reply[who] = "held"
      BY <1>1, <1>3, RequestsAssumption DEF IndInv, Ownership, Owns
    <2>2. ASSUME NEW x \in Rooms, Computes(x) = who PROVE FALSE
      <3>1. Owns(x, who) /\ exec[x] # "none"
        BY <1>3, <2>2, ComputesForOwned DEF Owns
      <3> QED
        BY <1>3, <2>1, <3>1 DEF IndInv, Ownership
    <2> QED
      BY <2>1, <2>2 DEF Waits
  <1>4. Service!Start(r, who)
    BY <1>2, <1>3 DEF Service!Start, Service!Computing, Waits, Computes
  <1> QED
    BY <1>2, <1>4 DEF Service!Next

(* Phase 1 drops what is in the oneshot, or moves it. *)
LEMMA Phase1PollServes ==
  ASSUME IndInv, NEW r \in Rooms, Phase1Poll(r)
  PROVE  Service!Next \/ UNCHANGED ServiceVars
  <1>1. Alive /\ chan[r] = "phase1" /\ exec[r] = "none"
    BY DEF Phase1Poll, Idle, IndInv, RoomShape, TypeOK
  <1>2. CASE Panic
    BY <1>2, PanicCrashes
  <1>3. CASE Phase1FromRemote(r) \/ Phase1Foreign(r)
    <2>1. reply' = Drop(slot[r]) /\ UNCHANGED <<daemon, exec, holder>>
      BY <1>3 DEF Phase1FromRemote, Phase1Foreign
    <2>2. \A x \in Rooms : Computes(x)' = Computes(x)
      BY <2>1 DEF Computes, Alive
    <2> QED
      BY <1>1, <2>1, <2>2, DropRefuses
  <1>4. CASE Phase1FromLocal(r)
    <2>1. UNCHANGED <<daemon, exec, reply>> /\ holder' = [holder EXCEPT ![r] = slot[r]]
      BY <1>4 DEF Phase1FromLocal
    <2>2. \A x \in Rooms : Computes(x)' = Computes(x)
      BY <1>1, <2>1 DEF Computes, Alive, IndInv, TypeOK
    <2> QED
      BY <2>1, <2>2, ServiceStutter DEF Waits
  <1> QED
    BY <1>2, <1>3, <1>4 DEF Phase1Poll, Phase1Unexpected, Phase1SenderDropped

(* Phase 2 starts a computation for a remote client, or nothing. *)
LEMMA Phase2PollServes ==
  ASSUME IndInv, NEW r \in Rooms, Phase2Poll(r)
  PROVE  Service!Next \/ UNCHANGED ServiceVars
  <1>1. Alive /\ chan[r] = "phase2" /\ exec[r] = "none"
    BY DEF Phase2Poll, IndInv, RoomShape, TypeOK
  <1>2. CASE Panic
    BY <1>2, PanicCrashes
  <1>3. CASE Phase2Start(r)
    BY <1>1, <1>3, ExecStarts DEF Phase2Start, Alive
  <1>4. CASE UNCHANGED <<daemon, exec, holder, reply>>
    BY <1>4, ServiceStutter DEF Waits, Computes, Alive
  <1> QED
    BY <1>2, <1>3, <1>4 DEF Phase2Poll, Phase2Undecodable, Phase2Unexpected, Phase2Timeout

(* A negotiation starts what its request asked for, or drops it. *)
LEMMA NegotiationServes ==
  ASSUME IndInv, NEW r \in Rooms,
         (\E p \in Peers : NegotiationJoin(r, p)) \/ NegotiationTimeout(r)
  PROVE  Service!Next \/ UNCHANGED ServiceVars
  <1>1. Alive /\ chan[r] = "negotiation" /\ exec[r] = "none"
    BY DEF NegotiationJoin, NegotiationTimeout, IndInv, RoomShape
  <1>2. CASE \E p \in Peers : NegotiationJoin(r, p)
    <2>1. /\ exec' = [exec EXCEPT ![r] = "running"] \/ exec' = exec
          /\ UNCHANGED <<daemon, holder, reply>>
      BY <1>2 DEF NegotiationJoin
    <2>2. CASE exec' = [exec EXCEPT ![r] = "running"]
      BY <1>1, <2>1, <2>2, ExecStarts DEF Alive
    <2>3. CASE exec' = exec
      BY <2>1, <2>3, ServiceStutter DEF Waits, Computes, Alive
    <2> QED
      BY <2>1, <2>2, <2>3
  <1>3. CASE NegotiationTimeout(r)
    <2>1. /\ reply' = Drop(holder[r]) /\ UNCHANGED <<daemon, exec>>
          /\ holder' = [holder EXCEPT ![r] = "none"]
      BY <1>3 DEF NegotiationTimeout
    <2>2. \A x \in Rooms : Computes(x)' = Computes(x)
      BY <1>1, <2>1 DEF Computes, Alive, IndInv, TypeOK
    <2> QED
      BY <1>1, <2>1, <2>2, DropRefuses
  <1> QED
    BY <1>2, <1>3

(* Forwarding to an execution, and the return of its receiver, do not show. *)
LEMMA ProxyStutters ==
  ASSUME IndInv, NEW r \in Rooms, ProxyForward(r) \/ ProxyReturn(r)
  PROVE  Service!Next \/ UNCHANGED ServiceVars
  <1>1. CASE Panic
    BY <1>1, PanicCrashes
  <1>2. CASE ~Panic
    <2>1. /\ UNCHANGED <<daemon, holder, reply>>
          /\ \/ exec' = exec
             \/ exec[r] # "none" /\ exec' = [exec EXCEPT ![r] = "poisoned"]
      BY <1>2 DEF ProxyForward, ProxyReturn
    <2>2. \A x \in Rooms : Computes(x)' = Computes(x)
      BY <2>1 DEF Computes, Alive, IndInv, TypeOK
    <2> QED
      BY <2>1, <2>2, ServiceStutter DEF Waits
  <1> QED
    BY <1>1, <1>2

(* The end of an execution answers the request it ran for. *)
LEMMA ExecFinishes ==
  ASSUME IndInv, NEW r \in Rooms, NEW outcome \in {"ok", "failed", "canceled"},
         ExecFinish(r, outcome)
  PROVE  Service!Next
  <1>1. /\ Alive /\ Alive' /\ exec[r] # "none"
        /\ exec' = [exec EXCEPT ![r] = "none"] /\ holder' = [holder EXCEPT ![r] = "none"]
        /\ reply' = IF holder[r] \in Requests
                    THEN [reply EXCEPT ![holder[r]] = outcome] ELSE reply
    BY DEF ExecFinish, Idle, Alive
  <1>2. PICK who : who = IF holder[r] = "none" THEN "remote" ELSE holder[r]
    OBVIOUS
  <1>3. /\ Computes(r) = who /\ who # "none"
        /\ \A x \in Rooms : Computes(x)' = IF x = r THEN "none" ELSE Computes(x)
    BY <1>1, <1>2 DEF Computes, IndInv, TypeOK
  <1>4. CASE who \in Requests
    <2>1. holder[r] = who
      BY <1>2, <1>4, RequestsAssumption
    <2>2. \A q \in Requests : Waits(q)' = IF q = who THEN outcome ELSE Waits(q)
      BY <1>1, <1>4, <2>1 DEF Waits, IndInv, TypeOK
    <2>3. Service!Finish(r)
      BY <1>3, <1>4, <2>2, ZenonT(60) DEF Service!Finish, Service!Outcomes, Waits, Computes
    <2> QED
      BY <2>3 DEF Service!Next
  <1>5. CASE who \notin Requests
    <2>1. holder[r] \notin Requests
      BY <1>2, <1>5, RequestsAssumption
    <2>2. \A q \in Requests : Waits(q)' = Waits(q)
      BY <1>1, <2>1 DEF Waits
    <2>3. Service!Finish(r)
      BY <1>3, <1>5, <2>2 DEF Service!Finish, Waits, Computes
    <2> QED
      BY <2>3 DEF Service!Next
  <1> QED
    BY <1>4, <1>5

(* For its clients the daemon is a RoomService: whichever future owns a     *)
(* room's receiver and a client's on_done, a call waits until it is         *)
(* answered, and gets a result only from its own computation                *)
(* (runtime.rs:114-258).                                                    *)
THEOREM ServesRoomsCorrect == Spec => ServesRooms
  <1>1. Init => Service!Init
    BY DEF Init, Service!Init
  <1>2. IndInv /\ [Next]_vars => [Service!Next]_ServiceVars
    <2> SUFFICES ASSUME IndInv, [Next]_vars PROVE Service!Next \/ UNCHANGED ServiceVars
      OBVIOUS
    <2>1. CASE UNCHANGED vars
      BY <2>1, ServiceStutter DEF vars, Waits, Computes, Alive
    <2>2. ASSUME NEW r \in Rooms, NEW m \in Messages, Deliver(r, m)
          PROVE  UNCHANGED ServiceVars
      BY <2>2, ServiceStutter DEF Deliver, Waits, Computes, Alive
    <2>3. ASSUME NEW r \in Rooms, NegotiationUnderflow(r) \/ ExecPanic(r)
          PROVE  Service!Next
      BY <2>3, PanicCrashes DEF NegotiationUnderflow, ExecPanic
    <2> QED
      BY <2>1, <2>2, <2>3, SubmitAsks, HandleServiceRefuses, Phase1PollServes, Phase2PollServes,
         NegotiationServes, ProxyStutters, ExecFinishes DEF Next
  <1> QED
    BY <1>1, <1>2, IndInvInductive, PTL DEF Spec, ServesRooms, Service!Spec, ServiceVars, Waits, Computes
=============================================================================
