---------------------------- MODULE Coordination ----------------------------
(***************************************************************************)
(* Pre-computation coordination of one room across its nodes: a proposer   *)
(* (NegotiationChan) and joiners (Phase1Channel, Phase2Chan) exchange      *)
(* proposals, answers and start messages over request/response channels,   *)
(* then run the computation behind their ReceiverProxy.                    *)
(*                                                                         *)
(* A session is one computation some client asked for; on the wire it is   *)
(* only visible as a protocol id (session_id is always 0 and never read).  *)
(* How a client's request reaches the room is in RuntimeDaemon; here a     *)
(* node in Phase 1 may propose a session of its own at any time.           *)
(* A computation is abstracted to one broadcast round and one round of     *)
(* direct messages, and ends when all of them have arrived.                *)
(***************************************************************************)
EXTENDS Naturals, Sequences, FiniteSets, Functions

CONSTANTS
    Nodes,
    Sessions,
    Proposer,   \* Proposer[s]: the node whose client asks for s
    Size,       \* Size[s]: parties wanted, the proposer included
    Ordered,    \* requests from one node to another arrive in order
    Failures,   \* requests may be lost, executions abandoned
    Patient,    \* timeouts fire only when nothing else can happen
    MaxInbox    \* bound: requests waiting in a receiver; others stay on the wire

ASSUME SessionsAssumption == "none" \notin Sessions
ASSUME ProposerAssumption == Proposer \in [Sessions -> Nodes]
ASSUME SizeAssumption == Size \in [Sessions -> Nat]

VARIABLES
    phase,     \* which future owns the node's receiver, or why it panicked
    inbox,     \* the node's room receiver
    wire,      \* requests in flight from one node to another
    agent,     \* the session whose proposal the node's agent was made for
    run,       \* the session whose start message the node obeys
    peers,     \* NegotiationState.peers / the parties of the execution
    heard,     \* computation messages the execution has, its own included
    answers,   \* positive answers to proposals, on their way back
    proposed,  \* sessions already proposed
    answered,  \* history: <<s, n>> when n accepted the proposal of s
    started    \* history: <<s, parties>> of the start messages issued

vars == <<phase, inbox, wire, agent, run, peers, heard, answers,
          proposed, answered, started>>
history == <<answered, started>>

Panics == {"unknown_peer", "unexpected_type", "agent_panic", "bad_peer_id"}
Phases == {"phase1", "phase2", "negotiation", "executing"} \cup Panics
Kinds == {"proposal", "start", "round", "p2p"}

Request == [kind : Kinds, from : Nodes, session : Sessions, parties : SUBSET Nodes]
Message(kind, n, s, parties) ==
    [kind |-> kind, from |-> n, session |-> s, parties |-> parties]

(* The wire after n has sent the requests in seq to each live node in to. *)
Send(n, to, seq) ==
    [l \in Nodes \X Nodes |->
        IF l[1] = n /\ l[2] \in to /\ phase[l[2]] \notin Panics THEN wire[l] \o seq ELSE wire[l]]

TypeOK ==
    /\ phase \in [Nodes -> Phases]
    /\ inbox \in [Nodes -> Seq(Request)]
    /\ wire \in [Nodes \X Nodes -> Seq(Request)]
    /\ agent \in [Nodes -> Sessions \cup {"none"}]
    /\ run \in [Nodes -> Sessions \cup {"none"}]
    /\ peers \in [Nodes -> SUBSET Nodes]
    /\ heard \in [Nodes -> SUBSET ({"round", "p2p"} \X Nodes)]
    /\ answers \subseteq Sessions \X Nodes
    /\ proposed \subseteq Sessions
    /\ answered \subseteq Sessions \X Nodes
    /\ started \subseteq Sessions \X SUBSET Nodes

Init ==
    /\ phase = [n \in Nodes |-> "phase1"]
    /\ inbox = [n \in Nodes |-> <<>>]
    /\ wire = [l \in Nodes \X Nodes |-> <<>>]
    /\ agent = [n \in Nodes |-> "none"]
    /\ run = [n \in Nodes |-> "none"]
    /\ peers = [n \in Nodes |-> {}]
    /\ heard = [n \in Nodes |-> {}]
    /\ answers = {}
    /\ proposed = {}
    /\ answered = {}
    /\ started = {}

-----------------------------------------------------------------------------
Negotiating(n, s) == phase[n] = "negotiation" /\ agent[n] = s
OtherAnswers(s) == {a \in answers : a[1] # s}
Receive(n) == inbox' = [inbox EXCEPT ![n] = Tail(@)]

(* The node's task panics; its receiver is dropped, and requests to it from *)
(* now on go nowhere.                                                       *)
Panic(n, why) ==
    /\ phase' = [phase EXCEPT ![n] = why]
    /\ inbox' = [inbox EXCEPT ![n] = <<>>]
    /\ wire' = [l \in Nodes \X Nodes |-> IF l[2] = n THEN <<>> ELSE wire[l]]
    /\ agent' = [agent EXCEPT ![n] = "none"]
    /\ run' = [run EXCEPT ![n] = "none"]
    /\ peers' = [peers EXCEPT ![n] = {}]
    /\ heard' = [heard EXCEPT ![n] = {}]
    /\ UNCHANGED <<answers, proposed, history>>

(* A new Phase1Channel owns the receiver; agent, peers and proxy are gone. *)
BackToPhase1(n) ==
    /\ phase' = [phase EXCEPT ![n] = "phase1"]
    /\ agent' = [agent EXCEPT ![n] = "none"]
    /\ run' = [run EXCEPT ![n] = "none"]
    /\ peers' = [peers EXCEPT ![n] = {}]
    /\ heard' = [heard EXCEPT ![n] = {}]

(* The network: a request reaches the room's receiver, or is lost. *)
Take(l, x) ==
    /\ x \in DOMAIN wire[l]
    /\ Ordered => x = 1
    /\ wire' = [wire EXCEPT ![l] = SubSeq(@, 1, x - 1) \o SubSeq(@, x + 1, Len(@))]

Deliver(l, x) ==
    /\ Take(l, x)
    /\ Len(inbox[l[2]]) < MaxInbox
    /\ inbox' = [inbox EXCEPT ![l[2]] = Append(@, wire[l][x])]
    /\ UNCHANGED <<phase, agent, run, peers, heard, answers, proposed, history>>

Lose(l, x) ==
    /\ Failures
    /\ Take(l, x)
    /\ UNCHANGED <<phase, inbox, agent, run, peers, heard, answers, proposed, history>>

(* Nothing is under way that could still release a waiting node. *)
Quiet ==
    /\ answers = {} /\ \A l \in Nodes \X Nodes : wire[l] = <<>>
    /\ \A n \in Nodes : inbox[n] = <<>> /\ phase[n] # "executing"
MayTimeOut == Patient => Quiet

-----------------------------------------------------------------------------
(* FromLocal and the first poll of NegotiationChan: the proposal goes to    *)
(* every known peer.  Phase1Channel looks at its receiver first.            *)
Propose(n, s) ==
    /\ phase[n] = "phase1" /\ inbox[n] = <<>>
    /\ Proposer[s] = n /\ s \notin proposed
    /\ proposed' = proposed \cup {s}
    /\ phase' = [phase EXCEPT ![n] = "negotiation"]
    /\ agent' = [agent EXCEPT ![n] = s]
    /\ peers' = [peers EXCEPT ![n] = {n}]
    /\ wire' = Send(n, Nodes \ {n}, <<Message("proposal", n, s, {})>>)
    /\ UNCHANGED <<inbox, run, heard, answers, history>>

(* FromRemote: whatever carries MessageType::Coordination is answered as a  *)
(* proposal.  An answer is of use only to a negotiation that still waits.   *)
Phase1Poll(n) ==
    LET m == Head(inbox[n]) IN
    /\ phase[n] = "phase1" /\ inbox[n] # <<>>
    /\ \/ m.kind = "p2p" /\ Panic(n, "unexpected_type")
       \/ /\ m.kind # "p2p"
          /\ Receive(n)
          /\ phase' = [phase EXCEPT ![n] = "phase2"]
          /\ agent' = [agent EXCEPT ![n] = m.session]
          /\ answered' = IF m.kind = "proposal"
                         THEN answered \cup {<<m.session, n>>} ELSE answered
          /\ answers' = IF m.kind = "proposal" /\ Negotiating(m.from, m.session)
                        THEN answers \cup {<<m.session, n>>} ELSE answers
          /\ UNCHANGED <<wire, run, peers, heard, proposed, started>>

(* Phase2Chan: any start message is taken; other coordination messages do   *)
(* not decode and abort.  The bytes of an MPC broadcast may pass for a      *)
(* peerset of invalid peer ids, whose unwrap panics.                        *)
Phase2Poll(n) ==
    LET m == Head(inbox[n]) IN
    /\ phase[n] = "phase2" /\ inbox[n] # <<>>
    /\ \/ m.kind = "p2p" /\ Panic(n, "unexpected_type")
       \/ /\ m.kind = "start"
          /\ Receive(n)
          /\ phase' = [phase EXCEPT ![n] = "executing"]
          /\ run' = [run EXCEPT ![n] = m.session]
          /\ peers' = [peers EXCEPT ![n] = m.parties]
          /\ UNCHANGED <<wire, agent, heard, answers, proposed, history>>
       \/ m.kind = "round" /\ Panic(n, "bad_peer_id")
       \/ /\ m.kind \in {"proposal", "round"}
          /\ Receive(n)
          /\ BackToPhase1(n)
          /\ UNCHANGED <<wire, answers, proposed, history>>

(* Faulty variant: the interval is looked at only when a message is there. *)
Phase2TimeoutBusy(n) ==
    /\ phase[n] = "phase2" /\ inbox[n] # <<>>
    /\ MayTimeOut
    /\ BackToPhase1(n)
    /\ UNCHANGED <<inbox, wire, answers, proposed, history>>

Phase2Timeout(n) ==
    /\ phase[n] = "phase2" /\ inbox[n] = <<>>
    /\ MayTimeOut
    /\ BackToPhase1(n)
    /\ UNCHANGED <<inbox, wire, answers, proposed, history>>

(* Faulty variant: the start message leaves out the last joiner. *)
NegotiationAnswerShort(n, p) ==
    LET s == agent[n]
        joined == peers[n] \cup {p} IN
    /\ phase[n] = "negotiation"
    /\ <<s, p>> \in answers
    /\ peers' = [peers EXCEPT ![n] = joined]
    /\ \/ /\ Cardinality(joined) = Size[s]
          /\ phase' = [phase EXCEPT ![n] = "executing"]
          /\ run' = [run EXCEPT ![n] = s]
          /\ wire' = Send(n, joined \ {n}, <<Message("start", n, s, peers[n])>>)
          /\ answers' = OtherAnswers(s)
          /\ started' = started \cup {<<s, joined>>}
       \/ /\ Cardinality(joined) # Size[s]
          /\ answers' = answers \ {<<s, p>>}
          /\ UNCHANGED <<phase, run, wire, started>>
    /\ UNCHANGED <<inbox, agent, heard, proposed, answered>>

(* Faulty variant: the start message is broadcast, not multicast. *)
NegotiationAnswerWide(n, p) ==
    LET s == agent[n]
        joined == peers[n] \cup {p} IN
    /\ phase[n] = "negotiation"
    /\ <<s, p>> \in answers
    /\ peers' = [peers EXCEPT ![n] = joined]
    /\ \/ /\ Cardinality(joined) = Size[s]
          /\ phase' = [phase EXCEPT ![n] = "executing"]
          /\ run' = [run EXCEPT ![n] = s]
          /\ wire' = Send(n, Nodes \ {n}, <<Message("start", n, s, joined)>>)
          /\ answers' = OtherAnswers(s)
          /\ started' = started \cup {<<s, joined>>}
       \/ /\ Cardinality(joined) # Size[s]
          /\ answers' = answers \ {<<s, p>>}
          /\ UNCHANGED <<phase, run, wire, started>>
    /\ UNCHANGED <<inbox, agent, heard, proposed, answered>>

(* NegotiationChan::poll takes an answer; the one that completes the set    *)
(* sends the start message to the parties.                                  *)
NegotiationAnswer(n, p) ==
    LET s == agent[n]
        joined == peers[n] \cup {p} IN
    /\ phase[n] = "negotiation"
    /\ <<s, p>> \in answers
    /\ peers' = [peers EXCEPT ![n] = joined]
    /\ \/ /\ Cardinality(joined) = Size[s]
          /\ phase' = [phase EXCEPT ![n] = "executing"]
          /\ run' = [run EXCEPT ![n] = s]
          /\ wire' = Send(n, joined \ {n}, <<Message("start", n, s, joined)>>)
          /\ answers' = OtherAnswers(s)
          /\ started' = started \cup {<<s, joined>>}
       \/ /\ Cardinality(joined) # Size[s]
          /\ answers' = answers \ {<<s, p>>}
          /\ UNCHANGED <<phase, run, wire, started>>
    /\ UNCHANGED <<inbox, agent, heard, proposed, answered>>

NegotiationTimeout(n) ==
    /\ phase[n] = "negotiation"
    /\ MayTimeOut
    /\ BackToPhase1(n)
    /\ answers' = OtherAnswers(agent[n])
    /\ UNCHANGED <<inbox, wire, proposed, history>>

-----------------------------------------------------------------------------
(* The execution: a broadcast round, then direct messages once every        *)
(* party's broadcast is there, ...                                          *)
ExecSend(n, kind) ==
    /\ phase[n] = "executing" /\ <<kind, n>> \notin heard[n]
    /\ kind = "p2p" => {"round"} \X peers[n] \subseteq heard[n]
    /\ heard' = [heard EXCEPT ![n] = @ \cup {<<kind, n>>}]
    /\ wire' = Send(n, peers[n] \ {n}, <<Message(kind, n, run[n], {})>>)
    /\ UNCHANGED <<phase, inbox, agent, run, peers, answers, proposed, history>>

(* Faulty variant: any message of a party counts as one of the protocol. *)
ProxyPollAny(n) ==
    LET m == Head(inbox[n]) IN
    /\ phase[n] = "executing" /\ inbox[n] # <<>>
    /\ \/ m.from \notin peers[n] /\ Panic(n, "unknown_peer")
       \/ /\ m.from \in peers[n]
          /\ Receive(n)
          /\ heard' = [heard EXCEPT ![n] = @ \cup {<<m.kind, m.from>>}]
          /\ UNCHANGED <<phase, wire, agent, run, peers, answers, proposed, history>>

(* ... ReceiverProxy forwards what the parties send, whatever it is: the    *)
(* agent panics on what it cannot decode, if the message does not meet a    *)
(* full channel and is lost, ...                                            *)
ProxyPoll(n) ==
    LET m == Head(inbox[n]) IN
    /\ phase[n] = "executing" /\ inbox[n] # <<>>
    /\ \/ m.from \notin peers[n] /\ Panic(n, "unknown_peer")
       \/ /\ m.from \in peers[n] /\ m.kind \in {"proposal", "start"}
          /\ \/ Panic(n, "agent_panic")
             \/ /\ Receive(n)
                /\ UNCHANGED <<phase, wire, agent, run, peers, heard, answers, proposed, history>>
       \/ /\ m.from \in peers[n] /\ m.kind \in {"round", "p2p"}
          /\ Receive(n)
          /\ heard' = [heard EXCEPT ![n] = @ \cup {<<m.kind, m.from>>}]
          /\ UNCHANGED <<phase, wire, agent, run, peers, answers, proposed, history>>

(* ... and it ends, completed or abandoned (echo failure, agent error).     *)
ExecFinish(n) ==
    /\ phase[n] = "executing"
    /\ {"round", "p2p"} \X peers[n] \subseteq heard[n]
    /\ BackToPhase1(n)
    /\ UNCHANGED <<inbox, wire, answers, proposed, history>>

ExecAbandon(n) ==
    /\ Failures
    /\ phase[n] = "executing"
    /\ BackToPhase1(n)
    /\ UNCHANGED <<inbox, wire, answers, proposed, history>>

Next ==
    \/ \E l \in Nodes \X Nodes : \E x \in DOMAIN wire[l] : Deliver(l, x) \/ Lose(l, x)
    \/ \E n \in Nodes :
          \/ \E s \in Sessions : Propose(n, s)
          \/ Phase1Poll(n) \/ Phase2Poll(n) \/ Phase2Timeout(n)
          \/ \E p \in Nodes : NegotiationAnswer(n, p)
          \/ NegotiationTimeout(n)
          \/ \E kind \in {"round", "p2p"} : ExecSend(n, kind)
          \/ ProxyPoll(n) \/ ExecFinish(n) \/ ExecAbandon(n)

Spec == Init /\ [][Next]_vars

(* Futures wake themselves and requests that are not lost arrive; clients   *)
(* need not propose, and nothing forces an execution to be abandoned.       *)
Fairness ==
    /\ \A l \in Nodes \X Nodes : WF_vars(Deliver(l, 1))
    /\ \A n \in Nodes :
          /\ WF_vars(Phase1Poll(n)) /\ WF_vars(Phase2Poll(n))
          /\ WF_vars(Phase2Timeout(n)) /\ WF_vars(NegotiationTimeout(n))
          /\ \A p \in Nodes : WF_vars(NegotiationAnswer(n, p))
          /\ \A kind \in {"round", "p2p"} : WF_vars(ExecSend(n, kind))
          /\ WF_vars(ProxyPoll(n)) /\ WF_vars(ExecFinish(n))

FairSpec == Spec /\ Fairness

-----------------------------------------------------------------------------
(* Properties.                                                              *)

(* Whoever executes obeys a start message its proposer really issued, with  *)
(* exactly the number of parties asked for, itself among them, and every    *)
(* other party had accepted that proposal; a session is started once, so    *)
(* its executions agree on their parties.  All this although joiners keep   *)
(* no memory of what they answered, and late, lost and overtaking messages  *)
(* are taken in whatever phase they meet (negotiation.rs:70-192,            *)
(* coordination.rs:130-186).                                                *)
StartJustified ==
    /\ \A n \in Nodes : phase[n] = "executing" =>
          LET s == run[n] IN
          /\ <<s, peers[n]>> \in started
          /\ n \in peers[n]
          /\ Cardinality(peers[n]) = Size[s]
          /\ \A p \in peers[n] \ {Proposer[s]} : <<s, p>> \in answered
    /\ \A a, b \in started : a[1] = b[1] => a = b

(* A computation cannot be brought down by its own messages: whatever is    *)
(* still on its way to a party is a round of another party.  So a proxy     *)
(* that meets a sender outside the peerset, or an agent that meets a        *)
(* proposal or a start message (network_proxy.rs:59, round_based.rs:23),    *)
(* owes it to another session, whose proposer cannot know who is busy.      *)
Coming(n) == Range(inbox[n]) \cup UNION {Range(wire[<<p, n>>]) : p \in Nodes}

OwnSessionSafe ==
    \A n \in Nodes : phase[n] = "executing" =>
        \A m \in Coming(n) : m.session = run[n] =>
            m.from \in peers[n] /\ m.kind \in {"round", "p2p"}

(* "a predefined flow where one party broadcasts a computation proposal and *)
(* other parties in the room can answer" (README.md:25), after which the    *)
(* start message begins the computation (README.md:29): a lone proposal in  *)
(* a room of enough patient nodes, over a network that loses nothing, is    *)
(* computed, and every node is ready for the next one.                      *)
ProposalSucceeds ==
    \A s \in Sessions :
        (s \in proposed) ~> (/\ \E P \in SUBSET Nodes : <<s, P>> \in started
                            /\ \A n \in Nodes : phase[n] = "phase1")

=============================================================================
