----------------------------- MODULE Execution -----------------------------
(***************************************************************************)
(* One MPC computation among its parties: at each party a ReceiverProxy    *)
(* (network_proxy.rs), a ProtocolExecution (execution.rs) and the agent    *)
(* behind it (tss: keygen.rs, keysign.rs, round_based.rs), joined by       *)
(* bounded queues.                                                         *)
(*                                                                         *)
(*     room --proxy--> from_network --poll--> to_protocol --> agent        *)
(*     peers <--------------poll-- from_protocol <--------------'          *)
(*                                                                         *)
(* Proxy and execution are futures of one daemon, polled in any order and  *)
(* any number of times.  The agent runs inside the execution's poll, save  *)
(* for the computation of a round, which is done on another thread.        *)
(* Requests travel on substreams of their own, hence in any order.  The    *)
(* echo gadget is that of EchoBroadcast: here it may abandon an execution. *)
(***************************************************************************)
EXTENDS Naturals, Sequences, FiniteSets, Functions, FiniteSetsExt

CONSTANTS
    N,          \* number of parties, indexed 1..N as in the peerset
    Kind,       \* Kind[k]: how round k's messages travel
    Stage,      \* Stage[k]: the state machine round k belongs to
    MaxLost     \* bound on requests that fail

R == Len(Kind)
Parties == 1 .. N
Rounds == 1 .. R
Others(i) == Parties \ {i}

ASSUME NAssumption == N \in Nat /\ N >= 2
ASSUME KindAssumption == Kind \in Seq({"broadcast", "direct"}) /\ Kind # <<>>
ASSUME StageAssumption == Stage \in [Rounds -> Nat]
ASSUME MaxLostAssumption == MaxLost \in Nat

VARIABLES
    pos,      \* the round of the agent's state machine, R + 1 once finished
    mode,     \* what the agent awaits
    unsent,   \* what the agent has to send; its head is in from_protocol
    got,      \* messages in the agent's state machine
    app,      \* to_protocol
    inbox,    \* from_network, filled by the proxy
    wire,     \* requests on their way, or in the room's receiver
    lost,     \* requests that failed, and messages a proxy discarded
    status    \* the execution: running, done, or why it ended early

vars == <<pos, mode, unsent, got, app, inbox, wire, lost, status>>

Received == [sender : Parties, round : Rounds]
Requests == [sender : Parties, round : Rounds, to : Parties]
Outgoing == [round : Rounds, to : SUBSET Parties]

TypeOK ==
    /\ pos \in [Parties -> 0 .. R + 1]
    /\ mode \in [Parties -> {"computing", "sending", "receiving", "finished"}]
    /\ unsent \in [Parties -> Seq(Outgoing)]
    /\ got \in [Parties -> SUBSET Received]
    /\ app \in [Parties -> Seq(Received)]
    /\ inbox \in [Parties -> Seq(Received)]
    /\ wire \subseteq Requests /\ lost \subseteq Requests
    /\ status \in [Parties -> {"running", "done", "abandoned", "overflow", "mistyped"}]

Init ==
    /\ pos = [i \in Parties |-> 0]
    /\ mode = [i \in Parties |-> "computing"]
    /\ unsent = [i \in Parties |-> <<>>]
    /\ got = [i \in Parties |-> {}]
    /\ app = [i \in Parties |-> <<>>]
    /\ inbox = [i \in Parties |-> <<>>]
    /\ wire = {} /\ lost = {}
    /\ status = [i \in Parties |-> "running"]

Running(i) == status[i] = "running"

(* Capacities: async_channel::bounded(n - 1); and mpsc::channel(n - 1),     *)
(* which keeps one more slot for its only sender.                           *)
(* Faulty variant: no room for a message of each of the others. *)
AppCapacityTight == N - 2
AppCapacity == N - 1
InboxCapacity == N

-----------------------------------------------------------------------------
(* The agent.                                                               *)

RoundMessages(i, k) == {[sender |-> s, round |-> k] : s \in Others(i)}

(* Faulty variants: one message short; nothing is awaited after the last    *)
(* message is sent.                                                         *)
CompleteShort(i, k, g) ==
    k \in Rounds => Cardinality(RoundMessages(i, k) \cap g) >= N - 2
CompleteOnceSent(i, k, g) == k \in 1 .. R - 1 => RoundMessages(i, k) \subseteq g

Complete(i, k, g) == k \in Rounds => RoundMessages(i, k) \subseteq g

(* Faulty variant: the sender is not left out of the indexes. *)
ToSendUnshifted(i, k) ==
    IF k \notin Rounds THEN <<>>
    ELSE IF Kind[k] = "broadcast" THEN <<[round |-> k, to |-> Others(i)]>>
    ELSE [x \in 1 .. N - 1 |-> [round |-> k, to |-> {x}]]

(* The messages of round k, in the order they are sent: one for everybody,  *)
(* or one for each of the others.                                           *)
ToSend(i, k) ==
    IF k \notin Rounds THEN <<>>
    ELSE IF Kind[k] = "broadcast" THEN <<[round |-> k, to |-> Others(i)]>>
    ELSE [x \in 1 .. N - 1 |->
            [round |-> k, to |-> {IF x < i THEN x ELSE x + 1}]]

(* Faulty variant: goes on after the last round. *)
ProceedAgain(i) ==
    LET k == pos[i] + 1
        out == unsent[i] \o ToSend(i, k)
    IN
    /\ Running(i)
    /\ mode[i] \in {"computing", "finished"}
    /\ pos' = [pos EXCEPT ![i] = k]
    /\ unsent' = [unsent EXCEPT ![i] = out]
    /\ mode' = [mode EXCEPT ![i] =
          IF k <= R /\ Complete(i, k, got[i]) THEN "computing"
          ELSE IF out # <<>> THEN "sending"
          ELSE "finished"]
    /\ UNCHANGED <<got, app, inbox, wire, lost, status>>

(* A round's messages are complete and the next round is computed, off the  *)
(* daemon's thread; messages that came early may complete that one too.     *)
Proceed(i) ==
    LET k == pos[i] + 1
        out == unsent[i] \o ToSend(i, k)
    IN
    /\ Running(i)
    /\ mode[i] = "computing"
    /\ pos' = [pos EXCEPT ![i] = k]
    /\ unsent' = [unsent EXCEPT ![i] = out]
    /\ mode' = [mode EXCEPT ![i] =
          IF k <= R /\ Complete(i, k, got[i]) THEN "computing"
          ELSE IF out # <<>> THEN "sending"
          ELSE "finished"]
    /\ UNCHANGED <<got, app, inbox, wire, lost, status>>

(* Faulty variant: a machine that takes only messages of its own round. *)
MistypedEarly(i, m) == m.round # pos[i]

(* An agent takes messages one by one until its round is complete, or until *)
(* it meets one that its present state machine cannot deserialize.          *)
Mistyped(i, m) == Stage[m.round] # Stage[pos[i]]
Stops(i, q, x) ==
    \/ Complete(i, pos[i], got[i] \cup Range(SubSeq(q, 1, x)))
    \/ x > 0 /\ Mistyped(i, q[x])
Taken(i, q) ==
    LET stops == {x \in 0 .. Len(q) : Stops(i, q, x)}
    IN IF stops = {} THEN Len(q) ELSE Min(stops)

-----------------------------------------------------------------------------
(* ProtocolExecution::poll.                                                 *)

(* What is in from_protocol goes to the network, which tells the agent.     *)
Forwarded(i) ==
    IF mode[i] # "sending" THEN {}
    ELSE LET m == Head(unsent[i])
         IN {[sender |-> i, round |-> m.round, to |-> j] : j \in m.to}
StillUnsent(i) == IF mode[i] = "sending" THEN Tail(unsent[i]) ELSE unsent[i]
ModeAfterForward(i) ==
    IF mode[i] = "sending" /\ StillUnsent(i) = <<>>
    THEN IF pos[i] > R THEN "finished" ELSE "receiving"
    ELSE mode[i]

(* One message of from_network is appended to to_protocol. *)
AppAfterIntake(i) ==
    IF inbox[i] = <<>> THEN app[i] ELSE Append(app[i], Head(inbox[i]))

(* Faulty variant: takes all there is, and passes one message on. *)
InboxLeftNone(i) == <<>>
InboxLeft(i) == IF inbox[i] = <<>> THEN <<>> ELSE Tail(inbox[i])

(* The execution, its agent and their queues are dropped. *)
End(i, how) ==
    /\ status' = [status EXCEPT ![i] = how]
    /\ inbox' = [inbox EXCEPT ![i] = <<>>]
    /\ app' = [app EXCEPT ![i] = <<>>]
    /\ unsent' = [unsent EXCEPT ![i] = <<>>]
    /\ UNCHANGED <<pos, mode, got, lost>>

(* try_send into to_protocol fails: "application channel is expected to be  *)
(* open".  What was forwarded in this poll is on its way.                   *)
Overflow(i) ==
    /\ Len(AppAfterIntake(i)) > AppCapacity
    /\ End(i, "overflow")

(* The agent is computing, or has the next message of its round to send. *)
AgentBusy(i) ==
    /\ Len(AppAfterIntake(i)) <= AppCapacity
    /\ ModeAfterForward(i) \in {"computing", "sending"}
    /\ unsent' = [unsent EXCEPT ![i] = StillUnsent(i)]
    /\ app' = [app EXCEPT ![i] = AppAfterIntake(i)]
    /\ inbox' = [inbox EXCEPT ![i] = InboxLeft(i)]
    /\ UNCHANGED <<pos, mode, got, lost, status>>

AgentReceives(i) ==
    LET q == AppAfterIntake(i)
        x == Taken(i, q)
        g == got[i] \cup Range(SubSeq(q, 1, x))
    IN
    /\ Len(q) <= AppCapacity
    /\ ModeAfterForward(i) = "receiving"
    /\ IF x > 0 /\ Mistyped(i, q[x])
       THEN End(i, "mistyped")
       ELSE /\ unsent' = [unsent EXCEPT ![i] = StillUnsent(i)]
            /\ app' = [app EXCEPT ![i] = SubSeq(q, x + 1, Len(q))]
            /\ inbox' = [inbox EXCEPT ![i] = InboxLeft(i)]
            /\ got' = [got EXCEPT ![i] = g]
            /\ mode' = [mode EXCEPT ![i] =
                  IF Complete(i, pos[i], g) THEN "computing" ELSE "receiving"]
            /\ UNCHANGED <<pos, lost, status>>

(* The agent's future is ready: on_done is answered. *)
AgentReturns(i) ==
    /\ ModeAfterForward(i) = "finished"
    /\ Len(AppAfterIntake(i)) <= AppCapacity
    /\ status' = [status EXCEPT ![i] = "done"]
    /\ mode' = [mode EXCEPT ![i] = "finished"]
    /\ unsent' = [unsent EXCEPT ![i] = <<>>]
    /\ app' = [app EXCEPT ![i] = AppAfterIntake(i)]
    /\ inbox' = [inbox EXCEPT ![i] = InboxLeft(i)]
    /\ UNCHANGED <<pos, got, lost>>

ExecPoll(i) ==
    /\ Running(i)
    /\ mode[i] \in {"sending", "finished"} \/ inbox[i] # <<>>
    /\ wire' = wire \cup Forwarded(i)
    /\ Overflow(i) \/ AgentBusy(i) \/ AgentReceives(i) \/ AgentReturns(i)

(* ReceiverProxy::poll hands a message to the execution; a message that     *)
(* finds from_network full is dropped, and its request with it.             *)
ProxyPoll(i) ==
    \E m \in {x \in wire : x.to = i} :
        /\ Running(i)
        /\ wire' = wire \ {m}
        /\ IF Len(inbox[i]) < InboxCapacity
           THEN /\ inbox' = [inbox EXCEPT ![i] =
                      Append(@, [sender |-> m.sender, round |-> m.round])]
                /\ UNCHANGED lost
           ELSE lost' = lost \cup {m} /\ UNCHANGED inbox
        /\ UNCHANGED <<pos, mode, unsent, got, app, status>>

(* A request fails.  For a direct message the execution logs the error. *)
Lose(m) ==
    /\ Cardinality(lost) < MaxLost
    /\ wire' = wire \ {m}
    /\ lost' = lost \cup {m}
    /\ UNCHANGED <<pos, mode, unsent, got, app, inbox, status>>

(* The echo gadget abandons the execution: an own broadcast failed. *)
EchoFails(i) ==
    /\ Running(i)
    /\ \E m \in lost : m.sender = i /\ Kind[m.round] = "broadcast"
    /\ End(i, "abandoned")
    /\ UNCHANGED wire

Next ==
    \/ \E i \in Parties : Proceed(i) \/ ExecPoll(i) \/ ProxyPoll(i) \/ EchoFails(i)
    \/ \E m \in wire : Lose(m)

Spec == Init /\ [][Next]_vars

(* Both futures wake themselves at the end of their polls, the thread pool  *)
(* completes what it is given, and requests that do not fail arrive.        *)
Fairness ==
    \A i \in Parties : WF_vars(Proceed(i)) /\ WF_vars(ExecPoll(i)) /\ WF_vars(ProxyPoll(i))

FairSpec == Spec /\ Fairness

-----------------------------------------------------------------------------
(* Properties.                                                              *)

(* The queue to an agent has room for the next round's message of each of   *)
(* the others, who cannot be further while the agent computes, waits, or    *)
(* sends a broadcast: "application channel is expected to be open"          *)
(* (execution.rs:217-227) fails only in the middle of direct messages, when *)
(* those already served are a round ahead of those that are not.            *)
OverflowOnlyWhileSending ==
    \A i \in Parties :
        status[i] = "overflow" => mode[i] = "sending" /\ Kind[pos[i]] = "direct"

(* When a party has finished, no message of the computation is on its way   *)
(* to it, or was discarded: the receiver goes back to Phase1Channel         *)
(* (network_proxy.rs:43), where a direct message would be a panic           *)
(* (coordination.rs:66).                                                    *)
NothingLate ==
    \A i \in Parties : status[i] = "done" =>
        /\ app[i] = <<>> /\ inbox[i] = <<>>
        /\ \A m \in wire \cup lost : m.to # i

(* However messages are reordered, delayed, lost or discarded, no agent is  *)
(* more than a round ahead of another, and none has a result before all     *)
(* have sent their last message (execution.rs:88-271): the parties          *)
(* implement RoundBased.                                                    *)
Lockstep == INSTANCE RoundBased
InStep == Lockstep!Spec

(* If no request fails, no message is discarded and no execution ends early,*)
(* every agent gets its result: the bounded queues and the agent's waiting  *)
(* for `sent` (round_based.rs:50) never wait for each other in a circle.    *)
AllComplete ==
    [](lost = {} /\ \A i \in Parties : status[i] \in {"running", "done"})
        => <>(\A i \in Parties : status[i] = "done")

(* A computation stalls only over a loss: as long as no message is lost and *)
(* no execution has ended early, not all that have no result yet wait for   *)
(* messages nobody sends: one computes, sends (each poll of an execution    *)
(* takes what its agent awaits `sent` for, execution.rs:123), or a message  *)
(* is on its way to it.                                                     *)
StallsOnlyOverLoss ==
    \/ lost # {} \/ \E i \in Parties : status[i] \notin {"running", "done"}
    \/ \A i \in Parties : status[i] = "done"
    \/ \E i \in Parties :
          /\ Running(i)
          /\ \/ mode[i] # "receiving" \/ inbox[i] # <<>>
             \/ \E m \in wire : m.to = i

(* A signing agent reads the offline stage and the partial signatures from  *)
(* one channel with two state machines (keysign.rs:56, :67), and the unwrap *)
(* of round_based.rs:23 fails when one meets a message of the other.  That  *)
(* takes a party that has everything and another that waits for the last    *)
(* round of the first machine; no earlier round and no key generation is    *)
(* exposed to it.                                                           *)
MistypedOnlyAtTheEdge ==
    \A i \in Parties : status[i] = "mistyped" =>
        /\ pos[i] < R /\ Stage[pos[i] + 1] # Stage[pos[i]]
        /\ \E j \in Others(i) : pos[j] = pos[i] + 1

=============================================================================
