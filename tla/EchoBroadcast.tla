--------------------------- MODULE EchoBroadcast ---------------------------
(***************************************************************************)
(* The echo broadcast that wraps an MPC execution (node/runtime: echo.rs   *)
(* and the parts of execution.rs that feed it).                            *)
(*                                                                         *)
(* Every party runs a round-based agent: it broadcasts its message of      *)
(* round k + 1 once it has the round k messages of all others.  Messages   *)
(* sent point to point between two broadcast rounds add no other           *)
(* dependency, so they are left out.  A broadcast goes to every other      *)
(* party as a request; its response is the receiver's echo hash.  A hash   *)
(* is represented by the batch it was computed over: payloads are taken to *)
(* tell sender and round apart, and ties in the heap are ignored.          *)
(***************************************************************************)
EXTENDS Naturals, Sequences, FiniteSets, Functions

CONSTANTS
    N,          \* number of parties, indexed 1..N as in the peerset
    R,          \* broadcast rounds of the protocol
    Payload,    \* Payload[s][k][j]: what s sends to j as its round k message
    Ordered,    \* requests between two parties arrive in the order sent
    Lossy       \* requests may time out or be lost

Parties == 1 .. N
Rounds == 1 .. R

ASSUME NAssumption == N \in Nat /\ N >= 2
ASSUME RAssumption == R \in Nat /\ R >= 1

VARIABLES
    round,    \* rounds the party's agent has broadcast
    received, \* <<sender, round>> pairs handed to the party's agent
    queue,    \* echo channel and heap: messages not yet in a batch
    batch,    \* the batch whose acknowledgements the gadget awaits, or {}
    r,        \* EchoGadget.r: echo rounds completed
    acks,     \* responses to broadcast requests
    verified, \* history: messages of the batches that passed the echo round
    status    \* the execution: running, done, or why it ended early

vars == <<round, received, queue, batch, r, acks, verified, status>>

Msg(s, k, j) == [sender |-> s, round |-> k, payload |-> Payload[s][k][j]]
MsgsAt(j) == {Msg(s, k, j) : s \in Parties, k \in Rounds}
Messages == UNION {MsgsAt(j) : j \in Parties}

(* hash = {} is the empty payload of an acknowledgement that is not an echo. *)
Acks == [to : Parties, round : Rounds, from : Parties,
         ok : {"ok", "refused"}, hash : SUBSET Messages]

Ended == {"done", "inconsistent", "echo_failed", "panicked"}

TypeOK ==
    /\ round \in [Parties -> 0 .. R]
    /\ received \in [Parties -> SUBSET (Parties \X Rounds)]
    /\ queue \in [Parties -> Seq(Messages)]
    /\ batch \in [Parties -> SUBSET Messages]
    /\ r \in [Parties -> Nat]
    /\ acks \subseteq Acks
    /\ verified \in [Parties -> SUBSET Messages]
    /\ status \in [Parties -> {"running"} \cup Ended]

Init ==
    /\ round = [i \in Parties |-> 0]
    /\ received = [i \in Parties |-> {}]
    /\ queue = [i \in Parties |-> <<>>]
    /\ batch = [i \in Parties |-> {}]
    /\ r = [i \in Parties |-> 0]
    /\ acks = {}
    /\ verified = [i \in Parties |-> {}]
    /\ status = [i \in Parties |-> "running"]

-----------------------------------------------------------------------------
Running(i) == status[i] = "running"
Answered(s, k, j) == \E a \in acks : a.to = s /\ a.round = k /\ a.from = j
(* Faulty variant: the next batch does not wait for the echo of the last. *)
BatchFullEager(i) == Running(i) /\ Len(queue[i]) >= N
BatchFull(i) == Running(i) /\ batch[i] = {} /\ Len(queue[i]) >= N

(* Faulty variant: one message short of a round. *)
HasRoundShort(i, k) == Cardinality(received[i] \cap ((Parties \ {i}) \X {k})) >= N - 2
HasRound(i, k) == \A s \in Parties \ {i} : <<s, k>> \in received[i]

OwnIn(i, b) == {m \in b : m.sender = i}

(* The responses that party i gives to the requests in b it has not answered. *)
Respond(i, b, ok, hash) ==
    {[to |-> m.sender, round |-> m.round, from |-> i, ok |-> ok, hash |-> hash] :
        m \in {x \in b : x.sender # i /\ ~Answered(x.sender, x.round, i)}}

(* wrap_execution returns or the task panics: gadget and execution are      *)
(* dropped, and with them the responses owed to others.                     *)
End(i, how) ==
    /\ status' = [status EXCEPT ![i] = how]
    /\ acks' = acks \cup Respond(i, Range(queue[i]), "refused", {})
    /\ queue' = [queue EXCEPT ![i] = <<>>]
    /\ batch' = [batch EXCEPT ![i] = {}]
    /\ UNCHANGED <<round, received, r, verified>>

(* try_send into the echo channel: mpsc::channel(n) with one sender holds   *)
(* n + 1 messages.  The gadget empties the channel whenever it is polled,   *)
(* unless it awaits responses; of the messages it did not yet take when the *)
(* last responses came, and of those in its heap, nothing is told apart.    *)
EchoChannelFull(i) == Len(queue[i]) > N

(* Faulty variant: an unbounded channel. *)
EchoChannelTakesAll(i) == TRUE

(* select! polls the gadget whenever it polls the execution: at most two    *)
(* polls of the execution, of up to two messages each, lie between two of a *)
(* gadget that collects.                                                    *)
EchoChannelTakes(i) ==
    IF batch[i] = {} THEN Len(queue[i]) <= N + 2 ELSE ~EchoChannelFull(i)

(* Faulty variants of Broadcast: the last message is sent once more; the    *)
(* agent waits for the others' message of the round it is about to begin.   *)
BroadcastAgain(i) ==
    LET k == IF round[i] < R THEN round[i] + 1 ELSE R IN
    /\ Running(i)
    /\ round[i] <= R
    /\ EchoChannelTakes(i)
    /\ round' = [round EXCEPT ![i] = @ + 1]
    /\ queue' = [queue EXCEPT ![i] = Append(@, Msg(i, k, i))]
    /\ UNCHANGED <<received, batch, r, acks, verified, status>>

BroadcastLast(i) ==
    /\ Running(i)
    /\ round[i] < R
    /\ EchoChannelTakes(i)
    /\ IF HasRound(i, round[i] + 1)
       THEN /\ round' = [round EXCEPT ![i] = @ + 1]
            /\ queue' = [queue EXCEPT ![i] = Append(@, Msg(i, round[i] + 1, i))]
            /\ UNCHANGED <<received, batch, r, acks, verified, status>>
       ELSE UNCHANGED vars

(* The outgoing branch of ProtocolExecution::poll, MessageRouting::Broadcast. *)
Broadcast(i) ==
    /\ Running(i)
    /\ round[i] < R
    /\ round[i] > 0 => HasRound(i, round[i])
    /\ \/ EchoChannelFull(i) /\ End(i, "panicked")
       \/ /\ EchoChannelTakes(i)
          /\ round' = [round EXCEPT ![i] = @ + 1]
          /\ queue' = [queue EXCEPT ![i] = Append(@, Msg(i, round[i] + 1, i))]
          /\ UNCHANGED <<received, batch, r, acks, verified, status>>

(* The incoming branch: to the echo gadget and to the agent. *)
Deliver(i, s, k) ==
    /\ Running(i)
    /\ s # i /\ k <= round[s]
    /\ <<s, k>> \notin received[i]
    /\ Ordered /\ k > 1 => <<s, k - 1>> \in received[i]
    /\ \/ EchoChannelFull(i) /\ End(i, "panicked")
       \/ /\ EchoChannelTakes(i)
          /\ received' = [received EXCEPT ![i] = @ \cup {<<s, k>>}]
          /\ queue' = [queue EXCEPT ![i] = Append(@, Msg(s, k, i))]
          /\ UNCHANGED <<round, batch, r, acks, verified, status>>

(* A request that reaches a party whose execution has ended: the room is    *)
(* back in Phase 1, where it is answered like a proposal, or not at all.    *)
DeliverLate(i, s, k, ok) ==
    /\ ~Running(i)
    /\ s # i /\ k <= round[s]
    /\ <<s, k>> \notin received[i]
    /\ ~Answered(s, k, i)
    /\ acks' = acks \cup {[to |-> s, round |-> k, from |-> i, ok |-> ok, hash |-> {}]}
    /\ UNCHANGED <<round, received, queue, batch, r, verified, status>>

(* The request of s to i fails: lost, or not answered within 20 s (an echo  *)
(* acknowledgement is withheld until the receiver's batch is full).  The    *)
(* message itself may still arrive.                                         *)
RequestFails(i, s, k) ==
    /\ Lossy
    /\ s # i /\ k <= round[s]
    /\ ~Answered(s, k, i)
    /\ acks' = acks \cup {[to |-> s, round |-> k, from |-> i, ok |-> "refused", hash |-> {}]}
    /\ UNCHANGED <<round, received, queue, batch, r, verified, status>>

-----------------------------------------------------------------------------
(* EchoGadget::proceed_round.                                               *)

(* Faulty variant: one message short of a round. *)
CollectShort(i) ==
    LET b == Range(SubSeq(queue[i], 1, N - 1)) IN
    /\ BatchFull(i)
    /\ batch' = [batch EXCEPT ![i] = b]
    /\ queue' = [queue EXCEPT ![i] = SubSeq(@, N, Len(@))]
    /\ acks' = acks \cup Respond(i, b, "ok", b)
    /\ UNCHANGED <<round, received, r, verified, status>>

(* The first n messages, whatever their rounds and senders, are hashed and  *)
(* acknowledged; one of them is expected to be the party's own.             *)
Collect(i) ==
    LET b == Range(SubSeq(queue[i], 1, N)) IN
    /\ BatchFull(i)
    /\ IF OwnIn(i, b) = {}
       THEN End(i, "panicked")
       ELSE /\ batch' = [batch EXCEPT ![i] = b]
            /\ queue' = [queue EXCEPT ![i] = SubSeq(@, N + 1, Len(@))]
            /\ acks' = acks \cup Respond(i, b, "ok", b)
            /\ UNCHANGED <<round, received, r, verified, status>>

(* Faulty variant: failed requests are overlooked. *)
ResponsesOk(m) == {a \in acks : a.to = m.sender /\ a.round = m.round /\ a.ok = "ok"}

(* The n - 1 responses to own message m, compared with the own hash. *)
Responses(m) == {a \in acks : a.to = m.sender /\ a.round = m.round}

(* Faulty variant: an acknowledgement counts whatever its hash. *)
VerifyAny(i) ==
    \E m \in OwnIn(i, batch[i]) :
        /\ Running(i)
        /\ \A j \in Parties \ {i} : Answered(i, m.round, j)
        /\ \/ /\ \A a \in Responses(m) : a.ok = "ok"
              /\ r' = [r EXCEPT ![i] = @ + 1]
              /\ verified' = [verified EXCEPT ![i] = @ \cup batch[i]]
              /\ batch' = [batch EXCEPT ![i] = {}]
              /\ UNCHANGED <<round, received, queue, acks, status>>
           \/ /\ \E a \in Responses(m) : a.ok = "refused"
              /\ End(i, "echo_failed")

(* The echo round is complete: r += 1, or the execution is abandoned. *)
Verify(i) ==
    \E m \in OwnIn(i, batch[i]) :
        /\ Running(i)
        /\ \A j \in Parties \ {i} : Answered(i, m.round, j)
        /\ \/ /\ \A a \in Responses(m) : a.ok = "ok" /\ a.hash = batch[i]
              /\ r' = [r EXCEPT ![i] = @ + 1]
              /\ verified' = [verified EXCEPT ![i] = @ \cup batch[i]]
              /\ batch' = [batch EXCEPT ![i] = {}]
              /\ UNCHANGED <<round, received, queue, acks, status>>
           \/ /\ \E a \in Responses(m) : a.ok = "ok" /\ a.hash # batch[i]
              /\ End(i, "inconsistent")
           \/ /\ \E a \in Responses(m) : a.ok = "refused"
              /\ End(i, "echo_failed")

(* The agent returns; the gadget is dropped wherever it is. *)
Finish(i) ==
    /\ Running(i)
    /\ round[i] = R
    /\ \A k \in Rounds : HasRound(i, k)
    /\ End(i, "done")

Terminated ==
    /\ \A i \in Parties : ~Running(i)
    /\ UNCHANGED vars

Next ==
    \/ \E i \in Parties :
          \/ Broadcast(i) \/ Collect(i) \/ Verify(i) \/ Finish(i)
          \/ \E s \in Parties, k \in Rounds :
                \/ Deliver(i, s, k) \/ RequestFails(i, s, k)
                \/ \E ok \in {"ok", "refused"} : DeliverLate(i, s, k, ok)
    \/ Terminated

Spec == Init /\ [][Next]_vars

(* The wrapped execution is polled again and again, select! polls both of   *)
(* its branches, and requests that are not lost arrive: a party that can do *)
(* something does something.                                                *)
Works(i) ==
    \/ Broadcast(i) \/ Collect(i) \/ Verify(i) \/ Finish(i)
    \/ \E s \in Parties, k \in Rounds : Deliver(i, s, k)

Fairness == \A i \in Parties : WF_vars(Works(i))

FairSpec == Spec /\ Fairness

(* The behaviours in which a gadget hashes its batch as soon as it is full, *)
(* before its execution is polled again; only messages on the wire dawdle.  *)
Prompt ==
    \A i \in Parties : BatchFull(i) =>
        round'[i] = round[i] /\ received'[i] = received[i] /\ status'[i] = status[i]
PromptSpec == Init /\ [][Next /\ Prompt]_vars

-----------------------------------------------------------------------------
(* Properties.                                                              *)

(* What an echo round is for (README.md:32): when one succeeds at a party,  *)
(* every other party was sent the same payloads, also by a sender that      *)
(* tells different parties different things, and however the rounds         *)
(* interleave (echo.rs:57-118).                                             *)
EchoSound ==
    \A i, j \in Parties : \A m \in verified[i] :
        Payload[m.sender][m.round][j] = m.payload

(* Every batch holds exactly one message of its own party, the one of the   *)
(* echo round it is in: the expect of echo.rs:80 never fails, and no        *)
(* receiver of responses is overwritten at echo.rs:75, although batches     *)
(* take messages as they come.                                              *)
OwnInBatch ==
    \A i \in Parties :
        batch[i] # {} => /\ Cardinality(batch[i]) = N
                         /\ OwnIn(i, batch[i]) = {Msg(i, r[i] + 1, i)}

(* No agent is more than a round ahead of another, and none finishes before *)
(* all have broadcast their last message, also when broadcasts overtake     *)
(* each other or their echo fails: the parties implement RoundBased.        *)
Lockstep == INSTANCE RoundBased WITH
    pos <- [i \in Parties |-> IF status[i] = "done" THEN R + 1 ELSE round[i]]
InStep == Lockstep!Spec

(* An agent does not wait for the echo of its broadcasts, but it never gets *)
(* more than three rounds ahead of it: then the echo channel is full, and   *)
(* "echo channel is expected to be open" (execution.rs:184) ends it.        *)
EchoKeepsUp == \A i \in Parties : Running(i) => round[i] <= r[i] + 3

(* If no execution is abandoned, every party finishes: the gadget and the   *)
(* agent do not wait for each other in a circle.                            *)
AllFinish ==
    [](\A i \in Parties : status[i] \in {"running", "done"})
        => <>(\A i \in Parties : status[i] = "done")

(* While it waits for acknowledgments a gadget gives none ("todo: add       *)
(* timeout handling", echo.rs:93).  So all of them may wait in a circle,    *)
(* but only if two in one echo round have taken a message of the next one   *)
(* for one they are asked for, and a third is further or has taken none:    *)
(* two parties never do.                                                    *)
Acknowledged(i) == \E m \in OwnIn(i, batch[i]) : \A j \in Parties \ {i} : Answered(i, m.round, j)
Premature(i) == \E m \in batch[i] \cup verified[i] : m.round > r[i] + 1
CircleTakesThree ==
    \/ \E i \in Parties : ~Running(i) \/ batch[i] = {} \/ Acknowledged(i)
    \/ \E i, j, k \in Parties :
          /\ i # j /\ r[i] = r[j] /\ Premature(i) /\ Premature(j)
          /\ r[k] > r[i] \/ (r[k] = r[i] /\ ~Premature(k))

(* "Assuming ... all of them received consistent sets of messages, hashes   *)
(* will end up identical" (README.md:32): no InconsistentEcho when every    *)
(* sender sends the same payload to all.                                    *)
NoFalseInconsistency ==
    (\A s, i, j \in Parties, k \in Rounds : Payload[s][k][i] = Payload[s][k][j])
        => \A i \in Parties : status[i] # "inconsistent"

=============================================================================
