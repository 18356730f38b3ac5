# tss-libp2p: a TLA+ model of the node

This directory models the node of `tss-libp2p`: how parties agree on a
computation in a room, how the computation's messages are echoed, how the
network layer keeps track of requests, and what a node keeps on disk between key
generation and signing. TLC checks the models on small instances; TLAPS proves
their safety properties for every value of their constants.
Three abstract specifications say what parts promise; four detailed state machines
implement them, which is checked and proved. `PROJECT.json` lists components, runs, the source lines each definition stands
for, the hazards the properties are aimed at, findings and theorems.

## Inventory

| Part | State it keeps | Operations | Hard behaviour |
|---|---|---|---|
| Runtime daemon (`node/runtime/src/runtime.rs`) | `rooms_rpc`; three sets of futures | serve an RPC call; finish a coordination; reap an execution or a proxy | branches that `await` inside `select!`; one map entry touched by six branches |
| Coordination (`coordination.rs`, `negotiation.rs`, `network_proxy.rs`) | who owns a room's receiver; a oneshot for local calls; answers so far | Phase 1, Phase 2, negotiation, proxy polls; 15 s timeouts | proposals, start messages and MPC broadcasts share a message type; late messages meet any phase |
| Start message (`negotiation.rs`, `peerset.rs`) | none | `to_bytes`, `from_bytes` | buffered I/O at its limit |
| Execution (`execution.rs`) | channels to agent, network, echo | forward in and out, answer the client | bounded channels filled by others, an agent that is busy or speaks another state machine's messages |
| Echo broadcast (`echo.rs`) | heap, channel, echo round | collect n messages, acknowledge, compare hashes | messages of different rounds; acknowledgments withheld; the end races the echo |
| Peerset, cache (`peerset.rs`, `peerset_cacher.rs`) | peers, indexes, one file per room | new, recover, save | cache of another generation, unknown peers |
| Agents (`tss/src`) | `key.share` | `KeyGen::compute`, `KeySign::compute` | crash between two writes |
| Network (`node/network/src/service.rs`, `broadcast.rs`) | `pending_requests`, `pending_responses`, arrival times | send, poll, events of libp2p | response against timeout, loss, a dead daemon |
| Wire codec (`messages.rs`) | none | read and write requests and responses | streams that end early, sizes at their limit |
| Discovery (`discovery.rs`) | known peers, number of connections | connect, disconnect | its set of peers decides who hears a proposal, and grows meanwhile |
| RPC (`node/rpc`, `node/rpc-api`), command line (`cmd`), configuration | none that changes | start a call, wait for the answer | none of their own |

The parts interact so. An RPC call puts a `RuntimeMessage` with its `on_done`
into the daemon's queue. The daemon sends it into the oneshot of the room's
`Phase1Channel`, which turns into a `NegotiationChan`; that broadcasts a proposal
through `NetworkService` and collects responses. A joiner's `Phase1Channel`
answers the proposal and turns into a `Phase2Chan` that waits for the start
message. Both sides end with a `ReceiverProxy` that owns the room's receiver, and a
`ProtocolExecution` wrapped by an `EchoGadget`. Every message is a libp2p request;
its response is the answer to a proposal, an echo hash, or an empty
acknowledgment. When the execution is gone the proxy gives the receiver to a new
`Phase1Channel`.

What makes each part correct: an RPC call is answered exactly once, and a room is
busy exactly when it is; nobody computes without having been chosen, and all
parties with the same choice; nobody is more than a round ahead of another, and nobody
has a result before all have sent their last message; a successful echo round means consistent messages; a
request yields one result, and a true one; a share is used with the peerset it was
generated with.

## Modules

| Module | Models | Runs | Proofs |
|---|---|---|---|
| `RoomService` | what a node promises its RPC clients | (refined by `RuntimeDaemon`) | (there) |
| `RuntimeDaemon` | one node's daemon and its rooms | `RuntimeDaemon`, `RuntimeDaemonListens` | `RuntimeDaemonProofs` |
| `Coordination` | one room across its nodes | `CoordinationSafety`, `Pair`, `Triple` | `CoordinationProofs` |
| `RoundBased` | what a round-based computation promises | (refined by `Execution`, `EchoBroadcast`) | `RoundBasedProofs` |
| `Execution` | proxies, executions and agents of one computation | `Execution` | `ExecutionProofs` |
| `EchoBroadcast` | the echo gadgets of one execution | `EchoBroadcastSafety`, `Live`, `FalseAlarm` | `EchoBroadcastProofs` |
| `RequestResponse` | what the network layer promises a caller | (refined by `Broadcast`) | (there) |
| `Broadcast` | one calling node's and all serving nodes' network layer, known peers | `Broadcast` | `BroadcastProofs` |
| `Codec`, `Encoding` | streams of requests and responses; the start message | `Encoding` | `EncodingProofs` |
| `KeyLifecycle` | agents, `key.share` and the peerset cache | `KeyLifecycle` | `KeyLifecycleProofs` |

`MC<module>` holds the instances for TLC (`Broadcast` needs none). Operators commented as "Faulty variant"
are plausible bugs of the operator that follows them; none is part of a
specification. Each one, put in place of that operator, breaks a property
(`PROJECT.json`, "mutants").

**RuntimeDaemon.** The daemon is one cooperative task, so each poll of a future and
what its branch does until the next `await` is one action. `chan` says which future
owns a room's receiver; `rpc` and `slot` are the two ends of the Phase 1 oneshot (the
entry of `rooms_rpc`, and what is in the oneshot), `holder` and `reply` follow
`on_done`. `Idle` is the head-of-line blocking of `channel.await` and
`negotiation.await`. `ServesRooms` maps `reply` to itself and `running` to the
request a room's execution answers, so phases, oneshots and queues are hidden. Peers are
the environment: they may send anything of the kinds
the handlers tell apart.

**Coordination.** Nodes and the requests between them. `agent` is the session whose
proposal made a node's agent, `run` the one whose start message it obeys: the code
never compares them (`coordination.rs:149`), and in the model they can differ. `answered` and `started` are history. A computation is one
broadcast round and one round of direct messages. `Ordered` decides whether requests
between two nodes may overtake each other (libp2p opens a substream per request),
`Failures` whether they are lost, and `Patient` whether timeouts wait until nothing
else can happen.

**Execution.** A party is a proxy (`ProxyPoll`), an execution (`ExecPoll`, one action
per poll, in the order of the code: forward what the agent sent, take one message in,
poll the agent) and an agent. `mode` is what the agent awaits: a round computed on
another thread (`Proceed`), `sent` for the head of `unsent`, or messages. `Kind` gives
each round's way of travelling, `Stage` the state machine it belongs to; a message of
another one is the failed `unwrap` of `round_based.rs:23`. `AsyncProtocol` is external:
it sends a round's messages, receives until they are complete, and proceeds.

**EchoBroadcast.** Parties run R broadcast rounds; a hash is the batch it was computed
over. `queue` is the gadget's channel and heap together; `EchoChannelFull` and
`EchoChannelTakes` follow from a channel of n + 1 slots (a sender's slot included) that
an idle gadget empties whenever `select!` polls it: the execution is polled at most
once more, with a message in and one out, before the gadget is. `PromptSpec` keeps the
behaviours in which a gadget hashes a full batch before its execution is polled
again; the false alarm below needs only those.

**Broadcast.** The books of `broadcast.rs` against an external `RequestResponse`
behaviour, given by the events it may raise (`out`, `inn`). `known` is the set of peers of
`DiscoveryBehaviour`, which only grows; a broadcast (`wide`) gets its targets from it
when the worker dispatches it. Branches no caller of
this program can reach are not modelled: unknown protocols, `ImmediateError`,
`NotConnected`, `sent_feedback`, and a full inbound queue (each `try_send` goes through a fresh
clone, which owns a slot).

**KeyLifecycle.** Sessions are executions that coordination starts; `key` and
`cache` are the two files, each truncated in one step and written in another.
Crashes fall between any two steps; an agent can be dropped where it awaits. `parted`
is a ghost: nodes cut off while saving.

**Codec, Encoding.** `Codec` has the two streams: the bytes of their numbers and the
count of their payload. `Encoding` takes a message through them: the four parts of a
start message and what stays in the `BufWriter`'s buffer, the request written and read
with the stream ending anywhere, where the `BufReader`'s short read falls, and the
response, with the real sizes (8192, 38, 8 MiB, 10 KiB).

## What the runs show

Passing:

- `RuntimeDaemon`: two rooms, two clients (n = 2, and n = 0, which underflows).
  `RpcHandle`: the entry of `rooms_rpc` is live exactly when somebody listens.
  `OnDoneOwned`: each `on_done` has one owner and is answered once. `OneAtATime`: a room
  computes once at a time, with the parties asked for. `ServesRooms`: the daemon
  implements `RoomService`. `EventuallyServed`: every call ends up answered or computing.
- `CoordinationSafety`: three nodes, two competing proposers, overtaking, timeouts at
  any time, losses and abandoned executions: `StartJustified`, and
  `OwnSessionSafe`: whatever comes to a computing party from its own computation is from a
  party of it and of a kind its proxy and execution expect, so only other proposals can
  panic the proxy (`network_proxy.rs:59`). `CoordinationPair`: a
  lone proposal for two parties succeeds.
- `EchoBroadcastSafety` (3 parties, 2 rounds, an equivocating sender, any order):
  `EchoSound`, `OwnInBatch`, and `InStep`: the parties implement `RoundBased`. Gadgets
  wait for each other in a circle only after messages of two rounds were mixed at two of
  three parties (`CircleTakesThree`).
  `EchoBroadcastLive` (2 parties, 4 rounds, failing requests): unless an execution fails,
  all finish whatever their gadgets wait for (`AllFinish`), and an agent is at most three
  rounds ahead of its echo (`EchoKeepsUp`), beyond which the channel is full.
- `Execution`: three parties sign, one request may fail. `to_protocol` overflows
  only while its agent is sending direct messages (`OverflowOnlyWhileSending`); a
  message meets the wrong state machine only between the offline stage and the partial
  signatures (`MistypedOnlyAtTheEdge`); nothing is left on its way to a party that has
  finished (`NothingLate`); the parties implement `RoundBased` (`InStep`); the bounded
  queues and the wait for `sent` never close a circle (`StallsOnlyOverLoss`), so all finish
  (`AllComplete`).
- `Broadcast`: a multicast, also to the caller itself, or a broadcast to known peers.
  The books match, late acknowledgments are deliverable, results are sound, one is owed
  by every target, and by every peer known when a broadcast was called (`DebtsStand`), and
  arrives (`EventuallyResolved`), arrival times are forgotten, and the layer implements
  `RequestResponse` (`KeepsPromise`), whatever the serving daemons do.
- `KeyLifecycle`: key generation by three nodes or the outer two, again, and signing,
  with crashes between any two steps: `ShareMatchesPeerset`, `SignerIndexes`,
  `SignersAgree`.
- `Encoding`: start messages around each boundary, other requests around 8 MiB. A start
  message beyond 8192 bytes loses its beginning in `BufWriter::buffer()`
  (`negotiation.rs:264`); every smaller one is read back whole (`SurvivesIffFits`).
  Wherever a stream ends, a request is read as it was written or not at all
  (`RequestIntact`), and only a whole answer passes for one, only nothing for a refusal
  (`ResponseIntact`).

Disagreements between the code and what it or its documentation says. Each run
checks one property and TLC finds it violated; `PROJECT.json` quotes the lines.

- `RuntimeDaemonListens`: `and_modify` (`runtime.rs:198`) loses the sender of a new
  `Phase1Channel` when the entry had been removed; the next poll panics
  (`coordination.rs:77`). Sequence: a local call is sent into the oneshot, a remote
  proposal is polled first and consumes the channel, Phase 2 times out.
- `CoordinationTriple`: a party's first MPC broadcast overtakes the start message
  of another party, which aborts; the rest of the computation waits for ever.
- `EchoBroadcastFalseAlarm`: honest batches mix rounds differently, and an execution
  is abandoned as inconsistent.

Further behaviour of the code that the actions contain, reachable in the passing
runs; the properties above say when at most it happens:

- a bystander's proposal panics a computing node (`unknown_peer` in `ProxyPoll`,
  `network_proxy.rs:59`); a direct message panics a node that is back in coordination
  (`unexpected_type`, `coordination.rs:66`, `:166`);
- `to_protocol` overflows while the agent sends the direct messages of a round and the
  parties it has served go on to the next (`overflow`, `execution.rs:227`);
- the proxy drops messages silently when `from_network` is full (`network_proxy.rs:56`),
  and their receiver waits for ever;
- a partial signature reaches a party that still deserializes offline messages
  (`mistyped`, `round_based.rs:23`);
- the echo channel overflows while a round awaits its responses (`panicked` in
  `EchoBroadcast`, `execution.rs:184`, `:207`);
- three gadgets wait for each other in a circle although each party has received every
  message: one that is overtaken by messages of the next round is left out of its
  receiver's batch, and its sender waits for a receiver that waits as well
  (`echo.rs:93`). The agents go on; unless they finish first, the requests time out and
  the executions end with `EchoFailed`;
- success is reported while the last echo round is under way (`Finish`, `echo.rs:50`).

### Bounds

`MaxInbox = 1` in RuntimeDaemon suffices for every order of a queued message and a
local call: an action looks at the head of one queue only, and what waits behind it is
delivered later. Two rooms are needed for blocking, two requests for a stale entry of
`rooms_rpc`; one peer answers for n = 2, and the proofs cover every n and any peers.
`MaxInbox` is 2 or 4 in Coordination; requests that do not fit stay on the wire. Two
sessions give every pair of competing proposals.

Execution: three parties are the fewest with a round of direct messages that serves one
before another; a round of each kind, one after it, and the change of state machine are
there, and further rounds of the offline stage repeat these. `MaxLost = 1` bounds requests
that fail and messages that are dropped through it; drops at a full queue are not bounded.
Echo: three parties are the fewest that can disagree about a third, two rounds the fewest
that can be mixed; four rounds with two parties are the fewest in which an agent can be
three ahead. Broadcast: two peers and the caller itself are the least in which answers of
one call cross, one of them known from the start (`Boot`); that several calls do not take
each other's results is covered by the proofs, which hold for any set of calls. Encoding:
1 to 215 parties cross the sizes at which a peer's id straddles a buffer and a message
fills it (209 and 210 parties); ids of one, two and three bytes; a stream ends in each
place of its header and in the middle, before the last byte and at the end of its payload.
Keys: two generations and a signing session (`MaxSessions = 3`). No run uses symmetry.

### Deadlock

`Rest` and `Terminated` are the states in which everything is done. The Coordination
and Execution runs switch deadlock checking off: a lost message stalls a computation, an execution whose party is gone waits for ever,
and a node that panicked does nothing, so the system really may stop.

### Fairness

- RuntimeDaemon: every future calls `wake_by_ref`, so an awaited room is polled again
  (weak fairness of Phase 2 polls and negotiation timeouts: intervals fire).
  `select!` polls its ready branches in random order, but they compete with each
  other and with awaits that block them all: strong fairness of the service branch,
  Phase 1 polls and proxy returns. Nothing is assumed of executions, peers, clients.
- Execution: weak fairness of the thread pool and of the polls of both futures, which wake
  themselves; no request has to fail.
- Coordination and EchoBroadcast: weak fairness of polls and of the delivery of
  requests that are not lost. No client has to propose; no execution has to fail.
- Broadcast: weak fairness of the worker's loop and of libp2p's timers
  (`request_timeout`, 20 s). Nothing is assumed of the daemons that answer.

## What is proved

Every invariant, every action property and every refinement that a passing run checks,
for all values of the constants. Assumptions are the named `ASSUME`s of each
module: sizes are natural numbers, sentinel values are not requests or peers, peers are
finitely many, `N >= 2`, `R >= 1`, an answer has less than 128 bytes. TLC evaluates them
on every run, and the inductive invariants of Coordination, Execution, EchoBroadcast and
KeyLifecycle were checked as invariants of small instances before they were proved. Each
proof has one lemma per action (or group of actions with one effect).

**RuntimeDaemonProofs**: `TypeOK`, `RpcHandle`, `OnDoneOwned`, `OneAtATime`,
`ServesRooms`. Whether the sender in `rooms_rpc` is live depends on which
future owns the receiver; ownership of `on_done` depends on when the oneshot can be
filled, hence on the sender being live; a negotiation must hold a request, and an
execution exist only behind a proxy. `IndInv` is `TypeOK` and, while the daemon is
alive, `Ownership` and `RoomShape` of every room; `ReleaseSlot` and `ReleaseHolder`
collect the two ways an `on_done` is let go. That the daemon implements `RoomService`
needs no more: a dropped `on_done` is a refusal because its only owner, by `Ownership`,
has no execution (`DropRefuses`), and a start is one because no other room owns it
(`ExecStarts`).

**CoordinationProofs**: `TypeOK`, `StartJustified`, `OwnSessionSafe`. A joiner forgets
which proposal it answered, so the invariant speaks of the requests under way:
`Truthful` (a proposal has not been answered by its receiver, a start message names
the parties of a started session and its receiver does not execute it yet, a
computation's message is between two parties of it) and `Single` (no two proposals or
start messages of a session on their way to a node). With `History` (who proposed,
answered and started) and `NodeShape` it is inductive under loss, overtaking and
timeouts. `Part` says that a receiver or wire loses requests and never doubles one.

**ExecutionProofs**: `TypeOK`, `OverflowOnlyWhileSending`, `MistypedOnlyAtTheEdge`,
`NothingLate`, `InStep`, `StallsOnlyOverLoss`, for any sequence of rounds, kinds and stages. A message is at
any time in one place of its way (`Once`, `Outbox`) and has left nobody who has not
reached its round (`Origin`); an agent has all of the rounds before its own (`Agent`).
So the messages queued at it are of its round or the next, and there are at most
`N - 1` of each: a queue with room for one message per other party overflows only if it
holds some of both, that is while its owner sends direct messages. Conversely, among
parties that are well no message of a round begun is forgotten (`Accounted`), and an
agent that waits has nothing left to send (`Waiting`). If all waited for messages that are
on no way, the party furthest behind would miss one of a round which everybody has
begun, and that message would have to be lost. This is the safety part of
`AllComplete`: fairness adds only that a step which is possible is taken.

**EchoBroadcastProofs**: `TypeOK`, `EchoSound`, `OwnInBatch`, `EchoKeepsUp`, `InStep`,
`CircleTakesThree`, and that the `expect` of `echo.rs:80` does not fail
(`ExpectHolds`). For `EchoSound`, the strengthening `Addressed` says that whatever a party queues, batches or hashes was sent
to that very party, and that verified batches consist of messages every party was sent.
The step that matters is `VerifyInv`: equal hashes put one message into what was sent to
both parties. Payloads are an arbitrary constant, so every equivocation is covered. For
the others `RoundsInv` counts. A party that has broadcast k messages has between k - 1 and
k + 1 of every other one (`Received`, `RoundLag`), so its own message of round k is one of
the k-th n messages it ever queues (`Queued`), and batches of n in order of arrival have
one own message each. Each message is queued once (`Counted`) and the queue is bounded
(`Bounded`), which bounds how far the echo lags.

For `CircleTakesThree`, batches take n messages each (`Tally`), and an own message only
after all of the rounds before it (`Taken`, `Behind`): so a batch without a message that
somebody waits for holds one of the next round instead. But whoever
began that round first had all of the round before (`Firsts`), and so had its gadget.
Hence a circle needs two mixed batches and a third party; two parties never close one
(`TwoNeverCircle`).

**BroadcastProofs**: `TypeOK`, `BooksMatch`, `AckDeliverable`, `ResultsSound`,
`DebtsStand`, `KeepsPromise`. The invariant adds `QueueFresh` (a call still queued has no
request open, and is queued once), `Traced` (a positive result, and a response under way, come from an
answer) and `Heard` (each target of a sent call is pending or has been heard of). For the
refinement, `Begun`: what arrives was sent; so an answer is to a request that was made.

**KeyLifecycleProofs**: `TypeOK`, `ShareMatchesPeerset`, `SignerIndexes`, `SignersAgree`.
A file that is neither absent nor torn is of a session that was started (`Files`), what a
signer has read stays right because sessions do not change (`Signing`), and the two files
are of one generation unless the node is between writing them or was cut off there
(`Saved`). The lemmas on `Position` say that peers of a set have different positions.

**EncodingProofs**: `SurvivesIffFits`, `RequestIntact`, `ResponseIntact`, for any numbers
of any length and streams that end anywhere. `Varint` and `Value` are recursive functions,
of which a prover knows nothing before it is shown that they exist. That rests on
induction for sets of numbers instead of operators (`Induction`, from the well-foundedness
of `<`): functions that obey a recursive definition below m agree there, so one obeys it
everywhere (`Recursion`). Then `Value` undoes `Varint` and only the last byte of a number is
below 128 (`VarintValue`), so the numbers of a stream are told apart by these bytes and a
beginning of the stream has fewer of them (`ReadsCut`). For start messages the invariant
`Buffering` says that the buffer holds all that was written as long as it never was
flushed. That an answer has less than 128 bytes came out of the proof: of a longer one,
the first byte of its length alone would pass for a refusal.

**RoundBasedProofs**: in a round-based computation nobody is more than a round ahead
(`WithinARound`). With `InStep` this holds of executions (`PartiesStayTogether`) and of
echoing agents (`EchoesStayTogether`).

Only model-checked: liveness (`EventuallyServed`, `ProposalSucceeds`, `AllFinish`,
`AllComplete`, `EventuallyResolved`, `ArrivalsForgotten`), because fairness and `ENABLED`
are beyond the prover. What these rest on in safety is proved where it is more than the
shape of an action: no circle (`StallsOnlyOverLoss`) for `AllComplete`, no circle of two gadgets
(`TwoNeverCircle`) for `AllFinish`, and a debt that
stands until every result has come (`DebtsStand`, `ResultsSound`) for `EventuallyResolved`.

## Not modelled

GG20 itself, libp2p, Kademlia and mDNS (external). Discovery's addresses, its count of
connections and what it passes on, which nothing in the program reads. Configuration,
node identity (`get_secret`, `generate_config`) and the command line: they run once,
one step after another, before any other part exists. Reading them shows three things
no run states: the documented `--path ./data/:id/` makes `setup` open a directory as the
key file, a `secret.key` left half written blocks every later `deploy`, and
`key.share` is always under `data/<id>/` of the working directory, whatever `--path`
says. JSON-RPC is a library. Payload contents, error texts and logging are abstracted.
`EphemeralCacher` is not used by the program. Branches of `broadcast.rs` that no caller
reaches are listed under Broadcast above.

## Plan

All modules planned are written. What could come next is a refinement mapping from several
`RuntimeDaemon`s to `Coordination`'s nodes, whose peers are then not an environment that
may send anything.
