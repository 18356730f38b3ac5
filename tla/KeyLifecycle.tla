---------------------------- MODULE KeyLifecycle ----------------------------
(***************************************************************************)
(* What the key generation and signing agents of tss keep on disk, and how *)
(* the peerset cache of node/runtime ties a key share to the parties it    *)
(* was generated with.                                                     *)
(*                                                                         *)
(* One room, the one cmd/src/main.rs deploys.  A node has one key.share    *)
(* file and one peerset file.  Sessions stand for coordinated executions;  *)
(* what the parties compute together (AsyncProtocol) is external: it ends  *)
(* at a party only once every party has begun.  Peer ids are numbers, in   *)
(* the order of their bytes; a peerset is a function from its peers to     *)
(* their parties_indexes, and session_peers is its domain in that order.   *)
(*                                                                         *)
(* Crashes fall between any two steps.  An execution can also be dropped   *)
(* (EchoGadget::wrap_execution returns on an echo failure) at the awaits   *)
(* of its agent.                                                           *)
(***************************************************************************)
EXTENDS Naturals, Sequences, FiniteSets

CONSTANTS
    Peers,        \* the nodes of the room
    Choices,      \* executions coordination may start: protocol and parties
    MaxSessions   \* bound: executions that are started

ASSUME PeersAssumption == Peers \subseteq Nat /\ IsFiniteSet(Peers)
ASSUME ChoicesAssumption ==
    Choices \subseteq [protocol : {"keygen", "sign"}, parties : SUBSET Peers]
ASSUME MaxSessionsAssumption == MaxSessions \in Nat

VARIABLES
    sessions,  \* executions started: the protocol and the chosen parties
    begun,     \* per session, the parties whose agent has begun
    agent,     \* the agent a node runs, if any, and how far it is
    key,       \* the key.share file: absent, torn, or a share
    cache,     \* the peerset file: absent, torn, or a peerset
    parted     \* ghost: nodes cut off while saving since their last full save

vars == <<sessions, begun, agent, key, cache, parted>>

NoAgent == [stage |-> "none"]
Generations == 1 .. MaxSessions
Absent == [gen |-> 0, torn |-> FALSE]
Torn == [gen |-> 0, torn |-> TRUE]

-----------------------------------------------------------------------------
(* Peersets.                                                                *)

(* session_peers.position(p) + 1: sets of peers are kept sorted. *)
Position(P, p) == Cardinality({q \in P : q <= p})

(* The k-th peer of a set. *)
Nth(P, k) == CHOOSE p \in P : Position(P, p) = k

(* Peerset::new: parties_indexes is 0 .. len - 1.  A joiner decodes the     *)
(* same from the start message.                                             *)
NewPeerset(P) == [p \in P |-> Position(P, p) - 1]

(* Faulty variant: indexes within the session instead of the cached ones. *)
RecoverFromSession(P, cached) ==
    [k \in 1 .. Cardinality(P \cap DOMAIN cached) |-> k - 1]

(* recover_from_cache: the cached indexes of the session's peers in order;  *)
(* a peer the cache does not know is skipped.                               *)
RecoverFromCache(P, cached) ==
    LET known == P \cap DOMAIN cached
    IN  [k \in 1 .. Cardinality(known) |-> cached[Nth(known, k)]]

(* Peerset::from_bytes of a file that was truncated and not yet written. *)
Peerset(file) == IF file.torn THEN [p \in {} |-> 0] ELSE file.indexes

-----------------------------------------------------------------------------
Parties(s) == sessions[s].parties
At(p, stage) == agent[p].stage = stage
Goto(p, stage) == agent' = [agent EXCEPT ![p].stage = stage]
End(p) == agent' = [agent EXCEPT ![p] = NoAgent]

Indexes == 0 .. Cardinality(Peers)
Shares == [gen : Generations, torn : {FALSE}, i : Indexes]
PartyIndexes == UNION {[P -> Indexes] : P \in SUBSET Peers}
Peersets == [gen : Generations, torn : {FALSE}, indexes : PartyIndexes]

TypeOK ==
    /\ sessions \in Seq(Choices)
    /\ Len(sessions) <= MaxSessions
    /\ begun \in [Generations -> SUBSET Peers]
    /\ DOMAIN agent = Peers
    /\ \A p \in Peers :
          \/ agent[p] = NoAgent
          \/ /\ agent[p].stage \in {"compute", "write", "send", "cache", "recover", "offline"}
             /\ agent[p].session \in 1 .. Len(sessions)
             /\ At(p, "offline") => agent[p].share \in Shares /\ agent[p].cached # Absent
    /\ key \in [Peers -> Shares \cup {Absent, Torn}]
    /\ cache \in [Peers -> Peersets \cup {Absent, Torn}]
    /\ parted \subseteq Peers

Init ==
    /\ sessions = <<>>
    /\ begun = [s \in Generations |-> {}]
    /\ agent = [p \in Peers |-> NoAgent]
    /\ key = [p \in Peers |-> Absent]
    /\ cache = [p \in Peers |-> Absent]
    /\ parted = {}

-----------------------------------------------------------------------------
(* Coordination chose the parties of a new execution. *)
StartSession(choice) ==
    /\ Len(sessions) < MaxSessions
    /\ sessions' = Append(sessions, choice)
    /\ UNCHANGED <<begun, agent, key, cache, parted>>

(* TssFactory::make, and compute is called; one execution at a time. *)
Begin(p, s) ==
    /\ s <= Len(sessions)
    /\ p \in Parties(s) \ begun[s]
    /\ At(p, "none")
    /\ begun' = [begun EXCEPT ![s] = @ \cup {p}]
    /\ agent' = [agent EXCEPT ![p] =
                    [stage |-> IF sessions[s].protocol = "keygen" THEN "compute" ELSE "recover",
                     session |-> s]]
    /\ UNCHANGED <<sessions, key, cache, parted>>

-----------------------------------------------------------------------------
(* KeyGen::compute.                                                         *)

(* The protocol ends with a share, and File::create truncates the old one. *)
CreateKeyFile(p) ==
    /\ At(p, "compute")
    /\ begun[agent[p].session] = Parties(agent[p].session)
    /\ key' = [key EXCEPT ![p] = Torn]
    /\ Goto(p, "write")
    /\ UNCHANGED <<sessions, begun, cache, parted>>

(* The rest of save_local_key; the share knows its party's index. *)
WriteKeyFile(p) ==
    LET s == agent[p].session IN
    /\ At(p, "write")
    /\ key' = [key EXCEPT ![p] = [gen |-> s, torn |-> FALSE, i |-> Position(Parties(s), p)]]
    /\ Goto(p, "send")
    /\ UNCHANGED <<sessions, begun, cache, parted>>

(* save_to_cache: the execution polls WriteToCache, and fs::write truncates. *)
CreateCacheFile(p) ==
    /\ At(p, "send")
    /\ cache' = [cache EXCEPT ![p] = Torn]
    /\ Goto(p, "cache")
    /\ UNCHANGED <<sessions, begun, key, parted>>

(* Faulty variant: the peerset is written without the node itself. *)
WriteCacheFileRemotes(p) ==
    LET s == agent[p].session IN
    /\ At(p, "cache")
    /\ cache' = [cache EXCEPT ![p] =
                    [gen |-> s, torn |-> FALSE, indexes |-> NewPeerset(Parties(s) \ {p})]]
    /\ parted' = parted \ {p}
    /\ End(p)
    /\ UNCHANGED <<sessions, begun, key>>

(* The peerset is written and compute returns the public key. *)
WriteCacheFile(p) ==
    LET s == agent[p].session IN
    /\ At(p, "cache")
    /\ cache' = [cache EXCEPT ![p] = [gen |-> s, torn |-> FALSE, indexes |-> NewPeerset(Parties(s))]]
    /\ parted' = parted \ {p}
    /\ End(p)
    /\ UNCHANGED <<sessions, begun, key>>

-----------------------------------------------------------------------------
(* KeySign::compute.                                                        *)

(* Faulty variants of Recover: a share that cannot be read is no error; the *)
(* session's peerset replaces the cached one.                               *)
RecoverRegardless(p) ==
    LET P == Parties(agent[p].session) IN
    /\ At(p, "recover")
    /\ cache[p] # Absent
    /\ agent' = [agent EXCEPT ![p] =
                    [stage |-> "offline", session |-> agent[p].session, i |-> Position(P, p),
                     s_l |-> <<>>, share |-> key[p], cached |-> cache[p]]]
    /\ UNCHANGED <<sessions, begun, key, cache, parted>>

RecoverAndSave(p) ==
    LET s == agent[p].session IN
    /\ At(p, "recover")
    /\ cache[p] # Absent
    /\ cache' = [cache EXCEPT ![p] = [gen |-> s, torn |-> FALSE, indexes |-> NewPeerset(Parties(s))]]
    /\ End(p)
    /\ UNCHANGED <<sessions, begun, key, parted>>

(* recover_from_cache, s_l, and read_local_key; a missing cache, or a       *)
(* missing or torn share, is an error.  The offline stage gets the party's  *)
(* position in the session, s_l and the share.                              *)
Recover(p) ==
    LET P == Parties(agent[p].session)
        indexes == RecoverFromCache(P, Peerset(cache[p]))
    IN  /\ At(p, "recover")
        /\ \/ /\ cache[p] # Absent /\ key[p] \notin {Absent, Torn}
              /\ agent' = [agent EXCEPT ![p] =
                             [stage |-> "offline", session |-> agent[p].session,
                              i |-> Position(P, p),
                              s_l |-> [k \in DOMAIN indexes |-> indexes[k] + 1],
                              share |-> key[p], cached |-> cache[p]]]
           \/ /\ cache[p] = Absent \/ key[p] \in {Absent, Torn}
              /\ End(p)
        /\ UNCHANGED <<sessions, begun, key, cache, parted>>

(* The signature is complete. *)
Sign(p) ==
    /\ At(p, "offline")
    /\ begun[agent[p].session] = Parties(agent[p].session)
    /\ End(p)
    /\ UNCHANGED <<sessions, begun, key, cache, parted>>

-----------------------------------------------------------------------------
(* The agent fails, or its execution is dropped, where it waits: in a round *)
(* of the protocol or for the cache.                                        *)
Abandon(p) ==
    /\ agent[p].stage \in {"compute", "send", "recover", "offline"}
    /\ End(p)
    /\ parted' = IF At(p, "send") THEN parted \cup {p} ELSE parted
    /\ UNCHANGED <<sessions, begun, key, cache>>

(* The process dies and is deployed again; the files stay as they are. *)
Crash(p) ==
    /\ ~At(p, "none")
    /\ End(p)
    /\ parted' = IF agent[p].stage \in {"write", "send", "cache"} THEN parted \cup {p} ELSE parted
    /\ UNCHANGED <<sessions, begun, key, cache>>

(* All sessions are over. *)
Rest ==
    /\ Len(sessions) = MaxSessions
    /\ \A p \in Peers : At(p, "none")
    /\ UNCHANGED vars

Next ==
    \/ \E choice \in Choices : StartSession(choice)
    \/ \E p \in Peers :
          \/ \E s \in Generations : Begin(p, s)
          \/ CreateKeyFile(p) \/ WriteKeyFile(p)
          \/ CreateCacheFile(p) \/ WriteCacheFile(p)
          \/ Recover(p) \/ Sign(p)
          \/ Abandon(p) \/ Crash(p)
    \/ Rest

Spec == Init /\ [][Next]_vars

-----------------------------------------------------------------------------
(* Properties.                                                              *)

(* The share and the peerset on disk belong to the same key generation,     *)
(* unless the node was cut off between writing one and the other            *)
(* (keygen.rs:57-58): aborted sessions, signing sessions and failed         *)
(* generations never part them.                                             *)
ShareMatchesPeerset ==
    \A p \in Peers \ parted : At(p, "none") => key[p].gen = cache[p].gen

(* A signer's s_l is right for the share it signs with: when the share and  *)
(* the cached peerset are of one generation and every session peer took     *)
(* part in it, s_l lists the session's peers by the indexes they generated  *)
(* their shares with, own index at own position (keysign.rs:46-55), however *)
(* the session's subset lies in the generation's.                           *)
SignerIndexes ==
    \A p \in Peers :
        LET a == agent[p]
            P == Parties(a.session)
            G == Parties(a.share.gen)
        IN  At(p, "offline") /\ a.cached.gen = a.share.gen /\ P \subseteq G
            => /\ Len(a.s_l) = Cardinality(P)
               /\ a.s_l[a.i] = a.share.i
               /\ \A q \in P : a.s_l[Position(P, q)] = Position(G, q)

(* Signers of one session that hold shares of one generation, none of them  *)
(* cut off while saving, pass the same s_l to the offline stage.            *)
SignersAgree ==
    \A p, q \in Peers :
        /\ At(p, "offline") /\ At(q, "offline")
        /\ agent[p].session = agent[q].session
        /\ agent[p].share.gen = agent[q].share.gen
        /\ agent[p].share.gen = agent[p].cached.gen
        /\ agent[q].share.gen = agent[q].cached.gen
        => agent[p].s_l = agent[q].s_l

=============================================================================
