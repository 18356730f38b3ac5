------------------------- MODULE KeyLifecycleProofs -------------------------
(***************************************************************************)
(* Proofs about KeyLifecycle, for any finite set of peers, any executions  *)
(* coordination may start and any number of them.                          *)
(*                                                                         *)
(* A file that is neither absent nor torn records a session that was       *)
(* started: a share its party's position in it, a peerset the positions of *)
(* all its parties.  Sessions never change, so whatever a signer reads, at *)
(* any distance from the generation, is still right; and what it makes of  *)
(* it follows from the positions of a set's peers being different.         *)
(***************************************************************************)
EXTENDS KeyLifecycle, FiniteSetTheorems, TLAPS

(* A share is of the party that holds it, in the generation it is of. *)
ShareOf(p, share) ==
    /\ share \in Shares
    /\ share.gen \in 1 .. Len(sessions) /\ p \in Parties(share.gen)
    /\ share.i = Position(Parties(share.gen), p)

(* A peerset file holds the peerset of the generation it is of. *)
PeersetOf(file) ==
    /\ file.gen \in 1 .. Len(sessions)
    /\ file = [gen |-> file.gen, torn |-> FALSE, indexes |-> NewPeerset(Parties(file.gen))]

(* A file is absent, torn, or of one of these forms. *)
Files(p) ==
    /\ key[p] \in {Absent, Torn} \/ ShareOf(p, key[p])
    /\ cache[p] \in {Absent, Torn} \/ PeersetOf(cache[p])

(* What Recover has read, and what it has made of it. *)
Signing(p) ==
    LET a == agent[p]
        indexes == RecoverFromCache(Parties(a.session), Peerset(a.cached))
    IN  /\ ShareOf(p, a.share)
        /\ a.cached = Torn \/ PeersetOf(a.cached)
        /\ a.i = Position(Parties(a.session), p)
        /\ a.s_l = [k \in DOMAIN indexes |-> indexes[k] + 1]

(* An agent is of a session its node is in; once it has written the share   *)
(* that share is the one on disk.                                           *)
Working(p) ==
    /\ ~At(p, "none") => /\ {"stage", "session"} \subseteq DOMAIN agent[p]
                         /\ agent[p].session \in 1 .. Len(sessions)
                         /\ p \in Parties(agent[p].session)
    /\ At(p, "send") \/ At(p, "cache") => key[p].gen = agent[p].session
    /\ At(p, "offline") => Signing(p)

(* The files are of one generation, save between writing one and the other. *)
Saved(p) ==
    \/ p \in parted \/ agent[p].stage \in {"write", "send", "cache"}
    \/ key[p].gen = cache[p].gen

(* The inductive invariant. *)
IndInv ==
    /\ TypeOK
    /\ \A p \in Peers : Files(p) /\ Working(p) /\ Saved(p)

-----------------------------------------------------------------------------
(* Positions in a set of peers. *)

(* A peer's position is a number from 1 to the size of the set. *)
LEMMA PositionType ==
  ASSUME NEW P \in SUBSET Peers, NEW p \in P
  PROVE  /\ IsFiniteSet(P) /\ Cardinality(P) \in Nat
         /\ Cardinality(P) <= Cardinality(Peers) /\ Cardinality(Peers) \in Nat
         /\ Position(P, p) \in 1 .. Cardinality(P)
  <1> DEFINE B == {q \in P : q <= p}
  <1>1. IsFiniteSet(Peers) /\ Peers \subseteq Nat
    BY PeersAssumption
  <1>2. IsFiniteSet(P) /\ Cardinality(P) <= Cardinality(Peers)
    BY <1>1, FS_Subset
  <1>3. IsFiniteSet(B) /\ Cardinality(B) <= Cardinality(P)
    BY <1>2, FS_Subset
  <1>4. p \in B
    BY <1>1
  <1>5. Cardinality(B) # 0
    BY <1>3, <1>4, FS_EmptySet
  <1>6. Cardinality(B) \in Nat /\ Cardinality(P) \in Nat /\ Cardinality(Peers) \in Nat
    BY <1>1, <1>2, <1>3, FS_CardinalityType
  <1>7. Position(P, p) = Cardinality(B)
    BY DEF Position
  <1> HIDE DEF B
  <1> QED
    BY <1>2, <1>3, <1>5, <1>6, <1>7

(* Two peers have different positions. *)
LEMMA PositionInjective ==
  ASSUME NEW P \in SUBSET Peers, NEW p \in P, NEW q \in P, Position(P, p) = Position(P, q)
  PROVE  p = q
  <1> DEFINE B(x) == {y \in P : y <= x}
  <1>1. Peers \subseteq Nat /\ IsFiniteSet(P)
    BY PeersAssumption, FS_Subset
  <1>2. ASSUME NEW x \in P, NEW y \in P, x < y, Cardinality(B(x)) = Cardinality(B(y))
        PROVE  FALSE
    <2>1. x \in Nat /\ y \in Nat
      BY <1>1
    <2>2. B(x) \subseteq B(y)
      <3>1. \A z \in P : z \in Nat
        BY <1>1
      <3>2. \A z \in P : z <= x => z <= y
        BY <1>2, <2>1, <3>1
      <3> QED
        BY <3>2
    <2>3. IsFiniteSet(B(y))
      BY <1>1, FS_Subset
    <2>4. B(x) = B(y)
      BY <1>2, <2>2, <2>3, FS_Subset
    <2>5. y \in B(y) /\ y \notin B(x)
      BY <1>2, <2>1
    <2> QED
      BY <2>4, <2>5
  <1>3. Cardinality(B(p)) = Cardinality(B(q))
    BY DEF Position
  <1>4. p \in Nat /\ q \in Nat
    BY <1>1
  <1>5. ~(p < q) /\ ~(q < p)
    BY <1>2, <1>3
  <1> QED
    BY <1>4, <1>5

(* The peer at a peer's position is that peer. *)
LEMMA NthOfPosition ==
  ASSUME NEW P \in SUBSET Peers, NEW p \in P
  PROVE  Nth(P, Position(P, p)) = p
  <1>1. PICK k : k = Position(P, p)
    OBVIOUS
  <1>2. \E q \in P : Position(P, q) = k
    BY <1>1
  <1>3. Nth(P, k) \in P /\ Position(P, Nth(P, k)) = k
    BY <1>2 DEF Nth
  <1> QED
    BY <1>1, <1>3, PositionInjective

(* A new peerset numbers its peers from 0. *)
LEMMA NewPeersetType ==
  ASSUME NEW P \in SUBSET Peers PROVE NewPeerset(P) \in PartyIndexes
  <1>1. ASSUME NEW p \in P PROVE Position(P, p) - 1 \in Indexes
    <2>1. /\ Cardinality(P) \in Nat /\ Cardinality(Peers) \in Nat
          /\ Cardinality(P) <= Cardinality(Peers) /\ Position(P, p) \in 1 .. Cardinality(P)
      BY PositionType
    <2> QED
      BY <2>1 DEF Indexes
  <1>2. NewPeerset(P) \in [P -> Indexes]
    BY <1>1 DEF NewPeerset
  <1> QED
    BY <1>2 DEF PartyIndexes

(* What recover_from_cache and s_l come to when every session peer took     *)
(* part in the generation of the cached peerset.                            *)
LEMMA RecoveredIndexes ==
  ASSUME NEW P, NEW G \in SUBSET Peers, P \subseteq G,
         NEW x, x = RecoverFromCache(P, NewPeerset(G)),
         NEW s, s = [k \in DOMAIN x |-> x[k] + 1]
  PROVE  /\ Len(s) = Cardinality(P)
         /\ \A q \in P : s[Position(P, q)] = Position(G, q)
  <1>1. P \in SUBSET Peers /\ IsFiniteSet(P) /\ Cardinality(P) \in Nat
    BY PeersAssumption, FS_Subset, FS_CardinalityType
  <1>2. P \cap DOMAIN NewPeerset(G) = P
    BY DEF NewPeerset
  <1>3. x = [k \in 1 .. Cardinality(P) |-> NewPeerset(G)[Nth(P, k)]]
    BY <1>2 DEF RecoverFromCache
  <1>4. s = [k \in 1 .. Cardinality(P) |-> NewPeerset(G)[Nth(P, k)] + 1]
    BY <1>3
  <1>5. Len(s) = Cardinality(P)
    <2>1. PICK n \in Nat : n = Cardinality(P)
      BY <1>1
    <2>2. DOMAIN s = 1 .. n
      BY <1>4, <2>1
    <2>3. s \in [1 .. n -> {s[k] : k \in 1 .. n}]
      BY <1>4, <2>1
    <2>4. s \in Seq({s[k] : k \in 1 .. n})
      BY <2>1, <2>3
    <2>5. Len(s) \in Nat /\ DOMAIN s = 1 .. Len(s)
      BY <2>4
    <2> QED
      BY <2>1, <2>2, <2>5
  <1>6. ASSUME NEW q \in P PROVE s[Position(P, q)] = Position(G, q)
    <2>1. PICK k : k = Position(P, q)
      OBVIOUS
    <2>2. k \in 1 .. Cardinality(P) /\ Nth(P, k) = q
      BY <1>1, <2>1, PositionType, NthOfPosition
    <2>3. q \in G /\ Position(G, q) \in Nat
      <3>1. q \in G
        OBVIOUS
      <3>2. Cardinality(G) \in Nat /\ Position(G, q) \in 1 .. Cardinality(G)
        BY <3>1, PositionType
      <3> QED
        BY <3>1, <3>2
    <2>4. s[k] = (Position(G, q) - 1) + 1
      BY <1>4, <2>2, <2>3 DEF NewPeerset
    <2> QED
      BY <2>1, <2>3, <2>4
  <1> QED
    BY <1>5, <1>6

-----------------------------------------------------------------------------
(* What the types say of a node and of a session. *)

(* The types of a node's agent. *)
AgentType(p) ==
    \/ agent[p] = NoAgent
    \/ /\ agent[p].stage \in {"compute", "write", "send", "cache", "recover", "offline"}
       /\ agent[p].session \in 1 .. Len(sessions)
       /\ At(p, "offline") => agent[p].share \in Shares /\ agent[p].cached # Absent

(* Sessions are numbered from 1, and their parties are peers. *)
LEMMA SessionFacts ==
  ASSUME TypeOK, NEW s \in 1 .. Len(sessions)
  PROVE  s \in Generations /\ Parties(s) \in SUBSET Peers
  <1>1. sessions \in Seq(Choices) /\ Len(sessions) <= MaxSessions /\ Len(sessions) \in Nat
    BY DEF TypeOK
  <1>2. sessions[s] \in Choices
    BY <1>1
  <1> QED
    BY <1>1, <1>2, ChoicesAssumption, MaxSessionsAssumption DEF Parties, Generations

(* A node whose agent and files are as they were is as it was. *)
LEMMA Kept ==
  ASSUME NEW p \in Peers, Files(p), Working(p), Saved(p), AgentType(p), UNCHANGED sessions,
         agent'[p] = agent[p], key'[p] = key[p], cache'[p] = cache[p],
         p \in parted => p \in parted'
  PROVE  Files(p)' /\ Working(p)' /\ Saved(p)' /\ AgentType(p)'
  <1>3. Files(p)'
    BY DEF Files, ShareOf, PeersetOf, Parties
  <1>4. Working(p)'
    BY DEF Working, Signing, ShareOf, PeersetOf, Parties, At
  <1>5. Saved(p)'
    BY DEF Saved
  <1>6. AgentType(p)'
    BY DEF AgentType, At
  <1> QED
    BY <1>3, <1>4, <1>5, <1>6

(* A step of one node leaves the others as they were. *)
LEMMA OneNode ==
  ASSUME IndInv, NEW p \in Peers, UNCHANGED sessions,
         \A q \in Peers \ {p} : /\ agent'[q] = agent[q] /\ key'[q] = key[q] /\ cache'[q] = cache[q]
                                /\ q \in parted => q \in parted',
         begun' \in [Generations -> SUBSET Peers], DOMAIN agent' = Peers,
         key' \in [Peers -> Shares \cup {Absent, Torn}],
         cache' \in [Peers -> Peersets \cup {Absent, Torn}],
         parted' \subseteq Peers,
         Files(p)', Working(p)', Saved(p)', AgentType(p)'
  PROVE  IndInv'
  <1>1. ASSUME NEW q \in Peers PROVE Files(q)' /\ Working(q)' /\ Saved(q)' /\ AgentType(q)'
    <2>1. CASE q = p
      BY <2>1
    <2>2. CASE q # p
      <3>1. Files(q) /\ Working(q) /\ Saved(q) /\ AgentType(q)
        BY DEF IndInv, TypeOK, AgentType
      <3>2. agent'[q] = agent[q] /\ key'[q] = key[q] /\ cache'[q] = cache[q]
            /\ (q \in parted => q \in parted')
        BY <2>2
      <3> QED
        BY <3>1, <3>2, Kept
    <2> QED
      BY <2>1, <2>2
  <1>2. TypeOK'
    BY <1>1 DEF IndInv, TypeOK, AgentType
  <1> QED
    BY <1>1, <1>2 DEF IndInv

-----------------------------------------------------------------------------
(* One lemma per action. *)

(* An execution is started: what is known of earlier ones stays true. *)
LEMMA StartSessionInd ==
  ASSUME IndInv, NEW choice \in Choices, StartSession(choice) PROVE IndInv'
  <1>1. /\ sessions' = Append(sessions, choice) /\ Len(sessions) < MaxSessions
        /\ UNCHANGED <<begun, agent, key, cache, parted>>
    BY DEF StartSession
  <1>2. /\ TypeOK /\ sessions \in Seq(Choices) /\ Len(sessions) \in Nat
        /\ sessions' \in Seq(Choices) /\ Len(sessions') = Len(sessions) + 1
        /\ \A s \in 1 .. Len(sessions) : sessions'[s] = sessions[s] /\ s \in 1 .. Len(sessions')
    BY <1>1 DEF IndInv, TypeOK
  <1>3. ASSUME NEW p \in Peers, NEW x, ShareOf(p, x) PROVE ShareOf(p, x)'
    BY <1>2, <1>3 DEF ShareOf, Parties
  <1>4. ASSUME NEW x, PeersetOf(x) PROVE PeersetOf(x)'
    BY <1>2, <1>4 DEF PeersetOf, Parties
  <1>5. TypeOK'
    <2>1. Len(sessions') <= MaxSessions
      BY <1>1, <1>2, MaxSessionsAssumption
    <2> QED
      BY <1>1, <1>2, <2>1 DEF TypeOK, At
  <1>6. ASSUME NEW p \in Peers PROVE Files(p)' /\ Working(p)' /\ Saved(p)'
    <2>1. Files(p) /\ Working(p) /\ Saved(p)
      BY DEF IndInv
    <2>2. PICK x, y, a : x = key[p] /\ y = cache[p] /\ a = agent[p]
      OBVIOUS
    <2>3. key'[p] = x /\ cache'[p] = y /\ agent'[p] = a
      BY <1>1, <2>2
    <2>4. Files(p)'
      <3>1. x \in {Absent, Torn} \/ ShareOf(p, x)'
        BY <1>3, <2>1, <2>2 DEF Files
      <3>2. y \in {Absent, Torn} \/ PeersetOf(y)'
        BY <1>4, <2>1, <2>2 DEF Files
      <3> QED
        BY <3>1, <3>2, <2>3 DEF Files
    <2>5. Saved(p)'
      BY <1>1, <2>1 DEF Saved
    <2>6. Working(p)'
      <3>1. ~At(p, "none") => /\ a.session \in 1 .. Len(sessions) /\ a.session \in 1 .. Len(sessions')
                              /\ p \in Parties(a.session) /\ {"stage", "session"} \subseteq DOMAIN a
                              /\ Parties(a.session)' = Parties(a.session)
        BY <1>2, <2>1, <2>2 DEF Working, Parties
      <3>2. At(p, "offline") => /\ ShareOf(p, a.share)'
                                /\ a.cached = Torn \/ PeersetOf(a.cached)'
        <4>1. PICK sh, ca : sh = a.share /\ ca = a.cached
          OBVIOUS
        <4>2. At(p, "offline") => ShareOf(p, sh) /\ (ca = Torn \/ PeersetOf(ca))
          BY <2>1, <2>2, <4>1 DEF Working, Signing
        <4>3. At(p, "offline") => ShareOf(p, sh)' /\ (ca = Torn \/ PeersetOf(ca)')
          BY <1>3, <1>4, <4>2
        <4> QED
          BY <4>1, <4>3
      <3> QED
        BY <1>1, <2>1, <2>2, <2>3, <3>1, <3>2 DEF Working, Signing, At
    <2> QED
      BY <2>4, <2>5, <2>6
  <1> QED
    BY <1>5, <1>6 DEF IndInv

(* An agent goes on to its next step. *)
LEMMA GotoFacts ==
  ASSUME TypeOK, NEW p \in Peers, Working(p), ~At(p, "none"), NEW stage, Goto(p, stage)
  PROVE  /\ DOMAIN agent' = Peers /\ \A q \in Peers \ {p} : agent'[q] = agent[q]
         /\ agent'[p].stage = stage /\ agent'[p].session = agent[p].session
         /\ {"stage", "session"} \subseteq DOMAIN agent'[p]
         /\ agent[p].session \in 1 .. Len(sessions) /\ p \in Parties(agent[p].session)
  <1>1. PICK a : a = agent[p]
    OBVIOUS
  <1>2. {"stage", "session"} \subseteq DOMAIN a /\ DOMAIN agent = Peers
    BY <1>1 DEF Working, TypeOK
  <1>3. agent' = [agent EXCEPT ![p] = [a EXCEPT !.stage = stage]]
    BY <1>1 DEF Goto
  <1>4. DOMAIN agent' = Peers /\ \A q \in Peers \ {p} : agent'[q] = agent[q]
    BY <1>2, <1>3
  <1>5. agent'[p] = [a EXCEPT !.stage = stage]
    BY <1>2, <1>3
  <1>6. /\ [a EXCEPT !.stage = stage].stage = stage
        /\ [a EXCEPT !.stage = stage].session = a.session
        /\ DOMAIN [a EXCEPT !.stage = stage] = DOMAIN a
    BY <1>2
  <1>7. a.session \in 1 .. Len(sessions) /\ p \in Parties(a.session)
    BY <1>1 DEF Working
  <1> QED
    BY <1>1, <1>2, <1>4, <1>5, <1>6, <1>7

(* An agent is gone. *)
LEMMA EndFacts ==
  ASSUME TypeOK, NEW p \in Peers, End(p)
  PROVE  /\ DOMAIN agent' = Peers /\ \A q \in Peers \ {p} : agent'[q] = agent[q]
         /\ agent'[p] = NoAgent /\ agent'[p].stage = "none"
         /\ At(p, "none")' /\ Working(p)' /\ AgentType(p)'
  <1>1. DOMAIN agent' = Peers /\ agent'[p] = NoAgent /\ \A q \in Peers \ {p} : agent'[q] = agent[q]
    BY DEF TypeOK, End
  <1>2. NoAgent.stage = "none"
    BY DEF NoAgent
  <1>3. agent'[p].stage = "none"
    BY <1>1, <1>2
  <1> QED
    BY <1>1, <1>3 DEF At, Working, AgentType

(* A node's agent begins; the files stay as they are. *)
LEMMA BeginInd ==
  ASSUME IndInv, NEW p \in Peers, NEW s \in Generations, Begin(p, s) PROVE IndInv'
  <1>1. PICK next : next = IF sessions[s].protocol = "keygen" THEN "compute" ELSE "recover"
    OBVIOUS
  <1>2. /\ TypeOK /\ Working(p) /\ Saved(p) /\ Files(p)
        /\ s \in 1 .. Len(sessions) /\ p \in Parties(s) /\ At(p, "none")
        /\ begun' = [begun EXCEPT ![s] = @ \cup {p}]
        /\ agent' = [agent EXCEPT ![p] = [stage |-> next, session |-> s]]
        /\ UNCHANGED <<sessions, key, cache, parted>>
    BY <1>1, MaxSessionsAssumption DEF IndInv, TypeOK, Begin, Generations
  <1>3. /\ DOMAIN agent' = Peers /\ \A q \in Peers \ {p} : agent'[q] = agent[q]
        /\ agent'[p] = [stage |-> next, session |-> s]
    BY <1>2 DEF TypeOK
  <1>4. /\ agent'[p].stage = next /\ agent'[p].session = s
        /\ {"stage", "session"} \subseteq DOMAIN agent'[p]
        /\ next \in {"compute", "recover"}
    BY <1>1, <1>3
  <1>5. begun' \in [Generations -> SUBSET Peers]
    <2> DEFINE H == SUBSET Peers
    <2>1. begun \in [Generations -> H] /\ begun[s] \cup {p} \in H
      BY <1>2 DEF TypeOK
    <2> HIDE DEF H
    <2>2. begun' \in [Generations -> H]
      BY <1>2, <2>1
    <2> QED
      BY <2>2 DEF H
  <1>6. Files(p)'
    BY <1>2 DEF Files, ShareOf, PeersetOf, Parties
  <1>7. Working(p)' /\ AgentType(p)'
    BY <1>2, <1>4 DEF Working, AgentType, At, Parties
  <1>8. Saved(p)'
    BY <1>2, <1>4 DEF Saved, At
  <1> QED
    BY <1>2, <1>3, <1>5, <1>6, <1>7, <1>8, OneNode DEF TypeOK

(* The old share is gone before the new one is there. *)
LEMMA CreateKeyFileInd ==
  ASSUME IndInv, NEW p \in Peers, CreateKeyFile(p) PROVE IndInv'
  <1>1. /\ TypeOK /\ Working(p) /\ Files(p) /\ ~At(p, "none") /\ Goto(p, "write")
        /\ key' = [key EXCEPT ![p] = Torn]
        /\ UNCHANGED <<sessions, begun, cache, parted>>
    BY DEF IndInv, CreateKeyFile, At
  <1>2. /\ DOMAIN agent' = Peers /\ \A q \in Peers \ {p} : agent'[q] = agent[q]
        /\ agent'[p].stage = "write" /\ agent'[p].session = agent[p].session
        /\ {"stage", "session"} \subseteq DOMAIN agent'[p]
        /\ agent[p].session \in 1 .. Len(sessions) /\ p \in Parties(agent[p].session)
    BY <1>1, GotoFacts
  <1>3. /\ key' \in [Peers -> Shares \cup {Absent, Torn}]
        /\ key'[p] = Torn /\ \A q \in Peers \ {p} : key'[q] = key[q]
    BY <1>1 DEF TypeOK
  <1>4. Files(p)' /\ Saved(p)'
    BY <1>1, <1>2, <1>3 DEF Files, PeersetOf, Parties, Saved
  <1>5. Working(p)' /\ AgentType(p)'
    BY <1>1, <1>2 DEF Working, AgentType, At, Parties
  <1> QED
    BY <1>1, <1>2, <1>3, <1>4, <1>5, OneNode DEF TypeOK

(* A share is of its session, and has its party's position. *)
LEMMA WriteKeyFileInd ==
  ASSUME IndInv, NEW p \in Peers, WriteKeyFile(p) PROVE IndInv'
  <1>1. PICK s : s = agent[p].session
    OBVIOUS
  <1>2. PICK share : share = [gen |-> s, torn |-> FALSE, i |-> Position(Parties(s), p)]
    OBVIOUS
  <1>3. /\ TypeOK /\ Working(p) /\ Files(p) /\ ~At(p, "none") /\ Goto(p, "send")
        /\ key' = [key EXCEPT ![p] = share]
        /\ UNCHANGED <<sessions, begun, cache, parted>>
    BY <1>1, <1>2 DEF IndInv, WriteKeyFile, At
  <1>4. /\ DOMAIN agent' = Peers /\ \A q \in Peers \ {p} : agent'[q] = agent[q]
        /\ agent'[p].stage = "send" /\ agent'[p].session = s
        /\ {"stage", "session"} \subseteq DOMAIN agent'[p]
        /\ s \in 1 .. Len(sessions) /\ p \in Parties(s)
    BY <1>1, <1>3, GotoFacts
  <1>5. s \in Generations /\ Parties(s) \in SUBSET Peers
    BY <1>3, <1>4, SessionFacts
  <1>6. Position(Parties(s), p) \in Indexes
    <2>1. /\ Cardinality(Parties(s)) <= Cardinality(Peers) /\ Cardinality(Parties(s)) \in Nat
          /\ Cardinality(Peers) \in Nat /\ Position(Parties(s), p) \in 1 .. Cardinality(Parties(s))
      BY <1>4, <1>5, PositionType
    <2> QED
      BY <2>1 DEF Indexes
  <1>7. share \in Shares /\ share.gen = s /\ share.i = Position(Parties(s), p)
    BY <1>2, <1>5, <1>6 DEF Shares
  <1>8. /\ key' \in [Peers -> Shares \cup {Absent, Torn}]
        /\ key'[p] = share /\ \A q \in Peers \ {p} : key'[q] = key[q]
    BY <1>3, <1>7 DEF TypeOK
  <1>9. ShareOf(p, share)'
    BY <1>3, <1>4, <1>7 DEF ShareOf, Parties
  <1>10. Files(p)' /\ Saved(p)'
    BY <1>3, <1>4, <1>8, <1>9 DEF Files, PeersetOf, Parties, Saved
  <1>11. Working(p)' /\ AgentType(p)'
    BY <1>3, <1>4, <1>7, <1>8 DEF Working, AgentType, At, Parties
  <1> QED
    BY <1>3, <1>4, <1>8, <1>10, <1>11, OneNode DEF TypeOK

(* The old peerset is gone before the new one is there. *)
LEMMA CreateCacheFileInd ==
  ASSUME IndInv, NEW p \in Peers, CreateCacheFile(p) PROVE IndInv'
  <1>1. /\ TypeOK /\ Working(p) /\ Files(p) /\ At(p, "send") /\ ~At(p, "none") /\ Goto(p, "cache")
        /\ cache' = [cache EXCEPT ![p] = Torn]
        /\ UNCHANGED <<sessions, begun, key, parted>>
    BY DEF IndInv, CreateCacheFile, At
  <1>2. /\ DOMAIN agent' = Peers /\ \A q \in Peers \ {p} : agent'[q] = agent[q]
        /\ agent'[p].stage = "cache" /\ agent'[p].session = agent[p].session
        /\ {"stage", "session"} \subseteq DOMAIN agent'[p]
        /\ agent[p].session \in 1 .. Len(sessions) /\ p \in Parties(agent[p].session)
    BY <1>1, GotoFacts
  <1>3. /\ cache' \in [Peers -> Peersets \cup {Absent, Torn}]
        /\ cache'[p] = Torn /\ \A q \in Peers \ {p} : cache'[q] = cache[q]
    BY <1>1 DEF TypeOK
  <1>4. Files(p)' /\ Saved(p)'
    BY <1>1, <1>2, <1>3 DEF Files, ShareOf, Parties, Saved
  <1>5. Working(p)' /\ AgentType(p)'
    BY <1>1, <1>2 DEF Working, AgentType, At, Parties
  <1> QED
    BY <1>1, <1>2, <1>3, <1>4, <1>5, OneNode DEF TypeOK

(* Share and peerset are of one generation again. *)
LEMMA WriteCacheFileInd ==
  ASSUME IndInv, NEW p \in Peers, WriteCacheFile(p) PROVE IndInv'
  <1>1. PICK s : s = agent[p].session
    OBVIOUS
  <1>2. PICK file : file = [gen |-> s, torn |-> FALSE, indexes |-> NewPeerset(Parties(s))]
    OBVIOUS
  <1>3. /\ TypeOK /\ Working(p) /\ Files(p) /\ At(p, "cache") /\ ~At(p, "none") /\ End(p)
        /\ cache' = [cache EXCEPT ![p] = file] /\ parted' = parted \ {p}
        /\ UNCHANGED <<sessions, begun, key>>
    BY <1>1, <1>2 DEF IndInv, WriteCacheFile, At
  <1>4. key[p].gen = s /\ s \in 1 .. Len(sessions)
    BY <1>1, <1>3 DEF Working
  <1>5. s \in Generations /\ Parties(s) \in SUBSET Peers
    BY <1>3, <1>4, SessionFacts
  <1>6. file \in Peersets /\ file.gen = s
    BY <1>2, <1>5, NewPeersetType DEF Peersets
  <1>7. /\ cache' \in [Peers -> Peersets \cup {Absent, Torn}]
        /\ cache'[p] = file /\ \A q \in Peers \ {p} : cache'[q] = cache[q]
    BY <1>3, <1>6 DEF TypeOK
  <1>8. PeersetOf(file)'
    BY <1>2, <1>3, <1>4, <1>6 DEF PeersetOf, Parties
  <1>9. /\ DOMAIN agent' = Peers /\ \A q \in Peers \ {p} : agent'[q] = agent[q]
        /\ Working(p)' /\ AgentType(p)'
    BY <1>3, EndFacts
  <1>10. Files(p)'
    BY <1>3, <1>7, <1>8 DEF Files, ShareOf, Parties
  <1>11. Saved(p)'
    BY <1>3, <1>4, <1>6, <1>7 DEF Saved
  <1> QED
    BY <1>3, <1>7, <1>9, <1>10, <1>11, OneNode DEF TypeOK

(* A signer has what it read, and what it made of it. *)
LEMMA RecoverInd ==
  ASSUME IndInv, NEW p \in Peers, Recover(p) PROVE IndInv'
  <1>1. PICK s, indexes : /\ s = agent[p].session
                          /\ indexes = RecoverFromCache(Parties(s), Peerset(cache[p]))
    OBVIOUS
  <1>2. PICK a : a = [stage |-> "offline", session |-> s, i |-> Position(Parties(s), p),
                      s_l |-> [k \in DOMAIN indexes |-> indexes[k] + 1],
                      share |-> key[p], cached |-> cache[p]]
    OBVIOUS
  <1>3. /\ TypeOK /\ Working(p) /\ Files(p) /\ Saved(p) /\ At(p, "recover") /\ ~At(p, "none")
        /\ s \in 1 .. Len(sessions) /\ p \in Parties(s)
        /\ UNCHANGED <<sessions, begun, key, cache, parted>>
    BY <1>1 DEF IndInv, Recover, At, Working
  <1>4. Files(p)'
    BY <1>3 DEF Files, ShareOf, PeersetOf, Parties
  <1>5. key[p].gen = cache[p].gen \/ p \in parted
    BY <1>3 DEF Saved, At
  <1>6. CASE /\ cache[p] # Absent /\ key[p] \notin {Absent, Torn}
             /\ agent' = [agent EXCEPT ![p] = a]
    <2>1. /\ DOMAIN agent' = Peers /\ \A q \in Peers \ {p} : agent'[q] = agent[q]
          /\ agent'[p] = a
      BY <1>3, <1>6 DEF TypeOK
    <2>2. /\ a.stage = "offline" /\ a.session = s /\ a.i = Position(Parties(s), p)
          /\ a.s_l = [k \in DOMAIN indexes |-> indexes[k] + 1]
          /\ a.share = key[p] /\ a.cached = cache[p]
          /\ {"stage", "session"} \subseteq DOMAIN a
      BY <1>2
    <2>3. ShareOf(p, key[p]) /\ (cache[p] = Torn \/ PeersetOf(cache[p])) /\ key[p] \in Shares
      BY <1>3, <1>6 DEF Files, ShareOf
    <2>4. PICK sh, ca : sh = key[p] /\ ca = cache[p]
      OBVIOUS
    <2>5. ShareOf(p, sh)' /\ (ca = Torn \/ PeersetOf(ca)') /\ Parties(s)' = Parties(s)
      BY <1>3, <2>3, <2>4 DEF ShareOf, PeersetOf, Parties
    <2>6. Signing(p)'
      BY <1>1, <2>1, <2>2, <2>4, <2>5 DEF Signing
    <2>7. Working(p)' /\ AgentType(p)'
      BY <1>3, <1>6, <2>1, <2>2, <2>3, <2>6 DEF Working, AgentType, At, Parties
    <2>8. Saved(p)'
      BY <1>3, <1>5 DEF Saved
    <2> QED
      BY <1>3, <1>4, <2>1, <2>7, <2>8, OneNode DEF TypeOK
  <1>7. CASE End(p)
    <2>1. /\ DOMAIN agent' = Peers /\ \A q \in Peers \ {p} : agent'[q] = agent[q]
          /\ Working(p)' /\ AgentType(p)'
      BY <1>3, <1>7, EndFacts
    <2>2. Saved(p)'
      BY <1>3, <1>5 DEF Saved
    <2> QED
      BY <1>3, <1>4, <2>1, <2>2, OneNode DEF TypeOK
  <1> QED
    BY <1>1, <1>2, <1>6, <1>7 DEF Recover

(* An agent that ends without writing a file: it has its signature, fails,  *)
(* is dropped or dies with its process.                                     *)
LEMMA QuitInd ==
  ASSUME IndInv, NEW p \in Peers, ~At(p, "none"), End(p),
         UNCHANGED <<sessions, begun, key, cache>>,
         parted' = parted \/ parted' = parted \cup {p},
         agent[p].stage \in {"write", "send", "cache"} => p \in parted'
  PROVE  IndInv'
  <1>1. TypeOK /\ Files(p) /\ Saved(p)
    BY DEF IndInv
  <1>2. /\ DOMAIN agent' = Peers /\ \A q \in Peers \ {p} : agent'[q] = agent[q]
        /\ Working(p)' /\ AgentType(p)'
    BY <1>1, EndFacts
  <1>3. Files(p)'
    BY <1>1 DEF Files, ShareOf, PeersetOf, Parties
  <1>4. Saved(p)'
    BY <1>1 DEF Saved
  <1>5. parted' \subseteq Peers /\ \A q \in Peers : q \in parted => q \in parted'
    BY <1>1 DEF TypeOK
  <1> QED
    BY <1>1, <1>2, <1>3, <1>4, <1>5, OneNode DEF TypeOK

-----------------------------------------------------------------------------
(* The invariant, for any peers and any executions. *)

(* A room that has never been used. *)
LEMMA InitInd == Init => IndInv
  <1> SUFFICES ASSUME Init PROVE IndInv
    OBVIOUS
  <1>1. <<>> \in Seq(Choices) /\ Len(<<>>) = 0 /\ 0 <= MaxSessions
    BY MaxSessionsAssumption
  <1>2. TypeOK
    BY <1>1 DEF Init, TypeOK
  <1>3. ASSUME NEW p \in Peers PROVE Files(p) /\ Working(p) /\ Saved(p)
    <2>1. key[p] = Absent /\ cache[p] = Absent /\ agent[p].stage = "none"
      BY DEF Init, NoAgent
    <2> QED
      BY <2>1 DEF Files, Working, Saved, At
  <1> QED
    BY <1>2, <1>3 DEF IndInv

(* Every step of coordination and of the nodes. *)
LEMMA NextInd == IndInv /\ [Next]_vars => IndInv'
  <1> SUFFICES ASSUME IndInv, [Next]_vars PROVE IndInv'
    OBVIOUS
  <1>1. CASE UNCHANGED vars
    <2>1. UNCHANGED <<sessions, begun, agent, key, cache, parted>>
      BY <1>1 DEF vars
    <2>2. TypeOK'
      BY <2>1 DEF IndInv, TypeOK, At
    <2>3. ASSUME NEW p \in Peers PROVE Files(p)' /\ Working(p)' /\ Saved(p)'
      BY <2>1, Kept DEF IndInv, TypeOK, AgentType
    <2> QED
      BY <2>2, <2>3 DEF IndInv
  <1>2. ASSUME NEW choice \in Choices, StartSession(choice) PROVE IndInv'
    BY <1>2, StartSessionInd
  <1>3. ASSUME NEW p \in Peers, NEW s \in Generations, Begin(p, s) PROVE IndInv'
    BY <1>3, BeginInd
  <1>4. ASSUME NEW p \in Peers,
               CreateKeyFile(p) \/ WriteKeyFile(p) \/ CreateCacheFile(p) \/ WriteCacheFile(p)
        PROVE  IndInv'
    BY <1>4, CreateKeyFileInd, WriteKeyFileInd, CreateCacheFileInd, WriteCacheFileInd
  <1>5. ASSUME NEW p \in Peers, Recover(p) PROVE IndInv'
    BY <1>5, RecoverInd
  <1>6. ASSUME NEW p \in Peers, Sign(p) PROVE IndInv'
    BY <1>6, QuitInd DEF Sign, At
  <1>7. ASSUME NEW p \in Peers, Abandon(p) PROVE IndInv'
    BY <1>7, QuitInd DEF Abandon, At
  <1>8. ASSUME NEW p \in Peers, Crash(p) PROVE IndInv'
    BY <1>8, QuitInd DEF Crash
  <1> QED
    BY <1>1, <1>2, <1>3, <1>4, <1>5, <1>6, <1>7, <1>8 DEF Next, Rest

(* What the theorems follow from. *)
LEMMA IndInvHolds == Spec => []IndInv
  BY InitInd, NextInd, PTL DEF Spec

-----------------------------------------------------------------------------
(* Files, agents and sessions keep their types. *)
THEOREM TypeCorrect == Spec => []TypeOK
  <1>1. IndInv => TypeOK
    BY DEF IndInv
  <1> QED
    BY <1>1, IndInvHolds, PTL

(* Only a node that was cut off between writing its share and its peerset   *)
(* has files of two key generations.                                        *)
THEOREM SharesMatchPeersets == Spec => []ShareMatchesPeerset
  <1>1. IndInv => ShareMatchesPeerset
    BY DEF IndInv, ShareMatchesPeerset, Saved, At
  <1> QED
    BY <1>1, IndInvHolds, PTL

(* s_l lists the session's peers by the indexes of their shares, for every  *)
(* subset of the parties of a generation.                                   *)
THEOREM SignersHaveTheirIndexes == Spec => []SignerIndexes
  <1>1. IndInv => SignerIndexes
    <2> SUFFICES ASSUME IndInv, NEW p \in Peers, NEW a, a = agent[p], At(p, "offline"),
                        a.cached.gen = a.share.gen, Parties(a.session) \subseteq Parties(a.share.gen)
                 PROVE  /\ Len(a.s_l) = Cardinality(Parties(a.session))
                        /\ a.s_l[a.i] = a.share.i
                        /\ \A q \in Parties(a.session) :
                              a.s_l[Position(Parties(a.session), q)] = Position(Parties(a.share.gen), q)
      BY DEF SignerIndexes
    <2>1. PICK P, G : P = Parties(a.session) /\ G = Parties(a.share.gen)
      OBVIOUS
    <2>2. /\ ShareOf(p, a.share) /\ (a.cached = Torn \/ PeersetOf(a.cached))
          /\ a.i = Position(P, p) /\ p \in P
      BY <2>1 DEF IndInv, Working, Signing, At
    <2>3. a.share.gen \in 1 .. Len(sessions) /\ a.share.i = Position(G, p)
      BY <2>1, <2>2 DEF ShareOf
    <2>4. Torn.gen = 0 /\ a.share.gen # 0
      BY <2>3 DEF Torn
    <2>5. PeersetOf(a.cached) /\ a.cached.torn = FALSE /\ a.cached.indexes = NewPeerset(G)
      BY <2>1, <2>2, <2>4 DEF PeersetOf
    <2>6. PICK x : x = RecoverFromCache(P, NewPeerset(G))
      OBVIOUS
    <2>7. a.s_l = [k \in DOMAIN x |-> x[k] + 1]
      BY <2>1, <2>5, <2>6 DEF IndInv, Working, Signing, Peerset
    <2>8. G \in SUBSET Peers
      BY <2>1, <2>3, SessionFacts DEF IndInv
    <2>9. /\ Len(a.s_l) = Cardinality(P)
          /\ \A q \in P : a.s_l[Position(P, q)] = Position(G, q)
      BY <2>1, <2>6, <2>7, <2>8, RecoveredIndexes
    <2> QED
      BY <2>1, <2>2, <2>3, <2>9
  <1> QED
    BY <1>1, IndInvHolds, PTL

(* Signers of a session with shares of one generation have the same s_l. *)
THEOREM AllSignersAgree == Spec => []SignersAgree
  <1>1. IndInv => SignersAgree
    <2>1. ASSUME IndInv, NEW p \in Peers, NEW a, a = agent[p], At(p, "offline"),
                 a.share.gen = a.cached.gen
          PROVE  LET x == RecoverFromCache(Parties(a.session), NewPeerset(Parties(a.share.gen)))
                 IN  a.s_l = [k \in DOMAIN x |-> x[k] + 1]
      <3>1. ShareOf(p, a.share) /\ (a.cached = Torn \/ PeersetOf(a.cached))
        BY <2>1 DEF IndInv, Working, Signing
      <3>2. Torn.gen = 0 /\ a.share.gen # 0
        BY <3>1 DEF Torn, ShareOf
      <3>3. a.cached.torn = FALSE /\ a.cached.indexes = NewPeerset(Parties(a.share.gen))
        BY <2>1, <3>1, <3>2 DEF PeersetOf
      <3> QED
        BY <2>1, <3>3 DEF IndInv, Working, Signing, Peerset
    <2> SUFFICES ASSUME IndInv, NEW p \in Peers, NEW q \in Peers,
                        At(p, "offline"), At(q, "offline"),
                        agent[p].session = agent[q].session,
                        agent[p].share.gen = agent[q].share.gen,
                        agent[p].share.gen = agent[p].cached.gen,
                        agent[q].share.gen = agent[q].cached.gen
                 PROVE  agent[p].s_l = agent[q].s_l
      BY DEF SignersAgree
    <2>2. PICK a, b : a = agent[p] /\ b = agent[q]
      OBVIOUS
    <2>3. PICK x : x = RecoverFromCache(Parties(a.session), NewPeerset(Parties(a.share.gen)))
      OBVIOUS
    <2>4. a.s_l = [k \in DOMAIN x |-> x[k] + 1]
      BY <2>1, <2>2, <2>3
    <2>5. x = RecoverFromCache(Parties(b.session), NewPeerset(Parties(b.share.gen)))
      BY <2>2, <2>3
    <2>6. b.s_l = [k \in DOMAIN x |-> x[k] + 1]
      BY <2>1, <2>2, <2>5
    <2> QED
      BY <2>2, <2>4, <2>6
  <1> QED
    BY <1>1, IndInvHolds, PTL
=============================================================================
